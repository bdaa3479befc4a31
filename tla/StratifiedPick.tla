---------------------------- MODULE StratifiedPick ----------------------------
(***************************************************************************)
(* stratified_pick of scripts/select_synthetic_iter.py: choose a subset of *)
(* the records of one raster in which every level of every axis appears.   *)
(* The first pass goes over the axes and, on each, over the levels the     *)
(* records have; the second fills up to the target.  The seeded generator  *)
(* is a nondeterministic choice.                                           *)
(***************************************************************************)
EXTENDS Naturals, FiniteSets

CONSTANTS Records,   \* the records of the raster
          Axes,      \* progression, decomp, ..., container
          Levels,    \* the values an axis may take
          Target     \* target_n

VARIABLES level,     \* the records: their level on each axis
          toVisit,   \* the (axis, level) pairs the first pass has still to visit
          chosen,    \* chosen
          pc         \* "cover", "fill" or "done"

vars == <<level, toVisit, chosen, pc>>
-----------------------------------------------------------------------------
\* levels_seen of every axis.
SeenPairs == {<<a, level[r][a]>> : r \in Records, a \in Axes}

Having(p) == {r \in Records : level[r][p[1]] = p[2]}

\* Types: the picks are records of the raster, the visits axes and levels.
TypeOK ==
    /\ level \in [Records -> [Axes -> Levels]]
    /\ toVisit \subseteq Axes \X Levels
    /\ chosen \subseteq Records
    /\ pc \in {"cover", "fill", "done"}

Init ==
    /\ level \in [Records -> [Axes -> Levels]]
    /\ toVisit = SeenPairs
    /\ chosen = {}
    /\ pc = "cover"

\* The next level, in any order: one of its records not yet chosen.
PickLevel(p) ==
    /\ pc = "cover" /\ p \in toVisit
    /\ \E r \in Having(p) \ chosen : chosen' = chosen \cup {r}
    /\ toVisit' = toVisit \ {p}
    /\ UNCHANGED <<level, pc>>

\* Mutant: a level is passed over as soon as the target is reached.
PassLevelEarly(p) ==
    /\ pc = "cover" /\ p \in toVisit
    /\ Having(p) \subseteq chosen \/ Cardinality(chosen) >= Target
    /\ toVisit' = toVisit \ {p}
    /\ UNCHANGED <<level, chosen, pc>>

\* All of its records are chosen: continue.
PassLevel(p) ==
    /\ pc = "cover" /\ p \in toVisit
    /\ Having(p) \subseteq chosen
    /\ toVisit' = toVisit \ {p}
    /\ UNCHANGED <<level, chosen, pc>>

AllCovered ==
    /\ pc = "cover" /\ toVisit = {}
    /\ pc' = "fill"
    /\ UNCHANGED <<level, toVisit, chosen>>

Fill ==
    /\ pc = "fill"
    /\ Cardinality(chosen) < Target
    /\ \E r \in Records \ chosen : chosen' = chosen \cup {r}
    /\ UNCHANGED <<level, toVisit, pc>>

Filled ==
    /\ pc = "fill"
    /\ chosen = Records \/ Cardinality(chosen) >= Target
    /\ pc' = "done"
    /\ UNCHANGED <<level, toVisit, chosen>>

Done == pc = "done" /\ UNCHANGED vars

Next ==
    \/ \E p \in toVisit : PickLevel(p) \/ PassLevel(p)
    \/ AllCovered
    \/ Fill
    \/ Filled
    \/ Done

Spec == Init /\ [][Next]_vars
-----------------------------------------------------------------------------
\* Properties.

\* "Every individual axis level appears at least once in the subset, per
\* raster" (select_synthetic_iter.py 16-18): from the end of the first pass
\* on, however the picks of one axis have emptied another axis's candidates.
EveryLevelCovered ==
    pc \in {"fill", "done"} => \A p \in SeenPairs : Having(p) \cap chosen # {}
===============================================================================
