------------------------------ MODULE JobPool ------------------------------
(***************************************************************************)
(* What the program may rely on when it uses ThreadPool (src/thread_pool.h *)
(* through main.cpp): jobs start in the order they were submitted, at most *)
(* Width of them run at once, each runs once, wait_idle returns only when  *)
(* nothing is queued or running, and the destructor drains the queue.      *)
(* Threads, locks and condition variables belong to ThreadPool.tla, which  *)
(* is shown to implement this module.                                      *)
(***************************************************************************)
EXTENDS Naturals, Sequences, FiniteSets, Functions

CONSTANTS Jobs,    \* the jobs that may ever be submitted
          Width    \* how many of them may run at once

VARIABLES todo,      \* submitted jobs nobody has started, in order
          running,   \* jobs whose body is executing
          finished,  \* jobs whose body has returned
          phase      \* what the owner is doing: open, waiting, closing, closed

vars == <<todo, running, finished, phase>>

Queued == Range(todo)
Submitted == Queued \cup running \cup finished
Quiet == todo = <<>> /\ running = {}

Init ==
    /\ todo = <<>>
    /\ running = {}
    /\ finished = {}
    /\ phase = "open"

Submit(j) ==
    /\ phase = "open"
    /\ j \notin Submitted
    /\ todo' = Append(todo, j)
    /\ UNCHANGED <<running, finished, phase>>

Start ==
    /\ todo # <<>>
    /\ Cardinality(running) < Width
    /\ running' = running \cup {Head(todo)}
    /\ todo' = Tail(todo)
    /\ UNCHANGED <<finished, phase>>

Finish(j) ==
    /\ j \in running
    /\ running' = running \ {j}
    /\ finished' = finished \cup {j}
    /\ UNCHANGED <<todo, phase>>

CallWait ==
    /\ phase = "open"
    /\ phase' = "waiting"
    /\ UNCHANGED <<todo, running, finished>>

ReturnFromWait ==
    /\ phase = "waiting"
    /\ Quiet
    /\ phase' = "open"
    /\ UNCHANGED <<todo, running, finished>>

BeginClose ==
    /\ phase = "open"
    /\ phase' = "closing"
    /\ UNCHANGED <<todo, running, finished>>

EndClose ==
    /\ phase = "closing"
    /\ Quiet
    /\ phase' = "closed"
    /\ UNCHANGED <<todo, running, finished>>

Next ==
    \/ \E j \in Jobs : Submit(j) \/ Finish(j)
    \/ Start
    \/ CallWait
    \/ ReturnFromWait
    \/ BeginClose
    \/ EndClose

Progress ==
    /\ WF_vars(Start)
    /\ \A j \in Jobs : WF_vars(Finish(j))
    /\ WF_vars(ReturnFromWait)
    /\ WF_vars(EndClose)

Safe == Init /\ [][Next]_vars
Spec == Safe /\ Progress
=============================================================================
