--------------------------- MODULE OpjAdapterProofs ---------------------------
(***************************************************************************)
(* OpjAdapter for every set of threads and libraries, every size of the    *)
(* table and of the code stream: the types (with the bound on the stream's *)
(* offset), the objects of a call, its error text and its table.           *)
(***************************************************************************)
EXTENDS OpjAdapter, FiniteSetTheorems, TLAPS

\* A table is complete exactly when its library has loaded, and its library
\* is open exactly from its dlopen to a missing symbol.
Tables ==
    /\ \A l \in Libs :
        /\ lib[l].state = "loaded" => lib[l].handle /\ lib[l].resolved = Symbols
        /\ lib[l].state = "loading" => lib[l].handle /\ lib[l].resolved < Symbols
        /\ lib[l].state \in {"none", "failed"} => ~lib[l].handle
    /\ \A t \in Callers : pc[t] # "idle" => lib[op[t].lib].state = "loaded"

\* Between its sniff and its return a call's thread holds no text but its own.
Texts ==
    \A t \in Callers :
        /\ pc[t] \notin {"idle", "sniff"} => lastError[t] \in {0, call[t]}
        /\ pc[t] = "idle" => result[t].text \in {0, call[t]}

\* The inductive invariant.
AdapterInv == TypeOK /\ ObjectsFollowTheCall /\ Tables /\ Texts
-----------------------------------------------------------------------------
\* The number of a new call is within the bound.
LEMMA CallsType == Calls \in Nat
<1> DEFINE S == {n \in 1..MaxCalls : \E t \in Callers : call[t] >= n}
<1>1. IsFiniteSet(1..MaxCalls)
  BY FS_Interval, OpjAssumption
<1>2. IsFiniteSet(S)
  BY <1>1, FS_Subset
<1> QED
  BY <1>2, FS_CardinalityType DEF Calls

\* Nothing is loaded and nobody calls.
LEMMA InitInv == Init => AdapterInv
<1> SUFFICES ASSUME Init PROVE AdapterInv
  OBVIOUS
<1>1. TypeOK
  <2>1. 0 \in 0..MaxCalls /\ 0 \in 0..Size /\ 0 \in 0..Symbols
    BY OpjAssumption
  <2>2. (CHOOSE l \in Libs : TRUE) \in Libs
    BY OpjAssumption
  <2> QED
    BY <2>1, <2>2 DEF Init, TypeOK, PC, Kinds, Stages
<1>2. ObjectsFollowTheCall
  BY DEF Init, ObjectsFollowTheCall, Needs
<1>3. Tables
  BY DEF Init, Tables
<1>4. Texts
  BY DEF Init, Texts
<1> QED
  BY <1>1, <1>2, <1>3, <1>4 DEF AdapterInv

\* A call that goes on: its place and its objects change.
LEMMA ProceedFacts ==
    ASSUME TypeOK, NEW t \in Callers, NEW place \in PC, NEW objects \in SUBSET Objects,
           Proceed(t, place, objects)
    PROVE  /\ pc' \in [Callers -> PC] /\ alive' \in [Callers -> SUBSET Objects]
           /\ pc'[t] = place /\ alive'[t] = objects /\ result' = result
           /\ \A u \in Callers \ {t} : pc'[u] = pc[u] /\ alive'[u] = alive[u]
BY DEF TypeOK, Proceed, Goto

\* A call that returns leaves nothing behind but its result.
LEMMA LeaveFacts ==
    ASSUME TypeOK, NEW t \in Callers, NEW failed \in Stages, NEW text \in 0..MaxCalls,
           Leave(t, failed, text)
    PROVE  /\ pc' \in [Callers -> PC] /\ alive' \in [Callers -> SUBSET Objects]
           /\ result' \in [Callers -> [failed : Stages, text : 0..MaxCalls]]
           /\ pc'[t] = "idle" /\ alive'[t] = {} /\ result'[t].text = text
           /\ \A u \in Callers \ {t} :
                 pc'[u] = pc[u] /\ alive'[u] = alive[u] /\ result'[u] = result[u]
BY DEF TypeOK, Leave, LeaveWith, Goto, PC

\* A failing library call may leave a text about this very call.
LEMMA ExplainFacts ==
    ASSUME TypeOK, NEW t \in Callers, Explain(t)
    PROVE  /\ lastError' \in [Callers -> 0..MaxCalls]
           /\ lastError'[t] \in {lastError[t], call[t]}
           /\ \A u \in Callers \ {t} : lastError'[u] = lastError[u]
BY DEF TypeOK, Explain

\* What a step of one call does to the call: it goes on, with the objects of
\* its new place, or it returns with the text of this call or with none.
GoesOn(t) ==
    /\ pc'[t] \notin {"idle", "sniff"}
    /\ result' = result
    /\ lastError'[t] \in {0, lastError[t]} /\ (pc[t] = "sniff" => lastError'[t] = 0)
Returns(t) ==
    /\ pc'[t] = "idle"
    /\ result'[t].text \in {0, call[t]}
    /\ \A u \in Callers \ {t} : result'[u] = result[u]
StepEffect(t) ==
    /\ pc[t] # "idle"
    /\ UNCHANGED <<lib, op, call>>
    /\ pc' \in [Callers -> PC] /\ alive' \in [Callers -> SUBSET Objects]
    /\ offset' \in [Callers -> 0..Size] /\ lastError' \in [Callers -> 0..MaxCalls]
    /\ result' \in [Callers -> [failed : Stages, text : 0..MaxCalls]]
    /\ alive'[t] = Needs(t)'
    /\ \A u \in Callers \ {t} : /\ pc'[u] = pc[u] /\ alive'[u] = alive[u]
                                /\ lastError'[u] = lastError[u]
    /\ GoesOn(t) \/ Returns(t)

\* opj_fail returns.
LEMMA OpjFailEffect ==
    ASSUME AdapterInv, NEW t \in Callers, NEW stage \in Stages, OpjFail(t, stage),
           pc[t] \notin {"idle", "sniff"}, UNCHANGED <<lib, op, offset, call>>
    PROVE  StepEffect(t)
<1> USE DEF AdapterInv
<1>1. /\ lastError' \in [Callers -> 0..MaxCalls]
      /\ lastError'[t] \in {lastError[t], call[t]}
      /\ \A u \in Callers \ {t} : lastError'[u] = lastError[u]
  BY ExplainFacts DEF OpjFail
<1>2. lastError'[t] \in {0, call[t]} /\ lastError'[t] \in 0..MaxCalls
  BY <1>1 DEF Texts
<1>3. /\ pc' \in [Callers -> PC] /\ alive' \in [Callers -> SUBSET Objects]
      /\ result' \in [Callers -> [failed : Stages, text : 0..MaxCalls]]
      /\ pc'[t] = "idle" /\ alive'[t] = {} /\ result'[t].text = lastError'[t]
      /\ \A u \in Callers \ {t} :
            pc'[u] = pc[u] /\ alive'[u] = alive[u] /\ result'[u] = result[u]
  BY <1>2, LeaveFacts DEF OpjFail
<1>4. Needs(t)' = {}
  BY <1>3 DEF Needs
<1>5. Returns(t)
  BY <1>2, <1>3 DEF Returns
<1> QED
  BY <1>1, <1>3, <1>4, <1>5 DEF StepEffect, TypeOK

\* A return with no text.
LEMMA LeaveEffect ==
    ASSUME AdapterInv, NEW t \in Callers, NEW failed \in Stages, Leave(t, failed, 0),
           pc[t] # "idle", UNCHANGED <<lib, op, offset, call>>,
           lastError' \in [Callers -> 0..MaxCalls],
           \A u \in Callers \ {t} : lastError'[u] = lastError[u]
    PROVE  StepEffect(t)
<1> USE DEF AdapterInv
<1>0. 0 \in 0..MaxCalls
  BY OpjAssumption
<1>1. /\ pc' \in [Callers -> PC] /\ alive' \in [Callers -> SUBSET Objects]
      /\ result' \in [Callers -> [failed : Stages, text : 0..MaxCalls]]
      /\ pc'[t] = "idle" /\ alive'[t] = {} /\ result'[t].text = 0
      /\ \A u \in Callers \ {t} :
            pc'[u] = pc[u] /\ alive'[u] = alive[u] /\ result'[u] = result[u]
  BY <1>0, LeaveFacts
<1>2. Needs(t)' = {}
  BY <1>1 DEF Needs
<1>3. Returns(t)
  BY <1>1 DEF Returns
<1> QED
  BY <1>1, <1>2, <1>3 DEF StepEffect, TypeOK

\* A call goes on with what its next place needs.
LEMMA ProceedEffect ==
    ASSUME AdapterInv, NEW t \in Callers, NEW place \in PC \ {"idle", "sniff"},
           NEW objects \in SUBSET Objects, Proceed(t, place, objects),
           pc[t] # "idle", UNCHANGED <<lib, op, call>>, offset' \in [Callers -> 0..Size],
           lastError' \in [Callers -> 0..MaxCalls],
           lastError'[t] \in {0, lastError[t]}, pc[t] = "sniff" => lastError'[t] = 0,
           \A u \in Callers \ {t} : lastError'[u] = lastError[u],
           pc'[t] = place => objects = Needs(t)'
    PROVE  StepEffect(t)
<1> USE DEF AdapterInv
<1>1. /\ pc' \in [Callers -> PC] /\ alive' \in [Callers -> SUBSET Objects]
      /\ pc'[t] = place /\ alive'[t] = objects /\ result' = result
      /\ \A u \in Callers \ {t} : pc'[u] = pc[u] /\ alive'[u] = alive[u]
  BY ProceedFacts
<1>2. GoesOn(t)
  BY <1>1 DEF GoesOn
<1> QED
  BY <1>1, <1>2 DEF StepEffect, TypeOK
-----------------------------------------------------------------------------
\* Each step of a call has such an effect.
LEMMA StepHasEffect ==
    ASSUME AdapterInv, NEW t \in Callers, Step(t)
    PROVE  StepEffect(t)
<1> USE DEF PC, Stages, Objects
<1>0. lastError \in [Callers -> 0..MaxCalls] /\ offset \in [Callers -> 0..Size]
      /\ 0 \in 0..MaxCalls /\ 0 \in 0..Size
  BY OpjAssumption DEF AdapterInv, TypeOK
<1>1. CASE Sniff(t)
  <2>1. lastError' \in [Callers -> 0..MaxCalls] /\ lastError'[t] = 0 /\ pc[t] = "sniff"
        /\ \A u \in Callers \ {t} : lastError'[u] = lastError[u]
    BY <1>0, <1>1 DEF Sniff
  <2>2. CASE Proceed(t, "stream", {})
    <3>1. pc'[t] = "stream" => Needs(t)' = {}
      BY DEF Needs
    <3> QED
      BY <1>0, <1>1, <2>1, <2>2, <3>1, ProceedEffect DEF Sniff
  <2>3. CASE Leave(t, "unknown", 0)
    BY <1>1, <2>1, <2>3, LeaveEffect DEF Sniff
  <2> QED
    BY <1>1, <2>2, <2>3 DEF Sniff
<1>2. CASE CreateStream(t)
  <2>1. offset' \in [Callers -> 0..Size]
    BY <1>0, <1>2 DEF CreateStream
  <2>2. pc'[t] = "codec" => Needs(t)' = {"stream"}
    BY DEF Needs
  <2> QED
    BY <1>0, <1>2, <2>1, <2>2, ProceedEffect DEF CreateStream
<1>3. CASE CreateCodec(t)
  <2>1. CASE Proceed(t, "setup", {"stream", "codec"})
    <3>1. pc'[t] = "setup" => Needs(t)' = {"stream", "codec"}
      BY DEF Needs
    <3> QED
      BY <1>0, <1>3, <2>1, <3>1, ProceedEffect DEF CreateCodec
  <2>2. CASE Leave(t, "codec", 0)
    BY <1>0, <1>3, <2>2, LeaveEffect DEF CreateCodec
  <2> QED
    BY <1>3, <2>1, <2>2 DEF CreateCodec
<1>4. CASE SetupDecoder(t)
  <2>1. CASE Proceed(t, "header", {"stream", "codec"}) /\ UNCHANGED lastError
    <3>1. pc'[t] = "header" => Needs(t)' = {"stream", "codec"}
      BY DEF Needs
    <3> QED
      BY <1>0, <1>4, <2>1, <3>1, ProceedEffect DEF SetupDecoder
  <2>2. CASE OpjFail(t, "setup")
    BY <1>4, <2>2, OpjFailEffect DEF SetupDecoder
  <2> QED
    BY <1>4, <2>1, <2>2 DEF SetupDecoder
<1>5. CASE ReadHeader(t)
  <2>1. CASE op[t].kind = "header_only"
    BY <1>0, <1>5, <2>1, LeaveEffect DEF ReadHeader
  <2>2. CASE op[t].kind = "region"
    <3>1. pc'[t] = "area" => Needs(t)' = Objects
      BY DEF Needs
    <3> QED
      BY <1>0, <1>5, <2>2, <3>1, ProceedEffect DEF ReadHeader
  <2>3. CASE op[t].kind \notin {"header_only", "region"}
    <3>1. pc'[t] = "decode" => Needs(t)' = Objects
      BY DEF Needs
    <3> QED
      BY <1>0, <1>5, <2>3, <3>1, ProceedEffect DEF ReadHeader
  <2> QED
    BY <2>1, <2>2, <2>3
<1>6. CASE ReadHeaderFails(t)
  BY <1>6, OpjFailEffect DEF ReadHeaderFails
<1>7. CASE SetDecodeArea(t)
  <2>1. CASE Proceed(t, "decode", Objects) /\ UNCHANGED lastError
    <3>1. pc'[t] = "decode" => Needs(t)' = Objects
      BY DEF Needs
    <3> QED
      BY <1>0, <1>7, <2>1, <3>1, ProceedEffect DEF SetDecodeArea
  <2>2. CASE OpjFail(t, "area")
    BY <1>7, <2>2, OpjFailEffect DEF SetDecodeArea
  <2> QED
    BY <1>7, <2>1, <2>2 DEF SetDecodeArea
<1>8. CASE Decode(t)
  <2> DEFINE left == IF op[t].kind = "stages" THEN Objects ELSE {"image"}
  <2>1. op' = op
    BY <1>8 DEF Decode
  <2>2. pc'[t] = "unpack" => Needs(t)' = left
    BY <2>1 DEF Needs
  <2>3. left \in SUBSET Objects
    OBVIOUS
  <2>4. Proceed(t, "unpack", left)
    BY <1>8 DEF Decode
  <2> HIDE DEF left
  <2> QED
    BY <1>0, <1>8, <2>2, <2>3, <2>4, ProceedEffect DEF Decode
<1>9. CASE DecodeFails(t)
  BY <1>9, OpjFailEffect DEF DecodeFails
<1>10. CASE Unpack(t)
  <2>1. PICK failed \in {"none", "unpack"} : Leave(t, failed, 0)
    BY <1>10 DEF Unpack
  <2> QED
    BY <1>0, <1>10, <2>1, LeaveEffect DEF Unpack
<1> QED
  BY <1>1, <1>2, <1>3, <1>4, <1>5, <1>6, <1>7, <1>8, <1>9, <1>10 DEF Step

\* A step with such an effect keeps the invariant.
LEMMA EffectKeepsInv ==
    ASSUME AdapterInv, NEW t \in Callers, StepEffect(t)
    PROVE  AdapterInv'
<1> USE DEF AdapterInv
<1>1. TypeOK'
  BY DEF StepEffect, TypeOK
<1>2. ObjectsFollowTheCall'
  <2>1. \A u \in Callers \ {t} : Needs(u)' = Needs(u)
    BY DEF StepEffect, Needs
  <2> QED
    BY <2>1 DEF StepEffect, ObjectsFollowTheCall
<1>3. Tables'
  BY DEF StepEffect, Tables
<1>4. Texts'
  <2>1. \A u \in Callers \ {t} :
            /\ pc'[u] \notin {"idle", "sniff"} => lastError'[u] \in {0, call'[u]}
            /\ pc'[u] = "idle" => result'[u].text \in {0, call'[u]}
    BY DEF StepEffect, GoesOn, Returns, Texts
  <2>2. CASE GoesOn(t)
    BY <2>1, <2>2 DEF StepEffect, GoesOn, Texts
  <2>3. CASE Returns(t)
    BY <2>1, <2>3 DEF StepEffect, Returns, Texts
  <2> QED
    BY <2>2, <2>3 DEF StepEffect
<1> QED
  BY <1>1, <1>2, <1>3, <1>4

\* A call of a stream callback moves the offset inside the data.
LEMMA MoveKeepsInv ==
    ASSUME AdapterInv, NEW t \in Callers, NEW n \in 0..Size, MoveTo(t, n)
    PROVE  AdapterInv'
<1> USE DEF AdapterInv
<1>1. UNCHANGED <<lib, pc, op, alive, lastError, result, call>>
  BY DEF MoveTo
<1>2. TypeOK'
  BY <1>1 DEF TypeOK, MoveTo
<1>3. ObjectsFollowTheCall' /\ Tables' /\ Texts'
  BY <1>1 DEF ObjectsFollowTheCall, Needs, Tables, Texts
<1> QED
  BY <1>2, <1>3

\* The loading of a library disturbs no call.
LEMMA LoadKeepsInv ==
    ASSUME AdapterInv, Load
    PROVE  AdapterInv'
<1> USE DEF AdapterInv
<1>1. UNCHANGED calling
  BY DEF Load, Dlopen, DlopenFails, Resolve, ResolveFails
<1>2. PICK l \in Libs : Dlopen(l) \/ DlopenFails(l) \/ Resolve(l) \/ ResolveFails(l)
  BY DEF Load
<1>3. /\ lib[l].state \in {"none", "loading"}
      /\ lib' = [lib EXCEPT ![l] = lib'[l]]
      /\ lib'[l] \in [state : {"none", "loading", "loaded", "failed"},
                      handle : BOOLEAN, resolved : 0..Symbols]
      /\ lib'[l].state = "loaded" => lib'[l].handle /\ lib'[l].resolved = Symbols
      /\ lib'[l].state = "loading" => lib'[l].handle /\ lib'[l].resolved < Symbols
      /\ lib'[l].state \in {"none", "failed"} => ~lib'[l].handle
  <2> DEFINE m == lib[l]
  <2>0. m \in [state : {"none", "loading", "loaded", "failed"},
               handle : BOOLEAN, resolved : 0..Symbols]
        /\ Symbols \in Nat \ {0}
    BY OpjAssumption DEF TypeOK
  <2>1. CASE Dlopen(l)
    BY <2>0, <2>1 DEF Dlopen, TypeOK
  <2>2. CASE DlopenFails(l)
    BY <2>0, <2>2 DEF DlopenFails, TypeOK, Tables
  <2>3. CASE Resolve(l)
    <3>1. lib'[l] = [m EXCEPT !.resolved = m.resolved + 1,
                              !.state = IF m.resolved + 1 = Symbols THEN "loaded"
                                        ELSE "loading"]
          /\ m.state = "loading" /\ m.handle /\ m.resolved < Symbols
          /\ lib' = [lib EXCEPT ![l] = lib'[l]]
      BY <2>3 DEF Resolve, TypeOK, Tables
    <3>2. m.resolved + 1 \in 0..Symbols /\ (m.resolved + 1 # Symbols => m.resolved + 1 < Symbols)
      BY <2>0, <3>1
    <3> HIDE DEF m
    <3>3. /\ lib'[l].resolved = m.resolved + 1 /\ lib'[l].handle = m.handle
          /\ lib'[l].state = IF m.resolved + 1 = Symbols THEN "loaded" ELSE "loading"
          /\ lib'[l] \in [state : {"none", "loading", "loaded", "failed"},
                          handle : BOOLEAN, resolved : 0..Symbols]
      BY <2>0, <3>1, <3>2
    <3> QED
      BY <3>1, <3>2, <3>3 DEF m
  <2>4. CASE ResolveFails(l)
    BY <2>0, <2>4 DEF ResolveFails, TypeOK
  <2> QED
    BY <1>2, <2>1, <2>2, <2>3, <2>4
<1>4. \A k \in Libs \ {l} : lib'[k] = lib[k]
  BY <1>3 DEF TypeOK
<1>5. TypeOK'
  BY <1>1, <1>3 DEF TypeOK, calling
<1>6. Tables'
  <2>1. \A t \in Callers : pc[t] # "idle" => op[t].lib \in Libs \ {l}
    BY <1>3 DEF Tables, TypeOK
  <2>2. \A t \in Callers : pc'[t] # "idle" => lib'[op'[t].lib].state = "loaded"
    BY <1>1, <1>4, <2>1 DEF Tables, calling
  <2>3. \A k \in Libs :
            /\ lib'[k].state = "loaded" => lib'[k].handle /\ lib'[k].resolved = Symbols
            /\ lib'[k].state = "loading" => lib'[k].handle /\ lib'[k].resolved < Symbols
            /\ lib'[k].state \in {"none", "failed"} => ~lib'[k].handle
    BY <1>3, <1>4 DEF Tables
  <2> QED
    BY <2>2, <2>3 DEF Tables
<1>7. ObjectsFollowTheCall' /\ Texts'
  BY <1>1 DEF ObjectsFollowTheCall, Needs, Texts, calling
<1> QED
  BY <1>5, <1>6, <1>7

\* A new call has nothing alive and goes through a loaded table.
LEMMA EnterKeepsInv ==
    ASSUME AdapterInv, NEW t \in Callers, Enter(t)
    PROVE  AdapterInv'
<1> USE DEF AdapterInv
<1>1. PICK k \in Kinds, l \in Libs :
          lib[l].state = "loaded" /\ op' = [op EXCEPT ![t] = [kind |-> k, lib |-> l]]
  BY DEF Enter
<1>2. op' \in [Callers -> [kind : Kinds, lib : Libs]] /\ op'[t].lib = l
      /\ \A u \in Callers \ {t} : op'[u] = op[u]
  BY <1>1 DEF TypeOK
<1>3. Calls + 1 \in 0..MaxCalls
  BY CallsType, OpjAssumption DEF Enter
<1>4. call' \in [Callers -> 0..MaxCalls] /\ \A u \in Callers \ {t} : call'[u] = call[u]
  BY <1>3 DEF Enter, TypeOK
<1>5. pc' \in [Callers -> PC] /\ pc'[t] = "sniff" /\ pc[t] = "idle"
      /\ \A u \in Callers \ {t} : pc'[u] = pc[u]
  BY DEF Enter, Goto, TypeOK, PC
<1>6. UNCHANGED <<lib, alive, offset, lastError, result>>
  BY DEF Enter
<1>7. TypeOK'
  BY <1>2, <1>4, <1>5, <1>6 DEF TypeOK
<1>8. ObjectsFollowTheCall'
  <2>1. \A u \in Callers \ {t} : Needs(u)' = Needs(u)
    BY <1>2, <1>5 DEF Needs
  <2>2. Needs(t)' = {} /\ Needs(t) = {}
    BY <1>5 DEF Needs
  <2> QED
    BY <1>6, <2>1, <2>2 DEF ObjectsFollowTheCall
<1>9. Tables'
  BY <1>1, <1>2, <1>5, <1>6 DEF Tables
<1>10. Texts'
  BY <1>4, <1>5, <1>6 DEF Texts
<1> QED
  BY <1>7, <1>8, <1>9, <1>10

\* Every step keeps the invariant.
LEMMA NextInv == AdapterInv /\ [Next]_vars => AdapterInv'
<1> SUFFICES ASSUME AdapterInv, [Next]_vars PROVE AdapterInv'
  OBVIOUS
<1>1. CASE Load
  BY <1>1, LoadKeepsInv
<1>2. ASSUME NEW t \in Callers, Enter(t) PROVE AdapterInv'
  BY <1>2, EnterKeepsInv
<1>3. ASSUME NEW t \in Callers, Step(t) PROVE AdapterInv'
  BY <1>3, StepHasEffect, EffectKeepsInv
<1>4. ASSUME NEW t \in Callers, Advance(t) PROVE AdapterInv'
  <2>1. PICK n \in 1..Size + 1 : MoveTo(t, offset[t] + SmallerOf(n, Size - offset[t]))
    BY <1>4 DEF Advance
  <2>2. offset[t] \in 0..Size
    BY DEF AdapterInv, TypeOK
  <2>3. offset[t] + SmallerOf(n, Size - offset[t]) \in 0..Size
    BY <2>2, OpjAssumption DEF SmallerOf
  <2> QED
    BY <2>1, <2>3, MoveKeepsInv
<1>5. ASSUME NEW t \in Callers, Seek(t) PROVE AdapterInv'
  <2>1. PICK n \in -1..Size + 1 : n >= 0 /\ n <= Size /\ MoveTo(t, n)
    BY <1>5 DEF Seek
  <2>2. n \in 0..Size
    BY <2>1, OpjAssumption
  <2> QED
    BY <2>1, <2>2, MoveKeepsInv
<1>6. CASE UNCHANGED vars
  <2>1. TypeOK' /\ Tables' /\ Texts'
    BY <1>6 DEF vars, AdapterInv, TypeOK, Tables, Texts
  <2>2. ObjectsFollowTheCall'
    BY <1>6 DEF vars, AdapterInv, ObjectsFollowTheCall, Needs
  <2> QED
    BY <2>1, <2>2 DEF AdapterInv
<1> QED
  BY <1>1, <1>2, <1>3, <1>4, <1>5, <1>6 DEF Next, Ended
-----------------------------------------------------------------------------
\* Theorems.

\* The invariant holds in every state of every run.
THEOREM AdapterInvariant == Spec => []AdapterInv
<1>1. Init => AdapterInv
  BY InitInv
<1> QED
  BY <1>1, NextInv, PTL DEF Spec

\* For every size of the code stream and every order of the callbacks: the
\* stream's offset stays inside the data, and the rest is well typed.
THEOREM TypeCorrect == Spec => []TypeOK
<1>1. AdapterInv => TypeOK
  BY DEF AdapterInv
<1> QED
  BY <1>1, AdapterInvariant, PTL

\* For every set of threads: each way out of a call destroys what the call
\* created, and nothing is used that is not there.
THEOREM ObjectsFollowTheCallHolds == Spec => []ObjectsFollowTheCall
<1>1. AdapterInv => ObjectsFollowTheCall
  BY DEF AdapterInv
<1> QED
  BY <1>1, AdapterInvariant, PTL

\* For every set of threads: a call returns no other call's error text.
THEOREM ErrorIsOwnHolds == Spec => []ErrorIsOwn
<1>1. AdapterInv => ErrorIsOwn
  BY DEF AdapterInv, Texts, ErrorIsOwn
<1> QED
  BY <1>1, AdapterInvariant, PTL

\* For every size of the table: a call goes through a complete table of an
\* open library.
THEOREM CallsThroughFullTableHolds == Spec => []CallsThroughFullTable
<1>1. AdapterInv => CallsThroughFullTable
  BY DEF AdapterInv, TypeOK, Tables, CallsThroughFullTable
<1> QED
  BY <1>1, AdapterInvariant, PTL
===============================================================================
