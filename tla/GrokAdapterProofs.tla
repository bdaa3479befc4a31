-------------------------- MODULE GrokAdapterProofs --------------------------
(***************************************************************************)
(* Proofs about GrokAdapter, for any set of bench threads, any thread      *)
(* counts and any number of calls.                                         *)
(*                                                                         *)
(* One invariant carries all of them: decode_mu_ belongs to the caller     *)
(* that is between its lock_guard and its return (LockOwned), the pool     *)
(* runs once that caller is past ensure_initialized (PoolRuns), a codec    *)
(* lives exactly between grk_decompress_init and the way out, and from the *)
(* clear() on the thread's error text is about its own call (TextIsFresh). *)
(***************************************************************************)
EXTENDS GrokAdapter, FiniteSetTheorems, TLAPS

LockOwned ==
    \A t \in Callers : pc[t] \notin {"idle", "wait"} <=> decodeMu = t

PoolRuns ==
    \A t \in Callers : pc[t] \in InLibrary \cup {"sniff"} => initialized

TextIsFresh ==
    \A t \in Callers : pc[t] \in InLibrary => lastError[t] \in {0, call[t]}

IInv ==
    /\ TypeOK
    /\ LockOwned
    /\ PoolRuns
    /\ CodecConfined
    /\ TextIsFresh
    /\ ErrorIsOwn
-----------------------------------------------------------------------------
\* The number of calls made so far is a natural number, so the next call has
\* a number within the bound.
LEMMA NextCallNumber ==
    ASSUME Calls < MaxCalls
    PROVE  Calls + 1 \in 0..MaxCalls
<1>1. IsFiniteSet(1..MaxCalls)
    BY GrokAssumption, FS_Interval
<1>2. IsFiniteSet({n \in 1..MaxCalls : \E t \in Callers : call[t] >= n})
    BY <1>1, FS_Subset
<1>3. Calls \in Nat
    BY <1>2, FS_CardinalityType DEF Calls
<1> QED
    BY <1>3, GrokAssumption

\* A return without an error text of its own is a result.
LEMMA SilentResult ==
    ASSUME NEW step \in {"none", "sniff", "unpack"}
    PROVE  [failed |-> step, text |-> 0] \in Result
<1>1. 0 \in 0..MaxCalls
    BY GrokAssumption
<1>2. step \in {"none", "sniff", "open", "header", "decode", "unpack"}
    OBVIOUS
<1> QED
    BY <1>1, <1>2 DEF Result

\* Before the first call nobody holds the lock, a codec or an error text.
LEMMA InitEstablishes == Init => IInv
<1> SUFFICES ASSUME Init PROVE IInv
    OBVIOUS
<1>1. (CHOOSE n \in Sizes : TRUE) \in Sizes
    BY GrokAssumption
<1>2. TypeOK
    <2>1. [kind |-> "decode", threads |-> CHOOSE n \in Sizes : TRUE]
             \in [kind : {"decode", "header_only"}, threads : Sizes]
        BY <1>1
    <2>2. op \in [Callers -> [kind : {"decode", "header_only"}, threads : Sizes]]
        BY <2>1, Zenon DEF Init
    <2>3. [failed |-> "none", text |-> 0] \in Result
        BY SilentResult
    <2>4. result \in [Callers -> Result]
        BY <2>3 DEF Init
    <2>5. /\ lastError \in [Callers -> 0..MaxCalls]
          /\ call \in [Callers -> 0..MaxCalls]
        BY GrokAssumption DEF Init
    <2>6. /\ pc \in [Callers -> PC]
          /\ decodeMu \in Callers \cup {NoThread}
          /\ initialized \in BOOLEAN
          /\ poolSize \in {0} \cup Sizes
          /\ codec \subseteq Callers
        BY DEF Init, PC
    <2> QED
        BY <2>2, <2>4, <2>5, <2>6, Zenon DEF TypeOK
<1>3. LockOwned
    BY GrokAssumption DEF Init, LockOwned
<1> QED
    BY <1>2, <1>3 DEF Init, IInv, PoolRuns, CodecConfined, TextIsFresh,
                      ErrorIsOwn, InLibrary

-----------------------------------------------------------------------------
\* The types are kept by every step of a caller and by every new call.
LEMMA TypeStep ==
    ASSUME TypeOK, NEW t \in Callers, Step(t) \/ Enter(t)
    PROVE  TypeOK'
<1> USE GrokAssumption DEF TypeOK, PC
<1>1. CASE Acquire(t)
    BY <1>1 DEF Acquire, Goto
<1>2. CASE EnsureInitialized(t)
    BY <1>2 DEF EnsureInitialized, Goto
<1>3. CASE UnknownCodestream(t)
    BY <1>3, SilentResult DEF UnknownCodestream, Goto, Leave
<1>4. CASE Sniff(t)
    BY <1>4 DEF Sniff, Goto
<1>5. CASE Open(t)
    BY <1>5 DEF Open, Goto
<1>6. CASE OpenFails(t)
    BY <1>6 DEF OpenFails, Goto, Leave, Explain, Result
<1>7. CASE ReadHeader(t)
    BY <1>7, SilentResult DEF ReadHeader, Goto, Leave
<1>8. CASE ReadHeaderFails(t)
    BY <1>8 DEF ReadHeaderFails, Goto, Leave, Explain, Result
<1>9. CASE Decompress(t)
    BY <1>9 DEF Decompress, Goto
<1>10. CASE DecompressFails(t)
    BY <1>10 DEF DecompressFails, Goto, Leave, Explain, Result
<1>11. CASE Unpack(t)
    <2>1. PICK step \in {"none", "unpack"} : Leave(t, step, 0)
        BY <1>11 DEF Unpack
    <2>2. [failed |-> step, text |-> 0] \in Result
        BY SilentResult
    <2> QED
        BY <1>11, <2>1, <2>2 DEF Unpack, Goto, Leave
<1>12. CASE Enter(t)
    BY <1>12, NextCallNumber DEF Enter, Goto
<1> QED
    BY <1>1, <1>2, <1>3, <1>4, <1>5, <1>6, <1>7, <1>8, <1>9, <1>10, <1>11, <1>12 DEF Step

\* Only the holder of decode_mu_ moves past the lock, and every return gives
\* it back.
LEMMA LockStep ==
    ASSUME IInv, NEW t \in Callers, Step(t) \/ Enter(t)
    PROVE  LockOwned'
<1> USE GrokAssumption DEF IInv, TypeOK, PC, LockOwned
<1>1. CASE Acquire(t)
    BY <1>1 DEF Acquire, Goto
<1>2. CASE EnsureInitialized(t)
    BY <1>2 DEF EnsureInitialized, Goto
<1>3. CASE UnknownCodestream(t)
    BY <1>3 DEF UnknownCodestream, Goto, Leave
<1>4. CASE Sniff(t)
    BY <1>4 DEF Sniff, Goto
<1>5. CASE Open(t)
    BY <1>5 DEF Open, Goto
<1>6. CASE OpenFails(t)
    BY <1>6 DEF OpenFails, Goto, Leave, Explain
<1>7. CASE ReadHeader(t)
    BY <1>7 DEF ReadHeader, Goto, Leave
<1>8. CASE ReadHeaderFails(t)
    BY <1>8 DEF ReadHeaderFails, Goto, Leave, Explain
<1>9. CASE Decompress(t)
    BY <1>9 DEF Decompress, Goto
<1>10. CASE DecompressFails(t)
    BY <1>10 DEF DecompressFails, Goto, Leave, Explain
<1>11. CASE Unpack(t)
    BY <1>11 DEF Unpack, Goto, Leave
<1>12. CASE Enter(t)
    BY <1>12 DEF Enter, Goto
<1> QED
    BY <1>1, <1>2, <1>3, <1>4, <1>5, <1>6, <1>7, <1>8, <1>9, <1>10, <1>11, <1>12 DEF Step

\* initialized_ is set before the holder goes on, and never cleared.
LEMMA PoolStep ==
    ASSUME IInv, NEW t \in Callers, Step(t) \/ Enter(t)
    PROVE  PoolRuns'
<1> USE GrokAssumption DEF IInv, TypeOK, PC, PoolRuns, InLibrary
<1>1. CASE Acquire(t)
    BY <1>1 DEF Acquire, Goto
<1>2. CASE EnsureInitialized(t)
    BY <1>2 DEF EnsureInitialized, Goto
<1>3. CASE UnknownCodestream(t)
    BY <1>3 DEF UnknownCodestream, Goto, Leave
<1>4. CASE Sniff(t)
    BY <1>4 DEF Sniff, Goto
<1>5. CASE Open(t)
    BY <1>5 DEF Open, Goto
<1>6. CASE OpenFails(t)
    BY <1>6 DEF OpenFails, Goto, Leave, Explain
<1>7. CASE ReadHeader(t)
    BY <1>7 DEF ReadHeader, Goto, Leave
<1>8. CASE ReadHeaderFails(t)
    BY <1>8 DEF ReadHeaderFails, Goto, Leave, Explain
<1>9. CASE Decompress(t)
    BY <1>9 DEF Decompress, Goto
<1>10. CASE DecompressFails(t)
    BY <1>10 DEF DecompressFails, Goto, Leave, Explain
<1>11. CASE Unpack(t)
    BY <1>11 DEF Unpack, Goto, Leave
<1>12. CASE Enter(t)
    BY <1>12 DEF Enter, Goto
<1> QED
    BY <1>1, <1>2, <1>3, <1>4, <1>5, <1>6, <1>7, <1>8, <1>9, <1>10, <1>11, <1>12 DEF Step

\* A codec appears with grk_decompress_init and goes on every way out.
LEMMA CodecStep ==
    ASSUME IInv, NEW t \in Callers, Step(t) \/ Enter(t)
    PROVE  CodecConfined'
<1> USE GrokAssumption DEF IInv, TypeOK, PC, CodecConfined, InLibrary
<1>1. CASE Acquire(t)
    BY <1>1 DEF Acquire, Goto
<1>2. CASE EnsureInitialized(t)
    BY <1>2 DEF EnsureInitialized, Goto
<1>3. CASE UnknownCodestream(t)
    BY <1>3 DEF UnknownCodestream, Goto, Leave
<1>4. CASE Sniff(t)
    BY <1>4 DEF Sniff, Goto
<1>5. CASE Open(t)
    BY <1>5 DEF Open, Goto
<1>6. CASE OpenFails(t)
    BY <1>6 DEF OpenFails, Goto, Leave, Explain
<1>7. CASE ReadHeader(t)
    BY <1>7 DEF ReadHeader, Goto, Leave
<1>8. CASE ReadHeaderFails(t)
    BY <1>8 DEF ReadHeaderFails, Goto, Leave, Explain
<1>9. CASE Decompress(t)
    BY <1>9 DEF Decompress, Goto
<1>10. CASE DecompressFails(t)
    BY <1>10 DEF DecompressFails, Goto, Leave, Explain
<1>11. CASE Unpack(t)
    BY <1>11 DEF Unpack, Goto, Leave
<1>12. CASE Enter(t)
    BY <1>12 DEF Enter, Goto
<1> QED
    BY <1>1, <1>2, <1>3, <1>4, <1>5, <1>6, <1>7, <1>8, <1>9, <1>10, <1>11, <1>12 DEF Step

\* After the clear() only a report about this call writes the text.
LEMMA TextStep ==
    ASSUME IInv, NEW t \in Callers, Step(t) \/ Enter(t)
    PROVE  TextIsFresh'
<1> USE GrokAssumption DEF IInv, TypeOK, PC, TextIsFresh, InLibrary
<1>1. CASE Acquire(t)
    BY <1>1 DEF Acquire, Goto
<1>2. CASE EnsureInitialized(t)
    BY <1>2 DEF EnsureInitialized, Goto
<1>3. CASE UnknownCodestream(t)
    BY <1>3 DEF UnknownCodestream, Goto, Leave
<1>4. CASE Sniff(t)
    BY <1>4 DEF Sniff, Goto
<1>5. CASE Open(t)
    BY <1>5 DEF Open, Goto
<1>6. CASE OpenFails(t)
    BY <1>6 DEF OpenFails, Goto, Leave, Explain
<1>7. CASE ReadHeader(t)
    BY <1>7 DEF ReadHeader, Goto, Leave
<1>8. CASE ReadHeaderFails(t)
    BY <1>8 DEF ReadHeaderFails, Goto, Leave, Explain
<1>9. CASE Decompress(t)
    BY <1>9 DEF Decompress, Goto
<1>10. CASE DecompressFails(t)
    BY <1>10 DEF DecompressFails, Goto, Leave, Explain
<1>11. CASE Unpack(t)
    BY <1>11 DEF Unpack, Goto, Leave
<1>12. CASE Enter(t)
    BY <1>12 DEF Enter, Goto
<1> QED
    BY <1>1, <1>2, <1>3, <1>4, <1>5, <1>6, <1>7, <1>8, <1>9, <1>10, <1>11, <1>12 DEF Step

\* A returning call appends nothing, or what its own thread's text holds.
LEMMA ErrorStep ==
    ASSUME IInv, NEW t \in Callers, Step(t) \/ Enter(t)
    PROVE  ErrorIsOwn'
<1> USE GrokAssumption DEF IInv, TypeOK, PC, TextIsFresh, ErrorIsOwn, InLibrary, Result
<1>1. CASE Acquire(t)
    BY <1>1 DEF Acquire, Goto
<1>2. CASE EnsureInitialized(t)
    BY <1>2 DEF EnsureInitialized, Goto
<1>3. CASE UnknownCodestream(t)
    BY <1>3 DEF UnknownCodestream, Goto, Leave
<1>4. CASE Sniff(t)
    BY <1>4 DEF Sniff, Goto
<1>5. CASE Open(t)
    BY <1>5 DEF Open, Goto
<1>6. CASE OpenFails(t)
    BY <1>6 DEF OpenFails, Goto, Leave, Explain
<1>7. CASE ReadHeader(t)
    <2>1. CASE op[t].kind = "header_only"
        <3>1. result' = [result EXCEPT ![t] = [failed |-> "none", text |-> 0]]
            BY <1>7, <2>1 DEF ReadHeader, Leave
        <3>2. /\ result'[t].text = 0
              /\ \A c \in Callers \ {t} : result'[c] = result[c]
            BY <3>1
        <3> QED
            BY <1>7, <2>1, <3>2 DEF ReadHeader, Goto, Leave
    <2>2. CASE op[t].kind # "header_only"
        BY <1>7, <2>2 DEF ReadHeader, Goto
    <2> QED
        BY <2>1, <2>2
<1>8. CASE ReadHeaderFails(t)
    BY <1>8 DEF ReadHeaderFails, Goto, Leave, Explain
<1>9. CASE Decompress(t)
    BY <1>9 DEF Decompress, Goto
<1>10. CASE DecompressFails(t)
    BY <1>10 DEF DecompressFails, Goto, Leave, Explain
<1>11. CASE Unpack(t)
    <2>1. PICK step \in {"none", "unpack"} : Leave(t, step, 0)
        BY <1>11 DEF Unpack
    <2>2. /\ result'[t].text = 0
          /\ \A c \in Callers \ {t} : result'[c] = result[c]
        BY <2>1 DEF Leave
    <2> QED
        BY <1>11, <2>1, <2>2 DEF Unpack, Goto, Leave
<1>12. CASE Enter(t)
    BY <1>12 DEF Enter, Goto
<1> QED
    BY <1>1, <1>2, <1>3, <1>4, <1>5, <1>6, <1>7, <1>8, <1>9, <1>10, <1>11, <1>12 DEF Step
-----------------------------------------------------------------------------
\* The invariant holds in every reachable state.
THEOREM GrokInvariant == Safe => []IInv
<1>1. Init => IInv
    BY InitEstablishes
<1>2. IInv /\ [Next]_vars => IInv'
    <2> SUFFICES ASSUME IInv, [Next]_vars PROVE IInv'
        OBVIOUS
    <2>1. CASE UNCHANGED vars
        BY <2>1 DEF vars, IInv, TypeOK, LockOwned, PoolRuns, CodecConfined,
                    TextIsFresh, ErrorIsOwn
    <2>2. ASSUME NEW t \in Callers, Step(t) \/ Enter(t)
          PROVE  IInv'
        BY <2>2, TypeStep, LockStep, PoolStep, CodecStep, TextStep, ErrorStep
           DEF IInv
    <2> QED
        BY <2>1, <2>2 DEF Next, Ended
<1> QED
    BY <1>1, <1>2, PTL DEF Safe

\* Types: the pool has the size one of its callers asked for, whatever the
\* order of the calls.
THEOREM GrokTypeCorrect == Safe => []TypeOK
BY GrokInvariant, PTL DEF IInv

\* One decode at a time, whatever the number of bench threads: only the holder
\* of decode_mu_ is inside the library, and the pool runs before anyone is.
THEOREM OneDecodeHolds == Safe => []OneDecodeAtATime
<1>1. IInv => OneDecodeAtATime
    BY DEF IInv, LockOwned, PoolRuns, OneDecodeAtATime, InLibrary
<1> QED
    BY <1>1, GrokInvariant, PTL

\* No way out of an operation of the adapter leaks its codec.
THEOREM CodecConfinedHolds == Safe => []CodecConfined
BY GrokInvariant, PTL DEF IInv

\* The error text a call returns is about this very call.
THEOREM ErrorIsOwnHolds == Safe => []ErrorIsOwn
BY GrokInvariant, PTL DEF IInv
=============================================================================
