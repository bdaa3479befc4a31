----------------------------- MODULE GrokAdapter -----------------------------
(***************************************************************************)
(* GrokDecoder of src/adapter_grok.cpp: the lock decode_mu_ around every   *)
(* entry point, the lazy start of Grok's process-wide pool, the thread     *)
(* local error text, and the codec object on each way out.                 *)
(*                                                                         *)
(* decode, decode_with_stages and decode_region (decode plus a crop) have  *)
(* the same control and are one operation; header_only is the other.  The  *)
(* library is external: each of its calls may fail, and may report why     *)
(* through the error callback.  A report that comes on a thread of Grok's  *)
(* own pool is written to that thread's text, which nobody reads: to the   *)
(* caller it is no report.                                                 *)
(***************************************************************************)
EXTENDS Naturals, FiniteSets

CONSTANTS Callers,    \* the bench's threads
          NoThread,
          Sizes,      \* the num_threads the callers ask for
          MaxCalls    \* bound: how many calls are made

ASSUME GrokAssumption ==
    /\ NoThread \notin Callers
    /\ Sizes \subseteq Nat \ {0} /\ Sizes # {}
    /\ MaxCalls \in Nat

VARIABLES decodeMu,     \* who holds decode_mu_
          initialized,  \* initialized_
          poolSize,     \* what grk_initialize was given; 0 before
          pc,           \* where each caller is
          op,           \* the operation each caller is in
          codec,        \* the callers with a live codec object
          lastError,    \* g_last_grok_error of each thread: the call it is about
          result,       \* what each caller's last call returned
          call          \* which call each caller is in

vars == <<decodeMu, initialized, poolSize, pc, op, codec, lastError, result,
          call>>
-----------------------------------------------------------------------------
PC == {"idle", "wait", "init", "sniff", "open", "header", "decode", "unpack"}
InLibrary == {"open", "header", "decode", "unpack"}

\* A result names the step that failed ("none" on success) and the call whose
\* error text was appended (0 for none).
Result == [failed : {"none", "sniff", "open", "header", "decode", "unpack"},
           text : 0..MaxCalls]
Calls == Cardinality({n \in 1..MaxCalls : \E t \in Callers : call[t] >= n})

\* Types: the pool has the size one of the callers asked for.
TypeOK ==
    /\ decodeMu \in Callers \cup {NoThread}
    /\ initialized \in BOOLEAN
    /\ poolSize \in {0} \cup Sizes
    /\ pc \in [Callers -> PC]
    /\ op \in [Callers -> [kind : {"decode", "header_only"}, threads : Sizes]]
    /\ codec \subseteq Callers
    /\ lastError \in [Callers -> 0..MaxCalls]
    /\ result \in [Callers -> Result]
    /\ call \in [Callers -> 0..MaxCalls]

Init ==
    /\ decodeMu = NoThread
    /\ initialized = FALSE
    /\ poolSize = 0
    /\ pc = [t \in Callers |-> "idle"]
    /\ op = [t \in Callers |-> [kind |-> "decode", threads |-> CHOOSE n \in Sizes : TRUE]]
    /\ codec = {}
    /\ lastError = [t \in Callers |-> 0]
    /\ result = [t \in Callers |-> [failed |-> "none", text |-> 0]]
    /\ call = [t \in Callers |-> 0]

Goto(t, place) == pc' = [pc EXCEPT ![t] = place]

\* Return from the operation: decode_mu_ is released.
Leave(t, failed, text) ==
    /\ Goto(t, "idle")
    /\ decodeMu' = NoThread
    /\ result' = [result EXCEPT ![t] = [failed |-> failed, text |-> text]]

\* The error callback of a failing library call, if it is called at all.
Explain(t) == lastError' \in {lastError, [lastError EXCEPT ![t] = call[t]]}
-----------------------------------------------------------------------------
\* A bench thread calls; calls are numbered to tell their errors apart.
Enter(t) ==
    /\ pc[t] = "idle" /\ Calls < MaxCalls
    /\ \E o \in [kind : {"decode", "header_only"}, threads : Sizes] :
          op' = [op EXCEPT ![t] = o]
    /\ call' = [call EXCEPT ![t] = Calls + 1]
    /\ Goto(t, "wait")
    /\ UNCHANGED <<decodeMu, initialized, poolSize, codec, lastError, result>>

\* Mutant: the lock is not waited for.
AcquireNothing(t) ==
    /\ pc[t] = "wait"
    /\ decodeMu' = t
    /\ Goto(t, "init")
    /\ UNCHANGED <<initialized, poolSize, op, codec, lastError, result, call>>

Acquire(t) ==
    /\ pc[t] = "wait" /\ decodeMu = NoThread
    /\ decodeMu' = t
    /\ Goto(t, "init")
    /\ UNCHANGED <<initialized, poolSize, op, codec, lastError, result, call>>

\* Mutant: a later call adds its threads to the pool.
EnsureInitializedGrows(t) ==
    /\ pc[t] = "init"
    /\ initialized' = TRUE
    /\ poolSize' = poolSize + op[t].threads
    /\ Goto(t, "sniff")
    /\ UNCHANGED <<decodeMu, op, codec, lastError, result, call>>

EnsureInitialized(t) ==
    /\ pc[t] = "init"
    /\ initialized' = TRUE
    /\ poolSize' = IF initialized THEN poolSize ELSE op[t].threads
    /\ Goto(t, "sniff")
    /\ UNCHANGED <<decodeMu, op, codec, lastError, result, call>>

UnknownCodestream(t) ==
    /\ pc[t] = "sniff"
    /\ Leave(t, "sniff", 0)
    /\ UNCHANGED <<initialized, poolSize, op, codec, lastError, call>>

\* Mutant: the error text of the previous call on this thread stays.
SniffWithoutClear(t) ==
    /\ pc[t] = "sniff"
    /\ Goto(t, "open")
    /\ UNCHANGED <<decodeMu, initialized, poolSize, op, codec, lastError, result, call>>

\* The format is known; the error text is cleared.
Sniff(t) ==
    /\ pc[t] = "sniff"
    /\ lastError' = [lastError EXCEPT ![t] = 0]
    /\ Goto(t, "open")
    /\ UNCHANGED <<decodeMu, initialized, poolSize, op, codec, result, call>>

\* grk_decompress_init.
Open(t) ==
    /\ pc[t] = "open"
    /\ codec' = codec \cup {t}
    /\ Goto(t, "header")
    /\ UNCHANGED <<decodeMu, initialized, poolSize, op, lastError, result, call>>

OpenFails(t) ==
    /\ pc[t] = "open"
    /\ Explain(t)
    /\ Leave(t, "open", lastError'[t])
    /\ UNCHANGED <<initialized, poolSize, op, codec, call>>

\* grk_decompress_read_header; header_only ends here.
ReadHeader(t) ==
    /\ pc[t] = "header"
    /\ IF op[t].kind = "header_only"
       THEN Leave(t, "none", 0) /\ codec' = codec \ {t}
       ELSE Goto(t, "decode") /\ UNCHANGED <<decodeMu, result, codec>>
    /\ UNCHANGED <<initialized, poolSize, op, lastError, call>>

\* Mutant: the early return forgets the codec.
ReadHeaderFailsLeaking(t) ==
    /\ pc[t] = "header"
    /\ Explain(t)
    /\ Leave(t, "header", lastError'[t])
    /\ UNCHANGED <<initialized, poolSize, op, codec, call>>

ReadHeaderFails(t) ==
    /\ pc[t] = "header"
    /\ codec' = codec \ {t}
    /\ Explain(t)
    /\ Leave(t, "header", lastError'[t])
    /\ UNCHANGED <<initialized, poolSize, op, call>>

\* grk_decompress.
Decompress(t) ==
    /\ pc[t] = "decode"
    /\ Goto(t, "unpack")
    /\ UNCHANGED <<decodeMu, initialized, poolSize, op, codec, lastError, result, call>>

\* Mutant: an early return that keeps decode_mu_.
DecompressFailsLocked(t) ==
    /\ pc[t] = "decode"
    /\ codec' = codec \ {t}
    /\ Explain(t)
    /\ Goto(t, "idle")
    /\ result' = [result EXCEPT ![t] = [failed |-> "decode", text |-> lastError'[t]]]
    /\ UNCHANGED <<decodeMu, initialized, poolSize, op, call>>

DecompressFails(t) ==
    /\ pc[t] = "decode"
    /\ codec' = codec \ {t}
    /\ Explain(t)
    /\ Leave(t, "decode", lastError'[t])
    /\ UNCHANGED <<initialized, poolSize, op, call>>

\* unpack_grok_image, which has error texts of its own.
Unpack(t) ==
    /\ pc[t] = "unpack"
    /\ codec' = codec \ {t}
    /\ \E failed \in {"none", "unpack"} : Leave(t, failed, 0)
    /\ UNCHANGED <<initialized, poolSize, op, lastError, call>>
-----------------------------------------------------------------------------
Step(t) ==
    \/ Acquire(t)
    \/ EnsureInitialized(t)
    \/ UnknownCodestream(t)
    \/ Sniff(t)
    \/ Open(t)
    \/ OpenFails(t)
    \/ ReadHeader(t)
    \/ ReadHeaderFails(t)
    \/ Decompress(t)
    \/ DecompressFails(t)
    \/ Unpack(t)

Idle == \A t \in Callers : pc[t] = "idle"
Ended == Idle /\ Calls = MaxCalls /\ UNCHANGED vars
Next == (\E t \in Callers : Step(t) \/ Enter(t)) \/ Ended

Safe == Init /\ [][Next]_vars

\* Every thread that can run is scheduled and every library call returns.
\* decode_mu_ is not assumed fair: the calls are finitely many, so a caller
\* that waits is alone in the end.
Spec == Safe /\ \A t \in Callers : WF_vars(Step(t))
-----------------------------------------------------------------------------
\* Properties.

\* One decode at a time: only the holder of decode_mu_ is inside the library,
\* and the pool runs before anyone is.
OneDecodeAtATime ==
    \A t \in Callers :
        pc[t] \in InLibrary => decodeMu = t /\ initialized

\* No way out of an operation, error or not, leaves a codec alive, and none
\* releases it early.
CodecConfined ==
    \A t \in Callers : t \in codec <=> pc[t] \in InLibrary \ {"open"}

\* The error text a call returns is about this very call, whatever other
\* calls failed before it on the same thread.
ErrorIsOwn ==
    \A t \in Callers :
        pc[t] = "idle" => result[t].text \in {0, call[t]}

\* Every call returns: no early return keeps decode_mu_.
CallsReturn == \A t \in Callers : pc[t] = "wait" ~> pc[t] = "idle"
=============================================================================
