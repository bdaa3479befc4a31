------------------------------ MODULE OpjAdapter ------------------------------
(***************************************************************************)
(* OpjDynDecoder of src/adapter_opj.cpp and the loader of src/opj_dyn.cpp: *)
(* two libraries with the same symbols, each behind a table of its own,    *)
(* called without a lock by the bench's threads.  A call creates a stream  *)
(* over the caller's bytes, a codec and an image, and has to destroy what  *)
(* it created on each of its ways out.  The library is external: each of   *)
(* its calls whose result the code tests may fail, and may explain itself  *)
(* through the error callback on the calling thread.  The creation of the  *)
(* stream is not tested, and taken to succeed.                             *)
(***************************************************************************)
EXTENDS Integers, FiniteSets

CONSTANTS Callers,   \* the bench's threads
          Libs,      \* openjpeg and openjp2k
          Symbols,   \* bound: how many symbols a table has (22 in the code)
          Size,      \* bound: bytes in the code stream
          MaxCalls   \* bound: how many calls are made

ASSUME OpjAssumption ==
    /\ IsFiniteSet(Callers) /\ Libs # {}
    /\ Symbols \in Nat \ {0} /\ Size \in Nat \ {0} /\ MaxCalls \in Nat

VARIABLES lib,        \* LoadedLib and OpjApi of each library
          pc,         \* where each caller is
          op,         \* the operation and the library of each caller's call
          alive,      \* the library's objects each caller's call has live
          offset,     \* MemStream::offset of each caller's call
          lastError,  \* g_last_opj_error of each thread: the call it is about
          result,     \* what each caller's last call returned
          call        \* which call each caller is in

vars == <<lib, pc, op, alive, offset, lastError, result, call>>
-----------------------------------------------------------------------------
Kinds == {"header_only", "stages", "decode", "region"}
PC == {"idle", "sniff", "stream", "codec", "setup", "header", "area", "decode",
       "unpack"}
Objects == {"stream", "codec", "image"}
Stages == {"none", "unknown", "codec", "setup", "header", "area", "decode", "unpack"}

\* Where the library may call mem_read, mem_skip and mem_seek.
Streaming == {"header", "decode"}

Calls == Cardinality({n \in 1..MaxCalls : \E t \in Callers : call[t] >= n})

\* offset in particular: mem_skip subtracts it from size without a check, so no
\* order of callbacks may take it past the data.
TypeOK ==
    /\ lib \in [Libs -> [state : {"none", "loading", "loaded", "failed"},
                         handle : BOOLEAN, resolved : 0..Symbols]]
    /\ pc \in [Callers -> PC]
    /\ op \in [Callers -> [kind : Kinds, lib : Libs]]
    /\ alive \in [Callers -> SUBSET Objects]
    /\ offset \in [Callers -> 0..Size]
    /\ lastError \in [Callers -> 0..MaxCalls]
    /\ result \in [Callers -> [failed : Stages, text : 0..MaxCalls]]
    /\ call \in [Callers -> 0..MaxCalls]

Init ==
    /\ lib = [l \in Libs |-> [state |-> "none", handle |-> FALSE, resolved |-> 0]]
    /\ pc = [t \in Callers |-> "idle"]
    /\ op = [t \in Callers |-> [kind |-> "decode", lib |-> CHOOSE l \in Libs : TRUE]]
    /\ alive = [t \in Callers |-> {}]
    /\ offset = [t \in Callers |-> 0]
    /\ lastError = [t \in Callers |-> 0]
    /\ result = [t \in Callers |-> [failed |-> "none", text |-> 0]]
    /\ call = [t \in Callers |-> 0]
-----------------------------------------------------------------------------
(* load_opj_api, once per library, by the thread that makes the decoders.   *)

NoneLoading == \A l \in Libs : lib[l].state # "loading"
calling == <<pc, op, alive, offset, lastError, result, call>>

Dlopen(l) ==
    /\ lib[l].state = "none" /\ NoneLoading
    /\ lib' = [lib EXCEPT ![l] =
                 [state |-> "loading", handle |-> TRUE, resolved |-> 0]]
    /\ UNCHANGED calling

DlopenFails(l) ==
    /\ lib[l].state = "none" /\ NoneLoading
    /\ lib' = [lib EXCEPT ![l].state = "failed"]
    /\ UNCHANGED calling

\* The table is complete with its last symbol.
Resolve(l) ==
    /\ lib[l].state = "loading"
    /\ lib' = [lib EXCEPT
                 ![l].resolved = @ + 1,
                 ![l].state = IF lib[l].resolved + 1 = Symbols THEN "loaded"
                              ELSE "loading"]
    /\ UNCHANGED calling

\* Mutant: a missing symbol is passed over, the slot stays empty.
ResolveFailsSilently(l) ==
    /\ lib[l].state = "loading"
    /\ lib' = [lib EXCEPT ![l].state = "loaded"]
    /\ UNCHANGED calling

ResolveFails(l) ==
    /\ lib[l].state = "loading"
    /\ lib' = [lib EXCEPT ![l].state = "failed", ![l].handle = FALSE]
    /\ UNCHANGED calling
-----------------------------------------------------------------------------
Goto(t, place) == pc' = [pc EXCEPT ![t] = place]

\* The call returns with the objects in left still alive, {} in the code.
LeaveWith(t, left, failed, text) ==
    /\ Goto(t, "idle")
    /\ alive' = [alive EXCEPT ![t] = left]
    /\ result' = [result EXCEPT ![t] = [failed |-> failed, text |-> text]]

Leave(t, failed, text) == LeaveWith(t, {}, failed, text)

Proceed(t, place, objects) ==
    /\ Goto(t, place)
    /\ alive' = [alive EXCEPT ![t] = objects]
    /\ UNCHANGED result

\* opj_error_capture, if the failing library call says why.
Explain(t) == lastError' \in {lastError, [lastError EXCEPT ![t] = call[t]]}

\* opj_fail: the stage and, if there is one, the captured text.
OpjFail(t, stage) == Explain(t) /\ Leave(t, stage, lastError'[t])

\* One of the four operations, through the table of one library.  By then main
\* has asked for every decoder.
Enter(t) ==
    /\ pc[t] = "idle" /\ Calls < MaxCalls
    /\ \A l \in Libs : lib[l].state \in {"loaded", "failed"}
    /\ \E k \in Kinds, l \in Libs :
         /\ lib[l].state = "loaded"
         /\ op' = [op EXCEPT ![t] = [kind |-> k, lib |-> l]]
    /\ call' = [call EXCEPT ![t] = Calls + 1]
    /\ Goto(t, "sniff")
    /\ UNCHANGED <<lib, alive, offset, lastError, result>>

\* Mutant: the error text of the previous call on this thread stays.
SniffWithoutClear(t) ==
    /\ pc[t] = "sniff"
    /\ \/ Proceed(t, "stream", {})
       \/ Leave(t, "unknown", 0)
    /\ UNCHANGED <<lib, op, offset, lastError, call>>

\* The error text is cleared; the format is known or the call ends.
Sniff(t) ==
    /\ pc[t] = "sniff"
    /\ lastError' = [lastError EXCEPT ![t] = 0]
    /\ \/ Proceed(t, "stream", {})
       \/ Leave(t, "unknown", 0)
    /\ UNCHANGED <<lib, op, offset, call>>

CreateStream(t) ==
    /\ pc[t] = "stream"
    /\ offset' = [offset EXCEPT ![t] = 0]
    /\ Proceed(t, "codec", {"stream"})
    /\ UNCHANGED <<lib, op, lastError, call>>

\* A null codec: the stream goes, and no text is appended.
CreateCodec(t) ==
    /\ pc[t] = "codec"
    /\ \/ Proceed(t, "setup", {"stream", "codec"})
       \/ Leave(t, "codec", 0)
    /\ UNCHANGED <<lib, op, offset, lastError, call>>

\* opj_setup_decoder, then the strict mode and the threads.
SetupDecoder(t) ==
    /\ pc[t] = "setup"
    /\ \/ Proceed(t, "header", {"stream", "codec"}) /\ UNCHANGED lastError
       \/ OpjFail(t, "setup")
    /\ UNCHANGED <<lib, op, offset, call>>

\* opj_read_header succeeds; header_only is over.
ReadHeader(t) ==
    /\ pc[t] = "header"
    /\ CASE op[t].kind = "header_only" -> Leave(t, "none", 0)
         [] op[t].kind = "region"      -> Proceed(t, "area", Objects)
         [] OTHER                      -> Proceed(t, "decode", Objects)
    /\ UNCHANGED <<lib, op, offset, lastError, call>>

\* Mutant: the image that a failing opj_read_header left behind is kept.
ReadHeaderFailsLeaking(t) ==
    /\ pc[t] = "header"
    /\ Explain(t)
    /\ \E image \in SUBSET {"image"} : LeaveWith(t, image, "header", lastError'[t])
    /\ UNCHANGED <<lib, op, offset, call>>

\* A failing opj_read_header may leave an image or not.
ReadHeaderFails(t) ==
    /\ pc[t] = "header"
    /\ OpjFail(t, "header")
    /\ UNCHANGED <<lib, op, offset, call>>

SetDecodeArea(t) ==
    /\ pc[t] = "area"
    /\ \/ Proceed(t, "decode", Objects) /\ UNCHANGED lastError
       \/ OpjFail(t, "area")
    /\ UNCHANGED <<lib, op, offset, call>>

\* opj_decode and opj_end_decompress; decode and decode_region destroy codec
\* and stream before they unpack, decode_with_stages after.
Decode(t) ==
    /\ pc[t] = "decode"
    /\ Proceed(t, "unpack", IF op[t].kind = "stages" THEN Objects ELSE {"image"})
    /\ UNCHANGED <<lib, op, offset, lastError, call>>

DecodeFails(t) ==
    /\ pc[t] = "decode"
    /\ OpjFail(t, "decode")
    /\ UNCHANGED <<lib, op, offset, call>>

\* unpack_opj_image, which has error texts of its own.
Unpack(t) ==
    /\ pc[t] = "unpack"
    /\ \E failed \in {"none", "unpack"} : Leave(t, failed, 0)
    /\ UNCHANGED <<lib, op, offset, lastError, call>>
-----------------------------------------------------------------------------
(* The stream callbacks, at whatever place the library chooses.             *)

SmallerOf(a, b) == IF a < b THEN a ELSE b
MoveTo(t, n) ==
    /\ offset' = [offset EXCEPT ![t] = n]
    /\ UNCHANGED <<lib, pc, op, alive, lastError, result, call>>

\* mem_read and mem_skip advance by what is left at most.
Advance(t) ==
    /\ pc[t] \in Streaming
    /\ \E n \in 1..Size + 1 : MoveTo(t, offset[t] + SmallerOf(n, Size - offset[t]))

\* Mutant: a seek past the end is let through.
SeekAnywhere(t) ==
    /\ pc[t] \in Streaming
    /\ \E n \in -1..Size + 1 : n >= 0 /\ MoveTo(t, n)

\* mem_seek refuses a place outside the data.
Seek(t) ==
    /\ pc[t] \in Streaming
    /\ \E n \in -1..Size + 1 : n >= 0 /\ n <= Size /\ MoveTo(t, n)
-----------------------------------------------------------------------------
Load == \E l \in Libs : Dlopen(l) \/ DlopenFails(l) \/ Resolve(l) \/ ResolveFails(l)

Step(t) ==
    \/ Sniff(t)
    \/ CreateStream(t)
    \/ CreateCodec(t)
    \/ SetupDecoder(t)
    \/ ReadHeader(t)
    \/ ReadHeaderFails(t)
    \/ SetDecodeArea(t)
    \/ Decode(t)
    \/ DecodeFails(t)
    \/ Unpack(t)

Ended == /\ \A t \in Callers : pc[t] = "idle"
         /\ \A l \in Libs : lib[l].state \in {"loaded", "failed"}
         /\ UNCHANGED vars

Next == \/ Load
        \/ \E t \in Callers : Enter(t) \/ Step(t) \/ Advance(t) \/ Seek(t)
        \/ Ended

Spec == Init /\ [][Next]_vars
-----------------------------------------------------------------------------
\* Properties.

\* The objects that the place in the code uses.
Needs(t) ==
    CASE pc[t] \in {"idle", "sniff", "stream"} -> {}
      [] pc[t] = "codec"                       -> {"stream"}
      [] pc[t] \in {"setup", "header"}         -> {"stream", "codec"}
      [] pc[t] \in {"area", "decode"}          -> Objects
      [] pc[t] = "unpack"                      ->
           IF op[t].kind = "stages" THEN Objects ELSE {"image"}

\* What each call has alive is what its place in the code needs: a codec is
\* only used with its stream, the image is there to be unpacked although two
\* of the operations have destroyed the codec by then, and a call that has
\* returned, however it failed, leaves nothing behind.
ObjectsFollowTheCall == \A t \in Callers : alive[t] = Needs(t)

\* The error text a call returns is about this very call.
ErrorIsOwn ==
    \A t \in Callers : pc[t] = "idle" => result[t].text \in {0, call[t]}

\* A call only goes through a table that is complete and whose library is
\* open, also when the other library failed half-way through its loading, and
\* one that failed is not kept open.
CallsThroughFullTable ==
    /\ \A t \in Callers :
        pc[t] # "idle" =>
            lib[op[t].lib].handle /\ lib[op[t].lib].resolved = Symbols
    /\ \A l \in Libs : lib[l].state = "failed" => ~lib[l].handle

=============================================================================
