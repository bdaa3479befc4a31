------------------------------- MODULE Samples -------------------------------
(***************************************************************************)
(* One sample on its way from a decoder's library to the verdict: the      *)
(* unpacking of the two adapters (unpack_opj_image, unpack_grok_image),    *)
(* which both keep one or two bytes of it, and psnr_db of src/verify.cpp,  *)
(* which reads them back.                                                  *)
(***************************************************************************)
EXTENDS Integers, Sequences

CONSTANT ByteBits   \* bound: the bits of a byte (8 in the code)

\* 1 << n.
Bit[n \in Nat] == IF n = 0 THEN 1 ELSE 2 * Bit[n - 1]

Byte == Bit[ByteBits]

\* What a library may hand over for a sample of this precision.
Legal(prec, sgnd) ==
    IF sgnd THEN -(Bit[prec - 1])..Bit[prec - 1] - 1 ELSE 0..Bit[prec] - 1

Clamp(v, max) == IF v < 0 THEN 0 ELSE IF v > max THEN max ELSE v

\* Mutant: a signed sample is not shifted.
UnpackedUnshifted(v, prec, sgnd) ==
    IF prec <= ByteBits THEN <<Clamp(v, Byte - 1)>>
    ELSE LET u == Clamp(v, Bit[prec] - 1) IN <<u % Byte, (u \div Byte) % Byte>>

\* The bytes of one sample: shifted if signed, clamped, and as two bytes, the
\* low one first, if one is not enough.  A uint16_t drops what is above.
Unpacked(v, prec, sgnd) ==
    LET w == v + (IF sgnd THEN Bit[prec - 1] ELSE 0)
        u == Clamp(w, Bit[prec] - 1)
    IN  IF prec <= ByteBits THEN <<Clamp(w, Byte - 1)>>
        ELSE <<u % Byte, (u \div Byte) % Byte>>

\* sample() of verify.cpp.
SampleOf(bytes, prec) ==
    IF prec <= ByteBits THEN bytes[1] ELSE bytes[1] + Byte * bytes[2]
===============================================================================
