------------------------------ MODULE RoiDecode ------------------------------
(***************************************************************************)
(* --roi WxH@X,Y with verification, from the command line to the verdict:  *)
(* main.cpp turns it into a half-open rectangle in 32-bit words; OpenJPEG, *)
(* the reference, decodes that area of the reference grid natively         *)
(* (decode_region of adapter_opj.cpp); Grok decodes the whole image and    *)
(* the default of adapter.h copies the rectangle out plane by plane;       *)
(* bench_file compares the two.  A pixel is the index of a sample in the   *)
(* planar buffer of the whole image, and different samples are taken to    *)
(* have different values; the decoders may differ in one of them.          *)
(***************************************************************************)
EXTENDS Integers, Sequences, FiniteSets, Functions, Samples

CONSTANTS Word,      \* bound: words are taken modulo Word (2^32 in the code)
          MaxDim,    \* bound: the largest image
          MaxChans,  \* bound: the most components
          Asked,     \* the arguments given: W, H, X, Y
          Values     \* precision, signedness and the two values of a sample

ASSUME RoiAssumption ==
    /\ Word \in Nat \ {0} /\ MaxDim \in 1..Word - 1 /\ MaxChans \in Nat \ {0}
    /\ ByteBits \in Nat \ {0}
    /\ Asked \subseteq [w : 0..Word - 1, h : 0..Word - 1, x : 0..Word - 1, y : 0..Word - 1]
    /\ Values \subseteq [prec : Nat \ {0}, sgnd : BOOLEAN, opj : Int, grok : Int]
    /\ \A d \in Values : {d.opj, d.grok} \subseteq Legal(d.prec, d.sgnd)

VARIABLES asked,   \* the argument
          image,   \* origin on the grid, width, height, channels, subsampling
          roi,     \* opts.roi_x0 .. roi_y1, which the row repeats
          pc,      \* where the request is
          ref,     \* the reference: an image, or NoImage if its decode failed
          out,     \* the image decoded
          differ,  \* the sample in which the decoders differ
          row      \* pixel_match, and whether the PSNR is finite

vars == <<asked, image, roi, pc, ref, out, differ, row>>
-----------------------------------------------------------------------------
Dims == 1..MaxDim
Outcomes == {"ok", "failed", "subsampled", "empty"}
NoRoi == [x0 |-> 0, y0 |-> 0, x1 |-> 0, y1 |-> 0]
NoImage == [w |-> -1, h |-> -1, pixels |-> <<>>]
NoDiffer == [at |-> -1, prec |-> 1, sgnd |-> FALSE, opj |-> 0, grok |-> 0]

Init ==
    /\ asked \in Asked
    /\ image \in [x : 0..1, y : 0..1, w : Dims, h : Dims, chans : 1..MaxChans,
                  sub : BOOLEAN]
    /\ roi = NoRoi
    /\ pc = "argv"
    /\ ref = NoImage
    /\ out = NoImage
    /\ differ = NoDiffer
    /\ row = [match |-> -1, psnr |-> "none"]

\* Mutant: W and H are taken for the far corner.
ParseRoiCorner ==
    /\ pc = "argv"
    /\ roi' = [x0 |-> asked.x, y0 |-> asked.y, x1 |-> asked.w, y1 |-> asked.h]
    /\ pc' = "reference"
    /\ UNCHANGED <<asked, image, ref, out, differ, row>>

ParseRoi ==
    /\ pc = "argv"
    /\ roi' = [x0 |-> asked.x, y0 |-> asked.y,
               x1 |-> (asked.x + asked.w) % Word,
               y1 |-> (asked.y + asked.h) % Word]
    /\ pc' = "reference"
    /\ UNCHANGED <<asked, image, ref, out, differ, row>>
-----------------------------------------------------------------------------
(* The reference: OpenJPEG's own region decode.                             *)

\* The cast to OPJ_INT32.
Int32(w) == IF w < Word \div 2 THEN w ELSE w - Word

Smaller(a, b) == IF a < b THEN a ELSE b
Larger(a, b) == IF a > b THEN a ELSE b

\* The area asked for, on the grid; a far corner of 0 is the image's.
Area ==
    [x0 |-> Int32(roi.x0), y0 |-> Int32(roi.y0),
     x1 |-> IF roi.x1 = 0 THEN image.x + image.w ELSE Int32(roi.x1),
     y1 |-> IF roi.y1 = 0 THEN image.y + image.h ELSE Int32(roi.y1)]

\* What the library makes of it: its samples of the image, plane by plane.
NativeArea(a) ==
    LET x0 == Larger(a.x0 - image.x, 0)
        y0 == Larger(a.y0 - image.y, 0)
        w == Larger(Smaller(a.x1 - image.x, image.w) - x0, 0)
        h == Larger(Smaller(a.y1 - image.y, image.h) - y0, 0)
    IN  [w |-> w, h |-> h,
         pixels |-> [k \in 1..image.chans * w * h |->
                        ((k - 1) \div (w * h)) * image.w * image.h
                        + (y0 + ((k - 1) % (w * h)) \div w) * image.w
                        + x0 + ((k - 1) % w)]]

\* It refuses negative coordinates, and may refuse an area with no sample.
DecodeReference ==
    /\ pc = "reference"
    /\ Area.x0 >= 0 /\ Area.y0 >= 0 /\ Area.x1 > 0 /\ Area.y1 > 0
    /\ ref' = NativeArea(Area)
    /\ pc' = "decode"
    /\ UNCHANGED <<asked, image, roi, out, differ, row>>

\* set_decode_area, or anything else, fails: no reference.
ReferenceFails ==
    /\ pc = "reference"
    /\ pc' = "decode"
    /\ UNCHANGED <<asked, image, roi, ref, out, differ, row>>
-----------------------------------------------------------------------------
(* The other decoder: Grok's whole image, and the default crop.             *)

DecodeFails ==
    /\ pc = "decode"
    /\ pc' = "failed"
    /\ UNCHANGED <<asked, image, roi, ref, out, differ, row>>

\* The copy of the planes, whose rows are comp.stride apart in the library's
\* buffer (w if that is 0); -1 stands for the padding.
UnpackRows(stride) ==
    LET apart == IF stride = 0 THEN image.w ELSE stride
        Source(y, x) ==
            LET i == y * apart + x
            IN  IF i % apart < image.w THEN (i \div apart) * image.w + (i % apart) ELSE -1
    IN  [k \in 1..image.w * image.h * image.chans |->
            LET i == (k - 1) % (image.w * image.h)
            IN  k - 1 - i + Source(i \div image.w, i % image.w)]

\* The whole image, which stays in out if the crop is refused.
Decode ==
    /\ pc = "decode"
    /\ \E stride \in {0, image.w, image.w + 1} :
         out' = [w |-> image.w, h |-> image.h, pixels |-> UnpackRows(stride)]
    /\ pc' = "crop"
    /\ UNCHANGED <<asked, image, roi, ref, differ, row>>

\* A far corner of 0 stands for the edge of the image.
X1 == IF roi.x1 = 0 THEN image.w ELSE Smaller(roi.x1, image.w)
Y1 == IF roi.y1 = 0 THEN image.h ELSE Smaller(roi.y1, image.h)

\* Mutant: rows are as far apart in the source as in the copy.
CopyRowsNarrow(bw, bh) ==
    [k \in 1..image.chans * bw * bh |->
        LET c == (k - 1) \div (bw * bh)
            y == ((k - 1) % (bw * bh)) \div bw
            x == (k - 1) % bw
        IN  out.pixels[1 + c * image.w * image.h + (y + roi.y0) * bw + roi.x0 + x]]

\* The memcpy of each row of each plane.
CopyRows(bw, bh) ==
    [k \in 1..image.chans * bw * bh |->
        LET c == (k - 1) \div (bw * bh)
            y == ((k - 1) % (bw * bh)) \div bw
            x == (k - 1) % bw
        IN  out.pixels[1 + c * image.w * image.h + (y + roi.y0) * image.w + roi.x0 + x]]

Subsampled ==
    /\ pc = "crop" /\ image.sub
    /\ pc' = "subsampled"
    /\ UNCHANGED <<asked, image, roi, ref, out, differ, row>>

EmptyRegion ==
    /\ pc = "crop" /\ ~image.sub
    /\ roi.x0 >= X1 \/ roi.y0 >= Y1
    /\ pc' = "empty"
    /\ UNCHANGED <<asked, image, roi, ref, out, differ, row>>

Crop ==
    /\ pc = "crop" /\ ~image.sub
    /\ roi.x0 < X1 /\ roi.y0 < Y1
    /\ out' = [w |-> X1 - roi.x0, h |-> Y1 - roi.y0,
               pixels |-> CopyRows(X1 - roi.x0, Y1 - roi.y0)]
    /\ pc' = IF ref = NoImage THEN "ok" ELSE "compare"
    /\ UNCHANGED <<asked, image, roi, ref, differ, row>>
-----------------------------------------------------------------------------
(* The comparison: same_shape, the bytes, and the PSNR of a mismatch.       *)

BytesDiffer(d) ==
    \/ ref.pixels # out.pixels
    \/ d.at \in Range(out.pixels)
       /\ Unpacked(d.opj, d.prec, d.sgnd) # Unpacked(d.grok, d.prec, d.sgnd)

\* psnr_db finds no squared error.
PsnrInfinite(d) ==
    /\ ref.pixels = out.pixels
    /\ SampleOf(Unpacked(d.opj, d.prec, d.sgnd), d.prec)
         = SampleOf(Unpacked(d.grok, d.prec, d.sgnd), d.prec)

\* The decoders agree on every sample, or not on one of the first or last.
Differences ==
    {NoDiffer} \cup
    {[at |-> p, prec |-> v.prec, sgnd |-> v.sgnd, opj |-> v.opj, grok |-> v.grok] :
        v \in Values, p \in {0, image.w * image.h * image.chans - 1}}

Verdict(d) ==
    IF <<ref.w, ref.h>> # <<out.w, out.h>> THEN [match |-> 0, psnr |-> "none"]
    ELSE IF BytesDiffer(d)
         THEN [match |-> 0, psnr |-> IF PsnrInfinite(d) THEN "infinite" ELSE "finite"]
         ELSE [match |-> 1, psnr |-> "none"]

Compare ==
    /\ pc = "compare"
    /\ differ' \in Differences
    /\ row' = Verdict(differ')
    /\ pc' = "ok"
    /\ UNCHANGED <<asked, image, roi, ref, out>>

Returned == pc \in Outcomes

Next ==
    \/ ParseRoi
    \/ DecodeReference
    \/ ReferenceFails
    \/ Decode
    \/ DecodeFails
    \/ Subsampled
    \/ EmptyRegion
    \/ Crop
    \/ Compare
    \/ Returned /\ UNCHANGED vars

Spec == Init /\ [][Next]_vars
-----------------------------------------------------------------------------
\* Properties.

InRect(x, y, x0, y0, x1, y1) == x0 <= x /\ x < x1 /\ y0 <= y /\ y < y1

\* The copy is the rectangle, whatever its place and the stride of the
\* library's buffer: every sample of it once, of every plane, in raster order,
\* and nothing from outside; width and height fit the buffer.
CropIsRegion ==
    pc = "ok" =>
        /\ Range(out.pixels) =
             {p[1] * image.w * image.h + p[3] * image.w + p[2] :
                p \in {q \in (0..image.chans - 1) \X (0..image.w - 1) \X (0..image.h - 1) :
                         InRect(q[2], q[3], roi.x0, roi.y0, X1, Y1)}}
        /\ \A i, k \in DOMAIN out.pixels : i < k => out.pixels[i] < out.pixels[k]
        /\ Len(out.pixels) = out.w * out.h * image.chans

\* The samples of the image inside the rectangle of the argument.
Wanted ==
    {p \in (0..image.w - 1) \X (0..image.h - 1) :
        InRect(p[1], p[2], asked.x, asked.y, asked.x + asked.w, asked.y + asked.h)}

Fits == asked.x + asked.w \in 1..Word - 1 /\ asked.y + asked.h \in 1..Word - 1

\* If the far corner of the argument is neither 0 nor past the last word,
\* the answer is what was asked for: an error exactly when no sample of the
\* image lies inside, else as many samples as do.
RoiHonoured ==
    /\ pc = "empty" /\ Fits => Wanted = {}
    /\ pc = "ok" /\ Fits =>
         /\ Wanted # {}
         /\ Len(out.pixels) = image.chans * Cardinality(Wanted)

\* "0 = mismatch, 1 = match" (bench.h 49-50) across two ways to a region and
\* two unpackings: for an image whose grid starts at (0, 0), and samples of at
\* most two bytes, the verdict is 1 exactly when the decoders agree on every
\* sample of the region, and a mismatch has a finite PSNR.
VerdictTellsSamples ==
    (pc = "ok" /\ row.match # -1 /\ image.x = 0 /\ image.y = 0
     /\ differ.prec <= 2 * ByteBits) =>
        /\ row.match = 1 <=> ~(differ.opj # differ.grok /\ differ.at \in Range(out.pixels))
        /\ row.match = 0 => row.psnr = "finite"
=============================================================================
