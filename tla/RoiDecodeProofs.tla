--------------------------- MODULE RoiDecodeProofs ---------------------------
(***************************************************************************)
(* A region decode, for every width of a word and of a byte, every image,  *)
(* rectangle and pair of sample values.                                    *)
(***************************************************************************)
EXTENDS RoiDecode, FiniteSetTheorems, WellFoundedInduction, TLAPS

\* Widths, heights, numbers of components, precisions.
Positive == Nat \ {0}

\* The place of the sample (c, y, x) in planes of h rows of w samples.
At(c, y, x, w, h) == c * w * h + y * w + x

\* A place in a raster falls in one plane, one row and one column.
LEMMA PlaceHas ==
    ASSUME NEW w \in Positive, NEW h \in Positive, NEW C \in Positive,
           NEW i \in 0..C * w * h - 1
    PROVE  /\ i \div (w * h) \in 0..C - 1
           /\ (i % (w * h)) \div w \in 0..h - 1
           /\ i % w \in 0..w - 1
           /\ i = At(i \div (w * h), (i % (w * h)) \div w, i % w, w, h)
<1> USE DEF Positive
<1> DEFINE n == w * h
           c == i \div n
           r == i % n
           y == r \div w
           x == r % w
<1>1. n \in Nat \ {0} /\ i \in Nat /\ C * w * h = C * n
  OBVIOUS
<1> HIDE DEF n
<1>2. c \in Nat /\ r \in 0..n - 1 /\ i = c * n + r
  BY <1>1
<1> HIDE DEF c, r
<1>3. c <= C - 1
  <2>1. CASE c >= C
    <3>1. c * n >= C * n
      BY <2>1, <1>1, <1>2
    <3> QED
      BY <3>1, <1>1, <1>2
  <2> QED
    BY <2>1, <1>2
<1>4. y \in Nat /\ x \in 0..w - 1 /\ r = y * w + x
  BY <1>2
<1> HIDE DEF y, x
<1>5. y <= h - 1
  <2>1. CASE y >= h
    <3>1. y * w >= h * w
      BY <2>1, <1>4
    <3> QED
      BY <3>1, <1>2, <1>4 DEF n
  <2> QED
    BY <2>1, <1>4
<1>6. i = (c * h + y) * w + x
  BY <1>2, <1>4 DEF n
<1>7. c * h + y \in Nat
  BY <1>2, <1>4
<1>8. i % w = x
  BY <1>4, <1>6, <1>7
<1>9. i = At(c, y, x, w, h)
  BY <1>6, <1>2, <1>4 DEF At
<1> QED
  BY <1>2, <1>3, <1>4, <1>5, <1>8, <1>9 DEF c, r, y, x, n

\* And each plane, row and column has its place.
LEMMA PlaceIs ==
    ASSUME NEW w \in Positive, NEW h \in Positive, NEW C \in Positive,
           NEW c \in 0..C - 1, NEW y \in 0..h - 1, NEW x \in 0..w - 1
    PROVE  /\ At(c, y, x, w, h) \in 0..C * w * h - 1
           /\ At(c, y, x, w, h) \div (w * h) = c
           /\ (At(c, y, x, w, h) % (w * h)) \div w = y
           /\ At(c, y, x, w, h) % w = x
<1> USE DEF Positive
<1> DEFINE n == w * h
           r == y * w + x
<1>1. n \in Nat \ {0} /\ C * w * h = C * n /\ c * w * h = c * n
  OBVIOUS
<1>2. r \in 0..n - 1
  <2>1. y * w <= (h - 1) * w
    OBVIOUS
  <2>2. (h - 1) * w = n - w
    OBVIOUS
  <2> QED
    BY <2>1, <2>2, <1>1
<1>3. At(c, y, x, w, h) = c * n + r
  BY DEF At
<1>4. r \div w = y /\ r % w = x
  OBVIOUS
<1>5. At(c, y, x, w, h) = (c * h + y) * w + x /\ c * h + y \in Nat
  BY DEF At
<1>6. At(c, y, x, w, h) % w = x
  <2> DEFINE m == c * h + y
  <2>1. m \in Nat
    OBVIOUS
  <2>2. At(c, y, x, w, h) = m * w + x
    BY <1>5
  <2> HIDE DEF m
  <2>3. (m * w + x) % w = x
    BY <2>1
  <2> QED
    BY <2>2, <2>3
<1> HIDE DEF n, r
<1>7. (c * n + r) \div n = c /\ (c * n + r) % n = r
  BY <1>1, <1>2
<1>8. c * n <= (C - 1) * n /\ (C - 1) * n = C * n - n
  BY <1>1
<1>9. c * n + r \in 0..C * n - 1
  BY <1>1, <1>2, <1>8
<1> QED
  BY <1>1, <1>3, <1>4, <1>6, <1>7, <1>9 DEF n

\* Places are in the order of the planes, then the rows, then the columns.
LEMMA PlacesInOrder ==
    ASSUME NEW w \in Positive, NEW h \in Positive,
           NEW c \in Nat, NEW y \in 0..h - 1, NEW x \in 0..w - 1,
           NEW d \in Nat, NEW v \in 0..h - 1, NEW u \in 0..w - 1
    PROVE  At(c, y, x, w, h) < At(d, v, u, w, h) <=>
             c < d \/ (c = d /\ (y < v \/ (y = v /\ x < u)))
<1> USE DEF Positive
<1> DEFINE n == w * h
           r == y * w + x
           s == v * w + u
<1>1. n \in Nat \ {0}
  OBVIOUS
<1>2. r \in 0..n - 1 /\ s \in 0..n - 1
  <2>1. y * w <= (h - 1) * w /\ v * w <= (h - 1) * w
    OBVIOUS
  <2>2. (h - 1) * w = n - w
    OBVIOUS
  <2> QED
    BY <2>1, <2>2, <1>1
<1>3. r < s <=> y < v \/ (y = v /\ x < u)
  <2>1. ASSUME y < v PROVE r < s
    <3>1. (y + 1) * w <= v * w /\ (y + 1) * w = y * w + w
      BY <2>1
    <3> QED
      BY <3>1
  <2>2. ASSUME v < y PROVE s < r
    <3>1. (v + 1) * w <= y * w /\ (v + 1) * w = v * w + w
      BY <2>2
    <3> QED
      BY <3>1
  <2> QED
    BY <2>1, <2>2
<1>4. At(c, y, x, w, h) = c * n + r /\ At(d, v, u, w, h) = d * n + s
  BY DEF At
<1> HIDE DEF n, r, s
<1>5. ASSUME c < d PROVE c * n + r < d * n + s
  <2>1. (c + 1) * n <= d * n /\ (c + 1) * n = c * n + n
    BY <1>1, <1>5
  <2> QED
    BY <2>1, <1>1, <1>2
<1>6. ASSUME d < c PROVE d * n + s < c * n + r
  <2>1. (d + 1) * n <= c * n /\ (d + 1) * n = d * n + n
    BY <1>1, <1>6
  <2> QED
    BY <2>1, <1>1, <1>2
<1> QED
  BY <1>1, <1>2, <1>3, <1>4, <1>5, <1>6
-----------------------------------------------------------------------------
\* The samples of the rectangle of w by h samples at (x0, y0) of an image of
\* W by H, plane by plane and row by row.
Raster(W, H, C, x0, y0, w, h) ==
    [k \in 1..C * w * h |->
        ((k - 1) \div (w * h)) * W * H
        + (y0 + ((k - 1) % (w * h)) \div w) * W
        + x0 + ((k - 1) % w)]

\* What CropIsRegion says of the samples of a copy.
IsRectangle(px, W, H, C, x0, y0, x1, y1) ==
    /\ Range(px) =
         {p[1] * W * H + p[3] * W + p[2] :
            p \in {q \in (0..C - 1) \X (0..W - 1) \X (0..H - 1) :
                     InRect(q[2], q[3], x0, y0, x1, y1)}}
    /\ \A i, k \in DOMAIN px : i < k => px[i] < px[k]
    /\ Len(px) = C * (x1 - x0) * (y1 - y0)

\* The copy holds each sample of the rectangle once, in raster order, and
\* nothing else.
LEMMA RasterIsRectangle ==
    ASSUME NEW W \in Positive, NEW H \in Positive, NEW C \in Positive,
           NEW x0 \in Nat, NEW y0 \in Nat, NEW w \in Positive, NEW h \in Positive,
           NEW x1 \in Nat, NEW y1 \in Nat,
           x0 + w = x1, x1 <= W, y0 + h = y1, y1 <= H
    PROVE  IsRectangle(Raster(W, H, C, x0, y0, w, h), W, H, C, x0, y0, x1, y1)
<1> DEFINE px == Raster(W, H, C, x0, y0, w, h)
           Rect == {q \in (0..C - 1) \X (0..W - 1) \X (0..H - 1) :
                      InRect(q[2], q[3], x0, y0, x1, y1)}
           Expected == {p[1] * W * H + p[3] * W + p[2] : p \in Rect}
<1>1. w \in Positive /\ h \in Positive /\ x1 = x0 + w /\ y1 = y0 + h
  OBVIOUS
<1>2. C * w * h \in Nat
  BY <1>1 DEF Positive
<1>3. DOMAIN px = 1..C * w * h
  BY DEF Raster
<1>4. Len(px) = C * w * h
  BY <1>2, <1>3 DEF Raster
<1>5. ASSUME NEW k \in DOMAIN px
      PROVE  \E c \in 0..C - 1, y \in 0..h - 1, x \in 0..w - 1 :
                k - 1 = At(c, y, x, w, h) /\ px[k] = At(c, y0 + y, x0 + x, W, H)
  <2> DEFINE c == (k - 1) \div (w * h)
             y == ((k - 1) % (w * h)) \div w
             x == (k - 1) % w
  <2>1. k - 1 \in 0..C * w * h - 1
    BY <1>2, <1>3
  <2>2. c \in 0..C - 1 /\ y \in 0..h - 1 /\ x \in 0..w - 1 /\ k - 1 = At(c, y, x, w, h)
    BY <2>1, PlaceHas
  <2>3. px[k] = c * W * H + (y0 + y) * W + x0 + x
    BY <1>3 DEF Raster
  <2> HIDE DEF c, y, x, px
  <2>4. c * W * H + (y0 + y) * W + x0 + x = At(c, y0 + y, x0 + x, W, H)
    BY <2>2 DEF At, Positive
  <2> QED
    BY <2>2, <2>3, <2>4
<1>6. \A y \in 0..h - 1, x \in 0..w - 1 : y0 + y \in 0..H - 1 /\ x0 + x \in 0..W - 1
  BY <1>1 DEF Positive
<1>7. ASSUME NEW i \in DOMAIN px, NEW k \in DOMAIN px, i < k
      PROVE  px[i] < px[k]
  <2>1. PICK c \in 0..C - 1, y \in 0..h - 1, x \in 0..w - 1 :
             i - 1 = At(c, y, x, w, h) /\ px[i] = At(c, y0 + y, x0 + x, W, H)
    BY <1>5
  <2>2. PICK d \in 0..C - 1, v \in 0..h - 1, u \in 0..w - 1 :
             k - 1 = At(d, v, u, w, h) /\ px[k] = At(d, y0 + v, x0 + u, W, H)
    BY <1>5
  <2>3. At(c, y, x, w, h) < At(d, v, u, w, h)
    BY <1>2, <1>3, <1>7, <2>1, <2>2
  <2>4. c \in Nat /\ d \in Nat
    BY DEF Positive
  <2>5. c < d \/ (c = d /\ (y < v \/ (y = v /\ x < u)))
    BY <2>3, <2>4, PlacesInOrder, SMTT(30)
  <2>6. c < d \/ (c = d /\ (y0 + y < y0 + v \/ (y0 + y = y0 + v /\ x0 + x < x0 + u)))
    BY <2>5, <1>1 DEF Positive
  <2>7. y0 + y \in 0..H - 1 /\ x0 + x \in 0..W - 1 /\ y0 + v \in 0..H - 1 /\ x0 + u \in 0..W - 1
    BY <1>6
  <2>8. At(c, y0 + y, x0 + x, W, H) < At(d, y0 + v, x0 + u, W, H)
    BY <2>4, <2>6, <2>7, PlacesInOrder
  <2> QED
    BY <2>1, <2>2, <2>8
<1>8. ASSUME NEW k \in DOMAIN px
      PROVE  px[k] \in Expected
  <2>1. PICK c \in 0..C - 1, y \in 0..h - 1, x \in 0..w - 1 :
             px[k] = At(c, y0 + y, x0 + x, W, H)
    BY <1>5
  <2> DEFINE p == <<c, x0 + x, y0 + y>>
  <2>2. p \in (0..C - 1) \X (0..W - 1) \X (0..H - 1)
    BY <1>6
  <2>3. InRect(x0 + x, y0 + y, x0, y0, x1, y1)
    BY <1>1 DEF InRect, Positive
  <2>4. p \in Rect
    BY <2>2, <2>3
  <2>5. px[k] = p[1] * W * H + p[3] * W + p[2]
    BY <2>1 DEF At
  <2> QED
    BY <2>4, <2>5
<1>9. ASSUME NEW p \in Rect
      PROVE  \E k \in DOMAIN px : px[k] = p[1] * W * H + p[3] * W + p[2]
  <2> DEFINE c == p[1]
             x == p[2] - x0
             y == p[3] - y0
             k == At(c, y, x, w, h) + 1
  <2>1. c \in 0..C - 1 /\ x \in 0..w - 1 /\ y \in 0..h - 1 /\ p[2] = x0 + x /\ p[3] = y0 + y
    BY <1>1 DEF InRect, Positive
  <2>2. /\ At(c, y, x, w, h) \in 0..C * w * h - 1
        /\ At(c, y, x, w, h) \div (w * h) = c
        /\ (At(c, y, x, w, h) % (w * h)) \div w = y
        /\ At(c, y, x, w, h) % w = x
    BY <1>1, <2>1, PlaceIs
  <2>3. k \in 1..C * w * h /\ k - 1 = At(c, y, x, w, h)
    BY <1>2, <2>2
  <2>4. k \in DOMAIN px
    BY <1>3, <2>3
  <2> HIDE DEF k
  <2>5. px[k] = ((k - 1) \div (w * h)) * W * H
                + (y0 + ((k - 1) % (w * h)) \div w) * W + x0 + ((k - 1) % w)
    BY <2>3 DEF Raster
  <2> HIDE DEF c, x, y, px
  <2>6. px[k] = c * W * H + (y0 + y) * W + x0 + x
    BY <2>2, <2>3, <2>5
  <2>7. c * W * H + (y0 + y) * W + x0 + x = c * W * H + (y0 + y) * W + (x0 + x)
    BY <2>1, <1>1 DEF Positive
  <2> QED
    BY <2>1, <2>4, <2>6, <2>7 DEF c
<1>10. Range(px) = Expected
  <2> HIDE DEF px, Rect
  <2>1. Range(px) = {px[k] : k \in DOMAIN px}
    BY DEF Range
  <2> QED
    BY <2>1, <1>8, <1>9
<1>11. w = x1 - x0 /\ h = y1 - y0
  BY <1>1 DEF Positive
<1> QED
  BY <1>4, <1>7, <1>10, <1>11 DEF IsRectangle
-----------------------------------------------------------------------------
\* Types: the request is one of those given, the image one of those drawn.
Places == {"argv", "reference", "decode", "crop", "compare"} \cup Outcomes

TypeOK ==
    /\ asked \in Asked
    /\ image \in [x : 0..1, y : 0..1, w : Dims, h : Dims, chans : 1..MaxChans,
                  sub : BOOLEAN]
    /\ pc \in Places

\* The rectangle is the argument's.
Parsed ==
    pc # "argv" => roi = [x0 |-> asked.x, y0 |-> asked.y,
                          x1 |-> (asked.x + asked.w) % Word,
                          y1 |-> (asked.y + asked.h) % Word]

\* Before the crop, out is the whole image, whatever the stride was.
Whole ==
    pc = "crop" => out = [w |-> image.w, h |-> image.h,
                          pixels |-> [k \in 1..image.w * image.h * image.chans |-> k - 1]]

\* Behind it, the rectangle.
Cropped ==
    pc \in {"compare", "ok"} =>
        /\ roi.x0 < X1 /\ roi.y0 < Y1
        /\ out = [w |-> X1 - roi.x0, h |-> Y1 - roi.y0,
                  pixels |-> Raster(image.w, image.h, image.chans, roi.x0, roi.y0,
                                    X1 - roi.x0, Y1 - roi.y0)]

\* A request is refused only when the rectangle has no sample.
Refused == pc = "empty" => roi.x0 >= X1 \/ roi.y0 >= Y1

\* The reference is the area asked for, in words that were not negative.
Referred ==
    ref # NoImage =>
        /\ pc \notin {"argv", "reference"}
        /\ ref = NativeArea(Area)
        /\ Area.x0 >= 0 /\ Area.y0 >= 0 /\ Area.x1 > 0 /\ Area.y1 > 0

\* Only with a reference is there a comparison, and the verdict is about the
\* images compared.
Judged ==
    /\ pc = "compare" => ref # NoImage
    /\ row.match # -1 => /\ pc = "ok" /\ ref # NoImage
                         /\ differ \in Differences
                         /\ row = Verdict(differ)

\* The inductive invariant.
RoiInv == TypeOK /\ Parsed /\ Whole /\ Cropped /\ Refused /\ Referred /\ Judged
-----------------------------------------------------------------------------
\* The numbers of a request.
LEMMA Numbers ==
    ASSUME TypeOK, Parsed
    PROVE  /\ image.w \in Positive /\ image.h \in Positive /\ image.chans \in Positive
           /\ image.x \in 0..1 /\ image.y \in 0..1
           /\ pc # "argv" => /\ roi.x0 \in 0..Word - 1 /\ roi.y0 \in 0..Word - 1
                             /\ roi.x1 \in 0..Word - 1 /\ roi.y1 \in 0..Word - 1
                             /\ X1 \in 0..image.w /\ Y1 \in 0..image.h
<1>1. /\ image.w \in 1..MaxDim /\ image.h \in 1..MaxDim /\ image.chans \in 1..MaxChans
      /\ image.x \in 0..1 /\ image.y \in 0..1
  BY DEF TypeOK, Dims
<1>2. MaxDim \in Nat /\ MaxChans \in Nat /\ Word \in Nat \ {0}
  BY RoiAssumption
<1>3. ASSUME pc # "argv"
      PROVE  /\ roi.x0 \in 0..Word - 1 /\ roi.y0 \in 0..Word - 1
             /\ roi.x1 \in 0..Word - 1 /\ roi.y1 \in 0..Word - 1
  <2>1. /\ asked.x \in 0..Word - 1 /\ asked.y \in 0..Word - 1
        /\ asked.w \in 0..Word - 1 /\ asked.h \in 0..Word - 1
    BY RoiAssumption DEF TypeOK
  <2>2. (asked.x + asked.w) % Word \in 0..Word - 1 /\ (asked.y + asked.h) % Word \in 0..Word - 1
    BY <2>1, <1>2
  <2> QED
    BY <1>3, <2>1, <2>2 DEF Parsed
<1>4. ASSUME pc # "argv" PROVE X1 \in 0..image.w /\ Y1 \in 0..image.h
  BY <1>1, <1>2, <1>3, <1>4 DEF X1, Y1, Smaller
<1> QED
  BY <1>1, <1>2, <1>3, <1>4 DEF Positive

\* Whatever the stride of the library's buffer, its rows are copied to where
\* they belong.
LEMMA RowsUnpacked ==
    ASSUME TypeOK, Parsed, NEW stride \in {0, image.w, image.w + 1}
    PROVE  UnpackRows(stride) = [k \in 1..image.w * image.h * image.chans |-> k - 1]
<1> DEFINE W == image.w
           H == image.h
           N == W * H * image.chans
           apart == IF stride = 0 THEN W ELSE stride
<1>1. W \in Positive /\ H \in Positive /\ image.chans \in Positive
  BY Numbers
<1>2. apart \in {W, W + 1}
  BY <1>1 DEF Positive
<1> HIDE DEF W, H, apart
<1>3. N \in Nat
  BY <1>1 DEF Positive, W, H
<1>4. ASSUME NEW k \in 1..N
      PROVE  LET i == (k - 1) % (W * H)
                 y == i \div W
                 x == i % W
                 j == y * apart + x
             IN  k - 1 - i + (IF j % apart < W THEN (j \div apart) * W + (j % apart) ELSE -1)
                   = k - 1
  <2> DEFINE i == (k - 1) % (W * H)
             y == i \div W
             x == i % W
             j == y * apart + x
  <2>1. W * H \in Nat \ {0} /\ k - 1 \in Nat
    BY <1>1, <1>3 DEF Positive
  <2>2. i \in Nat
    BY <2>1
  <2> HIDE DEF i, N
  <2>3. y \in Nat /\ x \in 0..W - 1 /\ i = y * W + x
    BY <2>2, <1>1 DEF Positive
  <2> HIDE DEF y, x
  <2>4. apart \in Nat \ {0} /\ x \in 0..apart - 1
    BY <1>1, <1>2, <2>3 DEF Positive
  <2>5. j \div apart = y /\ j % apart = x
    BY <2>3, <2>4
  <2> HIDE DEF j
  <2>6. k - 1 - i + (IF j % apart < W THEN (j \div apart) * W + (j % apart) ELSE -1) = k - 1
    BY <2>1, <2>2, <2>3, <2>5, <1>1 DEF Positive
  <2> QED
    BY <2>6 DEF i, y, x, j
<1>5. UnpackRows(stride)
        = [k \in 1..N |->
             LET i == (k - 1) % (W * H)
                 y == i \div W
                 x == i % W
                 j == y * apart + x
             IN  k - 1 - i + (IF j % apart < W THEN (j \div apart) * W + (j % apart) ELSE -1)]
  BY DEF UnpackRows, W, H, apart
<1> HIDE DEF N
<1>6. UnpackRows(stride) = [k \in 1..N |-> k - 1]
  BY <1>4, <1>5
<1> QED
  BY <1>6 DEF N, W, H

\* The rows copied out of the whole image are the rectangle.
LEMMA RowsCopied ==
    ASSUME TypeOK, Parsed, Whole, pc = "crop", roi.x0 < X1, roi.y0 < Y1
    PROVE  CopyRows(X1 - roi.x0, Y1 - roi.y0)
             = Raster(image.w, image.h, image.chans, roi.x0, roi.y0, X1 - roi.x0, Y1 - roi.y0)
<1> DEFINE W == image.w
           H == image.h
           C == image.chans
           x0 == roi.x0
           y0 == roi.y0
           w == X1 - x0
           h == Y1 - y0
<1>1. /\ W \in Positive /\ H \in Positive /\ C \in Positive /\ x0 \in Nat /\ y0 \in Nat
      /\ w \in Positive /\ h \in Positive /\ x0 + w <= W /\ y0 + h <= H
  BY Numbers, RoiAssumption DEF Positive
<1>2. out.pixels = [k \in 1..W * H * C |-> k - 1]
  BY DEF Whole
<1>3. CopyRows(w, h)
        = [k \in 1..C * w * h |->
             out.pixels[1 + ((k - 1) \div (w * h)) * W * H
                        + (((k - 1) % (w * h)) \div w + y0) * W + x0 + ((k - 1) % w)]]
  BY DEF CopyRows
<1> HIDE DEF W, H, C, x0, y0, w, h
<1>4. C * w * h \in Nat
  BY <1>1 DEF Positive
<1> DEFINE M == W * H * C
<1>5. M \in Nat /\ C * W * H = M
  BY <1>1 DEF Positive
<1> HIDE DEF M
<1>6. ASSUME NEW k \in 1..C * w * h
      PROVE  out.pixels[1 + ((k - 1) \div (w * h)) * W * H
                        + (((k - 1) % (w * h)) \div w + y0) * W + x0 + ((k - 1) % w)]
               = ((k - 1) \div (w * h)) * W * H
                 + (y0 + ((k - 1) % (w * h)) \div w) * W + x0 + ((k - 1) % w)
  <2> DEFINE c == (k - 1) \div (w * h)
             y == ((k - 1) % (w * h)) \div w
             x == (k - 1) % w
  <2>1. k - 1 \in 0..C * w * h - 1
    BY <1>4
  <2>2. c \in 0..C - 1 /\ y \in 0..h - 1 /\ x \in 0..w - 1
    BY <1>1, <2>1, PlaceHas
  <2> HIDE DEF c, y, x
  <2>3. y0 + y \in 0..H - 1 /\ x0 + x \in 0..W - 1
    BY <1>1, <2>2 DEF Positive
  <2>4. At(c, y0 + y, x0 + x, W, H) \in 0..C * W * H - 1
    BY <1>1, <2>2, <2>3, PlaceIs
  <2>5. 1 + c * W * H + (y + y0) * W + x0 + x = 1 + At(c, y0 + y, x0 + x, W, H)
        /\ c * W * H + (y0 + y) * W + x0 + x = At(c, y0 + y, x0 + x, W, H)
    BY <1>1, <2>2 DEF At, Positive
  <2> DEFINE a == At(c, y0 + y, x0 + x, W, H)
  <2> HIDE DEF a
  <2>6. a \in 0..M - 1
    BY <1>5, <2>4 DEF a
  <2>7. 1 + a \in 1..M /\ (1 + a) - 1 = a
    BY <1>5, <2>6
  <2>8. out.pixels[1 + a] = a
    BY <1>2, <2>7 DEF M
  <2>9. out.pixels[1 + c * W * H + (y + y0) * W + x0 + x] = c * W * H + (y0 + y) * W + x0 + x
    BY <2>5, <2>8 DEF a
  <2> QED
    BY <2>9 DEF c, y, x
<1>7. CopyRows(w, h) = Raster(W, H, C, x0, y0, w, h)
  BY <1>3, <1>6 DEF Raster
<1> QED
  BY <1>7 DEF W, H, C, x0, y0, w, h
-----------------------------------------------------------------------------
\* A request starts with nothing parsed, decoded or compared.
LEMMA InitInv == Init => RoiInv
BY DEF Init, RoiInv, TypeOK, Parsed, Whole, Cropped, Refused, Referred, Judged, Places, Outcomes

\* The reference stays what it is.
LEMMA ReferenceKept ==
    ASSUME Referred, UNCHANGED <<image, roi, ref>>, pc # "argv", pc # "reference",
           pc' \notin {"argv", "reference"}
    PROVE  Referred'
<1>1. Area' = Area
  BY DEF Area
<1>2. NativeArea(Area)' = NativeArea(Area)
  BY <1>1 DEF NativeArea
<1> QED
  BY <1>1, <1>2 DEF Referred

\* Nothing is judged yet.
LEMMA Unjudged ==
    ASSUME Judged, pc # "ok", row' = row, pc' = "compare" => ref' # NoImage
    PROVE  Judged'
BY DEF Judged

\* Every step keeps the invariant.
LEMMA NextInv ==
    ASSUME RoiInv, [Next]_vars
    PROVE  RoiInv'
<1> USE DEF RoiInv
<1>1. CASE ParseRoi
  <2>1. pc = "argv" /\ pc' = "reference" /\ UNCHANGED <<asked, image, ref, out, row>>
    BY <1>1 DEF ParseRoi
  <2>2. TypeOK'
    BY <2>1 DEF TypeOK, Places
  <2>3. Parsed'
    BY <1>1 DEF ParseRoi, Parsed
  <2>4. Whole' /\ Cropped' /\ Refused'
    BY <2>1 DEF Whole, Cropped, Refused
  <2>5. Referred'
    BY <2>1 DEF Referred
  <2> QED
    BY <2>1, <2>2, <2>3, <2>4, <2>5, Unjudged
<1>2. CASE DecodeReference
  <2>1. /\ pc = "reference" /\ pc' = "decode" /\ UNCHANGED <<asked, image, roi, out, row>>
        /\ ref' = NativeArea(Area)
        /\ Area.x0 >= 0 /\ Area.y0 >= 0 /\ Area.x1 > 0 /\ Area.y1 > 0
    BY <1>2 DEF DecodeReference
  <2>2. TypeOK' /\ Parsed'
    BY <2>1 DEF TypeOK, Places, Parsed
  <2>3. Whole' /\ Cropped' /\ Refused'
    BY <2>1 DEF Whole, Cropped, Refused
  <2>4. Area' = Area
    BY <2>1 DEF Area
  <2>5. NativeArea(Area)' = NativeArea(Area)
    BY <2>1, <2>4 DEF NativeArea
  <2>6. Referred'
    BY <2>1, <2>4, <2>5 DEF Referred
  <2> QED
    BY <2>1, <2>2, <2>3, <2>6, Unjudged
<1>3. CASE ReferenceFails
  <2>1. pc = "reference" /\ pc' = "decode" /\ UNCHANGED <<asked, image, roi, ref, out, row>>
    BY <1>3 DEF ReferenceFails
  <2>2. TypeOK' /\ Parsed'
    BY <2>1 DEF TypeOK, Places, Parsed
  <2>3. Whole' /\ Cropped' /\ Refused' /\ Referred'
    BY <2>1 DEF Whole, Cropped, Refused, Referred
  <2> QED
    BY <2>1, <2>2, <2>3, Unjudged
<1>4. CASE Decode
  <2>1. pc = "decode" /\ pc' = "crop" /\ UNCHANGED <<asked, image, roi, ref, row>>
    BY <1>4 DEF Decode
  <2>2. PICK stride \in {0, image.w, image.w + 1} :
             out' = [w |-> image.w, h |-> image.h, pixels |-> UnpackRows(stride)]
    BY <1>4 DEF Decode
  <2>3. UnpackRows(stride) = [k \in 1..image.w * image.h * image.chans |-> k - 1]
    BY RowsUnpacked
  <2>4. Whole'
    BY <2>1, <2>2, <2>3 DEF Whole
  <2>5. TypeOK' /\ Parsed' /\ Cropped' /\ Refused'
    BY <2>1 DEF TypeOK, Places, Parsed, Cropped, Refused
  <2> QED
    BY <2>1, <2>4, <2>5, ReferenceKept, Unjudged
<1>5. CASE DecodeFails \/ Subsampled
  <2>1. /\ pc \in {"decode", "crop"} /\ pc' \in {"failed", "subsampled"}
        /\ UNCHANGED <<asked, image, roi, ref, row>>
    BY <1>5 DEF DecodeFails, Subsampled
  <2>2. TypeOK' /\ Parsed' /\ Whole' /\ Cropped' /\ Refused'
    BY <2>1 DEF TypeOK, Places, Outcomes, Parsed, Whole, Cropped, Refused
  <2> QED
    BY <2>1, <2>2, ReferenceKept, Unjudged
<1>6. CASE EmptyRegion
  <2>1. /\ pc = "crop" /\ pc' = "empty" /\ UNCHANGED <<asked, image, roi, ref, row>>
        /\ roi.x0 >= X1 \/ roi.y0 >= Y1
    BY <1>6 DEF EmptyRegion
  <2>2. TypeOK' /\ Parsed' /\ Whole' /\ Cropped'
    BY <2>1 DEF TypeOK, Places, Outcomes, Parsed, Whole, Cropped
  <2>3. Refused'
    BY <2>1 DEF Refused, X1, Y1
  <2> QED
    BY <2>1, <2>2, <2>3, ReferenceKept, Unjudged
<1>7. CASE Crop
  <2>1. /\ pc = "crop" /\ pc' \in {"ok", "compare"} /\ UNCHANGED <<asked, image, roi, ref, row>>
        /\ roi.x0 < X1 /\ roi.y0 < Y1
        /\ out' = [w |-> X1 - roi.x0, h |-> Y1 - roi.y0,
                   pixels |-> CopyRows(X1 - roi.x0, Y1 - roi.y0)]
    BY <1>7 DEF Crop
  <2>2. CopyRows(X1 - roi.x0, Y1 - roi.y0)
          = Raster(image.w, image.h, image.chans, roi.x0, roi.y0, X1 - roi.x0, Y1 - roi.y0)
    BY <2>1, RowsCopied
  <2>3. X1' = X1 /\ Y1' = Y1
    BY <2>1 DEF X1, Y1
  <2>4. Cropped'
    BY <2>1, <2>2, <2>3 DEF Cropped
  <2>5. TypeOK' /\ Parsed' /\ Whole' /\ Refused'
    BY <2>1 DEF TypeOK, Places, Outcomes, Parsed, Whole, Refused
  <2>6. pc' = "compare" => ref' # NoImage
    BY <1>7, <2>1 DEF Crop
  <2> QED
    BY <2>1, <2>4, <2>5, <2>6, ReferenceKept, Unjudged
<1>8. CASE Compare
  <2>1. /\ pc = "compare" /\ pc' = "ok" /\ UNCHANGED <<asked, image, roi, ref, out>>
        /\ differ' \in Differences /\ row' = Verdict(differ')
    BY <1>8 DEF Compare
  <2>2. TypeOK' /\ Parsed' /\ Whole' /\ Refused'
    BY <2>1 DEF TypeOK, Places, Outcomes, Parsed, Whole, Refused
  <2>3. X1' = X1 /\ Y1' = Y1
    BY <2>1 DEF X1, Y1
  <2>4. Cropped'
    BY <2>1, <2>3 DEF Cropped
  <2>5. Differences' = Differences /\ Verdict(differ)' = Verdict(differ')
    BY <2>1 DEF Differences, Verdict, BytesDiffer, PsnrInfinite
  <2>6. Judged'
    BY <2>1, <2>5 DEF Judged
  <2> QED
    BY <2>1, <2>2, <2>4, <2>6, ReferenceKept
<1>9. CASE UNCHANGED vars
  <2> USE <1>9 DEF vars
  <2>1. TypeOK' /\ Parsed' /\ Whole'
    BY DEF TypeOK, Parsed, Whole
  <2>2. X1' = X1 /\ Y1' = Y1
    BY DEF X1, Y1
  <2>3. Cropped' /\ Refused'
    BY <2>2 DEF Cropped, Refused
  <2>4. Area' = Area
    BY DEF Area
  <2>5. NativeArea(Area)' = NativeArea(Area)
    BY <2>4 DEF NativeArea
  <2>6. Referred'
    BY <2>4, <2>5 DEF Referred
  <2>7. Differences' = Differences /\ Verdict(differ)' = Verdict(differ)
    BY DEF Differences, Verdict, BytesDiffer, PsnrInfinite
  <2>8. Judged'
    BY <2>7 DEF Judged
  <2> QED
    BY <2>1, <2>3, <2>6, <2>8
<1> QED
  BY <1>1, <1>2, <1>3, <1>4, <1>5, <1>6, <1>7, <1>8, <1>9 DEF Next
-----------------------------------------------------------------------------
\* Theorems.

\* The invariant holds in every state of every request.
THEOREM RoiInvariant == Spec => []RoiInv
<1>1. Init => RoiInv
  BY InitInv
<1>2. RoiInv /\ [Next]_vars => RoiInv'
  BY NextInv
<1> QED
  BY <1>1, <1>2, PTL DEF Spec

\* For every width of a word, size of an image and rectangle: the copy is the
\* rectangle, each sample once and in order.
THEOREM CropIsRegionHolds == Spec => []CropIsRegion
<1>1. RoiInv => CropIsRegion
  <2> SUFFICES ASSUME RoiInv, pc = "ok"
               PROVE  /\ Range(out.pixels) =
                           {p[1] * image.w * image.h + p[3] * image.w + p[2] :
                              p \in {q \in (0..image.chans - 1) \X (0..image.w - 1)
                                             \X (0..image.h - 1) :
                                       InRect(q[2], q[3], roi.x0, roi.y0, X1, Y1)}}
                      /\ \A i, k \in DOMAIN out.pixels :
                             i < k => out.pixels[i] < out.pixels[k]
                      /\ Len(out.pixels) = out.w * out.h * image.chans
    BY DEF CropIsRegion
  <2> DEFINE w == X1 - roi.x0
             h == Y1 - roi.y0
  <2>1. /\ image.w \in Positive /\ image.h \in Positive /\ image.chans \in Positive
        /\ roi.x0 \in Nat /\ roi.y0 \in Nat /\ X1 \in Nat /\ Y1 \in Nat
        /\ w \in Positive /\ h \in Positive
        /\ roi.x0 + w = X1 /\ X1 <= image.w /\ roi.y0 + h = Y1 /\ Y1 <= image.h
    BY Numbers, RoiAssumption DEF RoiInv, Cropped, Positive
  <2>2. /\ out.pixels = Raster(image.w, image.h, image.chans, roi.x0, roi.y0, w, h)
        /\ out.w = w /\ out.h = h
    BY DEF RoiInv, Cropped
  <2> HIDE DEF w, h
  <2>3. IsRectangle(out.pixels, image.w, image.h, image.chans, roi.x0, roi.y0, X1, Y1)
    <3> DEFINE W == image.w
               H == image.h
               C == image.chans
               x0 == roi.x0
               y0 == roi.y0
    <3>1. /\ W \in Positive /\ H \in Positive /\ C \in Positive
          /\ x0 \in Nat /\ y0 \in Nat /\ x0 + w = X1 /\ X1 <= W /\ y0 + h = Y1 /\ Y1 <= H
      BY <2>1
    <3> HIDE DEF W, H, C, x0, y0
    <3>2. IsRectangle(Raster(W, H, C, x0, y0, w, h), W, H, C, x0, y0, X1, Y1)
      BY <2>1, <3>1, RasterIsRectangle
    <3> QED
      BY <2>2, <3>2 DEF W, H, C, x0, y0
  <2>4. X1 - roi.x0 = w /\ Y1 - roi.y0 = h
    BY DEF w, h
  <2>5. image.chans * w * h = w * h * image.chans
    BY <2>1 DEF Positive
  <2> QED
    BY <2>2, <2>3, <2>4, <2>5 DEF IsRectangle
<1> QED
  BY <1>1, RoiInvariant, PTL

\* A word that has not wrapped.
LEMMA SmallMod ==
    ASSUME NEW m \in Nat \ {0}, NEW n \in 0..m - 1
    PROVE  n % m = n
OBVIOUS

\* The samples of a plane in a rectangle, and how many there are.
Inside(W, H, x0, y0, x1, y1) ==
    {p \in (0..W - 1) \X (0..H - 1) : InRect(p[1], p[2], x0, y0, x1, y1)}

LEMMA RectangleSize ==
    ASSUME NEW W \in Positive, NEW H \in Positive, NEW x0 \in Nat, NEW y0 \in Nat,
           NEW x1 \in Nat, NEW y1 \in Nat, x0 < x1, x1 <= W, y0 < y1, y1 <= H
    PROVE  /\ Inside(W, H, x0, y0, x1, y1) # {}
           /\ Cardinality(Inside(W, H, x0, y0, x1, y1)) = (x1 - x0) * (y1 - y0)
<1> DEFINE X == x0..x1 - 1
           Y == y0..y1 - 1
<1>1. Inside(W, H, x0, y0, x1, y1) = X \X Y
  BY DEF Inside, InRect, Positive
<1>2. IsFiniteSet(X) /\ Cardinality(X) = x1 - x0 /\ IsFiniteSet(Y) /\ Cardinality(Y) = y1 - y0
  <2>1. x0 \in Int /\ x1 - 1 \in Int /\ ~(x0 > x1 - 1) /\ (x1 - 1) - x0 + 1 = x1 - x0
    BY DEF Positive
  <2>2. y0 \in Int /\ y1 - 1 \in Int /\ ~(y0 > y1 - 1) /\ (y1 - 1) - y0 + 1 = y1 - y0
    BY DEF Positive
  <2> QED
    BY <2>1, <2>2, FS_Interval
<1>3. <<x0, y0>> \in X \X Y
  BY DEF Positive
<1> HIDE DEF X, Y
<1>4. Cardinality(X \X Y) = Cardinality(X) * Cardinality(Y)
  BY <1>2, FS_Product
<1> QED
  BY <1>1, <1>2, <1>3, <1>4

\* For every width of a word, size of an image and argument whose far corner
\* is neither 0 nor past the last word: the request is refused only if no sample
\* lies inside, and else as many samples come back as do.
THEOREM RoiHonouredHolds == Spec => []RoiHonoured
<1>1. RoiInv => RoiHonoured
  <2> SUFFICES ASSUME RoiInv, pc \in {"empty", "ok"}, Fits
               PROVE  /\ pc = "empty" => Wanted = {}
                      /\ pc = "ok" => /\ Wanted # {}
                                      /\ Len(out.pixels) = image.chans * Cardinality(Wanted)
    BY DEF RoiHonoured
  <2> DEFINE W == image.w
             H == image.h
  <2>1. /\ asked.x \in 0..Word - 1 /\ asked.w \in 0..Word - 1
        /\ asked.y \in 0..Word - 1 /\ asked.h \in 0..Word - 1
        /\ Word \in Nat \ {0}
    BY RoiAssumption DEF RoiInv, TypeOK
  <2>2. W \in Positive /\ H \in Positive /\ image.chans \in Positive
    BY Numbers DEF RoiInv
  <2>3. /\ roi.x0 = asked.x /\ roi.x1 = asked.x + asked.w /\ roi.x1 # 0
        /\ roi.y0 = asked.y /\ roi.y1 = asked.y + asked.h /\ roi.y1 # 0
    <3>1. /\ asked.x + asked.w \in 1..Word - 1
          /\ asked.y + asked.h \in 1..Word - 1
      BY DEF Fits
    <3>2. \A n \in 0..Word - 1 : n % Word = n
      BY <2>1, SmallMod
    <3>3. (asked.x + asked.w) % Word = asked.x + asked.w
      BY <3>1, <3>2
    <3>4. (asked.y + asked.h) % Word = asked.y + asked.h
      BY <3>1, <3>2
    <3>5. pc # "argv"
      OBVIOUS
    <3>6. roi = [x0 |-> asked.x, y0 |-> asked.y,
                 x1 |-> asked.x + asked.w, y1 |-> asked.y + asked.h]
      BY <3>3, <3>4, <3>5 DEF RoiInv, Parsed
    <3> QED
      BY <3>1, <3>6
  <2>4. X1 = Smaller(asked.x + asked.w, W) /\ Y1 = Smaller(asked.y + asked.h, H)
    BY <2>3 DEF X1, Y1
  <2>5. /\ asked.x \in Nat /\ asked.w \in Nat /\ asked.y \in Nat /\ asked.h \in Nat
        /\ W \in Nat \ {0} /\ H \in Nat \ {0}
    BY <2>1, <2>2 DEF Positive
  <2>6. X1 \in Nat /\ Y1 \in Nat
    BY <2>4, <2>5 DEF Smaller
  <2>7. \A x \in 0..W - 1 : x < asked.x + asked.w <=> x < X1
    BY <2>4, <2>5 DEF Smaller
  <2>8. \A y \in 0..H - 1 : y < asked.y + asked.h <=> y < Y1
    BY <2>4, <2>5 DEF Smaller
  <2>9. Wanted = {p \in (0..W - 1) \X (0..H - 1) : InRect(p[1], p[2], asked.x, asked.y, X1, Y1)}
    <3>1. \A p \in (0..W - 1) \X (0..H - 1) : p[1] \in 0..W - 1 /\ p[2] \in 0..H - 1
      OBVIOUS
    <3>2. ASSUME NEW p \in (0..W - 1) \X (0..H - 1)
          PROVE  InRect(p[1], p[2], asked.x, asked.y, asked.x + asked.w, asked.y + asked.h)
                   <=> InRect(p[1], p[2], asked.x, asked.y, X1, Y1)
      BY <2>7, <2>8, <3>1 DEF InRect
    <3> QED
      BY <3>2 DEF Wanted
  <2>10. ASSUME pc = "empty" PROVE Wanted = {}
    <3>1. asked.x >= X1 \/ asked.y >= Y1
      BY <2>3, <2>10 DEF RoiInv, Refused
    <3> QED
      <4> SUFFICES ASSUME NEW p \in Wanted PROVE FALSE
        OBVIOUS
      <4>1. p[1] \in 0..W - 1 /\ p[2] \in 0..H - 1
            /\ asked.x <= p[1] /\ p[1] < X1 /\ asked.y <= p[2] /\ p[2] < Y1
        BY <2>9 DEF InRect
      <4> QED
        BY <2>5, <2>6, <3>1, <4>1
  <2>11. ASSUME pc = "ok"
        PROVE  Wanted # {} /\ Len(out.pixels) = image.chans * Cardinality(Wanted)
    <3> DEFINE w == X1 - asked.x
               h == Y1 - asked.y
    <3>1. /\ w \in Positive /\ h \in Positive /\ asked.x \in Nat /\ asked.y \in Nat
          /\ asked.x + w = X1 /\ X1 <= W /\ asked.y + h = Y1 /\ Y1 <= H
      BY <2>1, <2>2, <2>3, <2>4, <2>11 DEF RoiInv, Cropped, Smaller, Positive
    <3>2. out.pixels = Raster(W, H, image.chans, asked.x, asked.y, w, h)
      BY <2>3, <2>11 DEF RoiInv, Cropped
    <3>3. Wanted = Inside(W, H, asked.x, asked.y, X1, Y1)
      BY <2>9 DEF Inside
    <3>4. asked.x < X1 /\ asked.y < Y1
      BY <2>3, <2>11 DEF RoiInv, Cropped
    <3>5. /\ Inside(W, H, asked.x, asked.y, X1, Y1) # {}
          /\ Cardinality(Inside(W, H, asked.x, asked.y, X1, Y1))
               = (X1 - asked.x) * (Y1 - asked.y)
      <4> DEFINE x0 == asked.x
                 y0 == asked.y
      <4>1. /\ W \in Positive /\ H \in Positive /\ x0 \in Nat /\ y0 \in Nat
            /\ X1 \in Nat /\ Y1 \in Nat /\ x0 < X1 /\ X1 <= W /\ y0 < Y1 /\ Y1 <= H
        BY <2>2, <2>6, <3>1, <3>4
      <4> HIDE DEF W, H, x0, y0
      <4>2. /\ Inside(W, H, x0, y0, X1, Y1) # {}
            /\ Cardinality(Inside(W, H, x0, y0, X1, Y1)) = (X1 - x0) * (Y1 - y0)
        BY <4>1, RectangleSize
      <4> QED
        BY <4>2 DEF x0, y0
    <3> HIDE DEF W, H
    <3>6. Wanted # {} /\ Cardinality(Wanted) = w * h
      BY <3>3, <3>5
    <3> HIDE DEF w, h
    <3>7. image.chans * w * h \in Nat /\ image.chans * w * h = image.chans * (w * h)
      BY <2>2, <3>1 DEF Positive
    <3>8. Len(out.pixels) = image.chans * w * h
      BY <3>2, <3>7 DEF Raster
    <3> QED
      BY <3>6, <3>7, <3>8
  <2> QED
    BY <2>10, <2>11
<1> QED
  BY <1>1, RoiInvariant, PTL
-----------------------------------------------------------------------------
\* A nonempty set of numbers has a least element.
LEMMA Least ==
    ASSUME NEW T \in SUBSET Nat, T # {}
    PROVE  \E x \in T : \A y \in T : x <= y
<1> DEFINE R == OpToRel(<, Nat)
<1>1. IsWellFoundedOn(R, Nat)
  BY NatLessThanWellFounded
<1>2. \A x, y \in Nat : <<x, y>> \in R <=> x < y
  BY DEF OpToRel
<1> HIDE DEF R
<1>3. PICK x \in T : \A y \in T : ~ (<<y, x>> \in R)
  BY <1>1, WFMin
<1>4. \A y \in T : ~ (y < x)
  BY <1>2, <1>3
<1> QED
  BY <1>4

\* Induction, over a set in place of a predicate.
LEMMA Induction ==
    ASSUME NEW T \in SUBSET Nat, 0 \in T, \A n \in T : n + 1 \in T
    PROVE  T = Nat
<1> SUFFICES ASSUME Nat \ T # {} PROVE FALSE
  OBVIOUS
<1>1. PICK x \in Nat \ T : \A y \in Nat \ T : x <= y
  BY Least
<1>2. x - 1 \in T
  BY <1>1
<1> QED
  BY <1>1, <1>2

\* A table of the powers of two up to n.
Doubles(f, n) == f[0] = 1 /\ \A k \in 1..n : f[k] = 2 * f[k - 1]

\* There is one for every n.
LEMMA DoublesExist ==
    ASSUME NEW n \in Nat
    PROVE  \E f \in [0..n -> Positive] : Doubles(f, n)
<1> DEFINE Has(m) == \E f \in [0..m -> Positive] : Doubles(f, m)
           T == {m \in Nat : Has(m)}
<1>1. 0 \in T
  <2>1. [k \in 0..0 |-> 1] \in [0..0 -> Positive] /\ Doubles([k \in 0..0 |-> 1], 0)
    BY DEF Doubles, Positive
  <2> QED
    BY <2>1
<1>2. ASSUME NEW m \in T PROVE m + 1 \in T
  <2>1. PICK f \in [0..m -> Positive] : Doubles(f, m)
    BY <1>2
  <2> DEFINE g == [k \in 0..m + 1 |-> IF k = m + 1 THEN 2 * f[m] ELSE f[k]]
  <2>2. f[m] \in Positive /\ 2 * f[m] \in Positive
    BY DEF Positive
  <2>3. g \in [0..m + 1 -> Positive]
    BY <2>2
  <2>4. g[0] = 1
    BY <2>1 DEF Doubles
  <2>5. ASSUME NEW k \in 1..m + 1 PROVE g[k] = 2 * g[k - 1]
    <3>1. k \in 0..m + 1 /\ k - 1 \in 0..m + 1 /\ k - 1 # m + 1
      OBVIOUS
    <3>2. CASE k = m + 1
      BY <3>1, <3>2
    <3>3. CASE k # m + 1
      BY <2>1, <3>1, <3>3 DEF Doubles
    <3> QED
      BY <3>2, <3>3
  <2>6. Has(m + 1)
    BY <2>3, <2>4, <2>5 DEF Doubles
  <2> HIDE DEF Has
  <2> QED
    BY <2>6
<1> HIDE DEF Has
<1>3. T = Nat
  BY <1>1, <1>2, Induction
<1>4. Has(n)
  BY <1>3
<1> QED
  BY <1>4 DEF Has

\* And two of them agree as far as both go.
LEMMA DoublesAgree ==
    ASSUME NEW m \in Nat, NEW n \in Nat, NEW f, NEW g, Doubles(f, m), Doubles(g, n),
           NEW k \in Nat, k <= m, k <= n
    PROVE  f[k] = g[k]
<1> DEFINE T == {j \in Nat : j <= m /\ j <= n => f[j] = g[j]}
<1>1. 0 \in T
  BY DEF Doubles
<1>2. ASSUME NEW j \in T PROVE j + 1 \in T
  <2> SUFFICES ASSUME j + 1 <= m, j + 1 <= n PROVE f[j + 1] = g[j + 1]
    OBVIOUS
  <2>1. j + 1 \in 1..m /\ j + 1 \in 1..n /\ (j + 1) - 1 = j /\ f[j] = g[j]
    BY <1>2
  <2>2. f[j + 1] = 2 * f[j] /\ g[j + 1] = 2 * g[j]
    BY <2>1 DEF Doubles
  <2> QED
    BY <2>1, <2>2
<1>3. T = Nat
  BY <1>1, <1>2, Induction
<1> QED
  BY <1>3

\* 1 << n doubles with each n.
LEMMA BitDoubles ==
    /\ Bit[0] = 1
    /\ \A n \in Nat : Bit[n] \in Positive /\ Bit[n + 1] = 2 * Bit[n]
<1> DEFINE Step(f) == [n \in Nat |-> IF n = 0 THEN 1 ELSE 2 * f[n - 1]]
           F(n) == CHOOSE f \in [0..n -> Positive] : Doubles(f, n)
           w == [n \in Nat |-> F(n)[n]]
<1>1. \A n \in Nat : F(n) \in [0..n -> Positive] /\ Doubles(F(n), n)
  BY DoublesExist
<1> HIDE DEF F
<1>2. w = Step(w)
  <2>1. ASSUME NEW n \in Nat PROVE w[n] = IF n = 0 THEN 1 ELSE 2 * w[n - 1]
    <3>1. CASE n = 0
      BY <1>1, <3>1 DEF Doubles
    <3>2. CASE n # 0
      <4>1. n - 1 \in Nat /\ n - 1 <= n /\ n - 1 <= n - 1 /\ n \in 1..n
        BY <3>2
      <4>2. F(n)[n] = 2 * F(n)[n - 1]
        BY <1>1, <4>1 DEF Doubles
      <4>3. F(n)[n - 1] = F(n - 1)[n - 1]
        BY <1>1, <4>1, DoublesAgree
      <4> QED
        BY <3>2, <4>1, <4>2, <4>3
    <3> QED
      BY <3>1, <3>2
  <2> QED
    BY <2>1
<1>3. Bit = Step(Bit)
  <2>1. Bit = CHOOSE f : f = Step(f)
    BY DEF Bit
  <2> HIDE DEF Step, w
  <2> QED
    BY <1>2, <2>1
<1>4. Bit[0] = 1
  BY <1>3
<1>5. ASSUME NEW n \in Nat PROVE Bit[n + 1] = 2 * Bit[n]
  <2>1. n + 1 \in Nat /\ n + 1 # 0 /\ (n + 1) - 1 = n
    OBVIOUS
  <2>2. Step(Bit)[n + 1] = 2 * Bit[n]
    BY <2>1
  <2> HIDE DEF Step
  <2> QED
    BY <1>3, <2>2
<1> DEFINE T == {n \in Nat : Bit[n] \in Positive}
<1>6. 0 \in T
  BY <1>4 DEF Positive
<1>7. ASSUME NEW n \in T PROVE n + 1 \in T
  BY <1>5 DEF Positive
<1> HIDE DEF Step
<1>8. T = Nat
  BY <1>6, <1>7, Induction
<1> QED
  BY <1>4, <1>5, <1>8

\* 1 << (m + n) is the product of the two, and no less than either.
LEMMA BitSum ==
    ASSUME NEW m \in Nat, NEW n \in Nat
    PROVE  Bit[m + n] = Bit[m] * Bit[n] /\ Bit[m] <= Bit[m + n]
<1> DEFINE T == {k \in Nat : Bit[m + k] = Bit[m] * Bit[k] /\ Bit[m] <= Bit[m + k]}
<1>0. \A k \in Nat : Bit[k] \in Nat /\ Bit[k + 1] = 2 * Bit[k]
  BY BitDoubles DEF Positive
<1>1. 0 \in T
  <2>1. m + 0 = m /\ Bit[0] = 1 /\ Bit[m] \in Nat
    BY <1>0, BitDoubles
  <2> QED
    BY <2>1
<1>2. ASSUME NEW k \in T PROVE k + 1 \in T
  <2>1. m + k \in Nat /\ m + (k + 1) = (m + k) + 1
    OBVIOUS
  <2>2. Bit[m + (k + 1)] = 2 * Bit[m + k] /\ Bit[k + 1] = 2 * Bit[k]
    BY <1>0, <2>1
  <2>3. Bit[m] \in Nat /\ Bit[k] \in Nat /\ Bit[m + k] \in Nat
    BY <1>0, <2>1
  <2>4. Bit[m] * (2 * Bit[k]) = 2 * (Bit[m] * Bit[k])
    BY <2>3
  <2> QED
    BY <1>2, <2>2, <2>3, <2>4
<1>3. T = Nat
  BY <1>1, <1>2, Induction
<1> QED
  BY <1>3

\* Read back, the bytes of a sample of one byte or two are its value, shifted
\* if it is signed: nothing is clamped and nothing dropped.
LEMMA SampleReadBack ==
    ASSUME NEW prec \in Positive, prec <= 2 * ByteBits, NEW sgnd \in BOOLEAN,
           NEW v \in Legal(prec, sgnd)
    PROVE  SampleOf(Unpacked(v, prec, sgnd), prec)
             = v + (IF sgnd THEN Bit[prec - 1] ELSE 0)
<1> DEFINE shift == IF sgnd THEN Bit[prec - 1] ELSE 0
           u == v + shift
<1>1. ByteBits \in Nat /\ prec \in Nat /\ prec - 1 \in Nat /\ (prec - 1) + 1 = prec
  BY RoiAssumption DEF Positive
<1>2. Bit[prec] = 2 * Bit[prec - 1] /\ Bit[prec - 1] \in Nat /\ Bit[prec] \in Nat
      /\ Byte \in Nat \ {0}
  BY <1>1, BitDoubles DEF Byte, Positive
<1>3. v \in Int /\ u \in 0..Bit[prec] - 1
  BY <1>2 DEF Legal
<1> HIDE DEF shift, u
<1>4. CASE prec <= ByteBits
  <2>1. ByteBits - prec \in Nat /\ prec + (ByteBits - prec) = ByteBits
    BY <1>1, <1>4
  <2>2. Bit[prec] <= Byte
    BY <1>1, <2>1, BitSum DEF Byte
  <2>3. Clamp(u, Byte - 1) = u
    BY <1>2, <1>3, <2>2 DEF Clamp
  <2>4. Unpacked(v, prec, sgnd) = <<u>>
    BY <1>4, <2>3 DEF Unpacked, u, shift
  <2> QED
    BY <1>4, <2>4 DEF SampleOf, u, shift
<1>5. CASE ~(prec <= ByteBits)
  <2>1. 2 * ByteBits - prec \in Nat /\ prec + (2 * ByteBits - prec) = ByteBits + ByteBits
    BY <1>1
  <2>2. Bit[prec] <= Byte * Byte
    BY <1>1, <2>1, BitSum DEF Byte
  <2>3. Clamp(u, Bit[prec] - 1) = u
    BY <1>2, <1>3 DEF Clamp
  <2>4. u \in Nat /\ u < Byte * Byte
    BY <1>2, <1>3, <2>2
  <2> DEFINE high == u \div Byte
             low == u % Byte
  <2>5. high \in Nat /\ low \in 0..Byte - 1 /\ u = high * Byte + low
    BY <1>2, <2>4
  <2>6. Unpacked(v, prec, sgnd) = <<low, high % Byte>>
    BY <1>5, <2>3 DEF Unpacked, u, shift
  <2> HIDE DEF high, low
  <2>7. high \in 0..Byte - 1
    <3>1. CASE high >= Byte
      <4>1. high * Byte >= Byte * Byte
        BY <1>2, <2>5, <3>1
      <4> QED
        BY <1>2, <2>4, <2>5, <4>1
    <3> QED
      BY <1>2, <2>5, <3>1
  <2>8. high % Byte = high
    BY <1>2, <2>7, SmallMod
  <2>9. low + Byte * high = u
    BY <1>2, <2>5
  <2> QED
    BY <1>5, <2>6, <2>8, <2>9 DEF SampleOf, u, shift
<1> QED
  BY <1>4, <1>5

\* On an image whose grid starts at (0, 0), the area OpenJPEG decodes is the
\* rectangle that is copied out for the other decoder.
LEMMA SameRegion ==
    ASSUME RoiInv, pc = "ok", ref # NoImage, image.x = 0, image.y = 0
    PROVE  ref = out
<1> DEFINE W == image.w
           H == image.h
           x0 == roi.x0
           y0 == roi.y0
           w == X1 - x0
           h == Y1 - y0
<1>1. /\ ref = NativeArea(Area)
      /\ Area.x0 >= 0 /\ Area.y0 >= 0 /\ Area.x1 > 0 /\ Area.y1 > 0
  BY DEF RoiInv, Referred
<1>2. /\ W \in Nat \ {0} /\ H \in Nat \ {0} /\ x0 \in 0..Word - 1 /\ y0 \in 0..Word - 1
      /\ roi.x1 \in 0..Word - 1 /\ roi.y1 \in 0..Word - 1 /\ x0 < X1 /\ y0 < Y1
      /\ Word \in Nat \ {0}
  BY Numbers, RoiAssumption DEF RoiInv, Cropped, Positive
<1>3. \A n \in 0..Word - 1 : Int32(n) >= 0 => Int32(n) = n
  BY <1>2 DEF Int32
<1>4. Area.x0 = x0 /\ Area.y0 = y0
  BY <1>1, <1>2, <1>3 DEF Area
<1>5. /\ Area.x1 = IF roi.x1 = 0 THEN W ELSE roi.x1
      /\ Area.y1 = IF roi.y1 = 0 THEN H ELSE roi.y1
  <2>1. /\ roi.x1 # 0 => Int32(roi.x1) >= 0
        /\ roi.y1 # 0 => Int32(roi.y1) >= 0
    <3>1. \A n \in 0..Word - 1 : Int32(n) \in Int
      BY <1>2 DEF Int32
    <3> QED
      BY <1>1, <1>2, <3>1 DEF Area
  <2> QED
    BY <1>2, <1>3, <2>1 DEF Area
<1>6. Area.x0 - image.x = x0 /\ Area.y0 - image.y = y0
  BY <1>2, <1>4
<1>7. Smaller(Area.x1 - image.x, W) = X1 /\ Smaller(Area.y1 - image.y, H) = Y1
  BY <1>2, <1>5 DEF Smaller, X1, Y1
<1>8. X1 \in Nat /\ Y1 \in Nat
  BY <1>2 DEF Smaller, X1, Y1
<1>9. Larger(x0, 0) = x0 /\ Larger(y0, 0) = y0 /\ Larger(w, 0) = w /\ Larger(h, 0) = h
  BY <1>2, <1>8 DEF Larger
<1> HIDE DEF W, H, x0, y0, w, h
<1>10. NativeArea(Area)
         = [w |-> w, h |-> h, pixels |-> Raster(W, H, image.chans, x0, y0, w, h)]
  <2>1. Larger(Area.x0 - image.x, 0) = x0 /\ Larger(Area.y0 - image.y, 0) = y0
    BY <1>6, <1>9
  <2>2. /\ Larger(Smaller(Area.x1 - image.x, image.w) - x0, 0) = w
        /\ Larger(Smaller(Area.y1 - image.y, image.h) - y0, 0) = h
    BY <1>7, <1>9 DEF W, H, w, h
  <2> HIDE DEF Larger
  <2> QED
    BY <2>1, <2>2 DEF NativeArea, Raster, W, H
<1> QED
  BY <1>1, <1>10 DEF RoiInv, Cropped, W, H, x0, y0, w, h

\* A difference in a sample of one byte or two shows in its bytes, and in the
\* values psnr_db reads.
LEMMA DifferenceShows ==
    ASSUME RoiInv, NEW d \in Differences, d.prec <= 2 * ByteBits
    PROVE  /\ d.opj # d.grok =>
                /\ Unpacked(d.opj, d.prec, d.sgnd) # Unpacked(d.grok, d.prec, d.sgnd)
                /\ SampleOf(Unpacked(d.opj, d.prec, d.sgnd), d.prec)
                     # SampleOf(Unpacked(d.grok, d.prec, d.sgnd), d.prec)
           /\ d.opj = d.grok =>
                Unpacked(d.opj, d.prec, d.sgnd) = Unpacked(d.grok, d.prec, d.sgnd)
<1> SUFFICES ASSUME d.opj # d.grok
             PROVE  SampleOf(Unpacked(d.opj, d.prec, d.sgnd), d.prec)
                      # SampleOf(Unpacked(d.grok, d.prec, d.sgnd), d.prec)
  OBVIOUS
<1>1. d # NoDiffer
  BY DEF NoDiffer
<1>2. PICK v \in Values :
           d.prec = v.prec /\ d.sgnd = v.sgnd /\ d.opj = v.opj /\ d.grok = v.grok
  BY <1>1 DEF Differences
<1>3. /\ d.prec \in Positive /\ d.sgnd \in BOOLEAN /\ d.opj \in Int /\ d.grok \in Int
      /\ d.opj \in Legal(d.prec, d.sgnd) /\ d.grok \in Legal(d.prec, d.sgnd)
  BY <1>2, RoiAssumption DEF Positive
<1> DEFINE shift == IF d.sgnd THEN Bit[d.prec - 1] ELSE 0
<1>4. /\ SampleOf(Unpacked(d.opj, d.prec, d.sgnd), d.prec) = d.opj + shift
      /\ SampleOf(Unpacked(d.grok, d.prec, d.sgnd), d.prec) = d.grok + shift
  BY <1>3, SampleReadBack
<1>5. shift \in Int
  <2>1. d.prec - 1 \in Nat
    BY <1>3 DEF Positive
  <2> QED
    BY <2>1, BitDoubles DEF Positive
<1> HIDE DEF shift
<1>6. \A a, b \in Int : a # b => a + shift # b + shift
  BY <1>5
<1>7. d.opj + shift # d.grok + shift
  BY <1>3, <1>6
<1> QED
  BY <1>4, <1>7

\* For every width of a word and of a byte, every image on a grid from (0, 0),
\* rectangle and precision of at most two bytes: the verdict is 1 exactly when
\* the decoders agree on the region, and a mismatch has a finite PSNR.
THEOREM VerdictTellsSamplesHolds == Spec => []VerdictTellsSamples
<1>1. RoiInv => VerdictTellsSamples
  <2> SUFFICES ASSUME RoiInv, pc = "ok", row.match # -1, image.x = 0, image.y = 0,
                      differ.prec <= 2 * ByteBits
               PROVE  /\ row.match = 1 <=>
                           ~(differ.opj # differ.grok /\ differ.at \in Range(out.pixels))
                      /\ row.match = 0 => row.psnr = "finite"
    BY DEF VerdictTellsSamples
  <2>1. differ \in Differences /\ row = Verdict(differ) /\ ref # NoImage
    BY DEF RoiInv, Judged
  <2>2. ref = out
    BY <2>1, SameRegion
  <2>3. row = IF BytesDiffer(differ)
              THEN [match |-> 0, psnr |-> IF PsnrInfinite(differ) THEN "infinite" ELSE "finite"]
              ELSE [match |-> 1, psnr |-> "none"]
    BY <2>1, <2>2 DEF Verdict
  <2>4. BytesDiffer(differ) <=>
          differ.opj # differ.grok /\ differ.at \in Range(out.pixels)
    BY <2>1, <2>2, DifferenceShows DEF BytesDiffer
  <2>5. BytesDiffer(differ) => ~PsnrInfinite(differ)
    BY <2>1, <2>4, DifferenceShows DEF PsnrInfinite
  <2> QED
    BY <2>3, <2>4, <2>5
<1> QED
  BY <1>1, RoiInvariant, PTL
=============================================================================
