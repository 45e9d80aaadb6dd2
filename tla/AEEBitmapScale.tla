--------------------------- MODULE AEEBitmapScale ---------------------------
(***************************************************************************)
(* _ScaleBilinear (AEE++/gdi/AEEBitmapScale.cpp): bitmaps are enlarged by  *)
(* bilinear interpolation and reduced by cubic convolution, a row of the   *)
(* destination after the other, in 16.16 fixed point.  A source is one     *)
(* array of pixels: to read on at the end of a row is to read the next.    *)
(***************************************************************************)
EXTENDS Integers, Sequences

CONSTANTS
    Sizes,   \* the scalings asked for, <<srcW, srcH, dstW, dstH>>
    Images   \* the images, "ramp" or "checks"

ScaleAssumption == Sizes \subseteq (Nat \X Nat \X Nat \X Nat) /\ Images \subseteq {"ramp", "checks"}

VARIABLE task   \* the call under way

-----------------------------------------------------------------------------
(* Formats and images *)

Format == {"8", "16", "24", "32", "PM32"}

\* The largest value of each channel: r g b of a palette or of 16 bits, or a r g b
Maxima(format) == IF format \in {"8", "16"} THEN <<31, 63, 31>> ELSE <<255, 255, 255, 255>>

\* The pairs that both algorithms convert; any other call does nothing.
Converts(src, dst) ==
    \/ src \in {"8", "16", "24"} /\ dst \in Format \ {"8"}
    \/ src = "32" /\ dst \in {"32", "PM32"}
    \/ src = "PM32" /\ dst = "PM32"

\* The pixel at (x, y) of an image; one of format 8 is of a palette.
Pixel(image, format, x, y) ==
    [c \in DOMAIN Maxima(format) |->
        (Maxima(format)[c] *
            (IF image = "ramp" THEN (3 * x + 5 * y + 2 * c) % 8 ELSE 7 * ((x + y + c) % 2))) \div 7]

\* What is in memory at index n of the bits of the source, and after them
Memory(n) ==
    IF n \in 0..(task.srcW * task.srcH - 1)
    THEN Pixel(task.image, task.src, n % task.srcW, n \div task.srcW)
    ELSE [c \in DOMAIN Maxima(task.src) |-> Maxima(task.src)[c] * task.junk]

\* Steps and start along one side: the first pixel of the one on the first of
\* the other when it grows, on the middle of the pixels it stands for else.
Step(src, dst) == IF dst > src THEN ((src - 1) * 65536) \div (dst - 1) ELSE (src * 65536) \div dst
Start(src, dst) == IF dst > src THEN 0 ELSE Step(src, dst) \div 2 - 32768

-----------------------------------------------------------------------------
(* Bilinear interpolation *)

\* mutant: the weights of a fraction of f parts, the last as if u * v were 0
WeightsOver(f, u, v) ==
    LET uv == (u * v) \div f IN <<f - u - v, u - uv, v - uv, uv>>

\* Of src0[0], src0[1], src1[0], src1[1]
Weights(f, u, v) ==
    LET uv == (u * v) \div f IN <<f - (u - uv) - (v - uv) - uv, u - uv, v - uv, uv>>

\* Channels are summed side by side in a word, each in a field of some bits:
\* what does not fit goes on in the next.
InFields(sums, bits) ==
    LET carried[c \in 0..Len(sums)] ==
            IF c = 0 THEN 0 ELSE (sums[c] + carried[c - 1]) \div 2 ^ bits[c]
    IN  [c \in DOMAIN sums |-> (sums[c] + carried[c - 1]) % 2 ^ bits[c]]

Sums(weights, pixels) ==
    [c \in DOMAIN pixels[1] |->
        weights[1] * pixels[1][c] + weights[2] * pixels[2][c]
            + weights[3] * pixels[3][c] + weights[4] * pixels[4][c]]

\* A pixel of 24 bits as one of 16
To16(p) == <<p[2] \div 8, p[3] \div 4, p[4] \div 8>>

Premultiplied(p) == <<p[1]>> \o [c \in 1..3 |-> (p[c + 1] * p[1]) \div 256]

\* Words 07e0f81f hold g, r and b with room for five bits more; ag and br
\* hold their channels with room for eight.  u and v are fractions of 65536.
Blend16(pixels, u, v) ==
    LET sums == Sums(Weights(32, u \div 2048, v \div 2048), pixels)
        word == InFields(<<sums[3], sums[1], sums[2]>>, <<11, 10, 11>>)
    IN  <<word[2], word[3], word[1]>>

Blend32(pixels, u, v) ==
    LET sums == Sums(Weights(256, u \div 256, v \div 256), pixels)
        ag == InFields(<<sums[3], sums[1]>>, <<16, 16>>)
        br == InFields(<<sums[4], sums[2]>>, <<16, 16>>)
    IN  <<ag[2] \div 256, br[2] \div 256, ag[1] \div 256, br[1] \div 256>>

BilinearCopy(pixels, u, v) ==
    IF task.dst = "16"
    THEN LET of16 == IF task.src = "24" THEN [k \in 1..4 |-> To16(pixels[k])] ELSE pixels
             sums == Blend16(of16, u, v)
         IN  <<sums[1] \div 32, sums[2] \div 32, sums[3] \div 32>>
    ELSE IF task.src \in {"8", "16"}
    THEN LET sums == Blend16(pixels, u, v)
         IN  <<255, (sums[1] \div 4) % 256, sums[2] \div 8, (sums[3] \div 4) % 256>>
    ELSE IF task.src = "32" /\ task.dst = "PM32" THEN Premultiplied(Blend32(pixels, u, v))
    ELSE Blend32(pixels, u, v)

\* mutant: the last pixel of a row is not treated apart
NoPixelApart(k) == FALSE

\* From the last two rows of the source on, the last pixel of a row is made of
\* a copy of the last column when its right neighbour would be outside.
PixelApart(k) ==
    LET last == Start(task.srcW, task.dstW) + Step(task.srcW, task.dstW) * (task.dstW - 1)
    IN  k = task.dstW - 1 /\ (task.sy \div 65536) + 2 >= task.srcH /\ last \div 65536 + 1 >= task.srcW

\* Where the four pixels are that pixel k of the row is made of; the copy of
\* the last column has three pixels only, what is after them has no weight.
BilinearPlaces(k) ==
    LET sx == Start(task.srcW, task.dstW) + k * Step(task.srcW, task.dstW)
        row == task.sy \div 65536
        at == row * task.srcW + sx \div 65536
        below == at + (IF row + 1 >= task.srcH THEN 0 ELSE task.srcW)
        current == (row + 1) * task.srcW - 1
        ofLast == task.srcH * task.srcW - 1
    IN  IF PixelApart(k)
        THEN IF row + 1 >= task.srcH THEN <<ofLast, ofLast, ofLast, ofLast>>
             ELSE <<current, ofLast, ofLast, -1>>
        ELSE <<at, at + 1, below, below + 1>>

BilinearPixel(k) ==
    LET sx == IF PixelApart(k) THEN 0
              ELSE Start(task.srcW, task.dstW) + k * Step(task.srcW, task.dstW)
    IN  BilinearCopy([j \in 1..4 |-> Memory(BilinearPlaces(k)[j])], sx % 65536, task.sy % 65536)

-----------------------------------------------------------------------------
(* Cubic convolution *)

SinXDivX == <<
    172, 171, 171, 171, 171, 171, 171, 171, 171, 171, 171, 171, 171, 171, 171, 171, 170, 170,
    170, 170, 170, 170, 170, 169, 169, 169, 169, 169, 168, 168, 168, 168, 168, 167, 167, 167,
    166, 166, 166, 166, 166, 165, 165, 165, 165, 165, 164, 164, 164, 163, 162, 162, 162, 162,
    162, 162, 161, 161, 160, 159, 159, 159, 159, 158, 158, 158, 157, 157, 157, 156, 156, 155,
    155, 154, 153, 153, 153, 152, 152, 151, 151, 150, 150, 149, 149, 149, 148, 147, 147, 147,
    146, 146, 145, 145, 144, 143, 142, 141, 141, 141, 141, 140, 139, 139, 139, 138, 137, 136,
    135, 135, 135, 134, 134, 133, 133, 131, 131, 131, 130, 129, 129, 128, 127, 127, 127, 126,
    125, 124, 123, 122, 121, 121, 120, 119, 119, 118, 117, 117, 116, 115, 115, 115, 113, 113,
    112, 112, 111, 110, 110, 109, 109, 108, 107, 106, 106, 105, 104, 104, 103, 103, 102, 101,
    100, 100, 99, 98, 98, 97, 96, 96, 95, 94, 94, 93, 92, 92, 91, 90, 89, 89, 88, 88, 87, 87,
    86, 85, 84, 84, 83, 82, 82, 81, 80, 80, 79, 78, 78, 78, 77, 76, 75, 74, 74, 73, 72, 72,
    72, 71, 70, 69, 69, 68, 67, 67, 67, 66, 65, 65, 64, 63, 63, 62, 61, 61, 60, 59, 59, 58,
    58, 57, 56, 56, 55, 55, 54, 53, 53, 52, 52, 51, 51, 50, 49, 49, 48, 48, 47, 47, 46, 46,
    45, 45, 44, 44, 43, 43, 42, 42, 42, 41, 41, 40, 40, 39, 39, 38, 38, 37, 37, 36, 36, 35,
    35, 35, 34, 34, 33, 33, 32, 32, 32, 31, 31, 30, 30, 30, 29, 29, 28, 28, 28, 27, 27, 27,
    26, 25, 25, 25, 24, 24, 24, 23, 23, 23, 22, 22, 22, 22, 22, 21, 20, 20, 20, 19, 19, 19,
    19, 19, 18, 18, 18, 17, 17, 17, 16, 16, 16, 16, 15, 15, 15, 14, 14, 14, 14, 14, 13, 13,
    13, 13, 12, 12, 12, 12, 12, 11, 11, 11, 11, 10, 10, 10, 10, 10, 10, 9, 9, 9, 9, 9, 8, 8,
    8, 8, 8, 8, 7, 7, 7, 7, 7, 7, 7, 6, 6, 6, 6, 6, 6, 6, 5, 5, 5, 5, 5, 5, 5, 4, 4, 4, 4, 4,
    4, 4, 4, 4, 3, 3, 3, 3, 3, 3, 3, 3, 3, 3, 2, 2, 2, 2, 2, 2, 2, 2, 2, 2, 2, 2, 2, 1, 1, 1,
    1, 1, 1, 1, 1, 1, 1, 1, 1, 1, 1, 1, 1, 1, 1, 1, 1 >>

SinXDivX_Table_8(n) == IF n < 439 THEN SinXDivX[n + 1] ELSE 0

\* The weights of the four pixels around a fraction of 256
CubicWeights(f) == <<SinXDivX_Table_8(256 + f), SinXDivX_Table_8(f),
                     SinXDivX_Table_8(256 - f), SinXDivX_Table_8(512 - f)>>

\* getPixelBorder along one side: the four places around p, as the loop meets
\* them, going on only inside the source.
Around(p, size) ==
    LET first == IF p - 1 < 0 THEN 0 ELSE p - 1
        last == IF p + 2 >= size THEN size - 1 ELSE p + 2
        goes(j) == IF first <= p + j - 3 /\ p + j - 3 < last THEN 1 ELSE 0
    IN  <<first, first + goes(2), first + goes(2) + goes(3),
          first + goes(2) + goes(3) + goes(4)>>

\* The sixteen pixels around (x, y), kept inside or taken from memory
BorderPixels(x, y) ==
    LET rows == Around(y, task.srcH)
        columns == Around(x, task.srcW)
    IN  [j \in 1..4 |-> [k \in 1..4 |-> Memory(rows[j] * task.srcW + columns[k])]]
InnerPixels(x, y) ==
    [j \in 1..4 |-> [k \in 1..4 |-> Memory((y + j - 2) * task.srcW + x + k - 2)]]

\* A palette is unfolded to 32 bits: the high bits of a channel fill the low.
Unfolded(p) == <<255, 8 * p[1] + p[1] \div 4, 4 * p[2] + p[2] \div 16, 8 * p[3] + p[3] \div 4>>

\* Two of the copies round every weight down, the others only the sum.
RoundsWeights == (task.src = "8" /\ task.dst = "16")
                 \/ (task.src \in {"24", "32", "PM32"} /\ task.dst # "16"
                        /\ ~(task.src = "32" /\ task.dst = "PM32"))

\* The sum over the sixteen pixels of one channel, in 65536ths
CubicSum(pixels, c, across, down) ==
    LET weight(j, k) == down[j] * across[k]
        one(j, k) == pixels[j][k][c] *
            (IF RoundsWeights THEN 256 * (weight(j, k) \div 256) ELSE weight(j, k))
        row(j) == one(j, 1) + one(j, 2) + one(j, 3) + one(j, 4)
    IN  row(1) + row(2) + row(3) + row(4)

ThreeOrderCopy(pixels, u, v) ==
    LET unfolded == [j \in 1..4 |-> [k \in 1..4 |->
                        IF task.src = "8" THEN Unfolded(pixels[j][k]) ELSE pixels[j][k]]]
        across == CubicWeights(u \div 256)
        down == CubicWeights(v \div 256)
        sums == [c \in DOMAIN unfolded[1][1] |-> CubicSum(unfolded, c, across, down)]
        whole == [c \in DOMAIN sums |-> sums[c] \div 65536]
    IN  IF task.src = "16"
        THEN IF task.dst = "16" THEN whole
             ELSE <<255, sums[1] \div 8192, sums[2] \div 16384, sums[3] \div 8192>>
        ELSE IF task.dst = "16" THEN To16(whole)
        ELSE IF task.src = "8" THEN [whole EXCEPT ![1] = 255]
        ELSE IF task.src = "32" /\ task.dst = "PM32" THEN Premultiplied(whole)
        ELSE whole

\* The first of a, a + 1, ... with dstW or a pixel that Ends
Until(a, Ends(_)) ==
    CHOOSE k \in a..task.dstW :
        /\ k = task.dstW \/ Ends(k)
        /\ \A j \in a..(k - 1) : ~Ends(j)

CubicX(k) == Start(task.srcW, task.dstW) + k * Step(task.srcW, task.dstW)

\* The pixels of a row that are made of pixels inside the source, first and
\* last plus one; in the first and the last rows there are none.
CentreFrom == Until(1, LAMBDA k : CubicX(k) >= 65536)
CentreTo == Until(CentreFrom, LAMBDA k : CubicX(k) \div 65536 + 2 >= task.srcW)
HasCentre == task.y > 0 /\ task.sy >= 65536 /\ task.sy \div 65536 + 2 < task.srcH

CubicPixel(k) ==
    LET x == CubicX(k) \div 65536
        y == task.sy \div 65536
        inner == HasCentre /\ k \in CentreFrom..(CentreTo - 1)
    IN  ThreeOrderCopy(IF inner THEN InnerPixels(x, y) ELSE BorderPixels(x, y),
                       CubicX(k) % 65536, task.sy % 65536)

\* A row whose centre reaches its end is left before the centre is copied, and
\* the next row begins where it should have been.
CubicCount == IF HasCentre /\ CentreFrom < task.dstW /\ CentreTo = task.dstW
              THEN CentreFrom ELSE task.dstW

-----------------------------------------------------------------------------
(* _ScaleBilinear *)

Enlarges == task.dstW >= task.srcW /\ task.dstH >= task.srcH

\* One row; at is the next pixel of the destination.
CopyRow ==
    /\ task.y < task.dstH /\ Converts(task.src, task.dst)
    /\ LET count == IF Enlarges THEN task.dstW ELSE CubicCount
           row == [k \in 0..(count - 1) |-> IF Enlarges THEN BilinearPixel(k) ELSE CubicPixel(k)]
       IN  task' = [task EXCEPT
                        !.y = @ + 1, !.sy = @ + Step(task.srcH, task.dstH), !.at = @ + count,
                        !.out = [n \in DOMAIN task.out |->
                                    IF n \in task.at..(task.at + count - 1) THEN row[n - task.at]
                                    ELSE task.out[n]]]

Init ==
    \E size \in Sizes, image \in Images, src \in Format, dst \in Format, junk \in {0, 1} :
        /\ Converts(src, dst)
        /\ task = [srcW |-> size[1], srcH |-> size[2], dstW |-> size[3], dstH |-> size[4],
                   image |-> image, src |-> src, dst |-> dst, junk |-> junk,
                   y |-> 0, sy |-> Start(size[2], size[4]), at |-> 0,
                   out |-> [n \in 0..(size[3] * size[4] - 1) |-> <<>>]]

Next == CopyRow

-----------------------------------------------------------------------------
(* What a scaled bitmap should be *)

Clamp(p, size) == IF p < 0 THEN 0 ELSE IF p >= size THEN size - 1 ELSE p
Distance(a, b) == IF a < b THEN b - a ELSE a - b

\* The weight of a source pixel at some distance, in 256ths of a pixel
Kernel(d) == IF Enlarges THEN (IF d >= 256 THEN 0 ELSE 256 - d) ELSE SinXDivX_Table_8(d)

\* The channels of the source at a place in 256ths: the weighted sums of the
\* sixteen pixels around, those outside being the nearest inside.
Interpolated(px, py) ==
    LET at == [j \in 1..4 |-> [k \in 1..4 |->
                  Pixel(task.image, task.src, Clamp(px \div 256 + k - 2, task.srcW),
                        Clamp(py \div 256 + j - 2, task.srcH))]]
        weights(p) == <<Kernel(256 + (p % 256)), Kernel(p % 256),
                        Kernel(256 - (p % 256)), Kernel(512 - (p % 256))>>
        across == weights(px)
        down == weights(py)
        one(j, k, c) == down[j] * across[k] * at[j][k][c]
        row(j, c) == one(j, 1, c) + one(j, 2, c) + one(j, 3, c) + one(j, 4, c)
    IN  [c \in DOMAIN Maxima(task.src) |->
            (row(1, c) + row(2, c) + row(3, c) + row(4, c)) \div 65536]

\* In the channels of the destination; an opaque source has alpha 255.
Expected(n) ==
    LET px == CubicX(n % task.dstW) \div 256
        py == (Start(task.srcH, task.dstH) + (n \div task.dstW) * Step(task.srcH, task.dstH)) \div 256
        exact == Interpolated(px, py)
        colors == IF Len(exact) = 3 THEN exact ELSE Tail(exact)
        from == IF Len(exact) = 3 THEN <<31, 63, 31>> ELSE <<255, 255, 255>>
        alpha == IF Len(exact) = 3 THEN 255 ELSE exact[1]
        to == IF task.dst = "16" THEN <<31, 63, 31>> ELSE <<255, 255, 255>>
        scaled == [c \in 1..3 |-> (colors[c] * to[c]) \div from[c]]
    IN  IF task.dst = "16" THEN scaled
        ELSE IF task.src = "32" /\ task.dst = "PM32" THEN Premultiplied(<<alpha>> \o scaled)
        ELSE <<alpha>> \o scaled

\* Enlarging reads nothing after the end of the source; of one that is one
\* pixel wide it reads the pixel after the last, which then has no weight.
ReadsTheSource ==
    Enlarges /\ task.y < task.dstH /\ task.srcW > 1 =>
        \A k \in 0..(task.dstW - 1) :
            \A j \in 1..4 : BilinearPlaces(k)[j] < task.srcW * task.srcH

\* A bitmap that was reduced to no less than a third of its width has every
\* pixel, and every channel of it is what interpolation between the pixels
\* around gives, but for rounding: no channel runs into another, no pixel
\* outside the source shows, no row is shifted.
ScaledBitmapIsInterpolated ==
    /\ ReadsTheSource
    /\ task.y = task.dstH /\ task.srcW <= 3 * task.dstW =>
           \A n \in DOMAIN task.out :
               LET expected == Expected(n)
               IN  /\ Len(task.out[n]) = Len(Maxima(task.dst))
                   /\ \A c \in DOMAIN task.out[n] :
                          Distance(task.out[n][c], expected[c]) <= Maxima(task.dst)[c] \div 12 + 1
=============================================================================
