--------------------------- MODULE AEERotateBitmap ---------------------------
(***************************************************************************)
(* AEERotateBitmap::Render (AEE++/gdi/AEERotateBitmap.cpp): a bitmap is    *)
(* turned around its middle and drawn at a point of a layer, inside a clip *)
(* rectangle, row by row: first from the middle down, then from it up.     *)
(* Every pixel of the layer is mapped back to a place of the bitmap.       *)
(***************************************************************************)
EXTENDS Integers, Sequences

CONSTANTS
    One,     \* 1 in fixed point, 65536 in the code
    Turns,   \* <<cosine, sine>> of the angles, in fixed point
    Places,  \* <<originX, originY>>
    Shapes,  \* the bitmaps, <<src_width, src_height>>
    Layer    \* the layer: [w, h, left, top, right, bottom], its size and its clip

RotateAssumption ==
    /\ One \in Nat \ {0} /\ Turns \subseteq (Int \X Int) /\ Places \subseteq (Int \X Int)
    /\ Shapes \subseteq (Nat \X Nat)
    /\ 0 <= Layer.left /\ Layer.right <= Layer.w /\ 0 <= Layer.top /\ Layer.bottom <= Layer.h

VARIABLE task   \* the call under way

Least(a, b, P(_)) == CHOOSE k \in a..b : P(k) /\ \A j \in a..(k - 1) : ~P(j)

-----------------------------------------------------------------------------
(* Where a pixel of the layer comes from *)

Product(a, b) == (a * b) \div One

\* The place of the bitmap, in fixed point, that pixel (x, y) shows
Source(x, y) ==
    LET rx0 == (task.w * One) \div 2
        ry0 == (task.h * One) \div 2
        Cx == Product(-task.ox * One, task.cos) + Product(task.oy * One, task.sin) + rx0
        Cy == Product(-task.ox * One, task.sin) + Product(-task.oy * One, task.cos) + ry0
    IN  [x |-> task.cos * x - task.sin * y + Cx, y |-> task.sin * x + task.cos * y + Cy]

\* Comparison of two numbers as unsigned words
UnsignedLess(a, b) == IF b >= 0 THEN 0 <= a /\ a < b ELSE a >= 0 \/ a < b

\* In the bitmap or a border of one pixel around it
IsBorderSrc(s) == UnsignedLess(s.x + One, (task.w + 2) * One) /\ UnsignedLess(s.y + One, (task.h + 2) * One)

\* In the bitmap but for a border of one pixel
IsInSrc(s) == UnsignedLess(s.x - One, (task.w - 2) * One) /\ UnsignedLess(s.y - One, (task.h - 2) * One)

\* A row of the layer long enough for any place of the bitmap
Far == 2 * (Layer.w + Layer.h + task.w + task.h)
Shows(x, y) == IsBorderSrc(Source(x, y))

\* mutant: never further to the left than the row before
FindBeginNotLeft(y, x0, x1) ==
    LET shown == {i \in x0..x1 : Shows(i, y)}
    IN  IF shown = {} THEN [found |-> FALSE, x |-> x0]
        ELSE [found |-> TRUE, x |-> CHOOSE k \in shown : \A j \in shown : k <= j]

\* find_begin: the first pixel of a row, looked for from the one before x0 to
\* x1; when that one shows already, further to the left.
FindBegin(y, x0, x1) ==
    LET shown == {i \in (x0 - 1)..x1 : Shows(i, y)}
        i == CHOOSE k \in shown : \A j \in shown : k <= j
    IN  IF shown = {} THEN [found |-> FALSE, x |-> x0]
        ELSE [found |-> TRUE,
              x |-> IF i # x0 - 1 THEN i
                    ELSE 1 - Least(-i, Far, LAMBDA k : ~Shows(-k, y))]

\* find_end: the pixel after the last of a row, looked for from x1.
FindEnd(y, x0, x1) ==
    LET t == IF x1 < x0 THEN x0 ELSE x1
    IN  IF Shows(t, y) THEN Least(t + 1, Far, LAMBDA k : ~Shows(k, y))
        ELSE 1 - Least(1 - t, Far, LAMBDA k : Shows(-k, y))

\* update_out_dst_x_in: what of pixels from..to-1 is inside; the others need
\* the pixels of the border.
Inside(y, from, to) ==
    IF from >= to THEN [from |-> from, to |-> to]
    ELSE LET in0 == Least(from, to, LAMBDA k : k = to \/ IsInSrc(Source(k, y)))
         IN  [from |-> in0,
              to |-> -Least(-to, -in0, LAMBDA k : -k = in0 \/ IsInSrc(Source(-k - 1, y)))]

\* Where the pixels end that are drawn.  Below the middle a row that reaches
\* the clip keeps the end of the row before.
EndAbove(x1) == IF x1 >= Layer.right THEN Layer.right ELSE x1
EndBelow(x1) == IF x1 >= Layer.right THEN task.end ELSE x1

-----------------------------------------------------------------------------
(* The pixels *)

\* A pixel of the bitmap: r g b in 16 bits, a r g b in 32.  Bitmaps that are
\* drawn smooth hold an eighth of each channel.
Pixel(x, y) ==
    IF task.src # "32" THEN <<(7 * x + 5 * y) % 32, (9 * x + 31 * y) % 64, (x + 30 * y) % 32>>
    ELSE [c \in 1..4 |->
            (IF c = 1 THEN <<255, 0, 100>>[1 + ((x + y) % 3)] ELSE (90 * x + 50 * y + 40 * c) % 256)
                \div (IF task.aa THEN 8 ELSE 1)]

InBitmap(x, y) == x \in 0..(task.w - 1) /\ y \in 0..(task.h - 1)

\* SetBorderData: the four pixels at a place of which at least one is in the
\* bitmap; the others repeat it, those with alpha without any.
Faded(p) == IF Len(p) = 4 THEN [p EXCEPT ![1] = 0] ELSE p
BorderRow(x, y) ==
    <<IF InBitmap(x, y) THEN Pixel(x, y) ELSE Faded(Pixel(x + 1, y)),
      IF InBitmap(x + 1, y) THEN Pixel(x + 1, y) ELSE Faded(Pixel(x, y))>>
BorderData(x, y) ==
    LET row(r) == BorderRow(x, r)
        faded(r) == <<Faded(row(r)[1]), Faded(row(r)[2])>>
    IN  IF y \notin 0..(task.h - 1) THEN faded(y + 1) \o row(y + 1)
        ELSE IF y + 1 \notin 0..(task.h - 1) THEN row(y) \o faded(y)
        ELSE row(y) \o row(y + 1)
HasBorderData(x, y) == \E i \in {x, x + 1}, j \in {y, y + 1} : InBitmap(i, j)

\* mutant: the weight of the last pixel counted twice
SmoothWithoutFxy(p, fx, fy) ==
    LET fxy == (fx * fy) \div 8
    IN  [c \in 1..4 |-> (8 - fx - fy) * p[1][c] + (fx - fxy) * p[2][c] + (fy - fxy) * p[3][c] + fxy * p[4][c]]

\* Between four pixels, in eighths: one product for the four channels
Smooth(p, fx, fy) ==
    LET fxy == (fx * fy) \div 8
    IN  [c \in 1..4 |-> (8 - (fx - fxy) - fy) * p[1][c] + (fx - fxy) * p[2][c]
                            + (fy - fxy) * p[3][c] + fxy * p[4][c]]

\* d and s in words 07e0f81f, d + ((s - d) * a >> 5): a field below zero
\* borrows from the next, and gives back when d is added.
Blend5(s, d, a) ==
    LET e1 == ((s[3] - d[3]) * a) % 2048
        e2 == ((s[1] - d[1]) * a + ((s[3] - d[3]) * a) \div 2048) % 1024
        e3 == ((s[2] - d[2]) * a
                 + ((s[1] - d[1]) * a + ((s[3] - d[3]) * a) \div 2048) \div 1024) % 2048
        low == e1 \div 32 + (e2 % 32) * 64 + d[3]
        middle == e2 \div 32 + (e3 % 32) * 32 + d[1] + low \div 2048
        high == e3 \div 32 + d[2] + middle \div 1024
    IN  <<middle % 32, high % 64, low % 32>>

Mixed(s, d, a) == [c \in 1..3 |-> (s[c + 1] * a + d[c + 1] * (256 - a)) \div 256]

\* What a pixel d of the layer becomes when s is drawn on it
Put16(s, d) ==
    LET a == s[1] \div 8
        t == <<s[2] \div 8, s[3] \div 4, s[4] \div 8>>
    IN  IF a = 0 THEN d ELSE IF a = 31 THEN t ELSE Blend5(t, d, a)

Put24(s, d) == IF s[1] = 0 THEN d ELSE IF s[1] = 255 THEN s ELSE <<0>> \o Mixed(s, d, s[1])

PutP32(s, d) ==
    IF s[1] = 0 THEN d ELSE IF s[1] = 255 THEN s
    ELSE [c \in 1..4 |-> (IF c = 1 THEN s[1] ELSE (s[c] * s[1]) \div 256) + (d[c] * (256 - s[1])) \div 256]

Put32(s, d) ==
    LET both == (256 * (s[1] + d[1]) - d[1] * s[1]) \div 256
        share == (s[1] * (IF both = 1 THEN 65535 ELSE 65536 \div both)) \div 256
    IN  IF s[1] = 0 THEN d
        ELSE IF s[1] = 255 \/ d[1] = 0 THEN s
        ELSE IF d[1] = 255 THEN <<255>> \o Mixed(s, d, s[1])
        ELSE <<both>> \o Mixed(s, d, share)

\* 16 to 32 bits: masks that are too wide take bits of the next channel.
Widened(s) ==
    IF task.src = "8" THEN <<255, 8 * s[1], 4 * s[2], 8 * s[3]>>
    ELSE <<255, 8 * s[1] + s[2] \div 8, 4 * s[2] + 2 * (s[3] \div 16), 8 * s[3]>>

Put(p, f, d) ==
    LET s == IF task.aa THEN Smooth(p, (8 * f.x) \div One, (8 * f.y) \div One) ELSE p[1]
    IN  IF task.src # "32" THEN (IF task.dst = "16" THEN s ELSE Widened(s))
        ELSE CASE task.dst = "16" -> Put16(s, d)
               [] task.dst = "24" -> Put24(s, d)
               [] task.dst = "PM32" -> PutP32(s, d)
               [] OTHER -> IF task.aa THEN s ELSE Put32(s, d)

\* PicRotary_BilInear_CopyLine
CopyLine(y, from, to) ==
    LET in == Inside(y, from, to)
        at(x) == [x |-> Source(x, y).x \div One, y |-> Source(x, y).y \div One]
        part(x) == [x |-> Source(x, y).x % One, y |-> Source(x, y).y % One]
        inner(x) == <<Pixel(at(x).x, at(x).y), Pixel(at(x).x + 1, at(x).y),
                      Pixel(at(x).x, at(x).y + 1), Pixel(at(x).x + 1, at(x).y + 1)>>
        drawn(x, d) ==
            IF x \in in.from..(in.to - 1) THEN Put(inner(x), part(x), d)
            ELSE IF HasBorderData(at(x).x, at(x).y) THEN Put(BorderData(at(x).x, at(x).y), part(x), d)
            ELSE d
    IN  [task.out EXCEPT ![y] = [x \in DOMAIN @ |-> IF x \in from..(to - 1) THEN drawn(x, @[x]) ELSE @[x]]]

-----------------------------------------------------------------------------
(* zmaee_bitblt_ex1 *)

\* The left end of what is drawn of a row that begins at x0
From(x0) == IF x0 < Layer.left THEN Layer.left ELSE x0
Shown(y) == Layer.top <= y /\ y < Layer.bottom

\* init_clip and the row of the middle
Middle ==
    /\ task.at = "middle"
    /\ LET begin == FindBegin(task.oy, task.ox, task.ox)
           x1 == IF begin.found THEN FindEnd(task.oy, begin.x, task.ox) ELSE task.ox
       IN  IF begin.x < x1
           THEN task' = [task EXCEPT
                   !.at = IF task.oy >= Layer.bottom THEN "up" ELSE "down",
                   !.down = [y |-> task.oy, x0 |-> begin.x, x1 |-> x1],
                   !.up = [y |-> task.oy, x0 |-> begin.x, x1 |-> x1],
                   !.end = EndAbove(x1),
                   !.out = IF Shown(task.oy) THEN CopyLine(task.oy, From(begin.x), EndAbove(x1)) ELSE @]
           ELSE task' = [task EXCEPT !.at = "done"]

Down ==
    /\ task.at = "down"
    /\ LET y == task.down.y + 1
           begin == FindBegin(y, task.down.x0, task.down.x1)
           end == FindEnd(y, begin.x, task.down.x1)
           x1 == IF end >= Layer.right THEN Layer.right ELSE end
       IN  IF begin.found /\ begin.x < x1 /\ y < Layer.bottom
           THEN task' = [task EXCEPT
                   !.down = [y |-> y, x0 |-> begin.x, x1 |-> x1],
                   !.end = EndBelow(end),
                   !.out = IF Shown(y) THEN CopyLine(y, From(begin.x), EndBelow(end)) ELSE @]
           ELSE task' = [task EXCEPT !.at = "up", !.end = IF begin.found THEN EndBelow(end) ELSE @]

Up ==
    /\ task.at = "up"
    /\ LET y == task.up.y - 1
           begin == FindBegin(y, task.up.x0, task.up.x1)
           x1 == FindEnd(y, begin.x, task.up.x1)
       IN  IF begin.found /\ begin.x < x1 /\ y >= Layer.top
           THEN task' = [task EXCEPT
                   !.up = [y |-> y, x0 |-> begin.x, x1 |-> x1],
                   !.end = EndAbove(x1),
                   !.out = IF Shown(y) THEN CopyLine(y, From(begin.x), EndAbove(x1)) ELSE @]
           ELSE task' = [task EXCEPT !.at = "done"]

Backgrounds(dst) ==
    CASE dst = "16" -> {<<3, 60, 20>>}
      [] dst = "24" -> {<<0, 200, 10, 90>>}
      [] dst = "PM32" -> {<<200, 190, 10, 90>>}
      [] OTHER -> {<<a, 190, 10, 90>> : a \in {0, 90, 255}}

Init ==
    \E turn \in Turns, place \in Places, shape \in Shapes, src \in {"8", "16", "32"},
       dst \in {"16", "24", "32", "PM32"}, aa \in BOOLEAN :
        /\ aa => src = "32"
        /\ \E d \in Backgrounds(dst) :
               task = [cos |-> turn[1], sin |-> turn[2], ox |-> place[1], oy |-> place[2],
                       w |-> shape[1], h |-> shape[2], src |-> src, dst |-> dst, aa |-> aa,
                       ground |-> d, at |-> "middle", end |-> 0,
                       down |-> [y |-> 0, x0 |-> 0, x1 |-> 0], up |-> [y |-> 0, x0 |-> 0, x1 |-> 0],
                       out |-> [y \in 0..(Layer.h - 1) |-> [x \in 0..(Layer.w - 1) |-> d]]]

Next == Middle \/ Down \/ Up

-----------------------------------------------------------------------------
(* What a drawn bitmap should be *)

Distance(a, b) == IF a < b THEN b - a ELSE a - b

\* The pixel of the bitmap at pixel (x, y) of the layer, if the place is in it
Place(x, y) == [x |-> Source(x, y).x \div One, y |-> Source(x, y).y \div One]

\* s over the background, by the arithmetic of transparency
Over(s, d, c) ==
    LET a == s[1]
        both == a + d[1] - (a * d[1]) \div 255
    IN  IF task.dst = "PM32" THEN (s[c] * a + d[c] * (255 - a)) \div 255
        ELSE IF task.dst = "24" \/ d[1] = 255 THEN (s[c] * a + d[c] * (255 - a)) \div 255
        ELSE IF both = 0 THEN d[c]
        ELSE (s[c] * a + ((d[c] * d[1]) \div 255) * (255 - a)) \div both

Close(v, s, d) ==
    IF task.src # "32" /\ task.dst = "16" THEN v = s
    ELSE IF task.src # "32"
    THEN \A c \in 1..3 : v[c + 1] \div (IF c = 2 THEN 4 ELSE 8) = s[c]
    ELSE IF task.dst = "16"
    THEN \A c \in 1..3 :
            LET most == IF c = 2 THEN 63 ELSE 31
            IN  Distance(v[c] * 255, ((s[c + 1] * most) \div 255) * s[1] + d[c] * (255 - s[1])) <= 255 * 3
    ELSE \A c \in 2..4 : (s[1] # 0 \/ d[1] # 0) => Distance(v[c], Over(s, d, c)) <= 4

\* One pixel wide or high, a bitmap has no inside, and the comparison takes
\* what is right of it or below it for the inside.
Thick == task.w > 1 /\ task.h > 1

\* The clip does not cut the bitmap on its right side.
FitsOnTheRight == \A y \in DOMAIN task.out : \A x \in Layer.right..(Layer.right + 1) : ~Shows(x, y)

\* A thick bitmap that the clip does not cut on its right is drawn whole: each pixel
\* of the layer that shows a place of the bitmap is that pixel over what was
\* there, and the pixels that show none, or are not in the clip, stay.  A
\* bitmap drawn smooth keeps between the colours of the four pixels.
BitmapIsDrawn ==
    task.at = "done" /\ Thick /\ FitsOnTheRight =>
        \A y \in DOMAIN task.out : \A x \in DOMAIN task.out[y] :
            LET p == Place(x, y)
                around == {Pixel(p.x + i, p.y + j) : i \in 0..1, j \in 0..1}
            IN  IF ~Shown(y) \/ x < Layer.left \/ x >= Layer.right \/ ~HasBorderData(p.x, p.y)
                THEN task.out[y][x] = task.ground
                ELSE IF ~task.aa
                THEN InBitmap(p.x, p.y) => Close(task.out[y][x], Pixel(p.x, p.y), task.ground)
                ELSE (task.dst = "32" /\ IsInSrc(Source(x, y))) =>
                        \A c \in 1..4 :
                            /\ \E q \in around : 8 * q[c] <= task.out[y][x][c]
                            /\ \E q \in around : task.out[y][x][c] <= 8 * q[c]

\* What is copied without a border is inside the bitmap, with the pixel on the
\* right and the one below.
CopyReadsTheBitmap ==
    Thick =>
        \A y \in DOMAIN task.out : \A x \in DOMAIN task.out[y] :
            IsInSrc(Source(x, y)) =>
                \A i \in 0..1, j \in 0..1 : InBitmap(Place(x, y).x + i, Place(x, y).y + j)
=============================================================================
