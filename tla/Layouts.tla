------------------------------ MODULE Layouts ------------------------------
(***************************************************************************)
(* How a container gives its children their places: the seven layouts of   *)
(* AEE++/dui/layout/ and the two of AEE++/mui/mui_layout.cpp, and the      *)
(* range of the scroll that follows.                                       *)
(*                                                                         *)
(* A child is a record: its place x, y, w, h in the container (mLeft,      *)
(* mTop, mWidth, mHeight), the percents pw and ph of its size or NoPercent,*)
(* its place pos relative to an edge (mRelativePos) or NoPos, whether it   *)
(* is visible, and its name id.  The declared size of a child is           *)
(* overwritten by the one it is given.  box is the container's own         *)
(* rectangle and rc is its client rectangle.                               *)
(***************************************************************************)
EXTENDS Integers, Sequences, SequencesExt

NoPercent == -1
NoPos == [col |-> -1, row |-> -1, dx |-> 0, dy |-> 0]

Rect(x, y, w, h) == [x |-> x, y |-> y, w |-> w, h |-> h]
Size(cx, cy) == [cx |-> cx, cy |-> cy]

\* The division of C, towards 0
Quotient(a, b) == IF a >= 0 THEN a \div b ELSE -((-a) \div b)

\* TRect::operator-= by the padding, the same on every side
Client(box, pad) == Rect(pad, pad, box.w - 2 * pad, box.h - 2 * pad)

MeasureSize(c, cx, cy) ==
    Size(IF c.pw # NoPercent THEN Quotient(cx * c.pw, 100) ELSE c.w,
         IF c.ph # NoPercent THEN Quotient(cy * c.ph, 100) ELSE c.h)

\* pos names one of nine points of r by its column and row, 0 to 2.
GetPostion(pos, r) ==
    [x |-> r.x + ((r.w * pos.col) \div 2) + pos.dx, y |-> r.y + ((r.h * pos.row) \div 2) + pos.dy]

\* A negative size stands for the rectangle of the container.
SetRect(c, box, x, y, cx, cy) ==
    LET r == IF cx < 0 \/ cy < 0 THEN box ELSE Rect(x, y, cx, cy)
        s == MeasureSize(c, r.w, r.h)
        at == GetPostion(c.pos, r)
    IN  IF c.pos = NoPos THEN [c EXCEPT !.x = r.x, !.y = r.y, !.w = r.w, !.h = r.h]
        ELSE [c EXCEPT !.x = at.x, !.y = at.y, !.w = s.cx, !.h = s.cy]

Placed(c, box, x, y, s) == IF s.cx >= 0 /\ s.cy >= 0 THEN SetRect(c, box, x, y, s.cx, s.cy) ELSE c
Anchored(c, box) == SetRect(c, box, 0, 0, box.w, box.h)

Larger(a, b) == IF a > b THEN a ELSE b
Total(f, children) == FoldLeft(LAMBDA sum, c : sum + f[c], 0, children)

-----------------------------------------------------------------------------
(* The layouts of the first library *)

\* mutant: what a percent was given before is not free
FreeHeightOfAll(rc, children) ==
    rc.h - Total([c \in ToSet(children) |-> IF c.pos = NoPos /\ c.visible THEN c.h ELSE 0], children)
FreeHeight(rc, children) ==
    rc.h - Total([c \in ToSet(children) |->
                    IF c.ph = NoPercent /\ c.pos = NoPos /\ c.visible THEN c.h ELSE 0], children)

VBox(box, rc, children) ==
    LET Place(acc, c) ==
            LET s == MeasureSize(c, rc.w, FreeHeight(rc, children))
            IN  CASE ~c.visible -> [acc EXCEPT !.out = Append(@, c)]
                  [] c.visible /\ c.pos # NoPos -> [acc EXCEPT !.out = Append(@, Anchored(c, box))]
                  [] OTHER -> [out |-> Append(acc.out, Placed(c, box, rc.x, acc.y, s)), y |-> acc.y + s.cy]
        all == FoldLeft(Place, [out |-> <<>>, y |-> rc.y], children)
    IN  [children |-> all.out, w |-> rc.w, h |-> Larger(rc.h, all.y - rc.y)]

FreeWidth(rc, children) ==
    rc.w - Total([c \in ToSet(children) |->
                    IF c.pw = NoPercent /\ c.pos = NoPos /\ c.visible THEN c.w ELSE 0], children)

\* A hidden child has its place and takes no room.
HBox(box, rc, children) ==
    LET Place(acc, c) ==
            LET s == MeasureSize(c, FreeWidth(rc, children), rc.h)
            IN  IF c.pos # NoPos THEN [acc EXCEPT !.out = Append(@, Anchored(c, box))]
                ELSE [out |-> Append(acc.out, Placed(c, box, acc.x, rc.y, s)),
                      x |-> acc.x + (IF c.visible THEN s.cx ELSE 0)]
        all == FoldLeft(Place, [out |-> <<>>, x |-> rc.x], children)
    IN  [children |-> all.out, w |-> Larger(rc.w, all.x - rc.x), h |-> rc.h]

Tab(box, rc, children) ==
    LET Place(acc, c) ==
            IF c.pos # NoPos
            THEN [acc EXCEPT !.out = Append(@, SetRect(c, box, rc.x, rc.y, rc.w, rc.h))]
            ELSE [out |-> Append(acc.out, SetRect(c, box, acc.x, rc.y, rc.w, rc.h)), x |-> acc.x + rc.w]
        all == FoldLeft(Place, [out |-> <<>>, x |-> rc.x], children)
    IN  [children |-> all.out, w |-> all.x - rc.x, h |-> rc.h]

\* What the first row leaves to its percents, and its sizes
FirstRow(children, cols) == SubSeq(children, 1, IF cols < Len(children) THEN cols ELSE Len(children))
RowFree(rc, children, cols) ==
    rc.w - Total([c \in ToSet(children) |-> IF c.pw = NoPercent /\ c.pos = NoPos THEN c.w ELSE 0],
                 FirstRow(children, cols))
Sizes(rc, children, cols) ==
    [i \in DOMAIN children |-> MeasureSize(children[i], RowFree(rc, children, cols), rc.h)]
RowLeft(rc, children, cols) ==
    rc.w - FoldLeft(LAMBDA sum, s : sum + s.cx, 0, FirstRow(Sizes(rc, children, cols), cols))

\* The space before each child of a row
ColSpace(rc, children, cols) ==
    LET last == Sizes(rc, children, cols)[Len(children)].cx
        space == CASE Len(children) >= cols -> Quotient(RowLeft(rc, children, cols), cols + 1)
                   [] children = <<>> -> Quotient(rc.w, cols + 1)
                   [] OTHER -> Quotient(rc.w - last * cols, cols + 1)
    IN  Larger(space, 0)

\* A row is as high as its last child, the content as high as the first ones.
Grid(box, rc, children, cols) ==
    LET space == ColSpace(rc, children, cols)
        Place(acc, c) ==
            LET s == IF c.pos = NoPos THEN MeasureSize(c, RowFree(rc, children, cols), rc.h) ELSE acc.size
                ends == acc.i + 1 >= cols
            IN  [ out |-> Append(acc.out, IF c.pos = NoPos THEN Placed(c, box, acc.x + space, acc.y, s)
                                          ELSE Anchored(c, box)),
                  x |-> CASE ends -> rc.x
                          [] ~ends /\ c.pos = NoPos /\ s.cx >= 0 /\ s.cy >= 0 -> acc.x + space + s.cx
                          [] OTHER -> acc.x + space,
                  y |-> IF ends THEN acc.y + s.cy ELSE acc.y,
                  i |-> IF ends THEN 0 ELSE acc.i + 1,
                  height |-> acc.height + (IF acc.i = 0 THEN s.cy ELSE 0), size |-> s ]
        none == Size(0, 0)
        first == IF children = <<>> THEN none ELSE Last(FirstRow(Sizes(rc, children, cols), cols))
        all == FoldLeft(Place, [out |-> <<>>, x |-> rc.x, y |-> rc.y, i |-> 0, height |-> 0, size |-> first],
                        children)
    IN  [children |-> all.out, w |-> rc.w, h |-> Larger(rc.h, all.height - rc.y)]

\* mutant: column after column
NextColumn(at, low) == IF low = Len(at) THEN 1 ELSE low + 1

\* The column that is shortest; the one of before stays if it still is.
Shortest(at, low) ==
    IF \A k \in DOMAIN at : at[low] <= at[k] THEN low
    ELSE CHOOSE k \in DOMAIN at :
            /\ \A j \in DOMAIN at : at[k] <= at[j]
            /\ \A j \in 1..(k - 1) : at[j] > at[k]

\* Columns as wide as the last child of the first row; hidden children too.
VFlow(box, rc, children, cols) ==
    LET sizes == FirstRow(Sizes(rc, children, cols), cols)
        width == IF sizes = <<>> THEN 0 ELSE Last(sizes).cx
        space == IF Len(children) >= cols THEN Quotient(RowLeft(rc, children, cols), cols + 1) ELSE 0
        Place(acc, c) ==
            LET s == MeasureSize(c, RowFree(rc, children, cols), rc.h)
                at == [acc.at EXCEPT ![acc.low] = @ + s.cy]
            IN  IF c.pos # NoPos
                THEN [acc EXCEPT !.out = Append(@, Anchored(c, box)), !.low = Shortest(acc.at, acc.low)]
                ELSE [ out |-> Append(acc.out, Placed(c, box, rc.x + width * (acc.low - 1) + space,
                                                      acc.at[acc.low], s)),
                       at |-> at, low |-> Shortest(at, acc.low), deep |-> Larger(acc.deep, at[acc.low]) ]
        all == FoldLeft(Place, [out |-> <<>>, at |-> [k \in 1..cols |-> rc.y], low |-> 1, deep |-> 0], children)
    IN  [children |-> all.out, w |-> rc.w, h |-> Larger(rc.h, all.deep - rc.y)]

\* The strip of r at one side of it, and what it leaves; a centre takes all.
Strip(side, r, s) ==
    CASE side = "north" -> [r EXCEPT !.h = s.cy]
      [] side = "south" -> [r EXCEPT !.y = @ + r.h - s.cy, !.h = s.cy]
      [] side = "west" -> [r EXCEPT !.w = s.cx]
      [] side = "east" -> [r EXCEPT !.x = @ + r.w - s.cx, !.w = s.cx]
      [] side = "center" -> r
Left(side, r, s) ==
    CASE side = "north" -> [r EXCEPT !.y = @ + s.cy, !.h = @ - s.cy]
      [] side = "south" -> [r EXCEPT !.h = @ - s.cy]
      [] side = "west" -> [r EXCEPT !.x = @ + s.cx, !.w = @ - s.cx]
      [] side = "east" -> [r EXCEPT !.w = @ - s.cx]
      [] side = "center" -> r

\* Strips at the top and the bottom, then at the left and the right; the rest is the centre's.
Border(box, rc, children) ==
    LET Place(acc, side) ==
            LET i == SelectInSeq(acc.out, LAMBDA c : c.id = side)
                s == MeasureSize(acc.out[i], acc.r.w, acc.r.h)
                at == Strip(side, acc.r, s)
            IN  IF i = 0 THEN acc
                ELSE [out |-> [acc.out EXCEPT ![i] = SetRect(@, box, at.x, at.y, at.w, at.h)],
                      r |-> Left(side, acc.r, s)]
        all == FoldLeft(Place, [out |-> children, r |-> rc], <<"north", "south", "west", "east", "center">>)
    IN  [children |-> all.out, w |-> rc.w, h |-> rc.h]

Relative(box, rc, children) ==
    [children |-> [i \in DOMAIN children |-> SetRect(children[i], box, 0, 0, box.w, box.h)],
     w |-> box.w, h |-> box.h]

-----------------------------------------------------------------------------
(* The layouts of the second library; i counts from 0. *)

\* Pages of cols times rows lie side by side when the list moves sideways.
MUIGridLayout(box, pad, children, cols, rows, iw, ih, move_x) ==
    LET width == Quotient(box.w - 2 * pad, cols)
        height == Quotient(box.h - 2 * pad, rows)
        Cell(i) == IF move_x
                   THEN [col |-> cols * (i \div (cols * rows)) + (i % cols),
                         row |-> (i % (cols * rows)) \div cols]
                   ELSE [col |-> i % cols, row |-> i \div cols]
    IN  [k \in DOMAIN children |->
            [children[k] EXCEPT !.x = pad + width * Cell(k - 1).col + Quotient(width - iw, 2),
                                !.y = pad + height * Cell(k - 1).row + Quotient(height - ih, 2),
                                !.w = iw, !.h = ih]]

MUIListLayout(box, pad, children, itemHeight) ==
    [k \in DOMAIN children |->
        [children[k] EXCEPT !.x = pad, !.y = pad + itemHeight * (k - 1),
                            !.w = box.w - 2 * pad, !.h = itemHeight]]

Farthest(f) == FoldLeft(Larger, 0, f)

\* mutant: the padding below the children is forgotten
ScrollInfoUnpadded(box, pad, children) ==
    LET y == Farthest([k \in DOMAIN children |-> children[k].y + children[k].h])
        x == Farthest([k \in DOMAIN children |-> children[k].x + children[k].w])
    IN  [max_x |-> IF y <= box.h THEN Larger(x - box.w, 0) ELSE 0, max_y |-> Larger(y - box.h, 0)]

\* MUIContainer::doLayout: one way to scroll, down before sideways.
ScrollInfo(box, pad, children) ==
    LET y == Farthest([k \in DOMAIN children |-> children[k].y + children[k].h]) + pad
        x == Farthest([k \in DOMAIN children |-> children[k].x + children[k].w])
    IN  [max_x |-> IF y <= box.h THEN Larger(x - box.w, 0) ELSE 0, max_y |-> Larger(y - box.h, 0)]
=============================================================================
