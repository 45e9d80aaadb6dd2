--------------------------- MODULE ScreenLayout ---------------------------
(***************************************************************************)
(* A container of either library that is laid out: DUIContainer::SetRect   *)
(* and RefreshLayout, MUIContainer::doLayout.  The container gets another  *)
(* rectangle, children are shown and hidden, and the children have their   *)
(* places of before until the layout is refreshed.                         *)
(***************************************************************************)
EXTENDS Layouts, FiniteSets

CONSTANTS
    Layouts,    \* [lib, name, cols, rows, pad, iw, ih, move_x]: the layout of the container
    Children,   \* the sequences of children as they are declared
    Boxes,      \* the rectangles of the container
    MaxChanges  \* bound: changes of the rectangle and of the children

LayoutsAssumption ==
    /\ MaxChanges \in Nat
    /\ \A l \in Layouts : l.lib \in {"dui", "mui"} /\ l.cols \in 1..16 /\ l.rows \in Nat \ {0}
    /\ \A b \in Boxes : b.w > 0 /\ b.h > 0

VARIABLE task

Declared == task.declared

LayOut(l, box, children) ==
    LET rc == Client(box, l.pad)
    IN  CASE l.name = "vbox" -> VBox(box, rc, children)
          [] l.name = "hbox" -> HBox(box, rc, children)
          [] l.name = "tab" -> Tab(box, rc, children)
          [] l.name = "grid" /\ l.lib = "dui" -> Grid(box, rc, children, l.cols)
          [] l.name = "vflow" -> VFlow(box, rc, children, l.cols)
          [] l.name = "border" -> Border(box, rc, children)
          [] l.name = "relative" -> Relative(box, rc, children)
          [] l.lib = "mui" ->
                LET placed == IF l.name = "grid"
                              THEN MUIGridLayout(box, l.pad, children, l.cols, l.rows, l.iw, l.ih, l.move_x)
                              ELSE MUIListLayout(box, l.pad, children, l.ih)
                    info == ScrollInfo(box, l.pad, placed)
                IN  [children |-> placed, w |-> box.w + info.max_x, h |-> box.h + info.max_y]

Shown(children) == [i \in DOMAIN children |-> [children[i] EXCEPT !.visible = task.children[i].visible]]

ContainerSetRect(b) ==
    /\ task.changes < MaxChanges /\ (task.laid => b # task.box)
    /\ LET r == LayOut(task.layout, b, task.children)
       IN  task' = [task EXCEPT !.box = b, !.children = r.children, !.w = r.w, !.h = r.h,
                                !.laid = TRUE, !.changes = @ + 1]

ModifyStyle(i) ==
    /\ task.changes < MaxChanges /\ task.laid
    /\ task' = [task EXCEPT !.children[i].visible = ~@, !.laid = FALSE, !.changes = @ + 1]

RefreshLayout ==
    /\ ~task.laid /\ task.changes > 0
    /\ LET r == LayOut(task.layout, task.box, task.children)
       IN  task' = [task EXCEPT !.children = r.children, !.w = r.w, !.h = r.h, !.laid = TRUE]

Init ==
    \E l \in Layouts, c \in Children, b \in Boxes :
        task = [layout |-> l, declared |-> c, children |-> c, box |-> b, w |-> 0, h |-> 0,
                laid |-> FALSE, changes |-> 0]

Next ==
    \/ \E b \in Boxes : ContainerSetRect(b)
    \/ \E i \in DOMAIN task.children : ModifyStyle(i)
    \/ RefreshLayout

Spec == Init /\ [][Next]_task

-----------------------------------------------------------------------------

Name == task.layout.name
Rc == Client(task.box, task.layout.pad)
\* The children that take room; VFlow, Grid and Border give it to hidden ones too,
\* and Border to those it knows by name.
Flowing == {i \in DOMAIN task.children :
              /\ task.children[i].pos = NoPos
              /\ task.children[i].visible \/ Name \in {"grid", "vflow", "border"}
              /\ Name = "border" => task.children[i].id \in {"north", "south", "west", "east", "center"}}
Place(i) == task.children[i]

\* What the layout is made for: percents of a rest that is there, rows of a grid
\* as high and columns of a flow as wide as each other, a border round a centre,
\* cells that hold the items.
InUse ==
    /\ task.laid /\ Name # "relative"
    /\ Name = "vbox" => FreeHeight(Rc, Shown(Declared)) >= 0
    /\ Name = "hbox" => FreeWidth(Rc, Shown(Declared)) >= 0
    /\ task.layout.lib = "dui" /\ Name \in {"grid", "vflow"} =>
           /\ RowFree(Rc, Declared, task.layout.cols) >= 0
           /\ \A i, j \in Flowing : IF Name = "grid" THEN Place(i).h = Place(j).h ELSE Place(i).w = Place(j).w
    /\ Name = "border" => \A i \in Flowing : Place(i).w <= Rc.w /\ Place(i).h <= Rc.h
    /\ task.layout.lib = "mui" =>
           task.layout.iw * task.layout.cols <= Rc.w /\ task.layout.ih * task.layout.rows <= Rc.h

Apart(a, b) == a.x + a.w <= b.x \/ b.x + b.w <= a.x \/ a.y + a.h <= b.y \/ b.y + b.h <= a.y

\* No child lies over another one, whatever was shown, hidden and resized before.
ChildrenApart == InUse => \A i, j \in Flowing : i # j => Apart(Place(i), Place(j))

\* A child is where it would be had the container always been as it is now,
\* though a layout overwrites the sizes it takes from.
PlacesForgetThePast ==
    InUse => LET fresh == LayOut(task.layout, task.box, Shown(Declared))
             IN  /\ task.w = fresh.w /\ task.h = fresh.h
                 /\ \A i \in Flowing : task.children[i] = fresh.children[i]

\* The range of the scroll reaches the end of the last child.  A grid with
\* padding is short by it.
ScrollReachesAll ==
    InUse /\ ~(Name = "grid" /\ task.layout.lib = "dui" /\ task.layout.pad > 0) =>
        \A i \in Flowing :
            IF task.layout.lib = "mui"
            THEN Place(i).y + Place(i).h + task.layout.pad <= task.h /\ Place(i).x + Place(i).w <= task.w
            ELSE /\ Name # "hbox" => Place(i).y + Place(i).h <= Rc.y + task.h
                 /\ Name \in {"hbox", "tab"} => Place(i).x + Place(i).w <= Rc.x + task.w

\* A border fills the container, and a flow puts each child where most room is.
RoomIsUsed ==
    InUse =>
        /\ Name = "border" /\ (\E i \in Flowing : Place(i).id = "center") =>
               LET area == [i \in DOMAIN task.children |-> Place(i).w * Place(i).h]
               IN  FoldLeft(LAMBDA a, b : a + b, 0, area) = Rc.w * Rc.h
        /\ Name = "vflow" =>
               \A i \in Flowing :
                   LET earlier == {j \in Flowing : j < i}
                       columns == {Place(j).x : j \in earlier}
                   IN  IF Cardinality(columns) < task.layout.cols
                       THEN Place(i).h = 0 \/ Place(i).y = Rc.y \/ \E j \in earlier : Place(j).h = 0
                       ELSE \A x \in columns : \E j \in earlier :
                                Place(j).x = x /\ Place(j).y + Place(j).h >= Place(i).y
=============================================================================
