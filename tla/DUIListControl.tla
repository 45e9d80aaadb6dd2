--------------------------- MODULE DUIListControl ---------------------------
(***************************************************************************)
(* A list of items in a window (AEE++/dui/dui_listcontrol.cpp): keys move  *)
(* the selection, a press highlights an item and a click or a long touch   *)
(* tells the application, and DUIScroll drags and throws the list under    *)
(* the pen.  DUIWindow::OnMotionEvent gives an event to the list, to the   *)
(* other controls and to the scroll in turn.                               *)
(***************************************************************************)
EXTENDS Integers, Sequences, SequencesExt, FiniteSetsExt, Folds

CONSTANTS
    Heights,    \* Heights[item]: its height
    Lists,      \* what a list has at first: sequences of items
    Kinds,      \* the lists of the application: whether they have pages, and
                \* which one is shown, feel long touches, have a scroll
    Top, Page,  \* where the list is on the screen, and its height
    Pen,        \* the rows where the pen goes, not all of them on the list
    Drag,       \* how far the pen moves before a scroll takes it (16 in the source)
    PageSize, Total, \* of a list that has more items than it shows, in pages
    MaxChanges, MaxEvents  \* bounds: changes by the application, events of a user

ListAssumption ==
    /\ \A i \in DOMAIN Heights : Heights[i] \in Nat \ {0}
    /\ \A items \in Lists : Range(items) \subseteq DOMAIN Heights /\ IsInjective(items)
    /\ Kinds \subseteq [pager : BOOLEAN, page : Nat, long : BOOLEAN, scrolls : BOOLEAN]
    /\ {Top, Page, Drag, PageSize, Total, MaxChanges, MaxEvents} \subseteq Nat /\ Pen \subseteq Nat

VARIABLE task  \* the list, its scroll, the window as far as they need it, and what was told

NoIndex == -1
Size == Len(task.items)
HeightOf(items) == FoldLeft(LAMBDA sum, i : sum + Heights[i], 0, items)
\* Indices are counted from 0 as in the source.
Valid(items, index) == index \in 0..(Len(items) - 1)
ItemAt(items, index) == items[index + 1]
\* Where an item begins and ends in the list
TopOf(items, index) == HeightOf(SubSeq(items, 1, index))
BottomOf(items, index) == HeightOf(SubSeq(items, 1, index + 1))

\* PtInRect, of the rectangle IsScreenVisible gives
OnList(y) == task.visible /\ y > Top /\ y < Top + Page

\* GetScrollInfo: how far the list scrolls
MaxY == Max({task.content - Page, 0})

-----------------------------------------------------------------------------
(* The list *)

Hit(top, y) ==
    LET hit == {k \in 0..(Size - 1) : top + TopOf(task.items, k) <= y /\ y <= top + BottomOf(task.items, k)}
    IN  IF hit = {} THEN NoIndex ELSE Min(hit)

\* mutant: the scrolling is not taken off
HitUnscrolled(y) == Hit(Top, y)

\* A list with pages takes the scrolling off twice, in GetWindowRect too.
HitTest(y) == Hit(Top - (IF task.pager THEN 2 ELSE 1) * task.scrollY, y)

\* The row MakeSelectItemVisible looks for: that of the selected item, or, if the
\* selection is just behind the last one, the rectangle of the list itself, as the
\* loop over the items has left it: how far down it begins and how high it is.
SelectedTop(s) ==
    IF Valid(s.items, s.select) THEN TopOf(s.items, s.select)
    ELSE Top - (IF s.pager THEN s.scrollY ELSE 0)
SelectedHeight(s) == IF Valid(s.items, s.select) THEN Heights[ItemAt(s.items, s.select)] ELSE Page

\* mutant: the height of the item is left out
VisibleTop(s) ==
    LET top == SelectedTop(s)
    IN  IF s.select \notin 0..Len(s.items) THEN s
        ELSE IF top > s.scrollY + Page THEN [s EXCEPT !.scrollY = top - Page]
        ELSE IF top < s.scrollY THEN [s EXCEPT !.scrollY = Max({top, 0})] ELSE s

\* MakeSelectItemVisible
Visible(s) ==
    LET top == SelectedTop(s)
        bottom == top + SelectedHeight(s)
    IN  IF s.select \notin 0..Len(s.items) THEN s
        ELSE IF bottom > s.scrollY + Page THEN [s EXCEPT !.scrollY = bottom - Page]
        ELSE IF top < s.scrollY THEN [s EXCEPT !.scrollY = Max({top, 0})] ELSE s

\* The application hears of an item (NULL if there is none), where the pen is
\* and where the item is painted.
Told(s, how, index, y) ==
    [s EXCEPT !.told = Append(@, [how |-> how, y |-> y, 
        item |-> IF Valid(s.items, index) THEN ItemAt(s.items, index) ELSE "null",
        row |-> Top + TopOf(s.items, index) - s.scrollY])]

\* mutant: a repaint takes the selection for the item under the pen
PaintForgetsPress ==
    /\ task.visible
    /\ LET s == Visible(task)
           select == IF s.select >= Size THEN Size - 1 ELSE s.select
       IN  task' = IF Size = 0 THEN s ELSE [s EXCEPT !.select = select, !.penDown = select]

\* OnPaintContent: the item under the pen becomes the selected one.
Paint ==
    /\ task.visible
    /\ LET s == Visible(task)
           select == IF s.select >= Size THEN Size - 1 ELSE s.select
           pressed == s.pressed = "list" /\ select # s.penDown
       IN  task' = IF Size = 0 THEN s
                   ELSE [s EXCEPT !.fresh = s.select = select /\ ~pressed,
                                  !.select = IF pressed THEN s.penDown ELSE select,
                                  !.penDown = IF pressed THEN @ ELSE select]

UserMay == task.events < MaxEvents

\* The keys up and down (step is -1 and 1)
KeyMoves(step) ==
    /\ UserMay /\ task.visible /\ Size > 0 /\ Valid(task.items, task.select + step)
    /\ task' = Visible([task EXCEPT !.events = @ + 1, !.select = @ + step, !.fresh = TRUE])

\* At an end a list asks for the page before or the next one, and the
\* application may answer with an item.
AsksForPage(step) ==
    IF step = -1 THEN task.page > 0
    ELSE task.pager /\ task.page * PageSize + Size < Total
KeyAtEnd(step) ==
    /\ UserMay /\ task.visible /\ Size > 0 /\ ~Valid(task.items, task.select + step)
    /\ \E new \in {<<>>} \cup IF AsksForPage(step) /\ task.changes < MaxChanges
                            THEN {<<i>> : i \in DOMAIN Heights \ Range(task.items)} ELSE {} :
          LET select == IF step = -1 THEN 0 ELSE Size - 1
              s == [task EXCEPT !.events = @ + 1, !.changes = @ + Len(new),
                        !.items = IF step = -1 THEN new \o @ ELSE @ \o new, !.content = @ + HeightOf(new),
                        !.select = select, !.fresh = select # task.select, !.same = @ /\ new = <<>>]
          IN  task' = IF select # task.select THEN Visible(s) ELSE s

KeyOk ==
    /\ UserMay /\ task.visible /\ Valid(task.items, task.select)
    /\ task' = [Told(task, "key", task.select, 0) EXCEPT !.events = @ + 1]

PressBegins(y) ==
    IF ~OnList(y) THEN task
    ELSE [task EXCEPT !.pressed = "list", !.timer = @ \/ task.long, !.penDown = HitTest(y),
                      !.down = IF HitTest(y) = NoIndex THEN "null" ELSE ItemAt(task.items, HitTest(y))]

\* ACTION_UP of the list; answered when it was the item that went down
Answers(s, y) == s.pressed = "list" /\ OnList(y) /\ HitTest(y) = s.penDown /\ s.penDown # NoIndex
PressEnds(s, y) ==
    LET up == [s EXCEPT !.timer = FALSE, !.pressed = IF @ = "list" THEN "none" ELSE @]
    IN  IF Answers(s, y) THEN Told([up EXCEPT !.penDown = NoIndex], "click", HitTest(y), y) ELSE up

\* mutant: the item stays the pressed one
LongTouchKeepsPress ==
    /\ task.timer
    /\ task' = [(IF Valid(task.items, task.penDown) THEN Told(task, "long", task.penDown, 0) ELSE task) EXCEPT !.timer = FALSE]

\* LongTouchCb: the pen may be dragging by now.
LongTouch ==
    /\ task.timer
    /\ task' = [(IF Valid(task.items, task.penDown) THEN Told(task, "long", task.penDown, 0) ELSE task)
                    EXCEPT !.timer = FALSE, !.penDown = NoIndex]

-----------------------------------------------------------------------------
(* The scroll: DUIScroll::OnMotionEvent of a flying list *)

\* What a scroll remembers of the pen that went down on its list
NoGrip == [held |-> FALSE, y |-> 0, pos |-> 0]

ScrollDown(s, y) ==
    IF ~s.visible THEN s
    ELSE IF ~OnList(y) THEN [s EXCEPT !.grip = NoGrip]
    ELSE [s EXCEPT !.flying = FALSE, !.target = 0, !.moving = FALSE,
                   !.grip = [held |-> TRUE, y |-> y, pos |-> s.scrollY]]

Abs(n) == IF n < 0 THEN -n ELSE n
Takes(y) == task.visible /\ task.grip.held /\ (task.moving \/ Abs(y - task.grip.y) >= Drag)

\* Beyond an end the list goes half as far as the pen.
Dragged(y) ==
    LET pos == task.grip.pos - (y - task.grip.y)
    IN  IF pos < 0 THEN -((-pos) \div 2)
        ELSE IF pos > MaxY THEN MaxY + ((pos - MaxY) \div 2) ELSE pos

\* From beyond an end the list goes back to it, from elsewhere it is thrown.
Thrown(s) ==
    IF ~(s.visible /\ s.grip.held /\ s.capture) THEN {s}
    ELSE {[s EXCEPT !.flying = TRUE, !.target = to, !.capture = FALSE, !.moving = FALSE, !.grip = NoGrip] :
            to \in IF s.scrollY < 0 THEN {0} ELSE IF s.scrollY > MaxY THEN {MaxY}
                   ELSE {0, s.scrollY, MaxY}}

\* The timer of the scroll sets where the list is on its way.
Fly ==
    /\ task.flying
    /\ \E y \in {task.target, (task.scrollY + task.target) \div 2} :
          task' = [task EXCEPT !.scrollY = y, !.flying = y # task.target,
                              !.target = IF y = @ THEN 0 ELSE @, !.fresh = FALSE]

-----------------------------------------------------------------------------
(* The window: DUIWindow::OnMotionEvent.  Above and below the list there is    *)
(* another control that can be pressed.                                        *)

PenDown(y) ==
    /\ UserMay /\ task.pen = "up"
    /\ LET s == [PressBegins(y) EXCEPT !.pen = "down", !.events = @ + 1, !.told = <<>>, !.same = TRUE, !.dragged = FALSE,
                                       !.pressed = IF OnList(y) THEN @ ELSE "other"]
       IN  task' = IF task.scrolls THEN ScrollDown(s, y) ELSE s

\* mutant: who has captured the pen leaves the press as it is
PenMoveKeepsPress(y) ==
    /\ UserMay /\ task.pen = "down" /\ task.scrolls /\ Takes(y)
    /\ task' = [task EXCEPT !.events = @ + 1, !.moving = TRUE, !.capture = TRUE, !.moveScroll = TRUE,
                            !.scrollY = Dragged(y), !.fresh = FALSE, !.dragged = TRUE]

\* SetCapture ends the press, but not the timer of the list.
PenMove(y) ==
    /\ UserMay /\ task.pen = "down" /\ task.scrolls /\ Takes(y)
    /\ task' = [task EXCEPT !.events = @ + 1, !.moving = TRUE, !.capture = TRUE, !.moveScroll = TRUE,
                            !.pressed = IF task.moving THEN @ ELSE "none",
                            !.scrollY = Dragged(y), !.fresh = FALSE, !.dragged = TRUE]

\* What has captured the pen sees it first; a list that answers keeps the event
\* from the scroll.
PenUp(y) ==
    /\ task.pen = "down"
    /\ LET s == [task EXCEPT !.pen = "up"]
           list == IF task.capture \/ task.visible THEN PressEnds(s, y) ELSE s
           others == [list EXCEPT !.pressed = IF @ = "other" THEN "none" ELSE @]
       IN  IF (task.capture \/ task.visible) /\ Answers(s, y) THEN task' = list
           ELSE IF ~task.moveScroll THEN task' = others
           ELSE \E t \in Thrown(others) : task' = [t EXCEPT !.moveScroll = FALSE]

-----------------------------------------------------------------------------
(* The application *)

AppMay == task.changes < MaxChanges
Changed(items, content, scrollY, select) ==
    task' = [task EXCEPT !.changes = @ + 1, !.fresh = FALSE, !.same = FALSE, !.items = items,
                         !.content = content, !.scrollY = scrollY, !.select = select]

PushBackDataItem(i) ==
    /\ AppMay /\ i \notin Range(task.items)
    /\ Changed(Append(task.items, i), task.content + Heights[i], task.scrollY, task.select)

PushFrontDataItem(i) ==
    /\ AppMay /\ i \notin Range(task.items)
    /\ Changed(<<i>> \o task.items, task.content + Heights[i], task.scrollY, task.select)

PopFront ==
    /\ AppMay /\ Size > 0
    /\ Changed(Tail(task.items), task.content - Heights[task.items[1]], task.scrollY - Heights[task.items[1]], task.select)

\* The height of a removed item is added to that of the list, not taken off.
RemoveDataItem(k) ==
    /\ AppMay /\ k \in 1..Size
    /\ task' = [task EXCEPT !.changes = @ + 1, !.fresh = FALSE, !.same = FALSE, !.items = RemoveAt(@, k),
                            !.content = @ + Heights[task.items[k]], !.exact = FALSE,
                            !.select = IF @ >= Size - 1 /\ Size > 1 THEN Size - 2 ELSE @]

RemoveDataAll == AppMay /\ task' = [task EXCEPT !.changes = @ + 1, !.fresh = FALSE, !.same = FALSE, !.items = <<>>,
                                                !.content = 0, !.scrollY = 0, !.exact = TRUE]

\* SetRect, when the layout of the window is done again
SetRect == AppMay /\ task' = [task EXCEPT !.changes = @ + 1, !.content = HeightOf(task.items), !.exact = TRUE]

SetSelected(index) ==
    AppMay /\ task' = [task EXCEPT !.changes = @ + 1, !.select = index, !.fresh = FALSE]

ModifyStyle == AppMay /\ task' = [task EXCEPT !.changes = @ + 1, !.visible = ~@]

Init ==
    \E items \in Lists, kind \in Kinds :
        task = [ items |-> items, scrollY |-> 0, content |-> HeightOf(items), select |-> NoIndex,
                 penDown |-> NoIndex, timer |-> FALSE, visible |-> TRUE, pager |-> kind.pager, page |-> kind.page, long |-> kind.long,
                 scrolls |-> kind.scrolls, pressed |-> "none", pen |-> "up", capture |-> FALSE,
                 moveScroll |-> FALSE, moving |-> FALSE, grip |-> NoGrip,
                 flying |-> FALSE, target |-> 0, events |-> 0, changes |-> 0,
                 told |-> <<>>, down |-> "null", same |-> TRUE, dragged |-> FALSE, fresh |-> FALSE, exact |-> TRUE ]

Next ==
    \/ Paint \/ LongTouch \/ Fly
    \/ \E step \in {-1, 1} : KeyMoves(step) \/ KeyAtEnd(step)
    \/ KeyOk
    \/ \E y \in Pen : PenDown(y) \/ PenMove(y) \/ PenUp(y)
    \/ \E i \in DOMAIN Heights : PushBackDataItem(i) \/ PushFrontDataItem(i)
    \/ \E k \in 1..Size : RemoveDataItem(k)
    \/ PopFront \/ RemoveDataAll \/ SetRect \/ ModifyStyle
    \/ \E index \in {NoIndex, 1} : SetSelected(index)

Spec == Init /\ [][Next]_task

-----------------------------------------------------------------------------
(* What must hold *)

ByPen == SelectSeq(task.told, LAMBDA t : t.how # "key")

\* A press is answered once, by a click or by a long touch, with an item of the
\* list; as long as the items stay the same it is the one that was pressed.  A
\* pen that drags the list does not click.  (A long touch may still be told, of
\* the selected item, for the timer goes on.)
OneItemPerPress ==
    /\ Len(ByPen) <= 1
    /\ \A t \in Range(ByPen) :
           /\ t.item # "null"
           /\ (task.same /\ ~task.dragged) => t.item = task.down
           /\ t.how = "click" => ~task.dragged

\* The item that a click tells is painted where the pen was let go.  (A list of
\* pages looks elsewhere once it has scrolled.)
ClickIsUnderPen ==
    \A t \in Range(task.told) :
        t.how = "click" /\ ~task.pager => t.row <= t.y /\ t.y <= t.row + Heights[t.item]

\* After a key that moved the selection, and after a repaint without a press,
\* the selected item is on the screen.  (A repaint that finds the selection behind
\* the last item scrolls first, to where the list is in its window, and corrects
\* the selection then; the item is shown by the next repaint.)
SelectedIsShown ==
    (task.fresh /\ Valid(task.items, task.select)) =>
        LET top == TopOf(task.items, task.select) - task.scrollY
            bottom == BottomOf(task.items, task.select) - task.scrollY
        IN  bottom - top <= Page => 0 <= top /\ bottom <= Page

\* Until an item is removed, the list can be scrolled to its end and no further.
ContentIsItems == task.exact => task.content = HeightOf(task.items)
=============================================================================
