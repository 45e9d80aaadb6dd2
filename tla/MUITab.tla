------------------------------- MODULE MUITab -------------------------------
(***************************************************************************)
(* The tabs of the second user interface library (AEE++/mui/mui_tab.cpp):  *)
(* a row of items and, below or above it, the page of the item that is     *)
(* selected.  A page is a container with one button (MUIContainer,         *)
(* MUIWidget::onPenEv).  MUIManager does not pass the pen on while a       *)
(* transition plays, so that the tabs may miss any of its events.          *)
(*                                                                         *)
(* Keys reach MUITab::onKeyEv by the application only: MUIContainer takes  *)
(* none.  The array of items has mCapactity places, and nothing in the     *)
(* code keeps the pages within them: the application does.                 *)
(***************************************************************************)
EXTENDS Integers, Sequences, FiniteSets, SequencesExt

CONSTANTS
    Shapes,    \* [x, w, align]: where the tabs lie, align is mAttr
    TabWidth, Interval,
    Capacity,  \* mCapactity
    PenX,      \* where the pen comes down on the row
    MaxPages,  \* bound: pages that are made
    MaxEvents  \* bound: events and calls

TabAssumption ==
    /\ Capacity \in Nat \ {0} /\ MaxPages \in Nat /\ MaxEvents \in Nat
    /\ TabWidth \in Nat /\ Interval \in Nat /\ PenX \subseteq Int
    /\ Shapes \subseteq [x : Int, w : Int, align : 0..2]
    /\ \A s \in Shapes :
          /\ s.w >= Capacity * (TabWidth + Interval) + 2 * Interval
          /\ s.align = 1 => s.x = 0  \* items from the left start at the edge of the screen

VARIABLE task

Index == 0..(Capacity - 1)
NoTab == -1
NoPage == 0
TheTab == -1  \* as the widget that has the capture

\* getTabItemRect
ItemX(s, i) ==
    CASE s.shape.align = 0 -> s.shape.x + s.shape.w - Interval * 2 - (s.mCount - i) * TabWidth
      [] s.shape.align = 1 -> i * TabWidth
      [] s.shape.align = 2 ->
            s.shape.x + ((s.shape.w - (TabWidth + Interval) * s.mCount) \div 2) + i * TabWidth

\* A place of the pen is [on |-> "row", x |-> ..], or on "button" or "page".
InItem(s, i, pen) == pen.on = "row" /\ ItemX(s, i) < pen.x /\ pen.x < ItemX(s, i) + TabWidth
ItemAt(s, pen) == {i \in 0..(s.mCount - 1) : InItem(s, i, pen)}

\* getTabBody
TabBody(s, i) == IF i + 1 \in DOMAIN s.pages THEN s.pages[i + 1] ELSE NoPage

\* MUIWindow::setCapture; a button has the number of its page.
SetCapture(s, w) == [s EXCEPT !.capture = w, !.buttons = @ \ {s.capture}]

\* mutant: the item of before keeps its style
SelectKeepsOld(s, i) ==
    [s EXCEPT !.select = @ \cup {i}, !.mSelectIdx = i, !.told = IF i # s.mSelectIdx THEN i ELSE @,
              !.torn = @ \/ (i # s.mSelectIdx /\ s.capture \in 1..MaxPages)]

\* setSelectItem: ON_CHANGE is told of another item only.
SetSelectItem(s, i) ==
    [s EXCEPT !.select = (@ \ {s.mSelectIdx}) \cup {i}, !.mSelectIdx = i,
              !.told = IF i # s.mSelectIdx THEN i ELSE @,
              !.torn = @ \/ (i # s.mSelectIdx /\ s.capture \in 1..MaxPages)]

\* setTabItem gives an item its caption, here the page it was named for.
SetTabItem(s, i, page, selected) ==
    LET t == [s EXCEPT !.mCount = Len(s.pages), !.caption[i] = page,
                       !.select = @ \ {i}, !.pushed = @ \ {i}]
    IN  IF selected THEN SetSelectItem(t, i) ELSE t

\* setTabItem of every page, of which one is selected
SetTabItems(s, selected) ==
    LET count == Len(s.pages)
        t == [s EXCEPT !.mCount = count,
                       !.caption = [i \in Index |-> IF i < count THEN s.pages[i + 1] ELSE @[i]],
                       !.select = @ \ 0..(count - 1), !.pushed = @ \ 0..(count - 1)]
    IN  SetSelectItem(t, selected)

-----------------------------------------------------------------------------
(* The pen *)

\* MUIWidget::onPenEv of the button of page b, none of its events outside
ButtonDown(s, b, pen) ==
    IF b # NoPage /\ pen.on = "button"
    THEN [SetCapture(s, b) EXCEPT !.buttons = @ \cup {b}, !.below = b] ELSE s

ButtonMove(s, b, pen) ==
    IF b = NoPage \/ s.capture # b THEN s
    ELSE [s EXCEPT !.buttons = IF pen.on = "button" THEN @ \cup {b} ELSE @ \ {b}]

ButtonUp(s, b, pen) ==
    IF b = NoPage \/ s.capture # b THEN s
    ELSE [SetCapture(s, NoPage) EXCEPT !.clicked = IF pen.on = "button" THEN b ELSE NoPage]

TabDown(s, pen) ==
    IF ItemAt(s, pen) # {}
    THEN LET i == CHOOSE j \in ItemAt(s, pen) : \A k \in ItemAt(s, pen) : j <= k
         IN  [SetCapture(s, TheTab) EXCEPT !.mDownIdx = i, !.pushed = @ \cup {i}]
    ELSE ButtonDown(s, TabBody(s, s.mSelectIdx), pen)

Captured(s) == s.capture = TheTab /\ s.mDownIdx >= 0

TabMove(s, pen) ==
    IF Captured(s)
    THEN [s EXCEPT !.pushed = IF InItem(s, s.mDownIdx, pen) THEN @ \cup {s.mDownIdx} ELSE @ \ {s.mDownIdx}]
    ELSE ButtonMove(s, TabBody(s, s.mSelectIdx), pen)

\* mutant: the item is chosen wherever the pen goes up
TabUpAnywhere(s, pen) ==
    IF Captured(s)
    THEN LET chosen == s.mDownIdx \in s.pushed
             t == IF chosen THEN SetSelectItem([s EXCEPT !.pushed = @ \ {s.mDownIdx}], s.mDownIdx) ELSE s
         IN  [SetCapture(t, NoPage) EXCEPT !.mDownIdx = NoTab,
                                           !.chosen = IF chosen THEN s.mDownIdx ELSE NoTab]
    ELSE ButtonUp(s, TabBody(s, s.mSelectIdx), pen)

TabUp(s, pen) ==
    IF Captured(s)
    THEN LET chosen == InItem(s, s.mDownIdx, pen) /\ s.mDownIdx \in s.pushed
             t == IF chosen THEN SetSelectItem([s EXCEPT !.pushed = @ \ {s.mDownIdx}], s.mDownIdx) ELSE s
         IN  [SetCapture(t, NoPage) EXCEPT !.mDownIdx = NoTab,
                                           !.chosen = IF chosen THEN s.mDownIdx ELSE NoTab]
    ELSE ButtonUp(s, TabBody(s, s.mSelectIdx), pen)

-----------------------------------------------------------------------------

Places == {[on |-> "row", x |-> x] : x \in PenX} \cup {[on |-> "button", x |-> 0], [on |-> "page", x |-> 0]}
Nowhere == [on |-> "nowhere", x |-> 0]

Step == task.events < MaxEvents
Becomes(s) == task' = [s EXCEPT !.events = task.events + 1]
Fresh(s) == [s EXCEPT !.chosen = NoTab, !.clicked = NoPage, !.upAt = Nowhere]

PenDown(pen) ==
    /\ Step /\ ~task.penDown
    /\ Becomes(TabDown([Fresh(task) EXCEPT !.penDown = TRUE, !.downAt = pen, !.below = NoPage], pen))

PenMove(pen) ==
    /\ Step /\ task.penDown
    /\ Becomes(TabMove(Fresh(task), pen))

PenUp(pen) ==
    /\ Step /\ task.penDown
    /\ Becomes([TabUp(Fresh(task), pen) EXCEPT !.penDown = FALSE, !.upAt = pen,
                   !.jumped = @ \/ (task.mDownIdx \in task.pushed /\ ~InItem(task, task.mDownIdx, pen))])

\* A transition plays and the window does not hear of the pen.
PenUnheard ==
    /\ Step
    /\ Becomes([Fresh(task) EXCEPT !.penDown = ~@, !.downAt = Nowhere, !.missed = TRUE])

\* LEFT and RIGHT go round.
KeyRelease(left) ==
    /\ Step /\ task.mCount > 0
    /\ LET i == IF left THEN task.mSelectIdx - 1 ELSE task.mSelectIdx + 1
       IN  Becomes(SetSelectItem(Fresh(task), CASE i < 0 -> task.mCount - 1
                                                [] i >= task.mCount -> 0
                                                [] OTHER -> i))

\* The application makes a page and names its item; the first one is selected.
AppendPage(selected) ==
    /\ Step /\ ~task.penDown /\ task.made < MaxPages /\ Len(task.pages) < Capacity
    /\ task.pages = <<>> => selected
    /\ LET page == task.made + 1
           s == [Fresh(task) EXCEPT !.pages = Append(@, page), !.made = page]
       IN  Becomes(SetTabItem(s, Len(task.pages), page, selected))

\* It takes one away, not the last one and not while an item waits for the pen to
\* go up, which could then be that of no page; and it names them all anew.
DeletePage(k, selected) ==
    /\ Step /\ ~task.penDown /\ task.mDownIdx = NoTab /\ Len(task.pages) > 1
    /\ LET gone == task.pages[k]
           s == [Fresh(task) EXCEPT !.pages = RemoveAt(@, k), !.buttons = @ \ {gone},
                                    !.capture = IF @ = gone THEN NoPage ELSE @]
       IN  Becomes(SetTabItems(s, selected - 1))

Init ==
    \E shape \in Shapes :
        task = [ shape |-> shape, pages |-> <<>>, made |-> 0, mCount |-> 0, mSelectIdx |-> 0,
                 mDownIdx |-> NoTab, select |-> {}, pushed |-> {}, caption |-> [i \in Index |-> NoPage],
                 capture |-> NoPage, buttons |-> {}, told |-> 0, torn |-> FALSE, penDown |-> FALSE,
                 downAt |-> Nowhere, upAt |-> Nowhere, below |-> NoPage, chosen |-> NoTab,
                 clicked |-> NoPage, missed |-> FALSE, jumped |-> FALSE, events |-> 0 ]

Next ==
    \/ \E pen \in Places : PenDown(pen) \/ PenMove(pen) \/ PenUp(pen)
    \/ PenUnheard
    \/ \E left \in BOOLEAN : KeyRelease(left)
    \/ \E selected \in BOOLEAN : AppendPage(selected)
    \/ \E k \in DOMAIN task.pages, selected \in 1..(Len(task.pages) - 1) : DeletePage(k, selected)

Spec == Init /\ [][Next]_task

-----------------------------------------------------------------------------

\* One item is selected, it is named for the page that is shown, and the
\* application was told of it last.
OneTab ==
    task.pages # <<>> =>
        /\ task.select \cap 0..(task.mCount - 1) = {task.mSelectIdx}
        /\ task.caption[task.mSelectIdx] = TabBody(task, task.mSelectIdx)
        /\ TabBody(task, task.mSelectIdx) # NoPage
        /\ task.told = task.mSelectIdx

\* The item that the pen chooses is the one it went down on and up from; the
\* button too, unless its page was changed for another while it was pressed.
ChosenUnderPen ==
    /\ task.chosen # NoTab /\ ~task.missed =>
           InItem(task, task.chosen, task.downAt) /\ InItem(task, task.chosen, task.upAt)
    /\ task.chosen # NoTab => InItem(task, task.chosen, task.upAt)
    /\ task.clicked # NoPage /\ ~task.missed /\ ~task.torn =>
           task.below = task.clicked /\ task.upAt.on = "button"

\* An item is drawn pushed while the pen is down on it and no longer, unless the
\* window did not hear of the pen, or of its way from the item to where it went up.
PushedWhileDown ==
    ~task.missed =>
        /\ ~task.jumped => task.pushed \subseteq {task.mDownIdx}
        /\ task.mDownIdx # NoTab <=> (task.penDown /\ task.capture = TheTab)

\* The items lie in the row, none over another.
ItemsInRow ==
    \A i \in 0..(task.mCount - 1) :
        /\ task.shape.x <= ItemX(task, i) /\ ItemX(task, i) + TabWidth <= task.shape.x + task.shape.w
        /\ \A j \in 0..(i - 1) : ItemX(task, j) + TabWidth <= ItemX(task, i)
=============================================================================
