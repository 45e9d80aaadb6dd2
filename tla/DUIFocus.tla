------------------------------ MODULE DUIFocus ------------------------------
(***************************************************************************)
(* The controls of a window as a tree, and the focus that keys move        *)
(* through it: DUIContainer's children and search, DUIWindow's two         *)
(* records of the focus (its own mFocus and that of the container it is),  *)
(* the scroll that follows the focus, DUIPages and the group of radio      *)
(* buttons (DUIManager::NotifyEvent).                                      *)
(*                                                                         *)
(* Controls lie one below the other (DUILayoutVBox), the pages of a        *)
(* DUIPages side by side, and only heights matter.  A control that leaves  *)
(* its container is not deleted (Remove with bDestroy FALSE); one that is  *)
(* deleted while it has the focus leaves a pointer to nowhere.             *)
(***************************************************************************)
EXTENDS Layouts, FiniteSets

CONSTANTS
    Window,      \* the window
    Tree,        \* the children of the window and of every container and DUIPages
    Class,       \* "control", "radio", "container", "pages"
    Height,      \* of everything but the pages and the window
    WindowHeight,
    CanFocus,    \* the controls with UISTYLE_CANFOCUS
    CanScroll,   \* the containers that scroll, with a handler in the window
    May,         \* the controls that the application shows, hides, takes away and adds
    MaxEvents    \* bound: events and calls

Node == DOMAIN Class
Controls == {n \in Node : Class[n] \in {"control", "radio"}}

FocusAssumption ==
    /\ DOMAIN Tree = {n \in Node \cup {Window} : n \notin Controls}
    /\ CanFocus \subseteq Controls /\ May \subseteq Controls
    /\ CanScroll \subseteq {n \in Node : Class[n] = "container"}
    /\ MaxEvents \in Nat

VARIABLE task

None == "none"
Parent == [n \in Node |-> CHOOSE p \in DOMAIN Tree : n \in ToSet(Tree[p])]

\* The containers above n, the nearest first
RECURSIVE Above(_)
Above(n) == IF n = Window THEN <<>> ELSE <<Parent[n]>> \o Above(Parent[n])

-----------------------------------------------------------------------------
(* Places *)

\* A child for the layout, which takes heights only
Record(s, n) ==
    [x |-> 0, y |-> s.top[n], w |-> 0, h |-> Height[n], pw |-> NoPercent, ph |-> NoPercent,
     pos |-> NoPos, visible |-> n \in s.visible, id |-> n]

\* SetRect of a container lays out its children, those of containers that it
\* shows too; pages are laid out all.
RECURSIVE LaidOut(_, _)
LaidOut(s, n) ==
    LET h == IF n = Window THEN WindowHeight ELSE Height[n]
        box == Rect(0, 0, 0, h)
        kids == [i \in DOMAIN s.items[n] |-> Record(s, s.items[n][i])]
        placed == IF n # Window /\ Class[n] = "pages" THEN Tab(box, box, kids) ELSE VBox(box, box, kids)
        y == [c \in Node |-> IF c \in ToSet(s.items[n])
                             THEN LET i == SelectInSeq(s.items[n], LAMBDA d : d = c) IN placed.children[i].y
                             ELSE s.top[c]]
        down == SelectSeq(s.items[n], LAMBDA c : c \notin Controls
                                          /\ (c \in s.visible \/ (n # Window /\ Class[n] = "pages")))
    IN  FoldLeft(LaidOut, [s EXCEPT !.top = y, !.content[n] = placed.h], down)

\* GetAbsoluteRect does not take the scrolls off.
AbsoluteY(s, n) == s.top[n] + FoldLeft(LAMBDA y, p : y + (IF p = Window THEN 0 ELSE s.top[p]), 0, Above(n))

-----------------------------------------------------------------------------
(* The search *)

\* mutant: the first page is searched, whichever is shown
RECURSIVE FindChildOnFirstPage(_, _)
FindChildOnFirstPage(s, n) ==
    IF n # Window /\ n \notin s.visible THEN <<>>
    ELSE FlattenSeq([i \in DOMAIN s.items[n] |->
            LET c == s.items[n][i]
            IN  CASE c \in s.visible /\ c \in CanFocus -> <<c>>
                  [] c \in s.visible /\ Class[c] = "container" -> FindChildOnFirstPage(s, c)
                  [] c \in s.visible /\ Class[c] = "pages" /\ s.items[c] # <<>> ->
                        FindChildOnFirstPage(s, s.items[c][1])
                  [] OTHER -> <<>>])

\* The controls that the callback of FindChild is given, in that order: not what
\* is hidden, and of a DUIPages the page that is shown.
RECURSIVE FindChild(_, _)
FindChild(s, n) ==
    IF n # Window /\ n \notin s.visible THEN <<>>
    ELSE FlattenSeq([i \in DOMAIN s.items[n] |->
            LET c == s.items[n][i]
            IN  CASE c \in s.visible /\ c \in CanFocus -> <<c>>
                  [] c \in s.visible /\ Class[c] = "container" -> FindChild(s, c)
                  [] c \in s.visible /\ Class[c] = "pages" /\ s.curIdx[c] < Len(s.items[c]) ->
                        FindChild(s, s.items[c][s.curIdx[c] + 1])
                  [] OTHER -> <<>>])

Position(order, f) == SelectInSeq(order, LAMBDA c : c = f)

\* The control before the focus; the last one when the focus is not found.
PrevFocus(order, f) ==
    CASE order = <<>> -> None
      [] Position(order, f) = 0 -> Last(order)
      [] Position(order, f) = 1 -> None
      [] OTHER -> order[Position(order, f) - 1]

\* The control behind the focus, the first one without a focus; none when the
\* focus is not found.
NextFocus(order, f) ==
    CASE order = <<>> -> None
      [] f = None -> order[1]
      [] f # None /\ Position(order, f) \in {0, Len(order)} -> None
      [] OTHER -> order[Position(order, f) + 1]

-----------------------------------------------------------------------------
(* The focus *)

Max0(a) == IF a > 0 THEN a ELSE 0
Shift(s, p, f) ==
    LET view == AbsoluteY(s, p) + s.scroll[p]
        y == AbsoluteY(s, f)
    IN  CASE y < view -> y - view
          [] y >= view /\ y + Height[f] > view + Height[p] -> y + Height[f] - (view + Height[p])
          [] OTHER -> 0

\* mutant: only the top of the control is looked at
ScrolledToTop(s, f) ==
    LET above == SelectSeq(Above(f), LAMBDA p : p \in CanScroll /\ Shift(s, p, f) < 0)
    IN  IF above = <<>> THEN [s |-> s, ret |-> f = None]
        ELSE [s |-> [s EXCEPT !.scroll[above[1]] = @ + Shift(s, above[1], f)], ret |-> TRUE]

\* SetScrollbarByFocus: the nearest container that must scroll does.
SetScrollbarByFocus(s, f) ==
    LET above == SelectSeq(Above(f), LAMBDA p : p \in CanScroll /\ Shift(s, p, f) # 0)
    IN  IF above = <<>> THEN [s |-> s, ret |-> FALSE]
        ELSE [s |-> [s EXCEPT !.scroll[above[1]] = @ + Shift(s, above[1], f)], ret |-> TRUE]

\* DUIContainer::SetFocusCtrl
SetFocusCtrl(s, f) ==
    SetScrollbarByFocus([s EXCEPT !.focused = (@ \ {s.container}) \cup {f}, !.container = f], f)

GetNextFocusCtrl(s, forward) ==
    LET order == FindChild(s, Window)
        next == IF forward THEN PrevFocus(order, s.container) ELSE NextFocus(order, s.container)
    IN  IF next = None THEN [s |-> s, next |-> None]
        ELSE [s |-> SetFocusCtrl(s, next).s, next |-> next]

\* What scrolls and lies below the top of the focus goes back to its beginning.
ResetScroll(s) ==
    [s EXCEPT !.scroll = [p \in DOMAIN @ |->
        IF p \in CanScroll /\ AbsoluteY(s, p) > AbsoluteY(s, s.window) THEN 0 ELSE @[p]]]

\* DUIWindow::SetFocus; SetFocus(NULL) of a press changes nothing.
SetFocus(s, f) ==
    IF f = None \/ f = s.window THEN s
    ELSE LET t == [s EXCEPT !.focused = (@ \ {s.window}) \cup {f}, !.window = f]
             r == SetFocusCtrl(t, f)
         IN  IF r.ret THEN r.s ELSE ResetScroll(r.s)

\* mutant: every radio button keeps its mark
NotifyKeepsRadios(s, n) ==
    IF Class[n] = "radio" /\ n \in ToSet(s.items[Parent[n]]) THEN [s EXCEPT !.checked = @ \cup {n}] ELSE s

\* DUIManager::NotifyEvent, whatever the event is: the sender is marked, the
\* other radio buttons of its container are not.
NotifyEvent(s, n) ==
    IF Class[n] = "radio"
    THEN LET group == {c \in ToSet(s.items[Parent[n]]) : Class[c] = "radio"}
         IN  [s EXCEPT !.checked = (@ \ group) \cup ({n} \cap group)]
    ELSE s

-----------------------------------------------------------------------------

Step == task.events < MaxEvents
Becomes(s) == task' = [s EXCEPT !.events = task.events + 1, !.moved = FALSE]

\* A key goes down and up; what goes up is told to the control that has the
\* focus then.  DUIControl takes no key that goes down.
KeyPress(up) ==
    /\ Step /\ task.key = None
    /\ LET r == GetNextFocusCtrl(task, up)
       IN  task' = [SetFocus(r.s, r.next) EXCEPT !.events = @ + 1, !.key = "arrow",
                        !.moved = r.next # None]

OkPress ==
    /\ Step /\ task.key = None
    /\ Becomes([task EXCEPT !.key = "ok"])

KeyRelease ==
    /\ task.key # None
    /\ Becomes([(IF task.window = None THEN task ELSE NotifyEvent(task, task.window)) EXCEPT !.key = None])

\* Attached, and it and all above it are shown
Showing(s, n) ==
    \A c \in {n} \cup ToSet(Above(n)) : c # Window =>
        /\ c \in s.visible /\ c \in ToSet(s.items[Parent[c]])
        /\ Parent[c] # Window /\ Class[Parent[c]] = "pages" =>
               Position(s.items[Parent[c]], c) = s.curIdx[Parent[c]] + 1

\* The part of the screen where n is drawn, seen through the container around it
ScreenY(s, n) == AbsoluteY(s, n)
                     - FoldLeft(LAMBDA y, p : y + (IF p \in CanScroll THEN s.scroll[p] ELSE 0), 0, Above(n))

\* A click turns the mark over before it is told.
Click(n) ==
    /\ Step /\ n \in May /\ Showing(task, n)
    /\ LET over == IF n \in task.checked THEN task.checked \ {n} ELSE task.checked \cup {n}
       IN  Becomes(NotifyEvent([task EXCEPT !.checked = over], n))

\* The application or a drag of the pen
SetScrollPos(p) ==
    /\ Step
    /\ \E y \in {0, (task.content[p] - Height[p]) \div 2, task.content[p] - Height[p]} :
           y \in 0..(task.content[p] - Height[p]) /\ Becomes([task EXCEPT !.scroll[p] = y])

ModifyStyle(n) ==
    /\ Step
    /\ Becomes([task EXCEPT !.visible = IF n \in @ THEN @ \ {n} ELSE @ \cup {n}, !.laid = FALSE])

RefreshLayout ==
    /\ ~task.laid
    /\ Becomes([LaidOut(task, Window) EXCEPT !.laid = TRUE])

RemoveChild(n) ==
    /\ Step /\ n \in ToSet(task.items[Parent[n]])
    /\ Becomes([task EXCEPT !.items[Parent[n]] = SelectSeq(@, LAMBDA c : c # n), !.laid = FALSE])

\* One that is marked is not brought into a group that has its own mark.
AddChild(n) ==
    /\ Step /\ n \notin ToSet(task.items[Parent[n]]) /\ n \notin task.checked
    /\ Becomes([task EXCEPT !.items[Parent[n]] = Append(@, n), !.laid = FALSE])

SetFocusOf(n) ==
    /\ Step /\ Showing(task, n)
    /\ Becomes(SetFocus(task, n))

LostKeyFocus ==
    /\ Step /\ task.window # None
    /\ Becomes([task EXCEPT !.window = None])

\* The timer of a DUIPages that goes on by itself
OnTimerScroll(p) ==
    /\ Step
    /\ Becomes([task EXCEPT !.curIdx[p] = IF @ + 1 >= Len(task.items[p]) THEN 0 ELSE @ + 1])

Init ==
    \E hidden \in SUBSET May, checked \in {{}} \cup {{n} : n \in {m \in Node : Class[m] = "radio"}} :
        LET s == [ items |-> Tree, visible |-> Node \ hidden, top |-> [n \in Node |-> 0],
                   content |-> [p \in DOMAIN Tree |-> 0], scroll |-> [p \in DOMAIN Tree |-> 0],
                   curIdx |-> [p \in DOMAIN Tree |-> 0], focused |-> {}, window |-> None, container |-> None,
                   checked |-> checked, key |-> None, laid |-> TRUE, moved |-> FALSE, events |-> 0 ]
        IN  task = LaidOut(s, Window)

Next ==
    \/ \E up \in BOOLEAN : KeyPress(up)
    \/ OkPress \/ KeyRelease \/ RefreshLayout \/ LostKeyFocus
    \/ \E n \in May : Click(n) \/ ModifyStyle(n) \/ RemoveChild(n) \/ AddChild(n) \/ SetFocusOf(n)
    \/ \E p \in CanScroll : SetScrollPos(p)
    \/ \E p \in {n \in Node : Class[n] = "pages"} : OnTimerScroll(p)

Spec == Init /\ [][Next]_task

-----------------------------------------------------------------------------

\* At most one control is drawn with the focus, and it is the one that both
\* records mean, but where the window was told that it lost the focus.
OneFocus ==
    /\ task.focused = {task.container} \ {None}
    /\ task.window \in {None, task.container}

\* Wherever the focus is - hidden, taken away, on a page that has turned - up and
\* down come to every control that can have it and is shown, and to no other.
ArrowsReachAll ==
    LET order == FindChild(task, Window)
        shown == {n \in CanFocus : Showing(task, n)}
        Moved(f, next) == IF next = None THEN f ELSE next
        \* up as far as it goes, and from there down
        top == FoldLeft(LAMBDA f, c : Moved(f, PrevFocus(order, f)), task.container, order)
        way == FoldLeft(LAMBDA w, c : Append(w, Moved(Last(w), NextFocus(order, Last(w)))), <<top>>, order)
    IN  /\ shown = ToSet(order)
        /\ shown # {} => shown = ToSet(way)

\* A key that moved the focus shows it whole, unless it is higher than what
\* scrolls around it.
FocusIsShown ==
    task.moved /\ task.laid =>
        \A p \in CanScroll \cap ToSet(Above(task.window)) : Height[task.window] <= Height[p] =>
            /\ ScreenY(task, task.window) >= AbsoluteY(task, p)
            /\ ScreenY(task, task.window) + Height[task.window] <= AbsoluteY(task, p) + Height[p]

\* Of the radio buttons of a container one at most is marked.
OneRadio ==
    \A p \in DOMAIN Tree :
        Cardinality({n \in task.checked : Class[n] = "radio" /\ n \in ToSet(task.items[p])}) <= 1
=============================================================================
