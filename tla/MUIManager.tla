----------------------------- MODULE MUIManager -----------------------------
(***************************************************************************)
(* The windows of the second user interface library (AEE++/mui/):          *)
(* MUIManager's stack of windows, its dialog, the delayed repaint and the  *)
(* delayed way back, the transitions (MUITransformBase, MUITransform2D)    *)
(* that play between two windows, and the widget that has the pen          *)
(* (MUIWindow::setCapture, MUIWidget::onPenEv).                            *)
(*                                                                         *)
(* One thread.  ZMAEE_StartPeriodHandler registers a callback that the     *)
(* platform calls until it returns 0; a call of the library and a callback *)
(* never overlap.  A window or dialog has one button, which stands for its *)
(* widgets; the button has the number of its window.                       *)
(***************************************************************************)
EXTENDS Integers, Sequences, FiniteSets, SequencesExt

CONSTANTS
    Region,      \* the parts of the screen that are repainted on their own
    RectSlots,   \* the size of mRectRedraws, 4 in the code
    MaxWindows,  \* bound: windows that are made
    MaxTransforms \* bound: transitions that are made

ASSUME ManagerAssumption ==
    /\ Region # {} /\ RectSlots \in Nat /\ MaxWindows \in Nat /\ MaxTransforms \in Nat

VARIABLES
    m,      \* the fields of the manager
    cap,    \* mCaptureWidghet of every window that is alive
    pushed, \* the buttons with MUI_STYLE_PUSHED
    refs,   \* the references of every transition, 0 when it is deleted
    bmps,   \* the bitmaps every transition holds: "old", "new"
    lost,   \* a bitmap was overwritten and never released, or given to a
            \* transition that was deleted
    backs,  \* the delayback handlers that are registered
    stale,  \* the regions where the screen does not show the windows
    down,   \* the button under the pen when it went down, None or Up
    astray, \* a click was told to another button than the pen went down on
    missed, \* the pen went up and a window whose button had it was not told
    made,   \* windows made
    orderly    \* how the application behaves, see Disciplined

muiVars == <<m, cap, pushed, refs, bmps, lost, backs, stale, down, astray, missed, made>>

None == 0
Up == -1
All == "all"
Spot == CHOOSE r \in Region : TRUE  \* where the buttons are
Window == 1..MaxWindows
Transform == 1..MaxTransforms

\* The state that operations are functions of; the rest is the client's.
State == [m |-> m, cap |-> cap, pushed |-> pushed, refs |-> refs, bmps |-> bmps,
          lost |-> lost, backs |-> backs, stale |-> stale]
StateBecomes(s) ==
    /\ m' = s.m /\ cap' = s.cap /\ pushed' = s.pushed /\ refs' = s.refs
    /\ bmps' = s.bmps /\ lost' = s.lost /\ backs' = s.backs /\ stale' = s.stale

GetTopWindow(s) == IF s.m.mWndStack = <<>> THEN None ELSE Last(s.m.mWndStack)
AliveWindows(s) == ToSet(s.m.mWndStack) \cup ({s.m.mDialog} \ {None})

-----------------------------------------------------------------------------
(* Repaints *)

\* redrawInternal: nothing is painted without a window.
RedrawInternal(s, rs) ==
    IF GetTopWindow(s) = None THEN s ELSE [s EXCEPT !.stale = @ \ rs]

\* mutant: a rectangle for which there is no room is left out
NotedIfRoom(rects, r) ==
    IF r = All \/ rects = All THEN All ELSE IF Len(rects) >= RectSlots THEN rects ELSE Append(rects, r)
Noted(rects, r) ==
    IF r = All \/ rects = All \/ Len(rects) >= RectSlots THEN All ELSE Append(rects, r)

\* redraw of a part of the screen or of all of it; a transition will paint.
Redraw(s, r, bDelay) ==
    IF s.m.mPeriodTransform THEN s
    ELSE IF bDelay
    THEN [s EXCEPT !.m.mRectRedraws = Noted(s.m.mRectRedraws, r), !.m.mPeriodRedraw = TRUE]
    ELSE RedrawInternal(s, IF r = All THEN Region ELSE {r})

Covered(rects) == IF rects = All THEN Region ELSE ToSet(rects)

\* redrawback, the period handler of the delayed repaint
RedrawBack(s) ==
    LET off == [s EXCEPT !.m.mPeriodRedraw = FALSE]
    IN  IF s.m.mPeriodTransform THEN off
        ELSE [RedrawInternal(off, Covered(s.m.mRectRedraws)) EXCEPT !.m.mRectRedraws = <<>>]

-----------------------------------------------------------------------------
(* Transitions *)

AddRef(s, t) == [s EXCEPT !.refs[t] = @ + 1]
Release(s, t) ==
    IF t = None THEN s
    ELSE [s EXCEPT !.refs[t] = @ - 1, !.bmps[t] = IF s.refs[t] = 1 THEN {} ELSE @]

StartTransform(s) ==
    IF s.m.mTransform = None THEN s ELSE [s EXCEPT !.m.mPeriodTransform = TRUE]

StopTransform(s) ==
    [Release(s, s.m.mTransform) EXCEPT !.m.mPeriodTransform = FALSE, !.m.mTransform = None]

\* mutant: the transition that is replaced keeps its reference
SetTransformDrops(s, t) ==
    IF t = None \/ t = s.m.mTransform THEN s
    ELSE AddRef([s EXCEPT !.m.mTransform = t, !.m.mPeriodTransform = FALSE], t)

SetTransform(s, t) ==
    IF t = None \/ t = s.m.mTransform THEN s
    ELSE AddRef([StopTransform(s) EXCEPT !.m.mTransform = t], t)

\* setBackWindow and setTopWindow: the window is painted into a bitmap.
SetTransformBitmap(s, t, which, w) ==
    IF t = None \/ w = None THEN s
    ELSE [s EXCEPT !.lost = @ \/ which \in s.bmps[t] \/ s.refs[t] = 0,
                   !.bmps[t] = @ \cup {which}]

SetBackWindow(s, t, w) == SetTransformBitmap(s, t, "old", w)
SetTopWindow(s, t, w) == SetTransformBitmap(s, t, "new", w)

\* transformCallback: a frame, or the end
TransformCallback(s, finished) ==
    IF s.m.mTransform = None THEN s
    ELSE IF finished THEN Redraw(StopTransform(s), All, TRUE)
    ELSE [s EXCEPT !.stale = Region]

-----------------------------------------------------------------------------
(* The pen *)

GetCapture(s) == IF GetTopWindow(s) = None THEN None ELSE s.cap[GetTopWindow(s)]

\* MUIWindow::setCapture of the window on top: the widget that had the pen is
\* no longer pushed, and is repainted.
SetCapture(s, b) ==
    LET top == GetTopWindow(s)
        old == s.cap[top]
        calmed == IF old = None THEN s
                  ELSE Redraw([s EXCEPT !.pushed = @ \ {old},
                                        !.stale = IF old \in s.pushed THEN @ \cup {Spot} ELSE @],
                              Spot, TRUE)
    IN  IF top = None THEN s ELSE [calmed EXCEPT !.cap[top] = b]

\* ~MUIWidget of the button of w: only the window on top is asked.
Deleted(s, w) ==
    LET freed == IF GetCapture(s) = w THEN SetCapture(s, None) ELSE s
    IN  [freed EXCEPT !.pushed = @ \ {w}, !.cap[w] = None, !.stale = Region]

-----------------------------------------------------------------------------
(* Windows *)

\* The end of a call that changed windows: the transition starts, or all of
\* the screen is painted.
Performed(s, t, bDelay) == IF t # None THEN StartTransform(s) ELSE Redraw(s, All, bDelay)

\* showWindow up to the window that is told MUI_EV_ON_BACKGROUND ...
WindowLeft(s, t, push) ==
    LET top == GetTopWindow(s)
        back == SetBackWindow(SetTransform(s, t), t, top)
    IN  IF push \/ top = None THEN back
        ELSE Deleted([back EXCEPT !.m.mWndStack = Front(@)], top)

\* ... up to the new one that is told MUI_EV_ON_CREATE ...
WindowPut(s, w) == [s EXCEPT !.m.mWndStack = Append(@, w), !.stale = Region]

\* ... and to its end.
WindowShown(s, w, t) == Release(Performed(SetTopWindow(s, t, w), t, FALSE), t)

\* showDialog up to the dialog that is told MUI_EV_ON_CREATE, and to its end
DialogPut(s, w, t, modal) ==
    LET set == SetTransform(s, t)
        gone == IF s.m.mDialog = None THEN set
                ELSE [Deleted(set, s.m.mDialog) EXCEPT !.m.mDialog = None]
    IN  [SetBackWindow(gone, t, GetTopWindow(s)) EXCEPT
            !.m.mDialog = w, !.m.modal = modal, !.stale = Region]
DialogShown(s, w, t) == Release(Performed(SetTopWindow(s, t, w), t, TRUE), t)

\* Back with bDelay: the handler that is known is stopped for a new one.
BackLater(s, t) ==
    LET set == SetTransform(s, t)
        kept == IF s.m.mPeroidid THEN set.backs - 1 ELSE set.backs
    IN  Release([set EXCEPT !.m.mPeroidid = TRUE, !.backs = kept + 1], t)

\* A transition is made for a call and given away with it.
NewTransform(s) == {None} \cup {t \in Transform : ~s.m.used[t] /\ \A o \in 1..(t - 1) : s.m.used[o]}
Given(s, t) == IF t = None THEN s ELSE [s EXCEPT !.refs[t] = 1, !.m.used[t] = TRUE]

\* What a handler may call that is told of a change while it is made: nothing,
\* a repaint, the delayed way back, or another window or dialog, with a
\* transition or without.
Nothing == [do |-> "nothing", bDelay |-> FALSE, t |-> None]
Harmless == {Nothing} \cup [do : {"redraw"}, bDelay : BOOLEAN, t : {None}]
Change(T) == [do : {"back", "window", "dialog"}, bDelay : {TRUE}, t : T]
Shows(c) == c.do \in {"window", "dialog"}

\* The window on top, if there is one, is told, and makes the call c.
CalledBack(s, c, w) ==
    LET g == Given(s, c.t)
    IN  IF GetTopWindow(s) = None THEN s
        ELSE CASE c.do = "nothing" -> s
               [] c.do = "redraw" -> Redraw(s, All, c.bDelay)
               [] c.do = "back" -> BackLater(g, c.t)
               [] c.do = "window" -> WindowShown(WindowPut(WindowLeft(g, c.t, TRUE), w), w, c.t)
               [] c.do = "dialog" -> DialogShown(DialogPut(g, w, c.t, TRUE), w, c.t)

\* showWindow.  With ok = FALSE the window cannot be made: its file is not there.
ShowWindow(s, w, t, push, ok, c, d) ==
    LET left == WindowLeft(s, t, push)
    IN  IF ok THEN WindowShown(CalledBack(WindowPut(CalledBack(left, c, w + 1), w), d, w + 1), w, t)
        ELSE Release(left, t)

ShowDialog(s, w, t, modal, ok, c) ==
    IF ok THEN DialogShown(CalledBack(DialogPut(s, w, t, modal), c, w + 1), w, t)
    ELSE Release(SetTransform(s, t), t)

DestroyDialog(s, t) ==
    LET set == SetTransform(s, t)
        gone == [Deleted(SetTopWindow(set, t, s.m.mDialog), s.m.mDialog) EXCEPT
                    !.m.mDialog = None]
    IN  Release(IF s.m.mDialog = None THEN set
                ELSE Performed(SetBackWindow(gone, t, GetTopWindow(gone)), t, TRUE), t)

\* BackInternal up to the window that is told MUI_EV_ON_FOREGROUND; mutant: the
\* number of the handler stays
WindowTakenKeepsId(s, t) ==
    LET w == GetTopWindow(s)
    IN  Deleted(SetTopWindow([s EXCEPT !.m.mWndStack = Front(@)], t, w), w)
WindowTaken(s, t) ==
    LET w == GetTopWindow(s)
    IN  [Deleted(SetTopWindow([s EXCEPT !.m.mWndStack = Front(@)], t, w), w)
            EXCEPT !.m.mPeroidid = FALSE]

\* What the handler called is done by then, and its transition may have
\* replaced t, which BackInternal goes on with.
BackInternal(s, t, c, w) ==
    LET told == CalledBack(WindowTaken(s, t), c, w)
    IN  IF GetTopWindow(s) = None THEN s
        ELSE Performed(SetBackWindow(told, t, GetTopWindow(told)), t, TRUE)

BackAtOnce(s, t, c, w) == Release(BackInternal(SetTransform(s, t), t, c, w), t)

\* delayback returns 0: the platform forgets it.
DelayBack(s, c, w) == [BackInternal(s, s.m.mTransform, c, w) EXCEPT !.backs = @ - 1]

StopAllPeriod(s) ==
    [s EXCEPT !.backs = IF s.m.mPeroidid THEN @ - 1 ELSE @,
              !.m.mPeroidid = FALSE, !.m.mPeriodRedraw = FALSE]

-----------------------------------------------------------------------------
(* Steps *)

Client == <<down, astray, missed, made, orderly>>
Running == ~m.suspended

\* What a disciplined application does not do: change windows while a delayed
\* way back is pending, or from a handler that is told of a change; show a
\* window over a dialog whose button has the pen; give away a transition, or
\* the window on top, for one that cannot be made or a dialog that is not
\* there; and delay the way back, without a transition of its own, while one plays.
Disciplined == orderly => ~m.mPeroidid

\* The calls of a handler, with a transition that is made after t
CallAfter(t) ==
    Harmless \cup (IF orderly THEN {} ELSE Change(NewTransform(Given(State, t))))
NewWindows(c) == IF Shows(c) THEN 1 ELSE 0

AppShowWindow ==
    /\ Running
    /\ \E t \in NewTransform(State), push, ok \in BOOLEAN :
       \E c \in CallAfter(t), told \in {"background", "create"} :
           /\ told = "create" \/ c # Nothing
           /\ made + NewWindows(c) < MaxWindows /\ Disciplined
           /\ orderly => ok \/ (push /\ t = None)
           /\ orderly => m.mDialog = None \/ GetCapture(State) # m.mDialog
           /\ StateBecomes(ShowWindow(Given(State, t), made + 1, t, push, ok,
                                      IF told = "background" THEN c ELSE Nothing,
                                      IF told = "create" THEN c ELSE Nothing))
           /\ made' = made + 1 + NewWindows(c)
    /\ UNCHANGED <<down, astray, missed, orderly>>

\* A dialog is shown over a window; after a click, or from a timer.
AppShowDialog ==
    /\ Running /\ m.mWndStack # <<>>
    /\ \E t \in NewTransform(State), modal, ok \in BOOLEAN :
       \E c \in {d \in CallAfter(t) : d.do # "dialog"} :
           /\ made + NewWindows(c) < MaxWindows /\ Disciplined
           /\ orderly => ok \/ t = None
           /\ StateBecomes(ShowDialog(Given(State, t), made + 1, t, modal, ok, c))
           /\ made' = made + 1 + NewWindows(c)
    /\ UNCHANGED <<down, astray, missed, orderly>>

AppDestroyDialog ==
    /\ Running /\ m.mWndStack # <<>> /\ Disciplined
    /\ \E t \in NewTransform(State) :
           /\ orderly => m.mDialog # None \/ t = None
           /\ StateBecomes(DestroyDialog(Given(State, t), t))
    /\ UNCHANGED Client

AppBack ==
    /\ Running /\ m.mWndStack # <<>>
    /\ \E t \in NewTransform(State) : \E c \in CallAfter(t) :
           /\ made + NewWindows(c) <= MaxWindows /\ Disciplined
           /\ StateBecomes(BackAtOnce(Given(State, t), t, c, made + 1))
           /\ made' = made + NewWindows(c)
    /\ UNCHANGED <<down, astray, missed, orderly>>

AppBackLater ==
    /\ Running /\ m.mWndStack # <<>> /\ Disciplined
    /\ \E t \in NewTransform(State) :
           /\ orderly => t # None \/ ~m.mPeriodTransform
           /\ StateBecomes(BackLater(Given(State, t), t))
    /\ UNCHANGED Client

\* A region of the window changes and the application asks for its repaint.
AppRedraws ==
    /\ Running /\ m.mWndStack # <<>>
    /\ \E r \in Region, bDelay \in BOOLEAN :
           StateBecomes(Redraw([State EXCEPT !.stale = @ \cup {r}], r, bDelay))
    /\ UNCHANGED Client

PeriodRedraw ==
    /\ Running /\ m.mPeriodRedraw
    /\ StateBecomes(RedrawBack(State))
    /\ UNCHANGED Client

PeriodTransform ==
    /\ Running /\ m.mPeriodTransform
    /\ \E finished \in BOOLEAN : StateBecomes(TransformCallback(State, finished))
    /\ UNCHANGED Client

PeriodBack ==
    /\ backs > 0
    /\ \E c \in CallAfter(None) :
           /\ made + NewWindows(c) <= MaxWindows
           /\ StateBecomes(DelayBack(State, c, made + 1))
           /\ made' = made + NewWindows(c)
    /\ UNCHANGED <<down, astray, missed, orderly>>

\* The pen goes up and, unless the window on top hears it, a button keeps it.
GoesUp(heard) ==
    /\ down' = Up
    /\ missed' = (missed \/ \E w \in Window :
                        cap[w] # None /\ ~(heard /\ w = GetTopWindow(State)))

ManagerSuspend ==
    /\ Running
    /\ StateBecomes([StopAllPeriod(StopTransform(State)) EXCEPT !.m.suspended = TRUE])
    /\ GoesUp(FALSE)
    /\ UNCHANGED <<astray, made, orderly>>

\* onResume; the window is told, and paints itself anew.
ManagerResume ==
    /\ m.suspended
    /\ StateBecomes(Redraw([State EXCEPT !.m.suspended = FALSE, !.stale = Region], All, FALSE))
    /\ UNCHANGED Client

-----------------------------------------------------------------------------
(* The pen: over the button of a window or dialog, or over none *)

\* The buttons an event at the place of b reaches: those of the dialog, and of
\* the window on top behind it unless the dialog is modal.
Reaches(b) ==
    /\ b # None
    /\ b = m.mDialog \/ (b = GetTopWindow(State) /\ (m.mDialog = None \/ ~m.modal))

Pressed(s, b) ==
    Redraw([SetCapture(s, b) EXCEPT !.pushed = @ \cup {b}, !.stale = @ \cup {Spot}], Spot, FALSE)

\* Events reach no window while a transition plays.
PenDown(b) ==
    /\ Running /\ down = Up
    /\ down' = IF Reaches(b) THEN b ELSE None
    /\ StateBecomes(IF m.mPeriodTransform \/ ~Reaches(b) THEN State ELSE Pressed(State, b))
    /\ UNCHANGED <<astray, missed, made, orderly>>

\* The pen goes to the button of b, or leaves the button that has it.
PenMove(b) ==
    LET c == GetCapture(State)
        on == [State EXCEPT !.pushed = IF b = c THEN @ \cup {c} ELSE @ \ {c}]
    IN  /\ Running /\ down # Up /\ ~m.mPeriodTransform /\ Reaches(c)
        /\ StateBecomes(IF on.pushed = pushed THEN State
                   ELSE Redraw([on EXCEPT !.stale = @ \cup {Spot}], Spot, FALSE))
        /\ UNCHANGED Client

\* mutant: a pen that left the button and goes up elsewhere keeps it
PenReleasedInside(s, c, b) == IF b = c THEN SetCapture(s, None) ELSE s
PenReleased(s, c, b) == SetCapture(s, None)

PenUp(b) ==
    LET c == GetCapture(State)
        heard == ~m.mPeriodTransform /\ Reaches(c)
        freed == PenReleased(State, c, b)
    IN  /\ Running /\ down # Up
        /\ GoesUp(heard)
        /\ StateBecomes(IF ~heard THEN State
                   ELSE IF b = c THEN Redraw([freed EXCEPT !.pushed = @ \ {c}], Spot, FALSE)
                   ELSE freed)
        /\ astray' = (astray \/ (heard /\ b = c /\ c # down))
        /\ UNCHANGED <<made, orderly>>

ManagerInit ==
    /\ m = [mWndStack |-> <<>>, mDialog |-> None, modal |-> FALSE, mTransform |-> None,
            mPeriodTransform |-> FALSE, mPeriodRedraw |-> FALSE, mPeroidid |-> FALSE,
            mRectRedraws |-> <<>>, suspended |-> FALSE, used |-> [t \in Transform |-> FALSE]]
    /\ cap = [w \in Window |-> None] /\ pushed = {}
    /\ refs = [t \in Transform |-> 0] /\ bmps = [t \in Transform |-> {}] /\ lost = FALSE
    /\ backs = 0 /\ stale = {} /\ down = Up /\ astray = FALSE
    /\ missed = FALSE /\ made = 0 /\ orderly \in BOOLEAN

ManagerNext ==
    \/ AppShowWindow \/ AppShowDialog \/ AppDestroyDialog \/ AppBack \/ AppBackLater
    \/ AppRedraws
    \/ PeriodRedraw \/ PeriodTransform \/ PeriodBack \/ ManagerSuspend \/ ManagerResume
    \/ \E b \in Window \cup {None} : PenDown(b) \/ PenMove(b) \/ PenUp(b)

ManagerSpec == ManagerInit /\ [][ManagerNext]_<<muiVars, orderly>>

-----------------------------------------------------------------------------
(* What must hold *)

\* Between two calls every transition that is alive is the manager's, with one
\* reference, and a period handler plays it only while it is there: however
\* transitions replace each other, none is leaked and none is played after it
\* was deleted.
TransformsCounted ==
    /\ \A t \in Transform : refs[t] = (IF t = m.mTransform THEN 1 ELSE 0)
    /\ m.mPeriodTransform => m.mTransform # None

\* In a disciplined life, what the screen shows wrongly will be painted: by
\* the repaint that is scheduled, at the end of the transition that plays
\* (though redraw() is ignored meanwhile and a repaint due then is dropped), or
\* of the one that the delayed way back will play.  Otherwise it may stay: a
\* window that cannot be made ends the transition that was playing.
RepaintScheduled ==
    (orderly /\ ~m.suspended /\ m.mWndStack # <<>>) =>
        \/ m.mPeriodTransform \/ (m.mPeroidid /\ m.mTransform # None)
        \/ stale \subseteq (IF m.mPeriodRedraw THEN Covered(m.mRectRedraws) ELSE {})

\* In a disciplined life the widget that has the pen is alive; no delayed way
\* back is left that its number does not name, to fire when the manager is
\* suspended or gone; and no bitmap is overwritten before it is released.
\* Otherwise all three may fail: a window that covers a dialog whose button has
\* the pen leaves it to the window below, which the dialog's end does not ask;
\* and back() forgets the number of a handler that goes on.
NothingDangles ==
    orderly =>
        /\ \A w \in AliveWindows(State) : cap[w] \in AliveWindows(State) \cup {None}
        /\ backs = (IF m.mPeroidid THEN 1 ELSE 0)
        /\ ~lost

\* In every life a click is told to the button on which the pen went down, as
\* long as no window missed that the pen went up: because a transition played,
\* the manager was suspended, or another window came on top.
ClickWhereDown == astray => missed

\* Always: transitions are counted, and clicks told where the pen went down
\* until a window misses that it went up.  Of an application that keeps to Disciplined:
\* nothing refers to a window, bitmap or handler that is gone, and what the
\* screen does not show is going to be painted.
MuiWindowsKept ==
    TransformsCounted /\ NothingDangles /\ RepaintScheduled /\ ClickWhereDown
=============================================================================
