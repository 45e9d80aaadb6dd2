----------------------------- MODULE DUIWindows -----------------------------
(***************************************************************************)
(* The windows of a DUI application: class DUIManager shows one and stacks *)
(* the others (AEE++/dui/dui_manager.cpp), class DUIWindow floats a dialog *)
(* over its controls, with a timeout (dui_window.cpp), class DUIControl    *)
(* turns what the pen does into clicks and long touches (dui_control.cpp), *)
(* and everything that changes the screen posts a repaint.                 *)
(*                                                                         *)
(* Dialogs and repaints wait for period handlers of the platform, long     *)
(* touches for its timers.  All of it runs on one thread; handlers of the  *)
(* application are called in the middle of an event, and may show or       *)
(* destroy windows and dialogs there.                                      *)
(***************************************************************************)
EXTENDS Integers, Sequences, FiniteSets

CONSTANTS
    Window,      \* the windows that are made, each shown once
    NoWindow,
    MaxCalls,    \* bound: the calls of ShowDialog and SetDialog
    MaxAddr      \* bound: the addresses that the button of a dialog can have

ASSUME WindowAssumption ==
    NoWindow \notin Window /\ MaxCalls \in Nat /\ MaxAddr \in Nat \ {0}

VARIABLES
    m_pCurWnd, mWndStack,
    made,             \* windows that were shown, and perhaps deleted
    wnd,              \* the fields of every DUIWindow
    calls,            \* how many dialogs were asked for
    periods,          \* period handlers that run with the window as pUser
    mRepaintPeriodId, \* it is known
    repaints,         \* period handlers that run for repaints
    dirty,            \* a repaint was posted, and nothing painted since
    mIsSuspend,
    call,             \* the control whose handler is called for an event
    open,             \* the press of every window that may still be answered
    twice             \* something else was answered

screen == <<mRepaintPeriodId, repaints, dirty>>
ghosts == <<open, twice>>
stackVars == <<m_pCurWnd, mWndStack, made>>
vars == <<stackVars, wnd, calls, periods, screen, mIsSuspend, call, ghosts>>

\* The controls of a window by their address: its own button, and those that
\* the button of a dialog can have.  A new dialog may get the address of one
\* that was deleted.
Own == 0
DialogAddr == 1..MaxAddr
Addr == {Own} \cup DialogAddr
NoCtrl == -1

Call == 1..MaxCalls
NULL == 0

NewWindow ==
    [mFloatDlg |-> NULL,       \* the call that showed the dialog
     addr |-> 1,               \* the address of its button
     mFloatDlgIsModel |-> TRUE,
     mFloatDlgFocus |-> FALSE, \* the dialog has a control for the keys
     mTimeoutID |-> NULL,      \* the call whose timeout runs
     mDialogHandler |-> NULL,  \* the call that gave it
     mFocus |-> FALSE,         \* the own button has the focus
     mPenDownCtrl |-> NoCtrl,
     pushed |-> {},            \* controls with UISTYLE_PUSHED
     touch |-> {}]             \* controls whose timer runs

Live == {w \in Window : w = m_pCurWnd \/ \E i \in 1..Len(mWndStack) : mWndStack[i] = w}
Idle == call.wnd = NoWindow
NoCall == [wnd |-> NoWindow, ev |-> "none"]

HasDialog(w) == wnd[w].mFloatDlg # NULL
Modal(w) == HasDialog(w) /\ wnd[w].mFloatDlgIsModel
Controls(w) == {Own} \cup IF HasDialog(w) THEN {wnd[w].addr} ELSE {}

Init ==
    /\ m_pCurWnd = NoWindow /\ mWndStack = <<>> /\ made = {}
    /\ wnd = [w \in Window |-> NewWindow] /\ calls = 0
    /\ periods = [w \in Window |-> 0]
    /\ mRepaintPeriodId = FALSE /\ repaints = 0 /\ dirty = FALSE
    /\ mIsSuspend = FALSE /\ call = NoCall
    /\ open = {} /\ twice = FALSE

-----------------------------------------------------------------------------
(* Repaints *)

PostRepaint ==
    /\ mRepaintPeriodId' = TRUE
    /\ repaints' = IF mRepaintPeriodId THEN repaints ELSE repaints + 1
    /\ dirty' = TRUE

\* Refresh paints nothing while the application is suspended.
Painted(cur) == cur # NoWindow /\ ~mIsSuspend

Refresh(cur, refresh) ==
    /\ dirty' = (dirty /\ ~(refresh /\ Painted(cur)))
    /\ UNCHANGED <<mRepaintPeriodId, repaints>>

\* mutant: the handler is stopped and its number kept
RepaintKeepsId ==
    /\ Idle /\ repaints > 0
    /\ repaints' = repaints - 1
    /\ mRepaintPeriodId' = mRepaintPeriodId
    /\ dirty' = (dirty /\ ~Painted(m_pCurWnd))
    /\ UNCHANGED <<calls, stackVars, wnd, periods, mIsSuspend, call, ghosts>>

\* _RepaintMessageHandler
Repaint ==
    /\ Idle /\ repaints > 0
    /\ repaints' = IF mRepaintPeriodId THEN repaints - 1 ELSE repaints
    /\ mRepaintPeriodId' = FALSE
    /\ dirty' = (dirty /\ ~Painted(m_pCurWnd))
    /\ UNCHANGED <<calls, stackVars, wnd, periods, mIsSuspend, call, ghosts>>

Suspend ==
    /\ Idle /\ ~mIsSuspend
    /\ mIsSuspend' = TRUE
    /\ UNCHANGED <<calls, stackVars, wnd, periods, screen, call, ghosts>>

\* Resume, and the PaintApp that AEEBaseApp calls after it
Resume ==
    /\ Idle /\ mIsSuspend
    /\ mIsSuspend' = FALSE
    /\ dirty' = (dirty /\ m_pCurWnd = NoWindow)
    /\ UNCHANGED <<calls, stackVars, wnd, periods, mRepaintPeriodId, repaints, call, ghosts>>

-----------------------------------------------------------------------------
(* The stack of windows *)

\* mutant: the destructor leaves the period handler to the platform
DeletedKeepsPeriod(gone) ==
    /\ wnd' = [w \in Window |-> IF w \in gone THEN NewWindow ELSE wnd[w]]
    /\ periods' = periods
    /\ open' = {p \in open : p[1] \notin gone}

\* ~DUIWindow and the destructors of its controls, for a set of windows
Deleted(gone) ==
    /\ wnd' = [w \in Window |-> IF w \in gone THEN NewWindow ELSE wnd[w]]
    /\ periods' = [w \in Window |-> IF w \in gone /\ wnd[w].mTimeoutID # NULL
                                      THEN periods[w] - 1 ELSE periods[w]]
    /\ open' = {p \in open : p[1] \notin gone}

\* A handler that was called for a control of a dialog must leave the window.
MayDelete(gone) == call.ev \in {"pen", "key"} => call.wnd \notin gone

\* ShowWindow; a window whose OnCreate fails is not shown, and nothing happens.
ShowWindow(w, push, refresh) ==
    LET gone == IF push THEN {} ELSE {m_pCurWnd} IN
    /\ w \notin made
    /\ MayDelete(gone)
    /\ Deleted(gone)
    /\ mWndStack' = IF push /\ m_pCurWnd # NoWindow
                      THEN Append(mWndStack, m_pCurWnd) ELSE mWndStack
    /\ m_pCurWnd' = w
    /\ made' = made \cup {w}
    /\ Refresh(w, refresh)
    /\ UNCHANGED <<calls, mIsSuspend, call, twice>>

\* Back, to the window before or to the first; the last one stays.
Back(toFirst, refresh) ==
    LET to == IF toFirst THEN 1 ELSE Len(mWndStack)
        gone == {m_pCurWnd} \cup {mWndStack[i] : i \in (to + 1)..Len(mWndStack)}
    IN
    /\ m_pCurWnd # NoWindow /\ mWndStack # <<>>
    /\ MayDelete(gone)
    /\ Deleted(gone)
    /\ m_pCurWnd' = mWndStack[to]
    /\ mWndStack' = SubSeq(mWndStack, 1, to - 1)
    /\ Refresh(m_pCurWnd', refresh)
    /\ UNCHANGED <<calls, made, mIsSuspend, call, twice>>

-----------------------------------------------------------------------------
(* Dialogs *)

\* mutant: the period handler is stopped and mTimeoutID kept
ClosedKeepsTimeout(win) ==
    LET stopped == [win EXCEPT !.mFloatDlgIsModel = TRUE]
    IN  IF win.mFloatDlg = NULL THEN stopped
        ELSE [stopped EXCEPT !.mFloatDlg = NULL, !.addr = 1, !.mFloatDlgFocus = FALSE, !.mDialogHandler = NULL,
                             !.touch = @ \ {win.addr}, !.pushed = @ \ {win.addr}]

\* DestroyDialog, on the fields of the window.  Without a dialog the handler
\* stays.  The destructor of the dialog's button cancels its timer.
Closed(win) ==
    LET stopped == [win EXCEPT !.mFloatDlgIsModel = TRUE, !.mTimeoutID = NULL]
    IN  IF win.mFloatDlg = NULL THEN stopped
        ELSE [stopped EXCEPT !.mFloatDlg = NULL, !.addr = 1, !.mFloatDlgFocus = FALSE, !.mDialogHandler = NULL,
                             !.touch = @ \ {win.addr}, !.pushed = @ \ {win.addr}]

Stopped(w) == IF wnd[w].mTimeoutID # NULL THEN periods[w] - 1 ELSE periods[w]

\* The application closes the dialog of a window.
DestroyDialog(w) ==
    /\ w \in Live
    /\ wnd' = [wnd EXCEPT ![w] = Closed(@)]
    /\ periods' = [periods EXCEPT ![w] = Stopped(w)]
    /\ UNCHANGED <<calls, stackVars, screen, mIsSuspend, call, ghosts>>

\* The dialogs of the application: a modeless one has no control for the keys,
\* or the focus of the window would move into it and stay when it is deleted.
Kinds == {[modal |-> TRUE, keys |-> TRUE], [modal |-> TRUE, keys |-> FALSE],
          [modal |-> FALSE, keys |-> FALSE]}

Shown(win, a, kind, n) ==
    [win EXCEPT !.mFloatDlg = n, !.addr = a, !.mFloatDlgFocus = kind.keys,
                !.mFloatDlgIsModel = kind.modal]

\* ShowDialog: the old dialog is destroyed, the new one created, which may
\* fail, the timeout started and the handler stored, even without a dialog.
ShowDialog(w, a, kind, timed, handler, created) ==
    LET n == calls + 1
        empty == Closed(wnd[w])
        win == IF created THEN Shown(empty, a, kind, n) ELSE empty
        left == Stopped(w)
    IN
    /\ w \in Live /\ n \in Call
    /\ calls' = n
    /\ wnd' = [wnd EXCEPT ![w] =
          [win EXCEPT !.mTimeoutID = IF timed THEN n ELSE @,
                      !.mDialogHandler = IF handler THEN n ELSE NULL]]
    /\ periods' = [periods EXCEPT ![w] = IF timed THEN left + 1 ELSE left]
    /\ UNCHANGED <<stackVars, screen, mIsSuspend, call, ghosts>>

\* SetDialog: a control of the application becomes the dialog.
SetDialog(w, a, modal) ==
    LET n == calls + 1 IN
    /\ w \in Live /\ n \in Call
    /\ calls' = n
    /\ wnd' = [wnd EXCEPT ![w] =
           Shown(Closed(@), a, [modal |-> modal, keys |-> FALSE], n)]
    /\ periods' = [periods EXCEPT ![w] = Stopped(w)]
    /\ UNCHANGED <<stackVars, screen, mIsSuspend, call, ghosts>>

\* DialogTimeoutCb, when 3000 ms have passed; before, _DUITimerCallback only
\* starts its handler again.  The handler is told; the dialog is destroyed if it says so
\* or if there is none.  A handler that shows another dialog or deletes the
\* window must say no, and does it in actions of its own.
Timeout(w, destroy) ==
    LET win == [wnd[w] EXCEPT !.mTimeoutID = NULL] IN
    /\ Idle /\ periods[w] > 0
    /\ periods' = [periods EXCEPT ![w] = @ - 1]
    /\ win.mDialogHandler = NULL => destroy
    /\ \/ /\ destroy
          /\ wnd' = [wnd EXCEPT ![w] = Closed(win)]
          /\ PostRepaint
       \/ /\ ~destroy
          /\ wnd' = [wnd EXCEPT ![w] = win]
          /\ UNCHANGED screen
    /\ UNCHANGED <<calls, stackVars, mIsSuspend, call, ghosts>>

-----------------------------------------------------------------------------
(* Events *)

\* The window the events go to
Top == m_pCurWnd
Takes == Idle /\ ~mIsSuspend /\ Top # NoWindow

\* The controls that see an event of the pen: a modal dialog keeps it.
Reached(w) ==
    IF Modal(w) THEN {wnd[w].addr} ELSE Controls(w)

MayPost == PostRepaint \/ UNCHANGED screen

\* The pen goes down on the controls at: each of them is pushed and starts its
\* timer, the dialog's comes last.
PenDown(at) ==
    LET hit == at \cap Reached(Top) IN
    /\ Takes /\ hit # {}
    /\ wnd' = [wnd EXCEPT ![Top].pushed = @ \cup hit, ![Top].touch = @ \cup hit,
                          ![Top].mPenDownCtrl = CHOOSE c \in hit : \A b \in hit : b <= c]
    /\ open' = {p \in open : p[1] # Top} \cup {<<Top, wnd'[Top].mPenDownCtrl>>}
    /\ MayPost
    /\ UNCHANGED <<calls, stackVars, periods, mIsSuspend, call, twice>>

Answer(w, c) ==
    /\ open' = open \ {<<w, c>>}
    /\ twice' = (twice \/ <<w, c>> \notin open)

\* The pen goes up: the timers of the controls that see it are cancelled, and
\* the one it went down on is clicked if the pen is still there.  The handler
\* of a dialog's control is called before the window is done with the event.
PenUp(at) ==
    LET c == wnd[Top].mPenDownCtrl
        seen == Reached(Top)
        clicked == c \in seen \cap at
        inDialog == clicked /\ c # Own
        up == IF inDialog THEN {c} ELSE seen
    IN
    /\ Takes
    /\ wnd' = [wnd EXCEPT ![Top].touch = @ \ up,
                          ![Top].pushed = IF c \in seen THEN @ \ {c} ELSE @,
                          ![Top].mPenDownCtrl = IF c \in seen THEN NoCtrl ELSE @]
    /\ call' = IF inDialog THEN [wnd |-> Top, ev |-> "pen"] ELSE call
    /\ IF clicked THEN PostRepaint /\ Answer(Top, c)
                  ELSE MayPost /\ open' = open \ ({Top} \X seen) /\ UNCHANGED twice
    /\ UNCHANGED <<calls, stackVars, periods, mIsSuspend>>

\* mutant: the press is not forgotten
LongTouchKeepsPress(w, c) ==
    /\ Idle /\ c \in wnd[w].touch
    /\ IF c \in wnd[w].pushed /\ w = Top /\ wnd[w].mPenDownCtrl = c
         THEN /\ wnd' = [wnd EXCEPT ![w].touch = @ \ {c}, ![w].pushed = @ \ {c}]
              /\ PostRepaint /\ Answer(w, c)
         ELSE /\ wnd' = [wnd EXCEPT ![w].touch = @ \ {c}]
              /\ UNCHANGED <<screen, open, twice>>
    /\ UNCHANGED <<calls, stackVars, periods, mIsSuspend, call>>

\* LongTouchCb
LongTouch(w, c) ==
    /\ Idle /\ c \in wnd[w].touch
    /\ IF c \in wnd[w].pushed /\ w = Top /\ wnd[w].mPenDownCtrl = c
         THEN /\ wnd' = [wnd EXCEPT ![w].touch = @ \ {c}, ![w].pushed = @ \ {c},
                                    ![w].mPenDownCtrl = NoCtrl]
              /\ PostRepaint /\ Answer(w, c)
         ELSE /\ wnd' = [wnd EXCEPT ![w].touch = @ \ {c}]
              /\ UNCHANGED <<screen, open, twice>>
    /\ UNCHANGED <<calls, stackVars, periods, mIsSuspend, call>>

\* The keys up and down move the focus, in the dialog if it is modal.
KeyArrow ==
    /\ Takes
    /\ wnd' = [wnd EXCEPT ![Top].mFocus = @ \/ ~Modal(Top)]
    /\ PostRepaint
    /\ UNCHANGED <<calls, stackVars, periods, mIsSuspend, call, ghosts>>

\* Another key goes to the dialog's focus if it has one, or to the window's.
KeyOk ==
    /\ Takes
    /\ \/ /\ wnd[Top].mFloatDlgFocus
          /\ call' = [wnd |-> Top, ev |-> "key"]
       \/ /\ ~wnd[Top].mFloatDlgFocus /\ wnd[Top].mFocus
          /\ call' = [wnd |-> Top, ev |-> IF Modal(Top) THEN "under" ELSE "own"]
    /\ UNCHANGED <<calls, stackVars, wnd, periods, screen, mIsSuspend, ghosts>>

\* The handler returns.  The window of a dialog's control posts a repaint after
\* a key; the pen it hands on to all controls if its dialog is now modeless.
CallReturns ==
    /\ ~Idle
    /\ call' = NoCall
    /\ IF call.ev = "key" THEN PostRepaint ELSE UNCHANGED screen
    /\ wnd' = IF call.ev = "pen" /\ ~wnd[call.wnd].mFloatDlgIsModel
                THEN [wnd EXCEPT ![call.wnd].touch = @ \ Controls(call.wnd)] ELSE wnd
    /\ UNCHANGED <<calls, stackVars, periods, mIsSuspend, ghosts>>

-----------------------------------------------------------------------------
(* The specification *)

\* What the application calls, from its handlers or on its own
Application ==
    \/ \E w \in Window, push, refresh \in BOOLEAN : ShowWindow(w, push, refresh)
    \/ \E toFirst, refresh \in BOOLEAN : Back(toFirst, refresh)
    \/ \E w \in Window :
          \/ DestroyDialog(w)
          \/ \E a \in DialogAddr, modal \in BOOLEAN : SetDialog(w, a, modal)
          \/ \E a \in DialogAddr, kind \in Kinds, timed, handler, created \in BOOLEAN :
                ShowDialog(w, a, kind, timed, handler, created)

\* What the platform calls
Platform ==
    \/ Suspend \/ Resume \/ Repaint
    \/ \E at \in SUBSET Addr : PenDown(at) \/ PenUp(at)
    \/ KeyArrow \/ KeyOk
    \/ \E w \in Window :
          \/ \E destroy \in BOOLEAN : Timeout(w, destroy)
          \/ \E c \in Addr : LongTouch(w, c)

Next == Application \/ Platform \/ CallReturns

Spec == Init /\ [][Next]_vars

-----------------------------------------------------------------------------
(* Properties *)

\* Every handler and timer that runs has an owner that exists and knows it, so
\* that the owner's destructor stops it: none is called on a deleted window, a
\* deleted control, or twice.
HandlersOwned ==
    /\ \A w \in Window :
          /\ periods[w] = IF wnd[w].mTimeoutID # NULL THEN 1 ELSE 0
          /\ w \notin Live => wnd[w].mTimeoutID = NULL /\ wnd[w].touch = {}
          /\ wnd[w].touch \subseteq Controls(w)
    /\ repaints = IF mRepaintPeriodId THEN 1 ELSE 0

\* A timeout that runs was started for the dialog that is shown, and the handler
\* it will tell was given with it: no dialog is closed for an older one.
TimeoutOfItsDialog ==
    \A w \in Window : wnd[w].mTimeoutID # NULL =>
        /\ wnd[w].mFloatDlg \in {NULL, wnd[w].mTimeoutID}
        /\ wnd[w].mDialogHandler \in {NULL, wnd[w].mTimeoutID}

\* A repaint that was posted will come, or the application is suspended and
\* paints when it is resumed.
RepaintNotLost == dirty => repaints > 0 \/ mIsSuspend

\* A press of a control is answered at most once, by a click or a long touch,
\* whatever windows and dialogs come and go over it.
OneAnswerPerPress == ~twice

\* A modal dialog keeps the user from the controls under it, as the comment on
\* mFloatDlgIsModel says (dui_window.h).
ModalBlocks == call.ev # "under"
=============================================================================
