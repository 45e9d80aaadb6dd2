-------------------------- MODULE DUIWindowsProofs --------------------------
(***************************************************************************)
(* Proofs about DUIWindows for any windows and any number of dialogs.      *)
(***************************************************************************)
EXTENDS DUIWindows, TLAPS

USE DEF NULL, Own, NoCtrl

WindowType ==
    [mFloatDlg : Nat, addr : DialogAddr, mFloatDlgIsModel : BOOLEAN, mFloatDlgFocus : BOOLEAN,
     mTimeoutID : Nat, mDialogHandler : Nat, mFocus : BOOLEAN,
     mPenDownCtrl : Addr \cup {NoCtrl}, pushed : SUBSET Addr, touch : SUBSET Addr]

CallType == [wnd : Window \cup {NoWindow}, ev : {"none", "pen", "key", "own", "under"}]

ManagerType ==
    /\ m_pCurWnd \in Window \cup {NoWindow} /\ mWndStack \in Seq(Window)
    /\ wnd \in [Window -> WindowType] /\ periods \in [Window -> Nat]
    /\ calls \in Nat /\ repaints \in Nat
    /\ mRepaintPeriodId \in BOOLEAN /\ dirty \in BOOLEAN /\ mIsSuspend \in BOOLEAN
    /\ call \in CallType /\ (Idle => call = NoCall)

\* The controls of a window with the fields win
ControlsOf(win) == {Own} \cup IF win.mFloatDlg # NULL THEN {win.addr} ELSE {}

\* What holds of a window: a period handler runs for it if and only if it knows
\* its number, no timer or handler is left when it is gone, a timer is that of a
\* control it has, a timeout is that of its dialog, and the press it remembers
\* may still be answered.
WindowOK(w, win, period, live, pressed) ==
    /\ period = IF win.mTimeoutID # NULL THEN 1 ELSE 0
    /\ ~live => win.mTimeoutID = NULL /\ win.touch = {}
    /\ win.touch \subseteq ControlsOf(win)
    /\ win.mTimeoutID # NULL => /\ win.mFloatDlg \in {NULL, win.mTimeoutID}
                                /\ win.mDialogHandler \in {NULL, win.mTimeoutID}
    /\ win.mPenDownCtrl # NoCtrl => <<w, win.mPenDownCtrl>> \in pressed

WindowsOK == \A w \in Window : WindowOK(w, wnd[w], periods[w], w \in Live, open)

\* A repaint has a handler that will come to it; and before the first window
\* nothing asks for one.
ScreenOK ==
    /\ repaints = IF mRepaintPeriodId THEN 1 ELSE 0
    /\ dirty => repaints > 0 \/ mIsSuspend
    /\ m_pCurWnd = NoWindow => mWndStack = <<>> /\ ~dirty /\ Idle

\* The inductive invariant.
ManagerInv == ManagerType /\ WindowsOK /\ ScreenOK /\ ~twice

-----------------------------------------------------------------------------
(* One window *)

\* A window has its own button, and that of the dialog it shows.
LEMMA AddrType == /\ Own \in Addr /\ NoCtrl \notin Addr
                  /\ DialogAddr \subseteq Addr /\ Own \notin DialogAddr
                  /\ \A a \in Addr : a \in Int
                  /\ 1 \in DialogAddr
  BY WindowAssumption DEF Addr, DialogAddr

\* A new window has no dialog, no timers and no press.
LEMMA NewWindowOK ==
    ASSUME NEW w, NEW live, NEW pressed
    PROVE  NewWindow \in WindowType /\ WindowOK(w, NewWindow, 0, live, pressed)
<1>1. NewWindow \in WindowType
  BY AddrType DEF NewWindow, WindowType
<1>2. WindowOK(w, NewWindow, 0, live, pressed)
  BY DEF NewWindow, WindowOK
<1> QED
  BY <1>1, <1>2

\* DestroyDialog leaves no timeout, no timer of the dialog's button and no dialog.
LEMMA ClosedOK ==
    ASSUME NEW win \in WindowType, win.touch \subseteq ControlsOf(win)
    PROVE  /\ Closed(win) \in WindowType
           /\ Closed(win).mFloatDlg = NULL /\ Closed(win).mTimeoutID = NULL
           /\ Closed(win).touch \subseteq {Own} /\ Closed(win).touch \subseteq win.touch
           /\ Closed(win).mPenDownCtrl = win.mPenDownCtrl
<1>1. CASE win.mFloatDlg = NULL
  <2>1. Closed(win) = [win EXCEPT !.mFloatDlgIsModel = TRUE, !.mTimeoutID = NULL]
    BY <1>1 DEF Closed
  <2>2. win.touch \subseteq {Own}
    BY <1>1 DEF ControlsOf
  <2> QED
    BY <1>1, <2>1, <2>2 DEF WindowType
<1>2. CASE win.mFloatDlg # NULL
  <2> DEFINE t == win.touch \ {win.addr}
             p == win.pushed \ {win.addr}
  <2>1. Closed(win) = [win EXCEPT !.mFloatDlgIsModel = TRUE, !.mTimeoutID = NULL,
                                  !.mFloatDlg = NULL, !.addr = 1, !.mFloatDlgFocus = FALSE,
                                  !.mDialogHandler = NULL, !.touch = t, !.pushed = p]
    BY <1>2 DEF Closed, WindowType
  <2>2. t \subseteq {Own} /\ t \subseteq win.touch
    BY <1>2 DEF ControlsOf
  <2>3. t \in SUBSET Addr /\ p \in SUBSET Addr /\ 1 \in DialogAddr
    BY AddrType DEF WindowType
  <2> HIDE DEF t, p
  <2>4. Closed(win) \in WindowType
    <3>1. /\ win.mFocus \in BOOLEAN /\ win.mPenDownCtrl \in Addr \cup {NoCtrl}
          /\ TRUE \in BOOLEAN /\ FALSE \in BOOLEAN
      BY DEF WindowType
    <3>2. Closed(win) = [mFloatDlg |-> NULL, addr |-> 1, mFloatDlgIsModel |-> TRUE,
                         mFloatDlgFocus |-> FALSE, mTimeoutID |-> NULL, mDialogHandler |-> NULL,
                         mFocus |-> win.mFocus, mPenDownCtrl |-> win.mPenDownCtrl,
                         pushed |-> p, touch |-> t]
      BY <2>1 DEF WindowType
    <3> QED
      BY <2>3, <3>1, <3>2 DEF WindowType
  <2>5. /\ Closed(win).mFloatDlg = NULL /\ Closed(win).mTimeoutID = NULL
        /\ Closed(win).touch = t /\ Closed(win).mPenDownCtrl = win.mPenDownCtrl
    BY <2>1 DEF WindowType
  <2> QED
    BY <2>2, <2>4, <2>5
<1> QED
  BY <1>1, <1>2

\* A step that changes one window and perhaps its period handler.
LEMMA OneWindow ==
    ASSUME ManagerInv, NEW w \in Window, NEW win \in WindowType, NEW p \in Nat,
           wnd' = [wnd EXCEPT ![w] = win], periods' = [periods EXCEPT ![w] = p],
           UNCHANGED stackVars,
           \A v \in Window, c \in Addr : v # w /\ <<v, c>> \in open => <<v, c>> \in open',
           WindowOK(w, win, p, w \in Live, open')
    PROVE  /\ wnd' \in [Window -> WindowType] /\ periods' \in [Window -> Nat]
           /\ WindowsOK'
<1>1. wnd' \in [Window -> WindowType] /\ periods' \in [Window -> Nat]
  BY DEF ManagerInv, ManagerType
<1>2. Live' = Live
  BY DEF Live, stackVars
<1>3. ASSUME NEW v \in Window PROVE WindowOK(v, wnd'[v], periods'[v], v \in Live, open')
  <2>1. CASE v = w
    BY <2>1 DEF ManagerInv, ManagerType
  <2>2. CASE v # w
    <3>1. wnd'[v] = wnd[v] /\ periods'[v] = periods[v]
      BY <2>2 DEF ManagerInv, ManagerType
    <3>2. WindowOK(v, wnd[v], periods[v], v \in Live, open)
      BY DEF ManagerInv, WindowsOK
    <3>3. wnd[v].mPenDownCtrl \in Addr \cup {NoCtrl}
      BY DEF ManagerInv, ManagerType, WindowType
    <3> QED
      BY <2>2, <3>1, <3>2, <3>3 DEF WindowOK
  <2> QED
    BY <2>1, <2>2
<1>4. WindowsOK'
  BY <1>2, <1>3 DEF WindowsOK
<1> QED
  BY <1>1, <1>4

\* A step that leaves the windows, the stack and the presses alone, except that
\* presses may be added.
LEMMA NoWindowChanges ==
    ASSUME ManagerInv, UNCHANGED <<wnd, periods, stackVars, open>>
    PROVE  WindowsOK'
<1>1. Live' = Live
  BY DEF Live, stackVars
<1> QED
  BY <1>1 DEF ManagerInv, WindowsOK

\* A repaint that is posted has a handler.
LEMMA PostRepaintOK ==
    ASSUME ManagerInv, PostRepaint \/ UNCHANGED screen, m_pCurWnd # NoWindow,
           UNCHANGED <<stackVars, mIsSuspend>>
    PROVE  /\ ScreenOK'
           /\ repaints' \in Nat /\ mRepaintPeriodId' \in BOOLEAN /\ dirty' \in BOOLEAN
<1>1. CASE PostRepaint
  BY <1>1 DEF PostRepaint, ManagerInv, ManagerType, ScreenOK, stackVars
<1>2. CASE UNCHANGED screen
  BY <1>2 DEF screen, ManagerInv, ManagerType, ScreenOK, stackVars
<1> QED
  BY <1>1, <1>2

\* A step that posts nothing and shows nothing.
LEMMA ScreenKept ==
    ASSUME ManagerInv, UNCHANGED <<screen, stackVars, mIsSuspend>>,
           call' = call \/ call' = NoCall \/ m_pCurWnd # NoWindow
    PROVE  /\ ScreenOK'
           /\ repaints' \in Nat /\ mRepaintPeriodId' \in BOOLEAN /\ dirty' \in BOOLEAN
BY DEF screen, ManagerInv, ManagerType, ScreenOK, stackVars, Idle, NoCall

-----------------------------------------------------------------------------
(* The screen and the stack *)

\* The states in which the program may start.
LEMMA InitInv == Init => ManagerInv
<1> SUFFICES ASSUME Init PROVE ManagerInv
  OBVIOUS
<1>1. NewWindow \in WindowType
  BY NewWindowOK
<1>2. <<>> \in Seq(Window)
  OBVIOUS
<1>3. NoCall \in CallType /\ NoCall.wnd = NoWindow
  BY DEF NoCall, CallType
<1>4. ManagerType
  <2>1. wnd \in [Window -> WindowType] /\ periods \in [Window -> Nat]
    BY <1>1 DEF Init
  <2>2. call \in CallType /\ call = NoCall
    BY <1>3 DEF Init
  <2> QED
    BY <1>2, <2>1, <2>2 DEF Init, ManagerType
<1>5. WindowsOK
  <2> SUFFICES ASSUME NEW w \in Window PROVE WindowOK(w, wnd[w], periods[w], w \in Live, open)
    BY DEF WindowsOK
  <2>1. wnd[w] = NewWindow /\ periods[w] = 0
    BY DEF Init
  <2> QED
    BY <2>1, NewWindowOK
<1>6. ScreenOK
  BY <1>3 DEF Init, ScreenOK, Idle
<1> QED
  BY <1>4, <1>5, <1>6 DEF ManagerInv, Init

\* Suspend, Resume and the handler of the repaints
LEMMA ScreenStep == ManagerInv /\ (Suspend \/ Resume \/ Repaint) => ManagerInv'
<1> SUFFICES ASSUME ManagerInv, Suspend \/ Resume \/ Repaint PROVE ManagerInv'
  OBVIOUS
<1>1. UNCHANGED <<wnd, periods, stackVars, open, twice, calls, call>>
  BY DEF Suspend, Resume, Repaint, ghosts
<1>2. WindowsOK'
  BY <1>1, NoWindowChanges
<1>3. /\ repaints' \in Nat /\ mRepaintPeriodId' \in BOOLEAN /\ dirty' \in BOOLEAN
      /\ mIsSuspend' \in BOOLEAN
  <2>1. CASE Suspend
    BY <2>1 DEF Suspend, screen, ManagerInv, ManagerType
  <2>2. CASE Resume
    BY <2>2 DEF Resume, ManagerInv, ManagerType
  <2>3. CASE Repaint
    <3>1. repaints' \in Nat
      BY <2>3 DEF Repaint, ManagerInv, ManagerType
    <3>2. mRepaintPeriodId' \in BOOLEAN /\ mIsSuspend' \in BOOLEAN
      BY <2>3 DEF Repaint, ManagerInv, ManagerType
    <3>3. dirty' \in BOOLEAN
      BY <2>3 DEF Repaint, ManagerInv, ManagerType
    <3> QED
      BY <3>1, <3>2, <3>3
  <2> QED
    BY <2>1, <2>2, <2>3
<1>4. ScreenOK'
  <2>1. CASE Suspend
    BY <2>1 DEF Suspend, screen, stackVars, ManagerInv, ManagerType, ScreenOK, Idle
  <2>2. CASE Resume
    BY <2>2 DEF Resume, stackVars, ManagerInv, ManagerType, ScreenOK, Idle
  <2>3. CASE Repaint
    BY <2>3 DEF Repaint, Painted, stackVars, ManagerInv, ManagerType, ScreenOK, Idle
  <2> QED
    BY <2>1, <2>2, <2>3
<1>5. ManagerType'
  BY <1>1, <1>3 DEF ManagerInv, ManagerType, stackVars, Idle
<1> QED
  BY <1>1, <1>2, <1>4, <1>5 DEF ManagerInv

\* When windows are deleted, those that are not shown any more among them, the
\* others are as before.
LEMMA DeletedOK ==
    ASSUME ManagerInv, NEW gone, Deleted(gone),
           \A w \in Live : w \in gone \/ w \in Live'
    PROVE  /\ wnd' \in [Window -> WindowType] /\ periods' \in [Window -> Nat]
           /\ WindowsOK'
<1>1. NewWindow \in WindowType
  BY NewWindowOK
<1>2. ASSUME NEW w \in Window
      PROVE  /\ wnd'[w] \in WindowType /\ periods'[w] \in Nat
             /\ WindowOK(w, wnd'[w], periods'[w], w \in Live', open')
  <2>1. WindowOK(w, wnd[w], periods[w], w \in Live, open)
    BY DEF ManagerInv, WindowsOK
  <2>2. CASE w \in gone
    <3>1. wnd'[w] = NewWindow
      BY <2>2 DEF Deleted
    <3>2. periods'[w] = 0
      BY <2>1, <2>2 DEF Deleted, WindowOK
    <3> QED
      BY <3>1, <3>2, NewWindowOK
  <2>3. CASE w \notin gone
    <3>1. wnd'[w] = wnd[w] /\ periods'[w] = periods[w]
      BY <2>3 DEF Deleted
    <3>2. w \notin Live' => w \notin Live
      BY <2>3
    <3>3. \A c : <<w, c>> \in open => <<w, c>> \in open'
      BY <2>3 DEF Deleted
    <3> QED
      BY <2>1, <3>1, <3>2, <3>3 DEF WindowOK, ManagerInv, ManagerType
  <2> QED
    BY <2>2, <2>3
<1>3. wnd' \in [Window -> WindowType] /\ periods' \in [Window -> Nat]
  BY <1>2 DEF Deleted
<1>4. WindowsOK'
  BY <1>2 DEF WindowsOK
<1> QED
  BY <1>3, <1>4

\* A refresh paints, or leaves what was posted.
LEMMA RefreshOK ==
    ASSUME ManagerInv, NEW cur, NEW refresh, Refresh(cur, refresh), m_pCurWnd' \in Window,
           UNCHANGED <<mIsSuspend, call>>
    PROVE  /\ ScreenOK'
           /\ repaints' \in Nat /\ mRepaintPeriodId' \in BOOLEAN /\ dirty' \in BOOLEAN
<1>1. m_pCurWnd' # NoWindow
  BY WindowAssumption
<1>2. dirty' \in BOOLEAN /\ (dirty' => dirty)
  BY DEF Refresh, ManagerInv, ManagerType
<1>3. UNCHANGED <<repaints, mRepaintPeriodId>>
  BY DEF Refresh
<1> QED
  BY <1>1, <1>2, <1>3 DEF ManagerInv, ManagerType, ScreenOK

\* A window is shown in place of another or on top of it.
LEMMA ShowStep ==
    ASSUME ManagerInv, NEW w \in Window, NEW push \in BOOLEAN, NEW refresh \in BOOLEAN,
           ShowWindow(w, push, refresh)
    PROVE  ManagerInv'
<1> DEFINE gone == IF push THEN {} ELSE {m_pCurWnd}
<1>1. /\ Deleted(gone) /\ m_pCurWnd' = w /\ Refresh(w, refresh)
      /\ mWndStack' = IF push /\ m_pCurWnd # NoWindow
                         THEN Append(mWndStack, m_pCurWnd) ELSE mWndStack
      /\ UNCHANGED <<calls, mIsSuspend, call, twice>>
  BY DEF ShowWindow
<1>2. mWndStack \in Seq(Window) /\ m_pCurWnd \in Window \cup {NoWindow}
  BY DEF ManagerInv, ManagerType
<1>3. mWndStack' \in Seq(Window)
  BY <1>1, <1>2
<1>4. ASSUME NEW v \in Live PROVE v \in gone \/ v \in Live'
  <2>1. v \in Window /\ v # NoWindow
    BY WindowAssumption DEF Live
  <2>2. CASE v = m_pCurWnd
    <3>1. CASE push
      <4>1. mWndStack' = Append(mWndStack, m_pCurWnd)
        BY <1>1, <2>1, <2>2, <3>1
      <4>2. /\ Len(mWndStack') = Len(mWndStack) + 1
            /\ mWndStack'[Len(mWndStack) + 1] = v
        BY <1>2, <2>1, <2>2, <4>1
      <4>3. Len(mWndStack) + 1 \in 1..Len(mWndStack')
        BY <1>2, <4>2
      <4> QED
        BY <2>1, <4>2, <4>3 DEF Live
    <3> QED
      BY <2>2, <3>1
  <2>3. CASE \E i \in 1..Len(mWndStack) : mWndStack[i] = v
    <3>1. PICK i \in 1..Len(mWndStack) : mWndStack[i] = v
      BY <2>3
    <3>2. i \in 1..Len(mWndStack') /\ mWndStack'[i] = v
      <4>1. CASE push /\ m_pCurWnd # NoWindow
        <5>1. m_pCurWnd \in Window
          BY <1>2, <4>1
        <5>2. mWndStack' = Append(mWndStack, m_pCurWnd)
          BY <1>1, <4>1
        <5> QED
          BY <1>2, <3>1, <5>1, <5>2
      <4>2. CASE ~(push /\ m_pCurWnd # NoWindow)
        BY <1>1, <3>1, <4>2
      <4> QED
        BY <4>1, <4>2
    <3> QED
      BY <2>1, <3>2 DEF Live
  <2> QED
    BY <2>2, <2>3 DEF Live
<1> HIDE DEF gone
<1>5. wnd' \in [Window -> WindowType] /\ periods' \in [Window -> Nat] /\ WindowsOK'
  BY <1>1, <1>4, DeletedOK
<1>6. /\ ScreenOK' /\ repaints' \in Nat /\ mRepaintPeriodId' \in BOOLEAN
      /\ dirty' \in BOOLEAN
  BY <1>1, RefreshOK
<1>7. ManagerType'
  BY <1>1, <1>3, <1>5, <1>6 DEF ManagerInv, ManagerType, Idle
<1> QED
  BY <1>1, <1>5, <1>6, <1>7 DEF ManagerInv

\* A window goes, and those between it and the one that is shown next.
LEMMA BackStep ==
    ASSUME ManagerInv, NEW toFirst \in BOOLEAN, NEW refresh \in BOOLEAN, Back(toFirst, refresh)
    PROVE  ManagerInv'
<1> DEFINE to == IF toFirst THEN 1 ELSE Len(mWndStack)
           gone == {m_pCurWnd} \cup {mWndStack[i] : i \in (to + 1)..Len(mWndStack)}
<1>1. /\ mWndStack # <<>>
      /\ Deleted(gone) /\ m_pCurWnd' = mWndStack[to] /\ Refresh(m_pCurWnd', refresh)
      /\ mWndStack' = SubSeq(mWndStack, 1, to - 1)
      /\ UNCHANGED <<calls, mIsSuspend, call, twice>>
  BY DEF Back
<1>2. mWndStack \in Seq(Window)
  BY DEF ManagerInv, ManagerType
<1>3. to \in 1..Len(mWndStack)
  BY <1>1, <1>2
<1> HIDE DEF to
<1>4. mWndStack[to] \in Window
  BY <1>2, <1>3
<1>5. /\ SubSeq(mWndStack, 1, to - 1) \in Seq(Window)
      /\ Len(SubSeq(mWndStack, 1, to - 1)) = to - 1
      /\ \A i \in 1..(to - 1) : SubSeq(mWndStack, 1, to - 1)[i] = mWndStack[i]
  BY <1>2, <1>3
<1>6. ASSUME NEW v \in Live PROVE v \in gone \/ v \in Live'
  <2>1. v \in Window
    BY DEF Live
  <2>2. CASE v = m_pCurWnd
    BY <2>2
  <2>3. CASE \E i \in 1..Len(mWndStack) : mWndStack[i] = v
    <3>1. PICK i \in 1..Len(mWndStack) : mWndStack[i] = v
      BY <2>3
    <3>2. CASE i = to
      BY <1>1, <2>1, <3>1, <3>2 DEF Live
    <3>3. CASE i > to
      <4>1. i \in (to + 1)..Len(mWndStack)
        BY <1>2, <1>3, <3>1, <3>3
      <4> QED
        BY <3>1, <4>1
    <3>4. CASE i < to
      <4>1. i \in 1..(to - 1)
        BY <1>2, <1>3, <3>1, <3>4
      <4>2. i \in 1..Len(mWndStack') /\ mWndStack'[i] = v
        BY <1>1, <1>5, <3>1, <4>1
      <4> QED
        BY <2>1, <4>2 DEF Live
    <3> QED
      BY <1>2, <1>3, <3>1, <3>2, <3>3, <3>4
  <2> QED
    BY <2>2, <2>3 DEF Live
<1> HIDE DEF gone
<1>7. wnd' \in [Window -> WindowType] /\ periods' \in [Window -> Nat] /\ WindowsOK'
  BY <1>1, <1>6, DeletedOK
<1>8. /\ ScreenOK' /\ repaints' \in Nat /\ mRepaintPeriodId' \in BOOLEAN
      /\ dirty' \in BOOLEAN
  BY <1>1, <1>4, RefreshOK
<1>9. ManagerType'
  BY <1>1, <1>4, <1>5, <1>7, <1>8 DEF ManagerInv, ManagerType, Idle
<1> QED
  BY <1>1, <1>7, <1>8, <1>9 DEF ManagerInv

-----------------------------------------------------------------------------
(* Dialogs *)

\* What is known of a window that is shown.
LEMMA WindowFacts ==
    ASSUME ManagerInv, NEW w \in Window
    PROVE  /\ wnd[w] \in WindowType /\ periods[w] \in Nat
           /\ WindowOK(w, wnd[w], periods[w], w \in Live, open)
           /\ Stopped(w) = 0
           /\ periods[w] > 0 => w \in Live /\ periods[w] = 1
           /\ wnd[w].touch # {} => w \in Live
           /\ w \in Live => m_pCurWnd # NoWindow
<1>1. wnd[w] \in WindowType /\ periods[w] \in Nat
  BY DEF ManagerInv, ManagerType
<1>2. WindowOK(w, wnd[w], periods[w], w \in Live, open)
  BY DEF ManagerInv, WindowsOK
<1>3. Stopped(w) = 0
  BY <1>2 DEF Stopped, WindowOK
<1>4. periods[w] > 0 => w \in Live /\ periods[w] = 1
  BY <1>2 DEF WindowOK
<1>5. wnd[w].touch # {} => w \in Live
  BY <1>2 DEF WindowOK
<1>6. w \in Live => m_pCurWnd # NoWindow
  BY WindowAssumption DEF ManagerInv, ScreenOK, Live
<1> QED
  BY <1>1, <1>2, <1>3, <1>4, <1>5, <1>6

\* A window whose old dialog was destroyed, with another one or with none.
LEMMA EmptiedOK ==
    ASSUME ManagerInv, NEW w \in Window, NEW old \in WindowType,
           old.touch \subseteq ControlsOf(old),
           old.mPenDownCtrl # NoCtrl => <<w, old.mPenDownCtrl>> \in open,
           NEW live, ~live => old.touch = {}
    PROVE  WindowOK(w, Closed(old), 0, live, open)
<1>1. /\ Closed(old).mFloatDlg = NULL /\ Closed(old).mTimeoutID = NULL
      /\ Closed(old).touch \subseteq {Own} /\ Closed(old).touch \subseteq old.touch
      /\ Closed(old).mPenDownCtrl = old.mPenDownCtrl
  BY ClosedOK
<1> QED
  BY <1>1 DEF WindowOK, ControlsOf

\* The application closes a dialog.
LEMMA DestroyStep == \A w \in Window : ManagerInv /\ DestroyDialog(w) => ManagerInv'
<1> SUFFICES ASSUME NEW w \in Window, ManagerInv, DestroyDialog(w) PROVE ManagerInv'
  OBVIOUS
<1>1. /\ wnd[w] \in WindowType /\ Stopped(w) = 0 /\ 0 \in Nat
      /\ WindowOK(w, wnd[w], periods[w], w \in Live, open)
  BY WindowFacts
<1>2. /\ wnd' = [wnd EXCEPT ![w] = Closed(wnd[w])] /\ periods' = [periods EXCEPT ![w] = 0]
      /\ UNCHANGED <<calls, stackVars, screen, mIsSuspend, call, open, twice>>
  BY <1>1 DEF DestroyDialog, ghosts
<1>3. Closed(wnd[w]) \in WindowType
  BY <1>1, ClosedOK DEF WindowOK
<1>4. WindowOK(w, Closed(wnd[w]), 0, w \in Live, open')
  BY <1>1, <1>2, EmptiedOK DEF WindowOK
<1>5. wnd' \in [Window -> WindowType] /\ periods' \in [Window -> Nat] /\ WindowsOK'
  BY <1>1, <1>2, <1>3, <1>4, OneWindow
<1>6. /\ ScreenOK' /\ repaints' \in Nat /\ mRepaintPeriodId' \in BOOLEAN
      /\ dirty' \in BOOLEAN
  BY <1>2, ScreenKept
<1>7. ManagerType'
  BY <1>2, <1>5, <1>6 DEF ManagerInv, ManagerType, stackVars, Idle
<1> QED
  BY <1>2, <1>5, <1>6, <1>7 DEF ManagerInv

\* A dialog is put over a window that has none.
LEMMA ShownOK ==
    ASSUME NEW win \in WindowType, NEW a \in DialogAddr, NEW n \in Nat,
           NEW kind \in [modal : BOOLEAN, keys : BOOLEAN]
    PROVE  /\ Shown(win, a, kind, n) \in WindowType
           /\ Shown(win, a, kind, n).mFloatDlg = n
           /\ Shown(win, a, kind, n).touch = win.touch
           /\ Shown(win, a, kind, n).mTimeoutID = win.mTimeoutID
           /\ Shown(win, a, kind, n).mPenDownCtrl = win.mPenDownCtrl
BY DEF Shown, WindowType

\* A dialog is shown, with a timeout and a handler or without, or fails to be.
LEMMA ShowDialogStep ==
    ASSUME ManagerInv, NEW w \in Window, NEW a \in DialogAddr, NEW kind \in Kinds,
           NEW timed \in BOOLEAN, NEW handler \in BOOLEAN, NEW created \in BOOLEAN,
           ShowDialog(w, a, kind, timed, handler, created)
    PROVE  ManagerInv'
<1> DEFINE n == calls + 1
           empty == Closed(wnd[w])
           win == IF created THEN Shown(empty, a, kind, n) ELSE empty
           final == [win EXCEPT !.mTimeoutID = IF timed THEN n ELSE @,
                                !.mDialogHandler = IF handler THEN n ELSE NULL]
           period == IF timed THEN 1 ELSE 0
<1>1. /\ wnd[w] \in WindowType /\ Stopped(w) = 0
      /\ WindowOK(w, wnd[w], periods[w], w \in Live, open)
  BY WindowFacts
<1>2. n \in Nat /\ n # NULL /\ period \in Nat
  BY DEF ManagerInv, ManagerType
<1>3. /\ w \in Live /\ calls' = n /\ wnd' = [wnd EXCEPT ![w] = final]
      /\ periods' = [periods EXCEPT ![w] = period]
      /\ UNCHANGED <<stackVars, screen, mIsSuspend, call, open, twice>>
  BY <1>1 DEF ShowDialog, ghosts
<1>4. /\ empty \in WindowType /\ empty.mFloatDlg = NULL /\ empty.mTimeoutID = NULL
      /\ empty.touch \subseteq {Own} /\ empty.mPenDownCtrl = wnd[w].mPenDownCtrl
  BY <1>1, ClosedOK DEF WindowOK
<1> HIDE DEF n, empty
<1>5. /\ win \in WindowType /\ win.mFloatDlg \in {NULL, n} /\ win.mTimeoutID = NULL
      /\ win.touch \subseteq {Own} /\ win.mPenDownCtrl = wnd[w].mPenDownCtrl
  <2>1. CASE created
    <3>1. kind \in [modal : BOOLEAN, keys : BOOLEAN]
      <4>1. PICK modal \in BOOLEAN, keys \in BOOLEAN : kind = [modal |-> modal, keys |-> keys]
        BY DEF Kinds
      <4> QED
        BY <4>1
    <3> QED
      BY <1>2, <1>4, <2>1, <3>1, ShownOK
  <2>2. CASE ~created
    BY <1>4, <2>2
  <2> QED
    BY <2>1, <2>2
<1> HIDE DEF win
<1>6. /\ final \in WindowType /\ final.mFloatDlg \in {NULL, n}
      /\ final.mTimeoutID = IF timed THEN n ELSE NULL
      /\ final.mDialogHandler \in {NULL, n}
      /\ final.touch \subseteq {Own} /\ final.mPenDownCtrl = wnd[w].mPenDownCtrl
  BY <1>2, <1>5 DEF WindowType
<1> HIDE DEF final
<1>7. WindowOK(w, final, period, w \in Live, open')
  BY <1>1, <1>2, <1>3, <1>6 DEF WindowOK, ControlsOf
<1>8. wnd' \in [Window -> WindowType] /\ periods' \in [Window -> Nat] /\ WindowsOK'
  BY <1>2, <1>3, <1>6, <1>7, OneWindow
<1>9. /\ ScreenOK' /\ repaints' \in Nat /\ mRepaintPeriodId' \in BOOLEAN
      /\ dirty' \in BOOLEAN
  BY <1>3, ScreenKept
<1>10. ManagerType'
  BY <1>2, <1>3, <1>8, <1>9 DEF ManagerInv, ManagerType, stackVars, Idle
<1> QED
  BY <1>3, <1>8, <1>9, <1>10 DEF ManagerInv

\* A control of the application becomes the dialog.
LEMMA SetDialogStep ==
    ASSUME ManagerInv, NEW w \in Window, NEW a \in DialogAddr, NEW modal \in BOOLEAN,
           SetDialog(w, a, modal)
    PROVE  ManagerInv'
<1> DEFINE n == calls + 1
           empty == Closed(wnd[w])
           kind == [modal |-> modal, keys |-> FALSE]
           final == Shown(empty, a, kind, n)
<1>1. /\ wnd[w] \in WindowType /\ Stopped(w) = 0 /\ 0 \in Nat
      /\ WindowOK(w, wnd[w], periods[w], w \in Live, open)
  BY WindowFacts
<1>2. n \in Nat
  BY DEF ManagerInv, ManagerType
<1>3. /\ w \in Live /\ calls' = n /\ wnd' = [wnd EXCEPT ![w] = final]
      /\ periods' = [periods EXCEPT ![w] = 0]
      /\ UNCHANGED <<stackVars, screen, mIsSuspend, call, open, twice>>
  BY <1>1 DEF SetDialog, ghosts
<1>4. /\ empty \in WindowType /\ empty.mFloatDlg = NULL /\ empty.mTimeoutID = NULL
      /\ empty.touch \subseteq {Own} /\ empty.mPenDownCtrl = wnd[w].mPenDownCtrl
  BY <1>1, ClosedOK DEF WindowOK
<1> HIDE DEF n, empty
<1>5. /\ final \in WindowType /\ final.mTimeoutID = NULL
      /\ final.touch \subseteq {Own} /\ final.mPenDownCtrl = wnd[w].mPenDownCtrl
  <2>1. kind \in [modal : BOOLEAN, keys : BOOLEAN]
    OBVIOUS
  <2> HIDE DEF kind
  <2> QED
    BY <1>2, <1>4, <2>1, ShownOK
<1> HIDE DEF final
<1>6. WindowOK(w, final, 0, w \in Live, open')
  BY <1>1, <1>3, <1>5 DEF WindowOK, ControlsOf
<1>7. wnd' \in [Window -> WindowType] /\ periods' \in [Window -> Nat] /\ WindowsOK'
  BY <1>1, <1>3, <1>5, <1>6, OneWindow
<1>8. /\ ScreenOK' /\ repaints' \in Nat /\ mRepaintPeriodId' \in BOOLEAN
      /\ dirty' \in BOOLEAN
  BY <1>3, ScreenKept
<1>9. ManagerType'
  BY <1>2, <1>3, <1>7, <1>8 DEF ManagerInv, ManagerType, stackVars, Idle
<1> QED
  BY <1>3, <1>7, <1>8, <1>9 DEF ManagerInv

\* A timeout ends, and the dialog with it if the handler says so.
LEMMA TimeoutStep ==
    ASSUME ManagerInv, NEW w \in Window, NEW destroy \in BOOLEAN, Timeout(w, destroy)
    PROVE  ManagerInv'
<1> DEFINE win == [wnd[w] EXCEPT !.mTimeoutID = NULL]
           final == IF destroy THEN Closed(win) ELSE win
<1>1. /\ wnd[w] \in WindowType /\ periods[w] \in Nat
      /\ WindowOK(w, wnd[w], periods[w], w \in Live, open)
  BY WindowFacts
<1>2. w \in Live /\ periods[w] = 1 /\ m_pCurWnd # NoWindow
  BY WindowFacts DEF Timeout
<1>3. /\ wnd' = [wnd EXCEPT ![w] = final] /\ periods' = [periods EXCEPT ![w] = 0]
      /\ PostRepaint \/ UNCHANGED screen
      /\ UNCHANGED <<calls, stackVars, mIsSuspend, call, open, twice>>
  BY <1>2 DEF Timeout, ghosts
<1>4. /\ win \in WindowType /\ win.mTimeoutID = NULL
      /\ win.touch = wnd[w].touch /\ win.mPenDownCtrl = wnd[w].mPenDownCtrl
      /\ win.mFloatDlg = wnd[w].mFloatDlg /\ win.addr = wnd[w].addr
  BY <1>1 DEF WindowType
<1> HIDE DEF win
<1>5. win.touch \subseteq ControlsOf(win)
  BY <1>1, <1>4 DEF WindowOK, ControlsOf
<1>6. final \in WindowType /\ WindowOK(w, final, 0, w \in Live, open)
  <2>1. CASE destroy
    BY <2>1, <1>1, <1>2, <1>4, <1>5, ClosedOK, EmptiedOK DEF WindowOK
  <2>2. CASE ~destroy
    BY <2>2, <1>1, <1>2, <1>4, <1>5 DEF WindowOK
  <2> QED
    BY <2>1, <2>2
<1> HIDE DEF final
<1>7. wnd' \in [Window -> WindowType] /\ periods' \in [Window -> Nat] /\ WindowsOK'
  <2>1. WindowOK(w, final, 0, w \in Live, open') /\ 0 \in Nat
    BY <1>3, <1>6
  <2> QED
    BY <1>3, <1>6, <2>1, OneWindow
<1>8. /\ ScreenOK' /\ repaints' \in Nat /\ mRepaintPeriodId' \in BOOLEAN
      /\ dirty' \in BOOLEAN
  BY <1>2, <1>3, PostRepaintOK
<1>9. ManagerType'
  BY <1>3, <1>7, <1>8 DEF ManagerInv, ManagerType, stackVars, Idle
<1> QED
  BY <1>3, <1>7, <1>8, <1>9 DEF ManagerInv

-----------------------------------------------------------------------------
(* Events *)

\* The window that takes events is shown.
LEMMA TopFacts ==
    ASSUME ManagerInv, m_pCurWnd # NoWindow
    PROVE  /\ Top \in Window /\ Top \in Live
           /\ Controls(Top) = ControlsOf(wnd[Top]) /\ Reached(Top) \subseteq Controls(Top)
           /\ Controls(Top) \subseteq Addr
<1>1. Top \in Window /\ Top \in Live
  BY DEF Top, Live, ManagerInv, ManagerType
<1>2. Controls(Top) = ControlsOf(wnd[Top])
  BY DEF Controls, ControlsOf, HasDialog
<1>3. Reached(Top) \subseteq Controls(Top)
  BY DEF Reached, Controls, Modal, HasDialog
<1>4. wnd[Top].addr \in DialogAddr
  BY <1>1 DEF ManagerInv, ManagerType, WindowType
<1>5. Controls(Top) \subseteq Addr
  BY <1>4, AddrType DEF Controls
<1> QED
  BY <1>1, <1>2, <1>3, <1>5

\* An event that changes what a window knows of presses and timers only, and
\* starts no timer but those of its controls.
LEMMA PressOK ==
    ASSUME ManagerInv, NEW w \in Window, NEW pushed \in SUBSET Addr, NEW touch \in SUBSET Addr,
           NEW down \in Addr \cup {NoCtrl},
           wnd' = [wnd EXCEPT ![w] = [wnd[w] EXCEPT !.pushed = pushed, !.touch = touch,
                                                   !.mPenDownCtrl = down]],
           touch \subseteq ControlsOf(wnd[w]), w \notin Live => touch = {},
           down # NoCtrl => <<w, down>> \in open',
           \A v \in Window, c \in Addr : v # w /\ <<v, c>> \in open => <<v, c>> \in open',
           UNCHANGED <<periods, stackVars>>
    PROVE  /\ wnd' \in [Window -> WindowType] /\ periods' \in [Window -> Nat]
           /\ WindowsOK'
<1> DEFINE win == [wnd[w] EXCEPT !.pushed = pushed, !.touch = touch, !.mPenDownCtrl = down]
<1>1. /\ wnd[w] \in WindowType /\ periods[w] \in Nat
      /\ WindowOK(w, wnd[w], periods[w], w \in Live, open)
  BY WindowFacts
<1>2. /\ win \in WindowType /\ win.touch = touch /\ win.mPenDownCtrl = down
      /\ win.mFloatDlg = wnd[w].mFloatDlg /\ win.addr = wnd[w].addr
      /\ win.mTimeoutID = wnd[w].mTimeoutID /\ win.mDialogHandler = wnd[w].mDialogHandler
  BY <1>1 DEF WindowType
<1>3. wnd' = [wnd EXCEPT ![w] = win] /\ periods' = [periods EXCEPT ![w] = periods[w]]
  BY DEF ManagerInv, ManagerType
<1> HIDE DEF win
<1>4. ControlsOf(win) = ControlsOf(wnd[w])
  BY <1>2 DEF ControlsOf
<1>5. WindowOK(w, win, periods[w], w \in Live, open')
  BY <1>1, <1>2, <1>4 DEF WindowOK
<1> QED
  BY <1>1, <1>2, <1>3, <1>5, OneWindow

\* The pen goes down.
LEMMA PenDownStep == \A at \in SUBSET Addr : ManagerInv /\ PenDown(at) => ManagerInv'
<1> SUFFICES ASSUME NEW at \in SUBSET Addr, ManagerInv, PenDown(at) PROVE ManagerInv'
  OBVIOUS
<1> DEFINE hit == at \cap Reached(Top)
           down == CHOOSE c \in hit : \A b \in hit : b <= c
           pushed == wnd[Top].pushed \cup hit
           touch == wnd[Top].touch \cup hit
<1>1. m_pCurWnd # NoWindow /\ hit # {}
  BY DEF PenDown, Takes, Top
<1>2. /\ Top \in Window /\ Top \in Live
      /\ Controls(Top) = ControlsOf(wnd[Top]) /\ Reached(Top) \subseteq Controls(Top)
      /\ Controls(Top) \subseteq Addr
  BY <1>1, TopFacts
<1>3. /\ wnd[Top] \in WindowType
      /\ WindowOK(Top, wnd[Top], periods[Top], Top \in Live, open)
  BY <1>2, WindowFacts
<1>4. hit \subseteq {Own, wnd[Top].addr} /\ wnd[Top].addr \in DialogAddr
  BY <1>2, <1>3 DEF WindowType, Controls
<1>5. \E c \in hit : \A b \in hit : b <= c
  <2>1. wnd[Top].addr \in Nat /\ wnd[Top].addr >= Own
    BY <1>4, WindowAssumption DEF DialogAddr
  <2>2. CASE wnd[Top].addr \in hit
    BY <2>1, <2>2, <1>4
  <2>3. CASE wnd[Top].addr \notin hit
    BY <2>3, <1>1, <1>4
  <2> QED
    BY <2>2, <2>3
<1>6. down \in hit /\ down \in Addr
  BY <1>2, <1>5
<1>7. pushed \in SUBSET Addr /\ touch \in SUBSET Addr /\ touch \subseteq ControlsOf(wnd[Top])
  BY <1>2, <1>3 DEF WindowType, WindowOK
<1>8. /\ wnd' = [wnd EXCEPT ![Top].pushed = pushed, ![Top].touch = touch,
                           ![Top].mPenDownCtrl = down]
      /\ open' = {p \in open : p[1] # Top} \cup {<<Top, wnd'[Top].mPenDownCtrl>>}
      /\ PostRepaint \/ UNCHANGED screen
      /\ UNCHANGED <<calls, stackVars, periods, mIsSuspend, call, twice>>
  BY <1>2 DEF PenDown, MayPost, ManagerInv, ManagerType
<1> HIDE DEF hit, down, pushed, touch
<1>9. wnd' = [wnd EXCEPT ![Top] = [wnd[Top] EXCEPT !.pushed = pushed, !.touch = touch,
                                                  !.mPenDownCtrl = down]]
  BY <1>2, <1>3, <1>8 DEF WindowType, ManagerInv, ManagerType
<1>10. open' = {p \in open : p[1] # Top} \cup {<<Top, down>>}
  BY <1>2, <1>3, <1>8, <1>9 DEF WindowType, ManagerInv, ManagerType
<1>11. wnd' \in [Window -> WindowType] /\ periods' \in [Window -> Nat] /\ WindowsOK'
  <2>1. \A v \in Window, c \in Addr : v # Top /\ <<v, c>> \in open => <<v, c>> \in open'
    BY <1>10
  <2>2. <<Top, down>> \in open' /\ down \in Addr \cup {NoCtrl}
    BY <1>6, <1>10
  <2> QED
    BY <1>2, <1>7, <1>8, <1>9, <2>1, <2>2, PressOK
<1>12. /\ ScreenOK' /\ repaints' \in Nat /\ mRepaintPeriodId' \in BOOLEAN
       /\ dirty' \in BOOLEAN
  BY <1>1, <1>8, PostRepaintOK
<1>13. ManagerType'
  BY <1>8, <1>11, <1>12 DEF ManagerInv, ManagerType, stackVars, Idle
<1> QED
  BY <1>8, <1>11, <1>12, <1>13 DEF ManagerInv

\* The pen goes up: only a press that may still be answered is clicked.
LEMMA PenUpStep == \A at \in SUBSET Addr : ManagerInv /\ PenUp(at) => ManagerInv'
<1> SUFFICES ASSUME NEW at \in SUBSET Addr, ManagerInv, PenUp(at) PROVE ManagerInv'
  OBVIOUS
<1> DEFINE c == wnd[Top].mPenDownCtrl
           seen == Reached(Top)
           clicked == c \in seen \cap at
           inDialog == clicked /\ c # Own
           up == IF inDialog THEN {c} ELSE seen
           touch == wnd[Top].touch \ up
           pushed == IF c \in seen THEN wnd[Top].pushed \ {c} ELSE wnd[Top].pushed
           down == IF c \in seen THEN NoCtrl ELSE c
<1>1. m_pCurWnd # NoWindow
  BY DEF PenUp, Takes, Top
<1>2. /\ Top \in Window /\ Top \in Live
      /\ seen \subseteq Controls(Top) /\ Controls(Top) \subseteq Addr
  BY <1>1, TopFacts
<1>3. /\ wnd[Top] \in WindowType
      /\ WindowOK(Top, wnd[Top], periods[Top], Top \in Live, open)
  BY <1>2, WindowFacts
<1>4. c \in Addr \cup {NoCtrl} /\ (c # NoCtrl => <<Top, c>> \in open)
  BY <1>3 DEF WindowType, WindowOK
<1>5. c \in seen => c # NoCtrl
  BY <1>2, AddrType
<1>6. pushed \in SUBSET Addr /\ touch \in SUBSET Addr /\ touch \subseteq ControlsOf(wnd[Top])
      /\ down \in Addr \cup {NoCtrl}
  BY <1>3, <1>4 DEF WindowType, WindowOK
<1>7. /\ wnd' = [wnd EXCEPT ![Top].touch = touch, ![Top].pushed = pushed,
                           ![Top].mPenDownCtrl = down]
      /\ call' = IF inDialog THEN [wnd |-> Top, ev |-> "pen"] ELSE call
      /\ IF clicked THEN PostRepaint /\ Answer(Top, c)
                    ELSE MayPost /\ open' = open \ ({Top} \X seen) /\ UNCHANGED twice
      /\ UNCHANGED <<calls, stackVars, periods, mIsSuspend>>
  BY <1>2 DEF PenUp, ManagerInv, ManagerType
<1>8. clicked => c \in seen
  OBVIOUS
<1>9. ~twice'
  <2>1. CASE clicked
    <3>1. <<Top, c>> \in open
      BY <2>1, <1>4, <1>5, <1>8
    <3>2. twice' = (twice \/ <<Top, c>> \notin open)
      BY <2>1, <1>7 DEF Answer
    <3> QED
      BY <3>1, <3>2 DEF ManagerInv
  <2>2. CASE ~clicked
    BY <2>2, <1>7 DEF ManagerInv
  <2> QED
    BY <2>1, <2>2
<1>10. \A v \in Window, b \in Addr : v # Top /\ <<v, b>> \in open => <<v, b>> \in open'
  BY <1>7 DEF Answer
<1>11. down # NoCtrl => <<Top, down>> \in open'
  <2> SUFFICES ASSUME down # NoCtrl PROVE <<Top, down>> \in open'
    OBVIOUS
  <2>1. c \notin seen /\ down = c /\ <<Top, c>> \in open
    BY <1>4
  <2>2. open' = open \ ({Top} \X seen)
    BY <2>1, <1>7, <1>8
  <2> QED
    BY <2>1, <2>2
<1>12. PostRepaint \/ UNCHANGED screen
  BY <1>7 DEF MayPost
<1>13. call' \in CallType /\ (call'.wnd = NoWindow => call' = NoCall)
  <2>1. [wnd |-> Top, ev |-> "pen"] \in CallType /\ Top # NoWindow
    BY <1>2, WindowAssumption DEF CallType
  <2>2. call' = call \/ call' = [wnd |-> Top, ev |-> "pen"]
    BY <1>7
  <2> QED
    BY <2>1, <2>2 DEF ManagerInv, ManagerType, Idle
<1> HIDE DEF c, seen, pushed, touch, down
<1>14. wnd' = [wnd EXCEPT ![Top] = [wnd[Top] EXCEPT !.pushed = pushed, !.touch = touch,
                                                   !.mPenDownCtrl = down]]
  BY <1>2, <1>3, <1>7 DEF WindowType, ManagerInv, ManagerType
<1>15. wnd' \in [Window -> WindowType] /\ periods' \in [Window -> Nat] /\ WindowsOK'
  BY <1>2, <1>6, <1>7, <1>10, <1>11, <1>14, PressOK
<1>16. /\ ScreenOK' /\ repaints' \in Nat /\ mRepaintPeriodId' \in BOOLEAN
       /\ dirty' \in BOOLEAN
  BY <1>1, <1>7, <1>12, PostRepaintOK
<1>17. ManagerType'
  BY <1>7, <1>13, <1>15, <1>16 DEF ManagerInv, ManagerType, stackVars, Idle
<1> QED
  BY <1>9, <1>15, <1>16, <1>17 DEF ManagerInv

\* The timer of a long touch fires: only a press that may still be answered is.
LEMMA LongTouchStep ==
    ASSUME ManagerInv, NEW w \in Window, NEW c \in Addr, LongTouch(w, c)
    PROVE  ManagerInv'
<1> DEFINE answers == c \in wnd[w].pushed /\ w = Top /\ wnd[w].mPenDownCtrl = c
           touch == wnd[w].touch \ {c}
           pushed == IF answers THEN wnd[w].pushed \ {c} ELSE wnd[w].pushed
           down == IF answers THEN NoCtrl ELSE wnd[w].mPenDownCtrl
<1>1. /\ wnd[w] \in WindowType
      /\ WindowOK(w, wnd[w], periods[w], w \in Live, open)
  BY WindowFacts
<1>2. m_pCurWnd # NoWindow
  BY WindowFacts DEF LongTouch
<1>3. UNCHANGED <<calls, stackVars, periods, mIsSuspend, call>>
  BY DEF LongTouch
<1>4. wnd' = [wnd EXCEPT ![w] = [wnd[w] EXCEPT !.pushed = pushed, !.touch = touch,
                                              !.mPenDownCtrl = down]]
  <2>1. CASE answers
    <3>1. wnd' = [wnd EXCEPT ![w].touch = touch, ![w].pushed = wnd[w].pushed \ {c},
                             ![w].mPenDownCtrl = NoCtrl]
      BY <2>1 DEF LongTouch, ManagerInv, ManagerType
    <3> QED
      BY <1>1, <2>1, <3>1 DEF WindowType, ManagerInv, ManagerType
  <2>2. CASE ~answers
    <3>1. wnd' = [wnd EXCEPT ![w].touch = touch]
      BY <2>2 DEF LongTouch, ManagerInv, ManagerType
    <3> QED
      BY <1>1, <2>2, <3>1 DEF WindowType, ManagerInv, ManagerType
  <2> QED
    BY <2>1, <2>2
<1>5. /\ pushed \in SUBSET Addr /\ touch \in SUBSET Addr /\ down \in Addr \cup {NoCtrl}
      /\ touch \subseteq ControlsOf(wnd[w]) /\ (w \notin Live => touch = {})
  BY <1>1 DEF WindowType, WindowOK
<1>6. /\ down # NoCtrl => <<w, down>> \in open'
      /\ \A v \in Window, b \in Addr : v # w /\ <<v, b>> \in open => <<v, b>> \in open'
      /\ ~twice' /\ (PostRepaint \/ UNCHANGED screen)
  <2>1. CASE answers
    <3>1. PostRepaint /\ Answer(w, c)
      BY <2>1 DEF LongTouch
    <3>2. <<w, c>> \in open
      BY <1>1, <2>1, AddrType DEF WindowOK
    <3>3. ~twice'
      BY <3>1, <3>2 DEF Answer, ManagerInv
    <3> QED
      BY <2>1, <3>1, <3>3 DEF Answer
  <2>2. CASE ~answers
    <3>1. UNCHANGED <<screen, open, twice>>
      BY <2>2 DEF LongTouch
    <3> QED
      BY <1>1, <2>2, <3>1 DEF WindowOK, ManagerInv
  <2> QED
    BY <2>1, <2>2
<1> HIDE DEF answers, pushed, touch, down
<1>7. wnd' \in [Window -> WindowType] /\ periods' \in [Window -> Nat] /\ WindowsOK'
  BY <1>3, <1>4, <1>5, <1>6, PressOK
<1>8. /\ ScreenOK' /\ repaints' \in Nat /\ mRepaintPeriodId' \in BOOLEAN
      /\ dirty' \in BOOLEAN
  BY <1>2, <1>3, <1>6, PostRepaintOK
<1>9. ManagerType'
  BY <1>3, <1>7, <1>8 DEF ManagerInv, ManagerType, stackVars, Idle
<1> QED
  BY <1>6, <1>7, <1>8, <1>9 DEF ManagerInv

\* The keys
LEMMA KeyStep == ManagerInv /\ (KeyArrow \/ KeyOk) => ManagerInv'
<1> SUFFICES ASSUME ManagerInv, KeyArrow \/ KeyOk PROVE ManagerInv'
  OBVIOUS
<1>1. /\ m_pCurWnd # NoWindow /\ (PostRepaint \/ UNCHANGED screen)
      /\ UNCHANGED <<calls, stackVars, periods, mIsSuspend, open, twice>>
  BY DEF KeyArrow, KeyOk, Takes, Top, ghosts
<1>2. Top \in Window /\ Top # NoWindow
  BY <1>1, TopFacts, WindowAssumption
<1>3. wnd' \in [Window -> WindowType] /\ periods' \in [Window -> Nat] /\ WindowsOK'
  <2>1. CASE KeyArrow
    <3> DEFINE focus == wnd[Top].mFocus \/ ~Modal(Top)
               win == [wnd[Top] EXCEPT !.mFocus = focus]
    <3>1. /\ wnd[Top] \in WindowType /\ periods[Top] \in Nat
          /\ WindowOK(Top, wnd[Top], periods[Top], Top \in Live, open)
      BY <1>2, WindowFacts
    <3>2. wnd' = [wnd EXCEPT ![Top] = win] /\ periods' = [periods EXCEPT ![Top] = periods[Top]]
      BY <2>1, <1>1, <1>2 DEF KeyArrow, ManagerInv, ManagerType
    <3>3. focus \in BOOLEAN
      BY <3>1 DEF WindowType
    <3> HIDE DEF focus
    <3>4. /\ win \in WindowType /\ win.touch = wnd[Top].touch
          /\ win.mPenDownCtrl = wnd[Top].mPenDownCtrl
          /\ win.mFloatDlg = wnd[Top].mFloatDlg /\ win.addr = wnd[Top].addr
          /\ win.mTimeoutID = wnd[Top].mTimeoutID /\ win.mDialogHandler = wnd[Top].mDialogHandler
      BY <3>1, <3>3 DEF WindowType
    <3> HIDE DEF win
    <3>5. WindowOK(Top, win, periods[Top], Top \in Live, open')
      BY <1>1, <3>1, <3>4 DEF WindowOK, ControlsOf
    <3> QED
      BY <1>1, <1>2, <3>1, <3>2, <3>4, <3>5, OneWindow
  <2>2. CASE KeyOk
    <3>1. UNCHANGED <<wnd, periods, stackVars, open>>
      BY <2>2, <1>1 DEF KeyOk
    <3> QED
      BY <3>1, NoWindowChanges DEF ManagerInv, ManagerType
  <2> QED
    BY <2>1, <2>2
<1>4. call' \in CallType /\ (call'.wnd = NoWindow => call' = NoCall)
  <2>1. CASE KeyArrow
    BY <2>1 DEF KeyArrow, ManagerInv, ManagerType, Idle
  <2>2. CASE KeyOk
    <3>1. \E ev \in {"key", "under", "own"} : call' = [wnd |-> Top, ev |-> ev]
      BY <2>2 DEF KeyOk
    <3> QED
      BY <1>2, <3>1 DEF CallType
  <2> QED
    BY <2>1, <2>2
<1>5. /\ ScreenOK' /\ repaints' \in Nat /\ mRepaintPeriodId' \in BOOLEAN
      /\ dirty' \in BOOLEAN
  BY <1>1, PostRepaintOK
<1>6. ManagerType'
  BY <1>1, <1>3, <1>4, <1>5 DEF ManagerInv, ManagerType, stackVars, Idle
<1> QED
  BY <1>1, <1>3, <1>5, <1>6 DEF ManagerInv

\* A handler of the application returns.
LEMMA ReturnStep == ManagerInv /\ CallReturns => ManagerInv'
<1> SUFFICES ASSUME ManagerInv, CallReturns PROVE ManagerInv'
  OBVIOUS
<1>1. /\ ~Idle /\ call' = NoCall /\ (PostRepaint \/ UNCHANGED screen)
      /\ UNCHANGED <<calls, stackVars, periods, mIsSuspend, open, twice>>
  BY DEF CallReturns, ghosts
<1>2. m_pCurWnd # NoWindow /\ call.wnd \in Window
  BY <1>1 DEF ManagerInv, ManagerType, ScreenOK, Idle, CallType
<1>3. wnd' \in [Window -> WindowType] /\ periods' \in [Window -> Nat] /\ WindowsOK'
  <2>1. CASE call.ev = "pen" /\ ~wnd[call.wnd].mFloatDlgIsModel
    <3> DEFINE w == call.wnd
               touch == wnd[w].touch \ Controls(w)
    <3>1. /\ wnd[w] \in WindowType
          /\ WindowOK(w, wnd[w], periods[w], w \in Live, open)
      BY <1>2, WindowFacts
    <3>2. wnd' = [wnd EXCEPT ![w].touch = touch]
      BY <2>1, <1>2 DEF CallReturns, ManagerInv, ManagerType
    <3>3. touch \in SUBSET Addr /\ touch \subseteq ControlsOf(wnd[w]) /\ (w \notin Live => touch = {})
      BY <3>1 DEF WindowType, WindowOK
    <3> HIDE DEF touch
    <3>4. wnd' = [wnd EXCEPT ![w] = [wnd[w] EXCEPT !.pushed = wnd[w].pushed, !.touch = touch,
                                                  !.mPenDownCtrl = wnd[w].mPenDownCtrl]]
      BY <1>2, <3>1, <3>2 DEF WindowType, ManagerInv, ManagerType
    <3>5. /\ wnd[w].pushed \in SUBSET Addr /\ wnd[w].mPenDownCtrl \in Addr \cup {NoCtrl}
          /\ wnd[w].mPenDownCtrl # NoCtrl => <<w, wnd[w].mPenDownCtrl>> \in open'
      BY <1>1, <3>1 DEF WindowType, WindowOK
    <3> QED
      BY ZenonT(30), <1>1, <1>2, <3>3, <3>4, <3>5, PressOK
  <2>2. CASE ~(call.ev = "pen" /\ ~wnd[call.wnd].mFloatDlgIsModel)
    <3>1. UNCHANGED <<wnd, periods, stackVars, open>>
      BY <2>2, <1>1 DEF CallReturns
    <3> QED
      BY <3>1, NoWindowChanges DEF ManagerInv, ManagerType
  <2> QED
    BY <2>1, <2>2
<1>4. call' \in CallType
  BY <1>1 DEF NoCall, CallType
<1>5. /\ ScreenOK' /\ repaints' \in Nat /\ mRepaintPeriodId' \in BOOLEAN
      /\ dirty' \in BOOLEAN
  BY <1>1, <1>2, PostRepaintOK
<1>6. ManagerType'
  BY <1>1, <1>3, <1>4, <1>5 DEF ManagerInv, ManagerType, stackVars, Idle
<1> QED
  BY <1>1, <1>3, <1>5, <1>6 DEF ManagerInv

-----------------------------------------------------------------------------
(* Theorems *)

\* What the application calls keeps the invariant.
LEMMA ApplicationStep == ManagerInv /\ Application => ManagerInv'
<1> SUFFICES ASSUME ManagerInv, Application PROVE ManagerInv'
  OBVIOUS
<1>1. CASE \E w \in Window, push, refresh \in BOOLEAN : ShowWindow(w, push, refresh)
  BY <1>1, ShowStep
<1>2. CASE \E toFirst, refresh \in BOOLEAN : Back(toFirst, refresh)
  BY <1>2, BackStep
<1>3. CASE \E w \in Window : DestroyDialog(w)
  BY <1>3, DestroyStep
<1>4. CASE \E w \in Window : \E a \in DialogAddr, modal \in BOOLEAN : SetDialog(w, a, modal)
  BY <1>4, SetDialogStep
<1>5. CASE \E w \in Window : \E a \in DialogAddr, kind \in Kinds, timed, handler, created \in BOOLEAN :
             ShowDialog(w, a, kind, timed, handler, created)
  BY <1>5, ShowDialogStep
<1> QED
  BY <1>1, <1>2, <1>3, <1>4, <1>5 DEF Application

\* What the platform calls keeps it too.
LEMMA PlatformStep == ManagerInv /\ Platform => ManagerInv'
<1> SUFFICES ASSUME ManagerInv, Platform PROVE ManagerInv'
  OBVIOUS
<1>1. CASE Suspend \/ Resume \/ Repaint
  BY <1>1, ScreenStep
<1>2. CASE \E at \in SUBSET Addr : PenDown(at)
  BY <1>2, PenDownStep
<1>3. CASE \E at \in SUBSET Addr : PenUp(at)
  BY <1>3, PenUpStep
<1>4. CASE KeyArrow \/ KeyOk
  BY <1>4, KeyStep
<1>5. CASE \E w \in Window : \E destroy \in BOOLEAN : Timeout(w, destroy)
  BY <1>5, TimeoutStep
<1>6. CASE \E w \in Window : \E c \in Addr : LongTouch(w, c)
  BY <1>6, LongTouchStep
<1> QED
  BY <1>1, <1>2, <1>3, <1>4, <1>5, <1>6 DEF Platform

\* Every step keeps the invariant.
THEOREM NextInv == ManagerInv /\ [Next]_vars => ManagerInv'
<1> SUFFICES ASSUME ManagerInv, [Next]_vars PROVE ManagerInv'
  OBVIOUS
<1>1. CASE UNCHANGED vars
  <2>1. /\ UNCHANGED <<wnd, periods, stackVars, open, twice, calls, mIsSuspend, call>>
        /\ UNCHANGED screen
    BY <1>1 DEF vars, ghosts
  <2>2. WindowsOK'
    BY <2>1, NoWindowChanges
  <2> QED
    BY <2>1, <2>2 DEF ManagerInv, ManagerType, ScreenOK, Idle, stackVars, screen
<1> QED
  BY <1>1, ApplicationStep, PlatformStep, ReturnStep DEF Next

\* The invariant holds in every reachable state.
THEOREM InvCorrect == Spec => []ManagerInv
<1> QED
  BY InitInv, NextInv, PTL DEF Spec

\* For any windows and any number of dialogs, no period handler and no timer is
\* left without its owner, and none runs twice.
THEOREM OwnedCorrect == Spec => []HandlersOwned
<1>1. ManagerInv => HandlersOwned
  <2>1. \A w \in Window : Controls(w) = ControlsOf(wnd[w])
    BY DEF Controls, ControlsOf, HasDialog
  <2> QED
    BY <2>1 DEF ManagerInv, WindowsOK, WindowOK, ScreenOK, HandlersOwned
<1> QED
  BY <1>1, InvCorrect, PTL

\* For any windows and any number of dialogs, a timeout that runs is that of the
\* dialog that is shown, and so is the handler it tells.
THEOREM TimeoutCorrect == Spec => []TimeoutOfItsDialog
<1>1. ManagerInv => TimeoutOfItsDialog
  BY DEF ManagerInv, WindowsOK, WindowOK, TimeoutOfItsDialog
<1> QED
  BY <1>1, InvCorrect, PTL

\* A repaint that was posted is never forgotten.
THEOREM RepaintCorrect == Spec => []RepaintNotLost
<1>1. ManagerInv => RepaintNotLost
  BY DEF ManagerInv, ScreenOK, RepaintNotLost
<1> QED
  BY <1>1, InvCorrect, PTL

\* However windows and dialogs come and go, a press is answered at most once.
THEOREM AnswerCorrect == Spec => []OneAnswerPerPress
<1>1. ManagerInv => OneAnswerPerPress
  BY DEF ManagerInv, OneAnswerPerPress
<1> QED
  BY <1>1, InvCorrect, PTL
=============================================================================
