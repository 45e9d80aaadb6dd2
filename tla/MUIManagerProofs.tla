-------------------------- MODULE MUIManagerProofs --------------------------
(***************************************************************************)
(* Proofs about the windows of the second user interface library           *)
(* (MUIManager), for any number of windows, transitions and regions of the *)
(* screen; and about its tabs (MUITab), for any row, page and place of the *)
(* pen.                                                                    *)
(***************************************************************************)
EXTENDS MUIManager, SequenceTheorems, TLAPS

CONSTANTS Shapes, TabWidth, Interval, Capacity, PenX, MaxPages, MaxEvents  \* MUITab
VARIABLE tabs

Tabs == INSTANCE MUITab WITH task <- tabs

-----------------------------------------------------------------------------
(* Inductive invariant, about a state s on which operations work *)

Manager == [mWndStack : Seq(Window), mDialog : Window \cup {None}, modal : BOOLEAN,
            mTransform : Transform \cup {None}, mPeriodTransform : BOOLEAN,
            mPeriodRedraw : BOOLEAN, mPeroidid : BOOLEAN,
            mRectRedraws : Seq(Region) \cup {All}, suspended : BOOLEAN,
            used : [Transform -> BOOLEAN]]
States == [m : Manager, cap : [Window -> Window \cup {None}], pushed : SUBSET Window,
           refs : [Transform -> Int], bmps : [Transform -> SUBSET {"old", "new"}],
           lost : BOOLEAN, backs : Int, stale : SUBSET Region]

\* The references of transitions: the manager's and, during calls that were
\* given the transitions in G, the callers'.
CountOK(s, G) ==
    /\ \A u \in Transform :
          s.refs[u] = (IF u = s.m.mTransform THEN 1 ELSE 0) + (IF u \in G THEN 1 ELSE 0)
    /\ s.m.mPeriodTransform => s.m.mTransform # None
    /\ s.m.mTransform # None => s.m.used[s.m.mTransform]
    /\ \A u \in Transform : u \in G => s.m.used[u]

\* Only the transition that plays has bitmaps, and none was lost.
BitmapsOK(s) ==
    /\ ~s.lost
    /\ \A u \in Transform : s.bmps[u] # {} => u = s.m.mTransform /\ s.m.mPeriodTransform

\* A window holds the pen for its own button; the one on top, for the dialog's.
HeldOK(s) ==
    \A w \in Window : s.cap[w] # None =>
        s.cap[w] = w \/ (w = GetTopWindow(s) /\ s.cap[w] = s.m.mDialog)
Plain(s) == \A w \in Window : s.cap[w] \in {None, w}

\* The delayed way back waits for a window, and nothing plays.
WayOK(s) ==
    /\ s.backs = (IF s.m.mPeroidid THEN 1 ELSE 0)
    /\ s.m.mPeroidid => s.m.mWndStack # <<>> /\ ~s.m.mPeriodTransform
    /\ s.m.suspended => ~s.m.mPeroidid /\ ~s.m.mPeriodTransform

\* What the screen shows wrongly will be painted.
PaintOK(s) ==
    (~s.m.suspended /\ s.m.mWndStack # <<>>) =>
        \/ s.m.mPeriodTransform \/ (s.m.mPeroidid /\ s.m.mTransform # None)
        \/ s.stale \subseteq (IF s.m.mPeriodRedraw THEN Covered(s.m.mRectRedraws) ELSE {})

OrderOK(s) == BitmapsOK(s) /\ HeldOK(s) /\ WayOK(s) /\ PaintOK(s)

\* The pen is held only by the button on which it went down.
PenOK(s, d) == \A w \in Window : s.cap[w] \in {None, d}

ManagerInv ==
    /\ State \in States /\ made \in Nat /\ down \in Window \cup {None, Up}
    /\ orderly \in BOOLEAN /\ missed \in BOOLEAN
    /\ CountOK(State, {})
    /\ orderly => OrderOK(State)
    /\ missed \/ (PenOK(State, down) /\ ~astray)

-----------------------------------------------------------------------------
(* What operations leave as it is *)

SameWindows(s, r) ==
    /\ r.m.mWndStack = s.m.mWndStack /\ r.m.mDialog = s.m.mDialog /\ r.m.modal = s.m.modal
SameTransforms(s, r) ==
    /\ r.refs = s.refs /\ r.m.mTransform = s.m.mTransform
    /\ r.m.mPeriodTransform = s.m.mPeriodTransform /\ r.m.used = s.m.used
SameBitmaps(s, r) == r.bmps = s.bmps /\ r.lost = s.lost
SameWay(s, r) ==
    /\ r.backs = s.backs /\ r.m.mPeroidid = s.m.mPeroidid /\ r.m.suspended = s.m.suspended
SamePaint(s, r) ==
    /\ r.stale = s.stale /\ r.m.mRectRedraws = s.m.mRectRedraws
    /\ r.m.mPeriodRedraw = s.m.mPeriodRedraw

\* What is wrong on the screen and no scheduled repaint will paint.
Pending(s) == IF s.m.mPeriodRedraw THEN Covered(s.m.mRectRedraws) ELSE {}
Unseen(s) == s.stale \ Pending(s)
Regions(r) == IF r = All THEN Region ELSE {r}

\* No window takes the pen; no transition is made.
Calmer(s, r) == \A w \in Window : r.cap[w] \in {None, s.cap[w]}
Onward(s, r) == Calmer(s, r) /\ r.m.used = s.m.used /\ SameWay(s, r)

\* The names of no window and of no pen are not windows.
LEMMA WindowsAreNumbers ==
    /\ \A w \in Window : w \in Nat /\ w # None /\ w # Up
    /\ \A t \in Transform : t # None
    /\ None # Up
BY ManagerAssumption DEF Window, Transform, None, Up

LEMMA SpotIsRegion == Spot \in Region
BY ManagerAssumption DEF Spot

\* The window on top is one.
LEMMA TopFacts ==
    ASSUME NEW s \in States
    PROVE  /\ GetTopWindow(s) \in Window \cup {None}
           /\ GetTopWindow(s) = None <=> s.m.mWndStack = <<>>
           /\ s.m.mWndStack # <<>> => Front(s.m.mWndStack) \in Seq(Window)
<1> DEFINE q == s.m.mWndStack
<1>1. q \in Seq(Window)
  BY DEF States, Manager
<1> HIDE DEF q
<1>2. CASE q = <<>>
  BY <1>2 DEF GetTopWindow, q
<1>3. CASE q # <<>>
  <2>1. Len(q) \in Nat /\ Len(q) # 0
    BY <1>1, <1>3
  <2>2. Last(q) \in Window
    BY <1>1, <2>1 DEF Last
  <2>3. Front(q) \in Seq(Window)
    BY <1>1, <2>1 DEF Front
  <2> QED BY <1>3, <2>2, <2>3, WindowsAreNumbers DEF GetTopWindow, q
<1> QED BY <1>2, <1>3

-----------------------------------------------------------------------------
(* Repaints *)

LEMMA CoveredFacts ==
    ASSUME NEW rects \in Seq(Region) \cup {All}
    PROVE  Covered(rects) \subseteq Region
<1>1. CASE rects = All
  BY <1>1 DEF Covered
<1>2. CASE rects # All
  <2>1. rects \in Seq(Region)
    BY <1>2
  <2>2. \A i \in DOMAIN rects : rects[i] \in Region
    BY <2>1
  <2> QED BY <1>2, <2>2 DEF Covered, ToSet
<1> QED BY <1>1, <1>2

\* A rectangle that is noted is covered, with those that were.
LEMMA NotedFacts ==
    ASSUME NEW rects \in Seq(Region) \cup {All}, NEW r \in Region \cup {All}
    PROVE  /\ Noted(rects, r) \in Seq(Region) \cup {All}
           /\ Regions(r) \subseteq Covered(Noted(rects, r))
           /\ Covered(rects) \subseteq Covered(Noted(rects, r))
<1>1. CASE r = All \/ rects = All \/ Len(rects) >= RectSlots
  <2>1. Noted(rects, r) = All
    BY <1>1 DEF Noted
  <2>2. Covered(All) = Region
    BY DEF Covered
  <2> QED BY <2>1, <2>2, CoveredFacts DEF Regions
<1>2. CASE ~(r = All \/ rects = All \/ Len(rects) >= RectSlots)
  <2> DEFINE q == Append(rects, r)
  <2>1. rects \in Seq(Region) /\ r \in Region /\ Noted(rects, r) = q
    BY <1>2 DEF Noted
  <2>2. q \in Seq(Region) /\ ToSet(q) = ToSet(rects) \cup {r}
    <3>1. q \in Seq(Region) /\ Len(q) = Len(rects) + 1 /\ Len(rects) \in Nat
      BY <2>1
    <3>2. DOMAIN q = 1..Len(q) /\ DOMAIN rects = 1..Len(rects)
      BY <2>1, <3>1
    <3>3. q[Len(q)] = r /\ \A i \in 1..Len(rects) : q[i] = rects[i]
      BY <2>1, <3>1
    <3> HIDE DEF q
    <3> QED BY <3>1, <3>2, <3>3 DEF ToSet
  <2>3. Covered(rects) = ToSet(rects) /\ Regions(r) = {r}
    BY <1>2 DEF Covered, Regions
  <2>4. CASE q = All
    BY <2>1, <2>4, <2>3, CoveredFacts DEF Covered
  <2>5. CASE q # All
    <3>1. Covered(q) = ToSet(q)
      BY <2>5 DEF Covered
    <3> QED BY <2>1, <2>2, <2>3, <3>1
  <2> QED BY <2>4, <2>5
<1> QED BY <1>1, <1>2

LEMMA RedrawInternalFacts ==
    ASSUME NEW s \in States, NEW rs \in SUBSET Region
    PROVE  LET r == RedrawInternal(s, rs)
           IN  /\ r \in States /\ r.m = s.m /\ r.cap = s.cap /\ r.refs = s.refs
               /\ SameBitmaps(s, r) /\ r.backs = s.backs /\ r.stale \subseteq s.stale
               /\ s.m.mWndStack # <<>> => r.stale = s.stale \ rs
<1> DEFINE q == [s EXCEPT !.stale = @ \ rs]
<1>1. q \in States
  BY DEF States
<1>2. /\ q.m = s.m /\ q.cap = s.cap /\ q.refs = s.refs /\ q.bmps = s.bmps /\ q.lost = s.lost
      /\ q.backs = s.backs /\ q.stale = s.stale \ rs
  BY DEF States
<1> HIDE DEF q
<1> QED BY <1>1, <1>2, TopFacts DEF RedrawInternal, SameBitmaps, q

LEMMA ScheduledFacts ==
    ASSUME NEW x \in Manager, NEW n \in Seq(Region) \cup {All}
    PROVE  LET y == [x EXCEPT !.mRectRedraws = n, !.mPeriodRedraw = TRUE]
           IN  /\ y \in Manager /\ y.mRectRedraws = n /\ y.mPeriodRedraw = TRUE
               /\ y.mWndStack = x.mWndStack /\ y.mDialog = x.mDialog /\ y.modal = x.modal
               /\ y.mTransform = x.mTransform /\ y.mPeriodTransform = x.mPeriodTransform
               /\ y.used = x.used /\ y.mPeroidid = x.mPeroidid /\ y.suspended = x.suspended
<1> DEFINE y == [x EXCEPT !.mRectRedraws = n, !.mPeriodRedraw = TRUE]
<1>1. y \in Manager
  BY DEF Manager
<1>2. /\ y.mRectRedraws = n /\ y.mPeriodRedraw = TRUE
      /\ y.mWndStack = x.mWndStack /\ y.mDialog = x.mDialog /\ y.modal = x.modal
      /\ y.mTransform = x.mTransform /\ y.mPeriodTransform = x.mPeriodTransform
      /\ y.used = x.used /\ y.mPeroidid = x.mPeroidid /\ y.suspended = x.suspended
  BY DEF Manager
<1> QED BY <1>1, <1>2

\* redraw schedules or paints, and changes nothing else.
LEMMA RedrawFacts ==
    ASSUME NEW s \in States, NEW r \in Region \cup {All}, NEW d \in BOOLEAN
    PROVE  LET q == Redraw(s, r, d)
           IN  /\ q \in States /\ SameWindows(s, q) /\ SameTransforms(s, q)
               /\ SameBitmaps(s, q) /\ SameWay(s, q) /\ q.cap = s.cap
               /\ ~s.m.mPeriodTransform /\ s.m.mWndStack # <<>> =>
                     Unseen(q) \subseteq Unseen(s) \ Regions(r)
<1> USE DEF SameWindows, SameTransforms, SameBitmaps, SameWay
<1>1. CASE s.m.mPeriodTransform
  BY <1>1 DEF Redraw
<1>2. CASE ~s.m.mPeriodTransform /\ d
  <2> DEFINE n == Noted(s.m.mRectRedraws, r)
             q == [s EXCEPT !.m.mRectRedraws = n, !.m.mPeriodRedraw = TRUE]
  <2>1. s.m.mRectRedraws \in Seq(Region) \cup {All} /\ s.m \in Manager
    BY DEF States, Manager
  <2>2. n \in Seq(Region) \cup {All} /\ Regions(r) \subseteq Covered(n)
        /\ Covered(s.m.mRectRedraws) \subseteq Covered(n)
    BY <2>1, NotedFacts
  <2> HIDE DEF n
  <2> DEFINE y == [s.m EXCEPT !.mRectRedraws = n, !.mPeriodRedraw = TRUE]
  <2>3. q.m = y
    BY DEF States
  <2>4. /\ y \in Manager /\ y.mRectRedraws = n /\ y.mPeriodRedraw = TRUE
        /\ y.mWndStack = s.m.mWndStack /\ y.mDialog = s.m.mDialog /\ y.modal = s.m.modal
        /\ y.mTransform = s.m.mTransform /\ y.mPeriodTransform = s.m.mPeriodTransform
        /\ y.used = s.m.used /\ y.mPeroidid = s.m.mPeroidid
        /\ y.suspended = s.m.suspended
    BY <2>1, <2>2, ScheduledFacts
  <2> HIDE DEF y
  <2>5. q \in States
    BY <2>3, <2>4 DEF States
  <2>6. /\ q.cap = s.cap /\ q.refs = s.refs /\ q.bmps = s.bmps /\ q.lost = s.lost
        /\ q.backs = s.backs /\ q.stale = s.stale
    BY DEF States
  <2> HIDE DEF q
  <2>7. /\ q.m = y /\ SameWindows(s, q) /\ SameTransforms(s, q) /\ SameWay(s, q)
        /\ SameBitmaps(s, q) /\ q.m.mRectRedraws = n /\ q.m.mPeriodRedraw = TRUE
    BY <2>3, <2>4, <2>6
  <2>8. Unseen(q) \subseteq Unseen(s) \ Regions(r)
    BY <2>2, <2>6, <2>7 DEF Unseen, Pending
  <2>9. Redraw(s, r, d) = q
    BY <1>2 DEF Redraw, q, n
  <2> QED BY <2>5, <2>6, <2>7, <2>8, <2>9
<1>3. CASE ~s.m.mPeriodTransform /\ ~d
  <2>1. Regions(r) \in SUBSET Region
    BY DEF Regions
  <2>2. Redraw(s, r, d) = RedrawInternal(s, Regions(r))
    BY <1>3 DEF Redraw, Regions
  <2> DEFINE q == RedrawInternal(s, Regions(r))
  <2>3. /\ q \in States /\ q.m = s.m /\ q.cap = s.cap /\ q.refs = s.refs
        /\ SameBitmaps(s, q) /\ q.backs = s.backs /\ q.stale \subseteq s.stale
        /\ s.m.mWndStack # <<>> => q.stale = s.stale \ Regions(r)
    BY <2>1, RedrawInternalFacts
  <2> HIDE DEF q
  <2>4. s.m.mWndStack # <<>> => Unseen(q) \subseteq Unseen(s) \ Regions(r)
    BY <2>3 DEF Unseen, Pending
  <2> QED BY <2>2, <2>3, <2>4 DEF q
<1>4. s.m.mPeriodTransform \in BOOLEAN
  BY DEF States, Manager
<1> QED BY <1>1, <1>2, <1>3


-----------------------------------------------------------------------------
(* The fields of the manager, when some are assigned *)

LEMMA PlaysFacts ==
    ASSUME NEW x \in Manager, NEW b \in BOOLEAN
    PROVE  LET y == [x EXCEPT !.mPeriodTransform = b]
           IN  /\ y \in Manager /\ y.mPeriodTransform = b
               /\ y.mWndStack = x.mWndStack /\ y.mDialog = x.mDialog /\ y.modal = x.modal
               /\ y.mTransform = x.mTransform /\ y.used = x.used
               /\ y.mPeroidid = x.mPeroidid /\ y.suspended = x.suspended
               /\ y.mRectRedraws = x.mRectRedraws /\ y.mPeriodRedraw = x.mPeriodRedraw
<1> DEFINE y == [x EXCEPT !.mPeriodTransform = b]
<1>1. y \in Manager
  BY DEF Manager
<1>2. /\ y.mPeriodTransform = b
      /\ y.mWndStack = x.mWndStack /\ y.mDialog = x.mDialog /\ y.modal = x.modal
      /\ y.mTransform = x.mTransform /\ y.used = x.used
      /\ y.mPeroidid = x.mPeroidid /\ y.suspended = x.suspended
      /\ y.mRectRedraws = x.mRectRedraws /\ y.mPeriodRedraw = x.mPeriodRedraw
  BY DEF Manager
<1> QED BY <1>1, <1>2

LEMMA StoppedFacts ==
    ASSUME NEW x \in Manager
    PROVE  LET y == [x EXCEPT !.mPeriodTransform = FALSE, !.mTransform = None]
           IN  /\ y \in Manager /\ y.mPeriodTransform = FALSE /\ y.mTransform = None
               /\ y.mWndStack = x.mWndStack /\ y.mDialog = x.mDialog /\ y.modal = x.modal
               /\ y.used = x.used
               /\ y.mPeroidid = x.mPeroidid /\ y.suspended = x.suspended
               /\ y.mRectRedraws = x.mRectRedraws /\ y.mPeriodRedraw = x.mPeriodRedraw
<1> DEFINE y == [x EXCEPT !.mPeriodTransform = FALSE, !.mTransform = None]
<1>1. y \in Manager
  BY DEF Manager
<1>2. /\ y.mPeriodTransform = FALSE /\ y.mTransform = None
      /\ y.mWndStack = x.mWndStack /\ y.mDialog = x.mDialog /\ y.modal = x.modal
      /\ y.used = x.used
      /\ y.mPeroidid = x.mPeroidid /\ y.suspended = x.suspended
      /\ y.mRectRedraws = x.mRectRedraws /\ y.mPeriodRedraw = x.mPeriodRedraw
  BY DEF Manager
<1> QED BY <1>1, <1>2

LEMMA TransformFacts ==
    ASSUME NEW x \in Manager, NEW t \in Transform
    PROVE  LET y == [x EXCEPT !.mTransform = t]
           IN  /\ y \in Manager /\ y.mTransform = t
               /\ y.mWndStack = x.mWndStack /\ y.mDialog = x.mDialog /\ y.modal = x.modal
               /\ y.mPeriodTransform = x.mPeriodTransform /\ y.used = x.used
               /\ y.mPeroidid = x.mPeroidid /\ y.suspended = x.suspended
               /\ y.mRectRedraws = x.mRectRedraws /\ y.mPeriodRedraw = x.mPeriodRedraw
<1> DEFINE y == [x EXCEPT !.mTransform = t]
<1>1. y \in Manager
  BY DEF Manager
<1>2. /\ y.mTransform = t
      /\ y.mWndStack = x.mWndStack /\ y.mDialog = x.mDialog /\ y.modal = x.modal
      /\ y.mPeriodTransform = x.mPeriodTransform /\ y.used = x.used
      /\ y.mPeroidid = x.mPeroidid /\ y.suspended = x.suspended
      /\ y.mRectRedraws = x.mRectRedraws /\ y.mPeriodRedraw = x.mPeriodRedraw
  BY DEF Manager
<1> QED BY <1>1, <1>2

LEMMA StackFacts ==
    ASSUME NEW x \in Manager, NEW q \in Seq(Window)
    PROVE  LET y == [x EXCEPT !.mWndStack = q]
           IN  /\ y \in Manager /\ y.mWndStack = q
               /\ y.mDialog = x.mDialog /\ y.modal = x.modal
               /\ y.mTransform = x.mTransform /\ y.mPeriodTransform = x.mPeriodTransform /\ y.used = x.used
               /\ y.mPeroidid = x.mPeroidid /\ y.suspended = x.suspended
               /\ y.mRectRedraws = x.mRectRedraws /\ y.mPeriodRedraw = x.mPeriodRedraw
<1> DEFINE y == [x EXCEPT !.mWndStack = q]
<1>1. y \in Manager
  BY DEF Manager
<1>2. /\ y.mWndStack = q
      /\ y.mDialog = x.mDialog /\ y.modal = x.modal
      /\ y.mTransform = x.mTransform /\ y.mPeriodTransform = x.mPeriodTransform /\ y.used = x.used
      /\ y.mPeroidid = x.mPeroidid /\ y.suspended = x.suspended
      /\ y.mRectRedraws = x.mRectRedraws /\ y.mPeriodRedraw = x.mPeriodRedraw
  BY DEF Manager
<1> QED BY <1>1, <1>2

LEMMA NoDialogFacts ==
    ASSUME NEW x \in Manager
    PROVE  LET y == [x EXCEPT !.mDialog = None]
           IN  /\ y \in Manager /\ y.mDialog = None
               /\ y.mWndStack = x.mWndStack /\ y.modal = x.modal
               /\ y.mTransform = x.mTransform /\ y.mPeriodTransform = x.mPeriodTransform /\ y.used = x.used
               /\ y.mPeroidid = x.mPeroidid /\ y.suspended = x.suspended
               /\ y.mRectRedraws = x.mRectRedraws /\ y.mPeriodRedraw = x.mPeriodRedraw
<1> DEFINE y == [x EXCEPT !.mDialog = None]
<1>1. y \in Manager
  BY DEF Manager
<1>2. /\ y.mDialog = None
      /\ y.mWndStack = x.mWndStack /\ y.modal = x.modal
      /\ y.mTransform = x.mTransform /\ y.mPeriodTransform = x.mPeriodTransform /\ y.used = x.used
      /\ y.mPeroidid = x.mPeroidid /\ y.suspended = x.suspended
      /\ y.mRectRedraws = x.mRectRedraws /\ y.mPeriodRedraw = x.mPeriodRedraw
  BY DEF Manager
<1> QED BY <1>1, <1>2

LEMMA DialogFacts ==
    ASSUME NEW x \in Manager, NEW w \in Window, NEW b \in BOOLEAN
    PROVE  LET y == [x EXCEPT !.mDialog = w, !.modal = b]
           IN  /\ y \in Manager /\ y.mDialog = w /\ y.modal = b
               /\ y.mWndStack = x.mWndStack
               /\ y.mTransform = x.mTransform /\ y.mPeriodTransform = x.mPeriodTransform /\ y.used = x.used
               /\ y.mPeroidid = x.mPeroidid /\ y.suspended = x.suspended
               /\ y.mRectRedraws = x.mRectRedraws /\ y.mPeriodRedraw = x.mPeriodRedraw
<1> DEFINE y == [x EXCEPT !.mDialog = w, !.modal = b]
<1>1. y \in Manager
  BY DEF Manager
<1>2. /\ y.mDialog = w /\ y.modal = b
      /\ y.mWndStack = x.mWndStack
      /\ y.mTransform = x.mTransform /\ y.mPeriodTransform = x.mPeriodTransform /\ y.used = x.used
      /\ y.mPeroidid = x.mPeroidid /\ y.suspended = x.suspended
      /\ y.mRectRedraws = x.mRectRedraws /\ y.mPeriodRedraw = x.mPeriodRedraw
  BY DEF Manager
<1> QED BY <1>1, <1>2

LEMMA WayFacts ==
    ASSUME NEW x \in Manager, NEW b \in BOOLEAN
    PROVE  LET y == [x EXCEPT !.mPeroidid = b]
           IN  /\ y \in Manager /\ y.mPeroidid = b
               /\ y.mWndStack = x.mWndStack /\ y.mDialog = x.mDialog /\ y.modal = x.modal
               /\ y.mTransform = x.mTransform /\ y.mPeriodTransform = x.mPeriodTransform /\ y.used = x.used
               /\ y.suspended = x.suspended
               /\ y.mRectRedraws = x.mRectRedraws /\ y.mPeriodRedraw = x.mPeriodRedraw
<1> DEFINE y == [x EXCEPT !.mPeroidid = b]
<1>1. y \in Manager
  BY DEF Manager
<1>2. /\ y.mPeroidid = b
      /\ y.mWndStack = x.mWndStack /\ y.mDialog = x.mDialog /\ y.modal = x.modal
      /\ y.mTransform = x.mTransform /\ y.mPeriodTransform = x.mPeriodTransform /\ y.used = x.used
      /\ y.suspended = x.suspended
      /\ y.mRectRedraws = x.mRectRedraws /\ y.mPeriodRedraw = x.mPeriodRedraw
  BY DEF Manager
<1> QED BY <1>1, <1>2

LEMMA PeriodsFacts ==
    ASSUME NEW x \in Manager
    PROVE  LET y == [x EXCEPT !.mPeroidid = FALSE, !.mPeriodRedraw = FALSE]
           IN  /\ y \in Manager /\ y.mPeroidid = FALSE /\ y.mPeriodRedraw = FALSE
               /\ y.mWndStack = x.mWndStack /\ y.mDialog = x.mDialog /\ y.modal = x.modal
               /\ y.mTransform = x.mTransform /\ y.mPeriodTransform = x.mPeriodTransform /\ y.used = x.used
               /\ y.suspended = x.suspended
               /\ y.mRectRedraws = x.mRectRedraws
<1> DEFINE y == [x EXCEPT !.mPeroidid = FALSE, !.mPeriodRedraw = FALSE]
<1>1. y \in Manager
  BY DEF Manager
<1>2. /\ y.mPeroidid = FALSE /\ y.mPeriodRedraw = FALSE
      /\ y.mWndStack = x.mWndStack /\ y.mDialog = x.mDialog /\ y.modal = x.modal
      /\ y.mTransform = x.mTransform /\ y.mPeriodTransform = x.mPeriodTransform /\ y.used = x.used
      /\ y.suspended = x.suspended
      /\ y.mRectRedraws = x.mRectRedraws
  BY DEF Manager
<1> QED BY <1>1, <1>2

LEMMA SuspendedFacts ==
    ASSUME NEW x \in Manager, NEW b \in BOOLEAN
    PROVE  LET y == [x EXCEPT !.suspended = b]
           IN  /\ y \in Manager /\ y.suspended = b
               /\ y.mWndStack = x.mWndStack /\ y.mDialog = x.mDialog /\ y.modal = x.modal
               /\ y.mTransform = x.mTransform /\ y.mPeriodTransform = x.mPeriodTransform /\ y.used = x.used
               /\ y.mPeroidid = x.mPeroidid
               /\ y.mRectRedraws = x.mRectRedraws /\ y.mPeriodRedraw = x.mPeriodRedraw
<1> DEFINE y == [x EXCEPT !.suspended = b]
<1>1. y \in Manager
  BY DEF Manager
<1>2. /\ y.suspended = b
      /\ y.mWndStack = x.mWndStack /\ y.mDialog = x.mDialog /\ y.modal = x.modal
      /\ y.mTransform = x.mTransform /\ y.mPeriodTransform = x.mPeriodTransform /\ y.used = x.used
      /\ y.mPeroidid = x.mPeroidid
      /\ y.mRectRedraws = x.mRectRedraws /\ y.mPeriodRedraw = x.mPeriodRedraw
  BY DEF Manager
<1> QED BY <1>1, <1>2

LEMMA RepaintFacts ==
    ASSUME NEW x \in Manager
    PROVE  LET y == [x EXCEPT !.mPeriodRedraw = FALSE]
           IN  /\ y \in Manager /\ y.mPeriodRedraw = FALSE
               /\ y.mWndStack = x.mWndStack /\ y.mDialog = x.mDialog /\ y.modal = x.modal
               /\ y.mTransform = x.mTransform /\ y.mPeriodTransform = x.mPeriodTransform /\ y.used = x.used
               /\ y.mPeroidid = x.mPeroidid /\ y.suspended = x.suspended
               /\ y.mRectRedraws = x.mRectRedraws
<1> DEFINE y == [x EXCEPT !.mPeriodRedraw = FALSE]
<1>1. y \in Manager
  BY DEF Manager
<1>2. /\ y.mPeriodRedraw = FALSE
      /\ y.mWndStack = x.mWndStack /\ y.mDialog = x.mDialog /\ y.modal = x.modal
      /\ y.mTransform = x.mTransform /\ y.mPeriodTransform = x.mPeriodTransform /\ y.used = x.used
      /\ y.mPeroidid = x.mPeroidid /\ y.suspended = x.suspended
      /\ y.mRectRedraws = x.mRectRedraws
  BY DEF Manager
<1> QED BY <1>1, <1>2

LEMMA RectsFacts ==
    ASSUME NEW x \in Manager, NEW n \in Seq(Region) \cup {All}
    PROVE  LET y == [x EXCEPT !.mRectRedraws = n]
           IN  /\ y \in Manager /\ y.mRectRedraws = n
               /\ y.mWndStack = x.mWndStack /\ y.mDialog = x.mDialog /\ y.modal = x.modal
               /\ y.mTransform = x.mTransform /\ y.mPeriodTransform = x.mPeriodTransform /\ y.used = x.used
               /\ y.mPeroidid = x.mPeroidid /\ y.suspended = x.suspended
               /\ y.mPeriodRedraw = x.mPeriodRedraw
<1> DEFINE y == [x EXCEPT !.mRectRedraws = n]
<1>1. y \in Manager
  BY DEF Manager
<1>2. /\ y.mRectRedraws = n
      /\ y.mWndStack = x.mWndStack /\ y.mDialog = x.mDialog /\ y.modal = x.modal
      /\ y.mTransform = x.mTransform /\ y.mPeriodTransform = x.mPeriodTransform /\ y.used = x.used
      /\ y.mPeroidid = x.mPeroidid /\ y.suspended = x.suspended
      /\ y.mPeriodRedraw = x.mPeriodRedraw
  BY DEF Manager
<1> QED BY <1>1, <1>2

LEMMA GivenFacts ==
    ASSUME NEW x \in Manager, NEW u \in [Transform -> BOOLEAN]
    PROVE  LET y == [x EXCEPT !.used = u]
           IN  /\ y \in Manager /\ y.used = u
               /\ y.mWndStack = x.mWndStack /\ y.mDialog = x.mDialog /\ y.modal = x.modal
               /\ y.mTransform = x.mTransform /\ y.mPeriodTransform = x.mPeriodTransform
               /\ y.mPeroidid = x.mPeroidid /\ y.suspended = x.suspended
               /\ y.mRectRedraws = x.mRectRedraws /\ y.mPeriodRedraw = x.mPeriodRedraw
<1> DEFINE y == [x EXCEPT !.used = u]
<1>1. y \in Manager
  BY DEF Manager
<1>2. /\ y.used = u
      /\ y.mWndStack = x.mWndStack /\ y.mDialog = x.mDialog /\ y.modal = x.modal
      /\ y.mTransform = x.mTransform /\ y.mPeriodTransform = x.mPeriodTransform
      /\ y.mPeroidid = x.mPeroidid /\ y.suspended = x.suspended
      /\ y.mRectRedraws = x.mRectRedraws /\ y.mPeriodRedraw = x.mPeriodRedraw
  BY DEF Manager
<1> QED BY <1>1, <1>2

\* The state with other fields of the manager, and its other parts.
LEMMA ManagerChanged ==
    ASSUME NEW s \in States, NEW y \in Manager
    PROVE  LET r == [s EXCEPT !.m = y]
           IN  /\ r \in States /\ r.m = y /\ r.cap = s.cap /\ r.pushed = s.pushed /\ r.refs = s.refs
               /\ r.bmps = s.bmps /\ r.lost = s.lost /\ r.backs = s.backs /\ r.stale = s.stale
<1> DEFINE r == [s EXCEPT !.m = y]
<1>1. r \in States
  BY DEF States
<1>2. /\ r.m = y /\ r.cap = s.cap /\ r.pushed = s.pushed /\ r.refs = s.refs
      /\ r.bmps = s.bmps /\ r.lost = s.lost /\ r.backs = s.backs /\ r.stale = s.stale
  BY DEF States
<1> QED BY <1>1, <1>2

-----------------------------------------------------------------------------
(* Transitions *)

LEMMA AddRefFacts ==
    ASSUME NEW s \in States, NEW t \in Transform
    PROVE  LET r == AddRef(s, t)
           IN  /\ r \in States /\ r.m = s.m /\ r.cap = s.cap /\ r.backs = s.backs
               /\ r.stale = s.stale /\ SameBitmaps(s, r)
               /\ r.refs[t] = s.refs[t] + 1
               /\ \A u \in Transform : u # t => r.refs[u] = s.refs[u]
<1> DEFINE f == [s.refs EXCEPT ![t] = @ + 1]
           r == [s EXCEPT !.refs = f]
<1>1. s.refs \in [Transform -> Int]
  BY DEF States
<1>2. /\ f \in [Transform -> Int] /\ f[t] = s.refs[t] + 1
      /\ \A u \in Transform : u # t => f[u] = s.refs[u]
  BY <1>1
<1>3. AddRef(s, t) = r
  BY DEF AddRef, States
<1> HIDE DEF f
<1>4. r \in States
  BY <1>2 DEF States
<1>5. /\ r.m = s.m /\ r.cap = s.cap /\ r.backs = s.backs /\ r.stale = s.stale
      /\ SameBitmaps(s, r) /\ r.refs = f
  BY DEF States, SameBitmaps
<1> QED BY <1>2, <1>3, <1>4, <1>5

\* A reference less; with the last one go the bitmaps.
LEMMA ReleaseOnce ==
    ASSUME NEW s \in States, NEW t \in Transform
    PROVE  LET r == Release(s, t)
           IN  /\ r \in States /\ r.m = s.m /\ r.cap = s.cap /\ r.backs = s.backs
               /\ r.stale = s.stale /\ r.lost = s.lost
               /\ r.refs[t] = s.refs[t] - 1
               /\ r.bmps[t] = IF s.refs[t] = 1 THEN {} ELSE s.bmps[t]
               /\ \A u \in Transform : u # t => r.refs[u] = s.refs[u] /\ r.bmps[u] = s.bmps[u]
<1> DEFINE f == [s.refs EXCEPT ![t] = @ - 1]
           b == [s.bmps EXCEPT ![t] = IF s.refs[t] = 1 THEN {} ELSE @]
           r == [s EXCEPT !.refs = f, !.bmps = b]
<1>1. s.refs \in [Transform -> Int] /\ s.bmps \in [Transform -> SUBSET {"old", "new"}]
  BY DEF States
<1>2. /\ f \in [Transform -> Int] /\ f[t] = s.refs[t] - 1
      /\ \A u \in Transform : u # t => f[u] = s.refs[u]
  BY <1>1
<1>3. /\ b \in [Transform -> SUBSET {"old", "new"}]
      /\ b[t] = IF s.refs[t] = 1 THEN {} ELSE s.bmps[t]
      /\ \A u \in Transform : u # t => b[u] = s.bmps[u]
  BY <1>1
<1>4. Release(s, t) = r
  BY WindowsAreNumbers DEF Release, States
<1> HIDE DEF f, b
<1>5. r \in States
  BY <1>2, <1>3 DEF States
<1>6. /\ r.m = s.m /\ r.cap = s.cap /\ r.backs = s.backs /\ r.stale = s.stale
      /\ r.lost = s.lost /\ r.refs = f /\ r.bmps = b
  BY DEF States
<1> QED BY <1>2, <1>3, <1>4, <1>5, <1>6

LEMMA StartTransformFacts ==
    ASSUME NEW s \in States
    PROVE  LET r == StartTransform(s)
           IN  /\ r \in States /\ SameWindows(s, r) /\ SameWay(s, r) /\ SamePaint(s, r)
               /\ SameBitmaps(s, r) /\ r.cap = s.cap /\ r.refs = s.refs
               /\ r.m.mTransform = s.m.mTransform /\ r.m.used = s.m.used
               /\ s.m.mTransform # None => r.m.mPeriodTransform = TRUE
               /\ s.m.mTransform = None => r = s
<1> USE DEF SameWindows, SameWay, SamePaint, SameBitmaps
<1>1. s.m \in Manager
  BY DEF States
<1>2. CASE s.m.mTransform = None
  BY <1>2 DEF StartTransform
<1>3. CASE s.m.mTransform # None
  <2> DEFINE y == [s.m EXCEPT !.mPeriodTransform = TRUE]
  <2>1. StartTransform(s) = [s EXCEPT !.m = y]
    BY <1>3 DEF StartTransform, States
  <2>2. /\ y \in Manager /\ y.mPeriodTransform = TRUE /\ y.mWndStack = s.m.mWndStack
        /\ y.mDialog = s.m.mDialog /\ y.modal = s.m.modal /\ y.mTransform = s.m.mTransform
        /\ y.used = s.m.used /\ y.mPeroidid = s.m.mPeroidid /\ y.suspended = s.m.suspended
        /\ y.mRectRedraws = s.m.mRectRedraws /\ y.mPeriodRedraw = s.m.mPeriodRedraw
    BY <1>1, PlaysFacts
  <2> HIDE DEF y
  <2> QED BY <1>3, <2>1, <2>2, ManagerChanged
<1> QED BY <1>2, <1>3

\* Without a transition, and without the reference the manager had.
\* Without a transition, and without the reference the manager had.
BitmapsWithout(s, r) ==
    \A u \in Transform : r.bmps[u] = IF u = s.m.mTransform THEN {} ELSE s.bmps[u]

LEMMA StopTransformFacts ==
    ASSUME NEW s \in States, NEW G, CountOK(s, G)
    PROVE  LET r == StopTransform(s)
           IN  /\ r \in States /\ SameWindows(s, r) /\ SameWay(s, r) /\ SamePaint(s, r)
               /\ r.cap = s.cap /\ r.lost = s.lost /\ r.m.used = s.m.used
               /\ r.m.mTransform = None /\ ~r.m.mPeriodTransform /\ CountOK(r, G)
               /\ s.m.mTransform \notin G => BitmapsWithout(s, r)
<1> DEFINE o == s.m.mTransform
           a == Release(s, o)
           y == [a.m EXCEPT !.mPeriodTransform = FALSE, !.mTransform = None]
           r == StopTransform(s)
<1>1. s.m \in Manager /\ o \in Transform \cup {None}
  BY DEF States, Manager
<1>2. /\ a \in States /\ a.m = s.m /\ a.cap = s.cap /\ a.backs = s.backs
      /\ a.stale = s.stale /\ a.lost = s.lost
      /\ o \notin G => BitmapsWithout(s, a)
      /\ \A u \in Transform : a.refs[u] = IF u \in G THEN 1 ELSE 0
  <2>1. CASE o = None
    <3>1. a = s
      BY <2>1 DEF Release
    <3> QED BY <2>1, <3>1, WindowsAreNumbers DEF CountOK, BitmapsWithout
  <2>2. CASE o # None
    <3>1. o \in Transform /\ s.refs[o] = (IF o \in G THEN 2 ELSE 1)
      BY <1>1, <2>2 DEF CountOK
    <3> HIDE DEF o
    <3>2. /\ a.refs[o] = s.refs[o] - 1
          /\ a.bmps[o] = IF s.refs[o] = 1 THEN {} ELSE s.bmps[o]
      BY <3>1, ReleaseOnce
    <3>3. \A u \in Transform : u # o => a.refs[u] = s.refs[u] /\ a.bmps[u] = s.bmps[u]
      BY <3>1, ReleaseOnce
    <3>4. /\ a \in States /\ a.m = s.m /\ a.cap = s.cap /\ a.backs = s.backs
          /\ a.stale = s.stale /\ a.lost = s.lost
      BY <3>1, ReleaseOnce
    <3>5. \A u \in Transform : a.refs[u] = IF u \in G THEN 1 ELSE 0
      BY <2>2, <3>1, <3>2, <3>3 DEF CountOK, o
    <3>6. o \notin G => BitmapsWithout(s, a)
      BY <3>1, <3>2, <3>3 DEF BitmapsWithout, o
    <3> QED BY <3>4, <3>5, <3>6
  <2> QED BY <2>1, <2>2
<1>3. r = [a EXCEPT !.m = y]
  BY <1>2 DEF StopTransform, States
<1> HIDE DEF a
<1>4. /\ y \in Manager /\ y.mPeriodTransform = FALSE /\ y.mTransform = None
      /\ y.mWndStack = s.m.mWndStack
      /\ y.mDialog = s.m.mDialog /\ y.modal = s.m.modal
      /\ y.used = s.m.used /\ y.mPeroidid = s.m.mPeroidid /\ y.suspended = s.m.suspended
      /\ y.mRectRedraws = s.m.mRectRedraws /\ y.mPeriodRedraw = s.m.mPeriodRedraw
  BY <1>1, <1>2, StoppedFacts
<1> HIDE DEF y
<1>5. /\ r \in States /\ r.m = y /\ r.cap = a.cap /\ r.refs = a.refs
      /\ r.bmps = a.bmps /\ r.lost = a.lost /\ r.backs = a.backs /\ r.stale = a.stale
  BY <1>2, <1>3, <1>4, ManagerChanged
<1> HIDE DEF r
<1>6. CountOK(r, G)
  BY <1>2, <1>4, <1>5, WindowsAreNumbers DEF CountOK
<1>7. SameWindows(s, r) /\ SameWay(s, r) /\ SamePaint(s, r)
  BY <1>2, <1>4, <1>5 DEF SameWindows, SameWay, SamePaint
<1>8. /\ r.cap = s.cap /\ r.lost = s.lost /\ r.m.used = s.m.used
      /\ r.m.mTransform = None /\ ~r.m.mPeriodTransform
      /\ o \notin G => BitmapsWithout(s, r)
  BY <1>2, <1>4, <1>5 DEF BitmapsWithout
<1> QED BY <1>5, <1>6, <1>7, <1>8 DEF r

\* The bitmaps when at most those in S were taken for the transition t.
BitmapsUpTo(s, t, S) ==
    /\ ~s.lost
    /\ \A u \in Transform :
          s.bmps[u] \subseteq (IF u = t THEN S
                               ELSE IF u = s.m.mTransform /\ s.m.mPeriodTransform
                               THEN {"old", "new"} ELSE {})

\* A transition that is made for a call takes the place of another.
LEMMA SetTransformFacts ==
    ASSUME NEW s \in States, NEW t \in Transform \cup {None}, NEW G, CountOK(s, G \cup {t}),
           t # None => t # s.m.mTransform
    PROVE  LET r == SetTransform(s, t)
           IN  /\ r \in States /\ SameWindows(s, r) /\ SameWay(s, r) /\ SamePaint(s, r)
               /\ r.cap = s.cap /\ CountOK(r, G \cup {t}) /\ r.m.used = s.m.used
               /\ t = None => r = s
               /\ t # None => r.m.mTransform = t /\ ~r.m.mPeriodTransform
               /\ s.m.mTransform \notin G /\ BitmapsUpTo(s, t, {}) => BitmapsUpTo(r, t, {})
<1>1. CASE t = None
  <2>1. SetTransform(s, t) = s
    BY <1>1 DEF SetTransform
  <2> QED BY <1>1, <2>1 DEF SameWindows, SameWay, SamePaint
<1>2. CASE t # None
  <2> DEFINE a == StopTransform(s)
             y == [a.m EXCEPT !.mTransform = t]
             b == [a EXCEPT !.m = y]
             r == AddRef(b, t)
             H == G \cup {t}
  <2>1. t \in Transform /\ t \in H
    BY <1>2
  <2>2. /\ a \in States /\ SameWindows(s, a) /\ SameWay(s, a) /\ SamePaint(s, a)
        /\ a.cap = s.cap /\ a.lost = s.lost /\ a.m.used = s.m.used
        /\ a.m.mTransform = None /\ ~a.m.mPeriodTransform /\ CountOK(a, H)
        /\ s.m.mTransform \notin H => BitmapsWithout(s, a)
    BY StopTransformFacts
  <2>3. SetTransform(s, t) = r
    <3>1. [a EXCEPT !.m.mTransform = t] = b
      BY <2>2 DEF States
    <3>2. SetTransform(s, t) = AddRef([a EXCEPT !.m.mTransform = t], t)
      BY <1>2 DEF SetTransform
    <3> QED BY <3>1, <3>2
  <2> HIDE DEF a
  <2>4. a.m \in Manager
    BY <2>2 DEF States
  <2>5. /\ y \in Manager /\ y.mTransform = t
        /\ y.mWndStack = a.m.mWndStack /\ y.mDialog = a.m.mDialog /\ y.modal = a.m.modal
        /\ y.mPeriodTransform = a.m.mPeriodTransform /\ y.used = a.m.used
        /\ y.mPeroidid = a.m.mPeroidid /\ y.suspended = a.m.suspended
        /\ y.mRectRedraws = a.m.mRectRedraws /\ y.mPeriodRedraw = a.m.mPeriodRedraw
    BY <2>1, <2>4, TransformFacts
  <2> HIDE DEF y
  <2>6. /\ b \in States /\ b.m = y /\ b.cap = a.cap /\ b.refs = a.refs
        /\ b.bmps = a.bmps /\ b.lost = a.lost /\ b.backs = a.backs /\ b.stale = a.stale
    BY <2>2, <2>5, ManagerChanged
  <2> HIDE DEF b
  <2>7. /\ r \in States /\ r.m = b.m /\ r.cap = b.cap /\ r.backs = b.backs
        /\ r.stale = b.stale /\ SameBitmaps(b, r) /\ r.refs[t] = b.refs[t] + 1
        /\ \A u \in Transform : u # t => r.refs[u] = b.refs[u]
    BY <2>1, <2>6, AddRefFacts
  <2> HIDE DEF r, H
  <2>8. CountOK(r, H)
    <3>1. \A u \in Transform : a.refs[u] = IF u \in H THEN 1 ELSE 0
      BY <2>2, WindowsAreNumbers DEF CountOK
    <3>2. \A u \in Transform :
             r.refs[u] = (IF u = t THEN 1 ELSE 0) + (IF u \in H THEN 1 ELSE 0)
      BY <2>1, <2>6, <2>7, <3>1
    <3>3. /\ r.m.mTransform = t /\ ~r.m.mPeriodTransform
          /\ \A u \in Transform : u \in H => r.m.used[u]
      BY <1>2, <2>2, <2>5, <2>6, <2>7 DEF CountOK
    <3> QED BY <1>2, <2>1, <3>2, <3>3 DEF CountOK
  <2>9. SameWindows(s, r) /\ SameWay(s, r) /\ SamePaint(s, r)
    BY <2>2, <2>5, <2>6, <2>7 DEF SameWindows, SameWay, SamePaint
  <2>10. r.cap = s.cap /\ r.m.mTransform = t /\ ~r.m.mPeriodTransform /\ r.m.used = s.m.used
    BY <2>2, <2>5, <2>6, <2>7
  <2>11. ASSUME s.m.mTransform \notin G, BitmapsUpTo(s, t, {}) PROVE BitmapsUpTo(r, t, {})
    <3>1. s.m.mTransform \notin H
      BY <1>2, <2>11 DEF H
    <3>2. r.bmps = a.bmps /\ r.lost = s.lost /\ BitmapsWithout(s, a)
      BY <2>2, <2>6, <2>7, <3>1 DEF SameBitmaps
    <3> QED BY <2>10, <2>11, <3>2 DEF BitmapsUpTo, BitmapsWithout
  <2> QED BY <1>2, <2>3, <2>7, <2>8, <2>9, <2>10, <2>11 DEF H
<1> QED BY <1>1, <1>2

\* The caller's reference goes at the end of its call.
LEMMA ReleaseFacts ==
    ASSUME NEW s \in States, NEW t \in Transform \cup {None}, NEW G, CountOK(s, G \cup {t}),
           t # None => t \notin G
    PROVE  LET r == Release(s, t)
           IN  /\ r \in States /\ r.m = s.m /\ r.cap = s.cap /\ r.backs = s.backs
               /\ r.stale = s.stale /\ CountOK(r, G)
               /\ \A S : BitmapsUpTo(s, t, S) => BitmapsUpTo(r, t, S)
<1>1. CASE t = None
  <2>1. Release(s, t) = s
    BY <1>1 DEF Release
  <2>2. CountOK(s, G)
    BY <1>1, WindowsAreNumbers DEF CountOK
  <2> QED BY <2>1, <2>2
<1>2. CASE t # None
  <2> DEFINE r == Release(s, t)
  <2>1. t \in Transform /\ t \notin G
    BY <1>2
  <2>2. /\ r \in States /\ r.m = s.m /\ r.cap = s.cap /\ r.backs = s.backs
        /\ r.stale = s.stale /\ r.lost = s.lost
        /\ r.refs[t] = s.refs[t] - 1
        /\ r.bmps[t] = IF s.refs[t] = 1 THEN {} ELSE s.bmps[t]
        /\ \A u \in Transform : u # t => r.refs[u] = s.refs[u] /\ r.bmps[u] = s.bmps[u]
    BY <2>1, ReleaseOnce
  <2> HIDE DEF r
  <2>3. \A u \in Transform :
           r.refs[u] = (IF u = s.m.mTransform THEN 1 ELSE 0) + (IF u \in G THEN 1 ELSE 0)
    BY <2>1, <2>2 DEF CountOK
  <2>4. CountOK(r, G)
    BY <2>2, <2>3 DEF CountOK
  <2>5. ASSUME NEW S, BitmapsUpTo(s, t, S) PROVE BitmapsUpTo(r, t, S)
    BY <2>2, <2>5 DEF BitmapsUpTo
  <2> QED BY <2>2, <2>4, <2>5 DEF r
<1> QED BY <1>1, <1>2

LEMMA BitmapFacts ==
    ASSUME NEW s \in States, NEW t \in Transform \cup {None}, NEW w \in Window \cup {None},
           NEW k \in {"old", "new"}
    PROVE  LET r == SetTransformBitmap(s, t, k, w)
           IN  /\ r \in States /\ r.m = s.m /\ r.cap = s.cap /\ r.refs = s.refs
               /\ r.backs = s.backs /\ r.stale = s.stale
               /\ \A S : /\ BitmapsUpTo(s, t, S) /\ k \notin S
                         /\ t # None => s.refs[t] # 0
                         => BitmapsUpTo(r, t, S \cup {k})
<1>1. CASE t = None \/ w = None
  <2>1. SetTransformBitmap(s, t, k, w) = s
    BY <1>1 DEF SetTransformBitmap
  <2>2. ASSUME NEW S, BitmapsUpTo(s, t, S) PROVE BitmapsUpTo(s, t, S \cup {k})
    BY <2>2 DEF BitmapsUpTo
  <2> QED BY <2>1, <2>2
<1>2. CASE t # None /\ w # None
  <2> DEFINE b == [s.bmps EXCEPT ![t] = @ \cup {k}]
             l == s.lost \/ k \in s.bmps[t] \/ s.refs[t] = 0
             r == [s EXCEPT !.lost = l, !.bmps = b]
  <2>1. t \in Transform /\ s.bmps \in [Transform -> SUBSET {"old", "new"}] /\ s.lost \in BOOLEAN
    BY <1>2 DEF States
  <2>2. /\ b \in [Transform -> SUBSET {"old", "new"}] /\ b[t] = s.bmps[t] \cup {k}
        /\ \A u \in Transform : u # t => b[u] = s.bmps[u]
    BY <2>1
  <2>3. SetTransformBitmap(s, t, k, w) = r
    BY <1>2 DEF SetTransformBitmap, States
  <2>4. l \in BOOLEAN
    BY <2>1
  <2> HIDE DEF b
  <2>5. ASSUME NEW S, BitmapsUpTo(s, t, S), k \notin S, s.refs[t] # 0 PROVE ~l
    BY <2>1, <2>5 DEF BitmapsUpTo
  <2> HIDE DEF l
  <2>6. r \in States
    BY <2>2, <2>4 DEF States
  <2>7. /\ r.m = s.m /\ r.cap = s.cap /\ r.refs = s.refs /\ r.backs = s.backs
        /\ r.stale = s.stale /\ r.lost = l /\ r.bmps = b
    BY DEF States
  <2> HIDE DEF r
  <2>8. ASSUME NEW S, BitmapsUpTo(s, t, S), k \notin S, s.refs[t] # 0
        PROVE  BitmapsUpTo(r, t, S \cup {k})
    BY <2>1, <2>2, <2>5, <2>7, <2>8 DEF BitmapsUpTo
  <2> QED BY <1>2, <2>3, <2>6, <2>7, <2>8
<1> QED BY <1>1, <1>2

-----------------------------------------------------------------------------
(* The pen *)

\* The button that had the pen is calmed, and will be painted.
LEMMA SetCaptureFacts ==
    ASSUME NEW s \in States, NEW b \in Window \cup {None}
    PROVE  LET r == SetCapture(s, b)
           IN  /\ r \in States /\ SameWindows(s, r) /\ SameTransforms(s, r)
               /\ SameBitmaps(s, r) /\ SameWay(s, r)
               /\ GetTopWindow(s) = None => r = s
               /\ GetTopWindow(s) # None => r.cap = [s.cap EXCEPT ![GetTopWindow(s)] = b]
               /\ ~s.m.mPeriodTransform => Unseen(r) \subseteq Unseen(s)
<1> USE DEF SameWindows, SameTransforms, SameBitmaps, SameWay
<1> DEFINE top == GetTopWindow(s)
           old == s.cap[top]
           e == IF old \in s.pushed THEN s.stale \cup {Spot} ELSE s.stale
           p == s.pushed \ {old}
           n == [s EXCEPT !.pushed = p, !.stale = e]
           q == IF old = None THEN s ELSE Redraw(n, Spot, TRUE)
           c == [q.cap EXCEPT ![top] = b]
           r == [q EXCEPT !.cap = c]
<1>1. CASE top = None
  BY <1>1 DEF SetCapture
<1>2. CASE top # None
  <2>1. /\ top \in Window /\ s.m.mWndStack # <<>>
        /\ s.pushed \in SUBSET Window /\ s.stale \in SUBSET Region
        /\ s.cap \in [Window -> Window \cup {None}]
    BY <1>2, TopFacts DEF States
  <2>2. SetCapture(s, b) = r
    <3>1. q = IF old = None THEN s
              ELSE Redraw([s EXCEPT !.pushed = @ \ {old},
                                    !.stale = IF old \in s.pushed THEN @ \cup {Spot} ELSE @],
                          Spot, TRUE)
      BY DEF States
    <3>2. q \in States
      <4>1. CASE old = None
        BY <4>1
      <4>2. CASE old # None
        <5>1. p \in SUBSET Window /\ e \in SUBSET Region
          BY <2>1, SpotIsRegion
        <5> HIDE DEF p, e
        <5>2. n \in States
          BY <5>1 DEF States
        <5> HIDE DEF n
        <5> QED BY <4>2, <5>2, SpotIsRegion, RedrawFacts
      <4> QED BY <4>1, <4>2
    <3>3. r = [q EXCEPT !.cap[top] = b]
      <4> HIDE DEF q
      <4> QED BY <3>2 DEF States
    <3>4. SetCapture(s, b) = [q EXCEPT !.cap[top] = b]
      BY <1>2, <3>1 DEF SetCapture
    <3> QED BY <3>3, <3>4
  <2>3. /\ q \in States /\ SameWindows(s, q) /\ SameTransforms(s, q)
        /\ SameBitmaps(s, q) /\ SameWay(s, q) /\ q.cap = s.cap
        /\ ~s.m.mPeriodTransform => Unseen(q) \subseteq Unseen(s)
    <3>1. CASE old = None
      BY <3>1
    <3>2. CASE old # None
      <4>1. p \in SUBSET Window /\ e \in SUBSET Region /\ e \subseteq s.stale \cup {Spot}
        BY <2>1, SpotIsRegion
      <4> HIDE DEF p, e
      <4>2. n \in States
        BY <4>1 DEF States
      <4>3. /\ n.m = s.m /\ n.cap = s.cap /\ n.refs = s.refs /\ n.bmps = s.bmps
            /\ n.lost = s.lost /\ n.backs = s.backs /\ n.stale = e
        BY DEF States
      <4> HIDE DEF n
      <4> DEFINE z == Redraw(n, Spot, TRUE)
      <4>4. /\ z \in States /\ SameWindows(n, z) /\ SameTransforms(n, z)
            /\ SameBitmaps(n, z) /\ SameWay(n, z) /\ z.cap = n.cap
            /\ ~n.m.mPeriodTransform /\ n.m.mWndStack # <<>> =>
                  Unseen(z) \subseteq Unseen(n) \ Regions(Spot)
        BY <4>2, SpotIsRegion, RedrawFacts
      <4> HIDE DEF z
      <4>5. Unseen(n) \subseteq Unseen(s) \cup {Spot} /\ Spot \in Regions(Spot)
        BY <4>1, <4>3, SpotIsRegion DEF Unseen, Pending, Regions
      <4>6. ~s.m.mPeriodTransform => Unseen(z) \subseteq Unseen(s)
        BY <2>1, <4>3, <4>4, <4>5
      <4>7. q = z
        BY <3>2 DEF z
      <4> QED BY <4>3, <4>4, <4>6, <4>7
    <3> QED BY <3>1, <3>2
  <2> HIDE DEF q
  <2>4. c \in [Window -> Window \cup {None}] /\ c = [s.cap EXCEPT ![top] = b]
    BY <2>1, <2>3
  <2> HIDE DEF c
  <2>5. r \in States
    BY <2>3, <2>4 DEF States
  <2>6. /\ r.m = q.m /\ r.refs = q.refs /\ r.bmps = q.bmps /\ r.lost = q.lost
        /\ r.backs = q.backs /\ r.stale = q.stale /\ r.cap = c
    BY <2>3 DEF States
  <2> HIDE DEF r
  <2>7. ~s.m.mPeriodTransform => Unseen(r) \subseteq Unseen(s)
    BY <2>3, <2>6 DEF Unseen, Pending
  <2> QED BY <1>2, <2>2, <2>3, <2>4, <2>5, <2>6, <2>7
<1> QED BY <1>1, <1>2


\* No window has the pen for the button of w any more.
Forgotten(s, r, w) ==
    r.cap[w] = None /\ (GetTopWindow(s) # None => r.cap[GetTopWindow(s)] # w)

\* With a window goes what it held and, if the window on top held the button, the pen.
LEMMA DeletedFacts ==
    ASSUME NEW s \in States, NEW w \in Window
    PROVE  LET r == Deleted(s, w)
           IN  /\ r \in States /\ SameWindows(s, r) /\ SameTransforms(s, r)
               /\ SameBitmaps(s, r) /\ SameWay(s, r)
               /\ Calmer(s, r) /\ Forgotten(s, r, w)
<1> USE DEF SameWindows, SameTransforms, SameBitmaps, SameWay
<1> DEFINE top == GetTopWindow(s)
           q == IF GetCapture(s) = w THEN SetCapture(s, None) ELSE s
           p == q.pushed \ {w}
           c == [q.cap EXCEPT ![w] = None]
           r == [q EXCEPT !.pushed = p, !.cap = c, !.stale = Region]
<1>1. /\ q \in States /\ SameWindows(s, q) /\ SameTransforms(s, q)
      /\ SameBitmaps(s, q) /\ SameWay(s, q) /\ Calmer(s, q)
      /\ top # None => q.cap[top] # w
  <2>1. top \in Window \cup {None} /\ s.cap \in [Window -> Window \cup {None}]
    BY TopFacts DEF States
  <2>2. CASE GetCapture(s) = w
    <3> DEFINE f == SetCapture(s, None)
    <3>1. /\ f \in States /\ SameWindows(s, f) /\ SameTransforms(s, f)
          /\ SameBitmaps(s, f) /\ SameWay(s, f)
          /\ top = None => f = s
          /\ top # None => f.cap = [s.cap EXCEPT ![top] = None]
      BY SetCaptureFacts
    <3>2. q = f
      BY <2>2
    <3> HIDE DEF f, q, top
    <3> QED BY <2>1, <3>1, <3>2, WindowsAreNumbers DEF Calmer
  <2>3. CASE GetCapture(s) # w
    <3>1. q = s
      BY <2>3
    <3>2. top # None => s.cap[top] # w
      BY <2>3 DEF GetCapture
    <3> QED BY <3>1, <3>2 DEF Calmer
  <2> QED BY <2>2, <2>3
<1>3. Deleted(s, w) = r
  <2>1. Deleted(s, w) = [q EXCEPT !.pushed = @ \ {w}, !.cap[w] = None, !.stale = Region]
    BY DEF Deleted
  <2> HIDE DEF q
  <2> QED BY <1>1, <2>1 DEF States
<1> HIDE DEF q
<1>4. /\ p \in SUBSET Window /\ c \in [Window -> Window \cup {None}]
      /\ c[w] = None /\ \A v \in Window : v # w => c[v] = q.cap[v]
  BY <1>1 DEF States
<1> HIDE DEF p, c
<1>5. r \in States
  BY <1>1, <1>4 DEF States
<1>7. /\ r.m = q.m /\ r.refs = q.refs /\ r.bmps = q.bmps
      /\ r.lost = q.lost /\ r.backs = q.backs /\ r.cap = c
  BY <1>1 DEF States
<1> HIDE DEF r
<1>6. Calmer(s, r)
  BY <1>1, <1>4, <1>7 DEF Calmer
<1>8. Forgotten(s, r, w)
  BY <1>1, <1>4, <1>7, TopFacts, WindowsAreNumbers DEF Forgotten
<1> QED BY <1>1, <1>3, <1>5, <1>6, <1>7, <1>8

\* One change after the other
LEMMA CalmerAfter ==
    ASSUME NEW s, NEW q, NEW r, Calmer(s, q), Calmer(q, r)
    PROVE  Calmer(s, r)
BY DEF Calmer

LEMMA OnwardAfter ==
    ASSUME NEW s, NEW q, NEW r, Onward(s, q), Onward(q, r)
    PROVE  Onward(s, r)
BY CalmerAfter DEF Onward, SameWay

LEMMA OnwardSame ==
    ASSUME NEW s, NEW r, r.cap = s.cap, r.m.used = s.m.used, SameWay(s, r)
    PROVE  Onward(s, r)
BY DEF Onward, Calmer

\* What is held when fewer windows hold the pen
LEMMA PlainAfter ==
    ASSUME NEW s, NEW r, Calmer(s, r), Plain(s)
    PROVE  Plain(r)
BY DEF Calmer, Plain

LEMMA PlainHeld ==
    ASSUME NEW s, Plain(s)
    PROVE  HeldOK(s)
BY DEF Plain, HeldOK

LEMMA HeldAfter ==
    ASSUME NEW s, NEW r, Calmer(s, r), SameWindows(s, r), HeldOK(s)
    PROVE  HeldOK(r)
<1>1. GetTopWindow(r) = GetTopWindow(s) /\ r.m.mDialog = s.m.mDialog
  BY DEF SameWindows, GetTopWindow
<1> QED BY <1>1 DEF Calmer, HeldOK

LEMMA PenAfter ==
    ASSUME NEW s, NEW r, NEW d, Calmer(s, r), PenOK(s, d)
    PROVE  PenOK(r, d)
BY DEF Calmer, PenOK

\* The dialog's button is the only one that another window holds.
LEMMA DialogForgotten ==
    ASSUME NEW s \in States, NEW r, HeldOK(s), Calmer(s, r),
           s.m.mDialog # None => Forgotten(s, r, s.m.mDialog)
    PROVE  Plain(r)
<1> SUFFICES ASSUME NEW w \in Window, r.cap[w] # None PROVE r.cap[w] = w
  BY DEF Plain
<1>1. s.cap[w] = r.cap[w]
  BY DEF Calmer
<1>2. CASE s.cap[w] = w
  BY <1>1, <1>2
<1>3. CASE w = GetTopWindow(s) /\ s.cap[w] = s.m.mDialog
  BY <1>1, <1>3, WindowsAreNumbers DEF Forgotten
<1> QED BY <1>1, <1>2, <1>3 DEF HeldOK

-----------------------------------------------------------------------------
(* A call that changes windows, with the transition t or with none; o says   *)
(* whether the application is orderly, G the transitions that are held by    *)
(* this call and the ones around it.                                         *)

\* The call may begin, with a transition that no call around it holds.
Ready(o, s, t, G) ==
    /\ s \in States /\ CountOK(s, G \cup {t})
    /\ t # None => t # s.m.mTransform /\ t \notin G
    /\ o => BitmapsUpTo(s, t, {}) /\ s.m.mTransform \notin G

\* The transition is set, the bitmaps in S are taken, and it does not play yet.
Under(o, s, t, G, S) ==
    /\ s \in States /\ CountOK(s, G)
    /\ o => /\ t # None => s.m.mTransform = t /\ ~s.m.mPeriodTransform
            /\ BitmapsUpTo(s, t, S)

\* It plays, or all of the screen is painted.
Finished(o, s, t, G) ==
    /\ s \in States /\ CountOK(s, G)
    /\ o => /\ BitmapsUpTo(s, t, {"old", "new"}) /\ PaintOK(s)
            /\ t # None => s.m.mTransform = t /\ s.m.mPeriodTransform

LEMMA UnderSet ==
    ASSUME NEW o, NEW s, NEW t \in Transform \cup {None}, NEW G, Ready(o, s, t, G)
    PROVE  LET r == SetTransform(s, t)
           IN  /\ Under(o, r, t, G \cup {t}, {}) /\ SameWindows(s, r) /\ Onward(s, r)
               /\ SamePaint(s, r)
               /\ t = None => r = s
<1> DEFINE r == SetTransform(s, t)
<1>1. s \in States /\ CountOK(s, G \cup {t}) /\ (t # None => t # s.m.mTransform)
  BY DEF Ready
<1>2. /\ r \in States /\ SameWindows(s, r) /\ SameWay(s, r) /\ SamePaint(s, r)
      /\ r.cap = s.cap /\ CountOK(r, G \cup {t}) /\ r.m.used = s.m.used
      /\ t = None => r = s
      /\ t # None => r.m.mTransform = t /\ ~r.m.mPeriodTransform
      /\ s.m.mTransform \notin G /\ BitmapsUpTo(s, t, {}) => BitmapsUpTo(r, t, {})
  BY <1>1, SetTransformFacts
<1> HIDE DEF r
<1>3. Under(o, r, t, G \cup {t}, {})
  BY <1>2 DEF Under, Ready
<1> QED BY <1>2, <1>3, OnwardSame DEF r

LEMMA UnderBitmap ==
    ASSUME NEW o, NEW s, NEW t \in Transform \cup {None}, NEW G, NEW S, Under(o, s, t, G, S),
           NEW w \in Window \cup {None}, NEW k \in {"old", "new"}, k \notin S, NEW R, R = S \cup {k}
    PROVE  LET r == SetTransformBitmap(s, t, k, w)
           IN  Under(o, r, t, G, R) /\ SameWindows(s, r) /\ Onward(s, r)
<1> DEFINE r == SetTransformBitmap(s, t, k, w)
<1>1. s \in States /\ CountOK(s, G)
  BY DEF Under
<1>2. /\ r \in States /\ r.m = s.m /\ r.cap = s.cap /\ r.refs = s.refs
      /\ r.backs = s.backs /\ r.stale = s.stale
      /\ BitmapsUpTo(s, t, S) /\ (t # None => s.refs[t] # 0) => BitmapsUpTo(r, t, S \cup {k})
  BY <1>1, BitmapFacts
<1> HIDE DEF r
<1>3. ASSUME o, t # None PROVE s.refs[t] # 0
  <2>1. s.m.mTransform = t /\ t \in Transform
    BY <1>3 DEF Under
  <2> QED BY <1>1, <2>1 DEF CountOK
<1>4. CountOK(r, G)
  BY <1>1, <1>2 DEF CountOK
<1>5. Under(o, r, t, G, R)
  BY <1>2, <1>3, <1>4 DEF Under
<1>6. SameWindows(s, r) /\ SameWay(s, r)
  BY <1>2 DEF SameWindows, SameWay
<1> QED BY <1>2, <1>5, <1>6, OnwardSame DEF r

\* The first bitmap of two, or the other one after it
LEMMA UnderBitmaps ==
    ASSUME NEW o, NEW s, NEW t \in Transform \cup {None}, NEW G, NEW w \in Window \cup {None},
           NEW k \in {"old", "new"}, NEW S \in SUBSET {"old", "new"}, k \notin S,
           Under(o, s, t, G, S)
    PROVE  LET r == SetTransformBitmap(s, t, k, w)
           IN  /\ Under(o, r, t, G, IF S = {} THEN {k} ELSE {"old", "new"})
               /\ SameWindows(s, r) /\ Onward(s, r)
<1> DEFINE R == IF S = {} THEN {k} ELSE {"old", "new"}
<1>1. R = S \cup {k}
  OBVIOUS
<1> HIDE DEF R
<1> QED BY <1>1, UnderBitmap DEF R

\* Windows and what is shown change, and no transition.
LEMMA UnderChanged ==
    ASSUME NEW o, NEW s, NEW t, NEW G, NEW S, Under(o, s, t, G, S), NEW r \in States,
           SameTransforms(s, r), SameBitmaps(s, r)
    PROVE  Under(o, r, t, G, S)
BY DEF Under, SameTransforms, SameBitmaps, CountOK, BitmapsUpTo

LEMMA UnderDeleted ==
    ASSUME NEW o, NEW s, NEW t, NEW G, NEW S, Under(o, s, t, G, S), NEW w \in Window
    PROVE  LET r == Deleted(s, w)
           IN  /\ Under(o, r, t, G, S) /\ SameWindows(s, r) /\ Onward(s, r)
               /\ Forgotten(s, r, w)
<1> DEFINE r == Deleted(s, w)
<1>1. s \in States
  BY DEF Under
<1>2. /\ r \in States /\ SameWindows(s, r) /\ SameTransforms(s, r)
      /\ SameBitmaps(s, r) /\ SameWay(s, r)
      /\ Calmer(s, r) /\ Forgotten(s, r, w)
  BY <1>1, DeletedFacts
<1> HIDE DEF r
<1>3. Under(o, r, t, G, S)
  BY <1>2, UnderChanged
<1>4. Onward(s, r)
  BY <1>2 DEF Onward, SameTransforms
<1> QED BY <1>2, <1>3, <1>4 DEF r

LEMMA UnderRedrawn ==
    ASSUME NEW o, NEW s, NEW t, NEW G, NEW S, Under(o, s, t, G, S), NEW d \in BOOLEAN
    PROVE  LET r == Redraw(s, All, d)
           IN  Under(o, r, t, G, S) /\ SameWindows(s, r) /\ Onward(s, r) /\ PaintOK(r)
<1> DEFINE r == Redraw(s, All, d)
<1>1. s \in States
  BY DEF Under
<1>2. /\ r \in States /\ SameWindows(s, r) /\ SameTransforms(s, r)
      /\ SameBitmaps(s, r) /\ SameWay(s, r) /\ r.cap = s.cap
      /\ ~s.m.mPeriodTransform /\ s.m.mWndStack # <<>> =>
            Unseen(r) \subseteq Unseen(s) \ Regions(All)
  BY <1>1, RedrawFacts
<1> HIDE DEF r
<1>3. Under(o, r, t, G, S)
  BY <1>2, UnderChanged
<1>4. Onward(s, r)
  BY <1>2, OnwardSame DEF SameTransforms
<1>5. Regions(All) = Region /\ Unseen(s) \subseteq Region
  BY <1>1 DEF Regions, Unseen, States
<1>6. PaintOK(r)
  <2>1. SUFFICES ASSUME r.m.mWndStack # <<>>, ~r.m.mPeriodTransform PROVE Unseen(r) = {}
    BY DEF PaintOK, Unseen, Pending
  <2>2. ~s.m.mPeriodTransform /\ s.m.mWndStack # <<>>
    BY <1>2, <2>1 DEF SameWindows, SameTransforms
  <2> QED BY <1>2, <1>5, <2>2
<1> QED BY <1>2, <1>3, <1>4, <1>6 DEF r

\* The transition starts, or all of the screen is painted.
LEMMA PerformedFacts ==
    ASSUME NEW o, NEW s, NEW t \in Transform \cup {None}, NEW G, Under(o, s, t, G, {"old", "new"}),
           NEW d \in BOOLEAN
    PROVE  LET r == Performed(s, t, d)
           IN  Finished(o, r, t, G) /\ SameWindows(s, r) /\ Onward(s, r)
<1>1. s \in States
  BY DEF Under
<1>2. CASE t # None
  <2> DEFINE r == StartTransform(s)
  <2>1. /\ r \in States /\ SameWindows(s, r) /\ SameWay(s, r) /\ SamePaint(s, r)
        /\ SameBitmaps(s, r) /\ r.cap = s.cap /\ r.refs = s.refs
        /\ r.m.mTransform = s.m.mTransform /\ r.m.used = s.m.used
        /\ s.m.mTransform # None => r.m.mPeriodTransform = TRUE
        /\ s.m.mTransform = None => r = s
    BY <1>1, StartTransformFacts
  <2> HIDE DEF r
  <2>2. CountOK(r, G)
    <3>1. CASE s.m.mTransform = None
      BY <2>1, <3>1 DEF Under
    <3>2. CASE s.m.mTransform # None
      BY <2>1, <3>2 DEF Under, CountOK
    <3> QED BY <3>1, <3>2
  <2>3. ASSUME o
        PROVE  /\ BitmapsUpTo(r, t, {"old", "new"}) /\ PaintOK(r)
               /\ r.m.mTransform = t /\ r.m.mPeriodTransform
    BY <1>2, <2>1, <2>3 DEF Under, BitmapsUpTo, SameBitmaps, PaintOK
  <2>4. Finished(o, r, t, G)
    BY <2>1, <2>2, <2>3 DEF Finished
  <2>5. Performed(s, t, d) = r
    BY <1>2 DEF Performed, r
  <2> QED BY <2>1, <2>4, <2>5, OnwardSame
<1>3. CASE t = None
  <2> DEFINE r == Redraw(s, All, d)
  <2>1. Under(o, r, t, G, {"old", "new"}) /\ SameWindows(s, r) /\ Onward(s, r) /\ PaintOK(r)
    BY UnderRedrawn
  <2>2. Performed(s, t, d) = r
    BY <1>3 DEF Performed
  <2> HIDE DEF r
  <2>3. Finished(o, r, t, G)
    BY <1>3, <2>1 DEF Under, Finished
  <2> QED BY <2>1, <2>2, <2>3
<1> QED BY <1>2, <1>3

\* The call is at its end.
LEMMA FinishedReleased ==
    ASSUME NEW o, NEW s, NEW t \in Transform \cup {None}, NEW G, Finished(o, s, t, G \cup {t}),
           t # None => t \notin G
    PROVE  LET r == Release(s, t)
           IN  Finished(o, r, t, G) /\ SameWindows(s, r) /\ Onward(s, r)
<1> DEFINE r == Release(s, t)
<1>1. s \in States /\ CountOK(s, G \cup {t})
  BY DEF Finished
<1>2. /\ r \in States /\ r.m = s.m /\ r.cap = s.cap /\ r.backs = s.backs
      /\ r.stale = s.stale /\ CountOK(r, G)
      /\ \A S : BitmapsUpTo(s, t, S) => BitmapsUpTo(r, t, S)
  BY <1>1, ReleaseFacts
<1> HIDE DEF r
<1>3. Finished(o, r, t, G)
  BY <1>2 DEF Finished, PaintOK
<1>4. SameWindows(s, r) /\ SameWay(s, r)
  BY <1>2 DEF SameWindows, SameWay
<1> QED BY <1>2, <1>3, <1>4, OnwardSame DEF r

\* Where nothing more is done the references are right at least.
LEMMA UnderReleased ==
    ASSUME NEW o, NEW s, NEW t \in Transform \cup {None}, NEW G, NEW S,
           Under(o, s, t, G \cup {t}, S), t # None => t \notin G
    PROVE  LET r == Release(s, t)
           IN  r \in States /\ CountOK(r, G) /\ Onward(s, r)
<1> DEFINE r == Release(s, t)
<1>1. s \in States /\ CountOK(s, G \cup {t})
  BY DEF Under
<1>2. /\ r \in States /\ r.m = s.m /\ r.cap = s.cap /\ r.backs = s.backs /\ CountOK(r, G)
  BY <1>1, ReleaseFacts
<1> HIDE DEF r
<1>3. SameWay(s, r)
  BY <1>2 DEF SameWay
<1> QED BY <1>2, <1>3, OnwardSame DEF r

\* After the call the order is kept, whatever the pen does.
LEMMA FinishedOrder ==
    ASSUME NEW o, o, NEW s, NEW t \in Transform \cup {None}, Finished(o, s, t, {}), WayOK(s),
           Plain(s)
    PROVE  OrderOK(s)
<1>1. HeldOK(s)
  BY PlainHeld
<1>2. BitmapsOK(s)
  BY WindowsAreNumbers DEF Finished, BitmapsUpTo, BitmapsOK
<1> QED BY <1>1, <1>2 DEF Finished, OrderOK

-----------------------------------------------------------------------------
(* Windows, one on top of the other, and the dialog *)

\* The stack is another one.
LEMMA StackChanged ==
    ASSUME NEW s \in States, NEW q \in Seq(Window)
    PROVE  LET r == [s EXCEPT !.m.mWndStack = q]
           IN  /\ r \in States /\ SameTransforms(s, r) /\ SameBitmaps(s, r)
               /\ SameWay(s, r) /\ r.cap = s.cap
               /\ r.m.mWndStack = q
               /\ r.m.mDialog = s.m.mDialog /\ r.m.modal = s.m.modal
<1> DEFINE y == [s.m EXCEPT !.mWndStack = q]
           r == [s EXCEPT !.m = y]
<1>1. s.m \in Manager
  BY DEF States
<1>2. [s EXCEPT !.m.mWndStack = q] = r
  BY DEF States
<1>3. /\ y \in Manager /\ y.mTransform = s.m.mTransform
      /\ y.mPeriodTransform = s.m.mPeriodTransform /\ y.used = s.m.used
      /\ y.mPeroidid = s.m.mPeroidid /\ y.suspended = s.m.suspended
      /\ y.mWndStack = q
      /\ y.mDialog = s.m.mDialog /\ y.modal = s.m.modal
  BY <1>1, StackFacts
<1> HIDE DEF y
<1>4. Region \in SUBSET Region
  OBVIOUS
<1>5. r \in States
  BY <1>3, <1>4 DEF States
<1>6. /\ r.m = y /\ r.cap = s.cap /\ r.refs = s.refs /\ r.bmps = s.bmps
      /\ r.lost = s.lost /\ r.backs = s.backs
  BY DEF States
<1> HIDE DEF r
<1>7. SameTransforms(s, r) /\ SameBitmaps(s, r) /\ SameWay(s, r)
  BY <1>3, <1>6 DEF SameTransforms, SameBitmaps, SameWay
<1> QED BY <1>2, <1>3, <1>5, <1>6, <1>7

\* The stack is another one, and is to be shown.
LEMMA StackShown ==
    ASSUME NEW s \in States, NEW q \in Seq(Window)
    PROVE  LET r == [s EXCEPT !.m.mWndStack = q, !.stale = Region]
           IN  /\ r \in States /\ SameTransforms(s, r) /\ SameBitmaps(s, r)
               /\ SameWay(s, r) /\ r.cap = s.cap
               /\ r.m.mWndStack = q
               /\ r.m.mDialog = s.m.mDialog /\ r.m.modal = s.m.modal
<1> DEFINE y == [s.m EXCEPT !.mWndStack = q]
           r == [s EXCEPT !.m = y, !.stale = Region]
<1>1. s.m \in Manager
  BY DEF States
<1>2. [s EXCEPT !.m.mWndStack = q, !.stale = Region] = r
  BY DEF States
<1>3. /\ y \in Manager /\ y.mTransform = s.m.mTransform
      /\ y.mPeriodTransform = s.m.mPeriodTransform /\ y.used = s.m.used
      /\ y.mPeroidid = s.m.mPeroidid /\ y.suspended = s.m.suspended
      /\ y.mWndStack = q
      /\ y.mDialog = s.m.mDialog /\ y.modal = s.m.modal
  BY <1>1, StackFacts
<1> HIDE DEF y
<1>4. Region \in SUBSET Region
  OBVIOUS
<1>5. r \in States
  BY <1>3, <1>4 DEF States
<1>6. /\ r.m = y /\ r.cap = s.cap /\ r.refs = s.refs /\ r.bmps = s.bmps
      /\ r.lost = s.lost /\ r.backs = s.backs
  BY DEF States
<1> HIDE DEF r
<1>7. SameTransforms(s, r) /\ SameBitmaps(s, r) /\ SameWay(s, r)
  BY <1>3, <1>6 DEF SameTransforms, SameBitmaps, SameWay
<1> QED BY <1>2, <1>3, <1>5, <1>6, <1>7

\* No dialog is left.
LEMMA DialogGone ==
    ASSUME NEW s \in States
    PROVE  LET r == [s EXCEPT !.m.mDialog = None]
           IN  /\ r \in States /\ SameTransforms(s, r) /\ SameBitmaps(s, r)
               /\ SameWay(s, r) /\ r.cap = s.cap
               /\ r.m.mDialog = None
               /\ r.m.mWndStack = s.m.mWndStack /\ r.m.modal = s.m.modal
<1> DEFINE y == [s.m EXCEPT !.mDialog = None]
           r == [s EXCEPT !.m = y]
<1>1. s.m \in Manager
  BY DEF States
<1>2. [s EXCEPT !.m.mDialog = None] = r
  BY DEF States
<1>3. /\ y \in Manager /\ y.mTransform = s.m.mTransform
      /\ y.mPeriodTransform = s.m.mPeriodTransform /\ y.used = s.m.used
      /\ y.mPeroidid = s.m.mPeroidid /\ y.suspended = s.m.suspended
      /\ y.mDialog = None
      /\ y.mWndStack = s.m.mWndStack /\ y.modal = s.m.modal
  BY <1>1, NoDialogFacts
<1> HIDE DEF y
<1>4. Region \in SUBSET Region
  OBVIOUS
<1>5. r \in States
  BY <1>3, <1>4 DEF States
<1>6. /\ r.m = y /\ r.cap = s.cap /\ r.refs = s.refs /\ r.bmps = s.bmps
      /\ r.lost = s.lost /\ r.backs = s.backs
  BY DEF States
<1> HIDE DEF r
<1>7. SameTransforms(s, r) /\ SameBitmaps(s, r) /\ SameWay(s, r)
  BY <1>3, <1>6 DEF SameTransforms, SameBitmaps, SameWay
<1> QED BY <1>2, <1>3, <1>5, <1>6, <1>7

\* A dialog is to be shown.
LEMMA DialogChanged ==
    ASSUME NEW s \in States, NEW w \in Window, NEW b \in BOOLEAN
    PROVE  LET r == [s EXCEPT !.m.mDialog = w, !.m.modal = b, !.stale = Region]
           IN  /\ r \in States /\ SameTransforms(s, r) /\ SameBitmaps(s, r)
               /\ SameWay(s, r) /\ r.cap = s.cap
               /\ r.m.mDialog = w /\ r.m.modal = b
               /\ r.m.mWndStack = s.m.mWndStack
<1> DEFINE y == [s.m EXCEPT !.mDialog = w, !.modal = b]
           r == [s EXCEPT !.m = y, !.stale = Region]
<1>1. s.m \in Manager
  BY DEF States
<1>2. [s EXCEPT !.m.mDialog = w, !.m.modal = b, !.stale = Region] = r
  BY DEF States
<1>3. /\ y \in Manager /\ y.mTransform = s.m.mTransform
      /\ y.mPeriodTransform = s.m.mPeriodTransform /\ y.used = s.m.used
      /\ y.mPeroidid = s.m.mPeroidid /\ y.suspended = s.m.suspended
      /\ y.mDialog = w /\ y.modal = b
      /\ y.mWndStack = s.m.mWndStack
  <2> DEFINE x == s.m
  <2> HIDE DEF x
  <2>1. x \in Manager
    BY <1>1 DEF x
  <2>2. \A c \in BOOLEAN : [x EXCEPT !.mDialog = w, !.modal = c] \in Manager
    BY <2>1, DialogFacts
  <2>3. y = [x EXCEPT !.mDialog = w, !.modal = b]
    BY DEF x
  <2>4. y \in Manager
    BY <2>2, <2>3
  <2>5. /\ y.mDialog = w /\ y.modal = b /\ y.mWndStack = x.mWndStack
        /\ y.mTransform = x.mTransform /\ y.mPeriodTransform = x.mPeriodTransform
        /\ y.used = x.used /\ y.mPeroidid = x.mPeroidid /\ y.suspended = x.suspended
    BY <2>1, <2>3 DEF Manager
  <2> QED BY <2>4, <2>5 DEF x
<1> HIDE DEF y
<1>4. Region \in SUBSET Region
  OBVIOUS
<1>5. r \in States
  BY <1>3, <1>4 DEF States
<1>6. /\ r.m = y /\ r.cap = s.cap /\ r.refs = s.refs /\ r.bmps = s.bmps
      /\ r.lost = s.lost /\ r.backs = s.backs
  BY DEF States
<1> HIDE DEF r
<1>7. SameTransforms(s, r) /\ SameBitmaps(s, r) /\ SameWay(s, r)
  BY <1>3, <1>6 DEF SameTransforms, SameBitmaps, SameWay
<1> QED BY <1>2, <1>3, <1>5, <1>6, <1>7

\* The window on top is left, with or without its place on the stack.
LEMMA WindowLeftFacts ==
    ASSUME NEW o, NEW s, NEW t \in Transform \cup {None}, NEW G, Ready(o, s, t, G),
           NEW push \in BOOLEAN
    PROVE  LET r == WindowLeft(s, t, push)
           IN  /\ Under(o, r, t, G \cup {t}, {"old"}) /\ Onward(s, r)
               /\ push /\ t = None => r = s
<1> DEFINE top == GetTopWindow(s)
           set == SetTransform(s, t)
           back == SetBackWindow(set, t, top)
           less == [back EXCEPT !.m.mWndStack = Front(@)]
           H == G \cup {t}
           r == WindowLeft(s, t, push)
<1>1. s \in States /\ top \in Window \cup {None}
  BY TopFacts DEF Ready
<1>2. /\ Under(o, set, t, H, {}) /\ SameWindows(s, set) /\ Onward(s, set)
      /\ t = None => set = s
  BY UnderSet
<1>3. r = (IF push \/ top = None THEN back ELSE Deleted(less, top))
  BY DEF WindowLeft
<1> HIDE DEF set, H
<1>4. Under(o, back, t, H, {"old"}) /\ SameWindows(set, back) /\ Onward(set, back)
  <2>1. {} \in SUBSET {"old", "new"} /\ "old" \in {"old", "new"} /\ "old" \notin {}
    OBVIOUS
  <2> HIDE DEF top
  <2> QED BY <1>1, <1>2, <2>1, UnderBitmaps DEF SetBackWindow
<1>5. t = None => back = set
  BY DEF SetBackWindow, SetTransformBitmap
<1> HIDE DEF back
<1>6. Onward(s, back) /\ back \in States /\ back.m.mWndStack = s.m.mWndStack
  BY <1>2, <1>4, OnwardAfter DEF SameWindows, Under
<1>7. CASE push \/ top = None
  BY <1>2, <1>3, <1>4, <1>5, <1>6, <1>7 DEF H
<1>8. CASE ~(push \/ top = None)
  <2>1. Front(back.m.mWndStack) \in Seq(Window) /\ top \in Window
    BY <1>1, <1>6, <1>8, TopFacts
  <2>2. less = [back EXCEPT !.m.mWndStack = Front(back.m.mWndStack)]
    BY <1>6 DEF States
  <2>3. /\ less \in States /\ SameTransforms(back, less) /\ SameBitmaps(back, less)
        /\ SameWay(back, less) /\ less.cap = back.cap
    <3> DEFINE q == Front(back.m.mWndStack)
    <3>1. q \in Seq(Window) /\ less = [back EXCEPT !.m.mWndStack = q]
      BY <2>1, <2>2
    <3> HIDE DEF q, less
    <3> QED BY <1>6, <3>1, StackChanged
  <2> HIDE DEF less
  <2>4. Under(o, less, t, H, {"old"}) /\ Onward(back, less)
    BY <1>4, <2>3, UnderChanged, OnwardSame DEF SameTransforms
  <2> DEFINE gone == Deleted(less, top)
  <2>5. Under(o, gone, t, H, {"old"}) /\ Onward(less, gone)
    BY <2>1, <2>4, UnderDeleted
  <2>6. r = gone
    BY <1>3, <1>8
  <2> HIDE DEF gone, r
  <2>7. Onward(s, gone)
    BY <1>6, <2>4, <2>5, OnwardAfter
  <2> QED BY <1>8, <2>5, <2>6, <2>7 DEF H, r
<1> QED BY <1>7, <1>8

LEMMA WindowPutFacts ==
    ASSUME NEW o, NEW s, NEW t, NEW G, NEW S, Under(o, s, t, G, S), NEW w \in Window
    PROVE  LET r == WindowPut(s, w)
           IN  Under(o, r, t, G, S) /\ Onward(s, r)
<1> DEFINE q == Append(s.m.mWndStack, w)
           r == WindowPut(s, w)
<1>1. s \in States /\ q \in Seq(Window)
  BY DEF Under, States, Manager
<1>2. r = [s EXCEPT !.m.mWndStack = q, !.stale = Region]
  BY <1>1 DEF WindowPut, States
<1> HIDE DEF q, r
<1>3. /\ r \in States /\ SameTransforms(s, r) /\ SameBitmaps(s, r)
      /\ SameWay(s, r) /\ r.cap = s.cap
  BY <1>1, <1>2, StackShown
<1> QED BY <1>3, UnderChanged, OnwardSame DEF SameTransforms, r

\* The window or dialog that was put there is shown.
LEMMA ShownFacts ==
    ASSUME NEW o, NEW s, NEW t \in Transform \cup {None}, NEW G,
           Under(o, s, t, G \cup {t}, {"old"}), t # None => t \notin G,
           NEW w \in Window, NEW d \in BOOLEAN
    PROVE  LET r == Release(Performed(SetTopWindow(s, t, w), t, d), t)
           IN  Finished(o, r, t, G) /\ Onward(s, r)
<1> DEFINE new == SetTopWindow(s, t, w)
           done == Performed(new, t, d)
           r == Release(done, t)
           H == G \cup {t}
<1>1. Under(o, new, t, H, {"old", "new"}) /\ Onward(s, new)
  <2>1. /\ {"old"} \in SUBSET {"old", "new"} /\ "new" \in {"old", "new"}
        /\ "new" \notin {"old"} /\ {"old"} # {}
    OBVIOUS
  <2> HIDE DEF H
  <2>2. Under(o, s, t, H, {"old"})
    BY DEF H
  <2> QED BY <2>1, <2>2, UnderBitmaps DEF SetTopWindow
<1> HIDE DEF new
<1>2. Finished(o, done, t, H) /\ Onward(new, done)
  BY <1>1, PerformedFacts
<1> HIDE DEF done
<1>3. Finished(o, r, t, G) /\ Onward(done, r)
  BY <1>2, FinishedReleased
<1> HIDE DEF r
<1>4. Onward(s, r)
  BY <1>1, <1>2, <1>3, OnwardAfter
<1> QED BY <1>3, <1>4 DEF r, done, new

\* The dialog that was there is gone.
LEMMA DialogPutFacts ==
    ASSUME NEW o, NEW s, NEW t \in Transform \cup {None}, NEW G, Ready(o, s, t, G),
           NEW w \in Window, NEW modal \in BOOLEAN
    PROVE  LET r == DialogPut(s, w, t, modal)
           IN  /\ Under(o, r, t, G \cup {t}, {"old"}) /\ Onward(s, r)
               /\ HeldOK(s) => Plain(r)
<1> DEFINE top == GetTopWindow(s)
           set == SetTransform(s, t)
           dead == Deleted(set, s.m.mDialog)
           gone == IF s.m.mDialog = None THEN set ELSE [dead EXCEPT !.m.mDialog = None]
           back == SetBackWindow(gone, t, top)
           r == [back EXCEPT !.m.mDialog = w, !.m.modal = modal, !.stale = Region]
           H == G \cup {t}
<1>1. s \in States /\ top \in Window \cup {None} /\ s.m.mDialog \in Window \cup {None}
  BY TopFacts DEF Ready, States, Manager
<1>2. Under(o, set, t, H, {}) /\ SameWindows(s, set) /\ Onward(s, set) /\ set \in States
  BY UnderSet DEF Under
<1>3. DialogPut(s, w, t, modal) = r
  BY DEF DialogPut
<1> HIDE DEF set, H
<1>4. /\ Under(o, gone, t, H, {}) /\ Onward(set, gone)
      /\ s.m.mDialog # None => Forgotten(set, gone, s.m.mDialog)
  <2>1. CASE s.m.mDialog = None
    BY <1>2, <2>1, OnwardSame DEF SameWay
  <2>2. CASE s.m.mDialog # None
    <3>1. /\ Under(o, dead, t, H, {}) /\ Onward(set, dead)
          /\ Forgotten(set, dead, s.m.mDialog)
      BY <1>1, <1>2, <2>2, UnderDeleted
    <3> HIDE DEF dead
    <3> DEFINE e == [dead EXCEPT !.m.mDialog = None]
    <3>2. /\ e \in States /\ SameTransforms(dead, e) /\ SameBitmaps(dead, e)
          /\ SameWay(dead, e) /\ e.cap = dead.cap
      BY <3>1, DialogGone DEF Under
    <3>3. gone = e
      BY <2>2
    <3> HIDE DEF e
    <3>4. Under(o, e, t, H, {}) /\ Onward(dead, e)
      BY <3>1, <3>2, UnderChanged, OnwardSame DEF SameTransforms
    <3>5. Forgotten(set, e, s.m.mDialog)
      BY <3>1, <3>2 DEF Forgotten
    <3> HIDE DEF gone
    <3> QED BY <3>1, <3>3, <3>4, <3>5, OnwardAfter
  <2> QED BY <2>1, <2>2
<1> HIDE DEF gone
<1>5. Under(o, back, t, H, {"old"}) /\ Onward(gone, back)
  <2>1. {} \in SUBSET {"old", "new"} /\ "old" \in {"old", "new"} /\ "old" \notin {}
    OBVIOUS
  <2> HIDE DEF top
  <2> QED BY <1>1, <1>4, <2>1, UnderBitmaps DEF SetBackWindow
<1> HIDE DEF back
<1>6. /\ r \in States /\ SameTransforms(back, r) /\ SameBitmaps(back, r)
      /\ SameWay(back, r) /\ r.cap = back.cap
  <2> DEFINE Shown(b) == [back EXCEPT !.m.mDialog = w, !.m.modal = b, !.stale = Region]
  <2>1. back \in States
    BY <1>5 DEF Under
  <2>2. CASE modal = TRUE
    <3>1. r = Shown(TRUE)
      BY <2>2
    <3> HIDE DEF r
    <3> QED BY <2>1, <3>1, DialogChanged
  <2>3. CASE modal = FALSE
    <3>1. r = Shown(FALSE)
      BY <2>3
    <3> HIDE DEF r
    <3> QED BY <2>1, <3>1, DialogChanged
  <2> QED BY <2>2, <2>3
<1> HIDE DEF r
<1>7. Under(o, r, t, H, {"old"}) /\ Onward(back, r)
  BY <1>5, <1>6, UnderChanged, OnwardSame DEF SameTransforms
<1>8. Onward(s, r) /\ Onward(gone, r)
  BY <1>2, <1>4, <1>5, <1>7, OnwardAfter
<1>9. HeldOK(s) => Plain(r)
  <2> SUFFICES ASSUME HeldOK(s) PROVE Plain(r)
    OBVIOUS
  <2>1. HeldOK(set) /\ set.m.mDialog = s.m.mDialog
    BY <1>2, HeldAfter DEF Onward, SameWindows
  <2>2. Plain(gone)
    BY <1>2, <1>4, <2>1, DialogForgotten DEF Onward
  <2> QED BY <1>8, <2>2, PlainAfter DEF Onward
<1> QED BY <1>3, <1>7, <1>8, <1>9 DEF H

\* The way back is delayed: the handler that is known is stopped for a new one.
LEMMA BackLaterFacts ==
    ASSUME NEW o, NEW s, NEW t \in Transform \cup {None}, NEW G, Ready(o, s, t, G)
    PROVE  LET r == BackLater(s, t)
           IN  /\ r \in States /\ CountOK(r, G) /\ SameWindows(s, r) /\ SamePaint(s, r)
               /\ r.cap = s.cap
               /\ o => BitmapsUpTo(r, t, {})
               /\ o /\ t # None => r.m.mTransform = t /\ ~r.m.mPeriodTransform
               /\ t = None => /\ r.m.mTransform = s.m.mTransform
                              /\ r.m.mPeriodTransform = s.m.mPeriodTransform
               /\ r.backs = (IF s.m.mPeroidid THEN s.backs ELSE s.backs + 1)
               /\ r.m.mPeroidid = TRUE /\ r.m.suspended = s.m.suspended
<1> DEFINE set == SetTransform(s, t)
           k == (IF s.m.mPeroidid THEN set.backs - 1 ELSE set.backs) + 1
           y == [set.m EXCEPT !.mPeroidid = TRUE]
           late == [set EXCEPT !.m = y, !.backs = k]
           r == Release(late, t)
           H == G \cup {t}
<1>1. /\ Under(o, set, t, H, {}) /\ SameWindows(s, set) /\ SamePaint(s, set)
      /\ t = None => set = s
  BY UnderSet
<1>2. set \in States /\ set.m \in Manager /\ set.backs \in Int
  BY <1>1 DEF Under, States
<1>3. BackLater(s, t) = r
  <2>1. late = [set EXCEPT !.m.mPeroidid = TRUE, !.backs = k]
    BY <1>2 DEF States
  <2>2. BackLater(s, t) = Release([set EXCEPT !.m.mPeroidid = TRUE, !.backs = k], t)
    BY DEF BackLater
  <2> QED BY <2>1, <2>2
<1>0. s \in States /\ CountOK(s, H) /\ (t # None => t # s.m.mTransform /\ t \notin G)
  BY DEF Ready
<1>11. SameWay(s, set) /\ set.cap = s.cap
  BY <1>0, SetTransformFacts
<1> HIDE DEF set, H
<1>4. /\ y \in Manager /\ y.mPeroidid = TRUE /\ y.suspended = set.m.suspended
      /\ y.mWndStack = set.m.mWndStack /\ y.mDialog = set.m.mDialog /\ y.modal = set.m.modal
      /\ y.mTransform = set.m.mTransform /\ y.mPeriodTransform = set.m.mPeriodTransform
      /\ y.used = set.m.used
      /\ y.mRectRedraws = set.m.mRectRedraws /\ y.mPeriodRedraw = set.m.mPeriodRedraw
  BY <1>2, WayFacts
<1>5. k \in Int /\ k = (IF s.m.mPeroidid THEN s.backs ELSE s.backs + 1)
  BY <1>2, <1>11 DEF SameWay
<1> HIDE DEF y, k
<1>6. late \in States
  BY <1>2, <1>4, <1>5 DEF States
<1>7. /\ late.m = y /\ late.cap = set.cap /\ late.refs = set.refs /\ late.bmps = set.bmps
      /\ late.lost = set.lost /\ late.backs = k /\ late.stale = set.stale
  BY <1>2 DEF States
<1> HIDE DEF late
<1>8. Under(o, late, t, H, {})
  BY <1>1, <1>4, <1>6, <1>7, UnderChanged DEF SameTransforms, SameBitmaps
<1>9. /\ r \in States /\ r.m = late.m /\ r.cap = late.cap /\ r.backs = late.backs
      /\ r.stale = late.stale /\ CountOK(r, G)
      /\ BitmapsUpTo(late, t, {}) => BitmapsUpTo(r, t, {})
  <2>1. CountOK(late, G \cup {t})
    BY <1>8 DEF Under, H
  <2> QED BY <1>0, <1>6, <2>1, ReleaseFacts
<1> HIDE DEF r
<1>10. /\ o => BitmapsUpTo(r, t, {})
       /\ o /\ t # None => r.m.mTransform = t /\ ~r.m.mPeriodTransform
  BY <1>8, <1>9 DEF Under
<1>12. SameWindows(s, r) /\ SamePaint(s, r)
  BY <1>1, <1>4, <1>7, <1>9 DEF SameWindows, SamePaint
<1>13. /\ r.backs = k /\ r.m.mPeroidid = TRUE /\ r.m.suspended = s.m.suspended /\ r.cap = s.cap
       /\ t = None => /\ r.m.mTransform = s.m.mTransform
                      /\ r.m.mPeriodTransform = s.m.mPeriodTransform
  BY <1>1, <1>4, <1>7, <1>9, <1>11 DEF SameWay
<1> QED BY <1>3, <1>5, <1>9, <1>10, <1>12, <1>13

\* A transition is made for a call and given away with it.
LEMMA GivenReady ==
    ASSUME NEW s \in States, NEW G, CountOK(s, G), NEW t \in Transform \cup {None},
           t # None => ~s.m.used[t], NEW o, o => BitmapsOK(s) /\ s.m.mTransform \notin G
    PROVE  LET r == Given(s, t)
           IN  /\ Ready(o, r, t, G) /\ SameWindows(s, r) /\ SameWay(s, r) /\ SamePaint(s, r)
               /\ r.cap = s.cap /\ r.m.mTransform = s.m.mTransform
               /\ r.m.mPeriodTransform = s.m.mPeriodTransform
               /\ t = None => r = s
<1> DEFINE f == [s.refs EXCEPT ![t] = 1]
           u == [s.m.used EXCEPT ![t] = TRUE]
           y == [s.m EXCEPT !.used = u]
           r == Given(s, t)
<1>1. s.m \in Manager /\ s.refs \in [Transform -> Int] /\ s.m.used \in [Transform -> BOOLEAN]
      /\ s.m.mTransform \in Transform \cup {None}
  BY DEF States, Manager
<1>2. o /\ (t # None => t # s.m.mTransform) => BitmapsUpTo(s, t, {})
  <2>1. \A v \in Transform : s.bmps[v] \subseteq {"old", "new"}
    BY DEF States
  <2> QED BY <2>1, WindowsAreNumbers DEF BitmapsOK, BitmapsUpTo
<1>3. CASE t = None
  <2>1. r = s
    BY <1>3 DEF Given
  <2>2. CountOK(s, G \cup {t})
    BY <1>3, WindowsAreNumbers DEF CountOK
  <2> HIDE DEF r
  <2>3. Ready(o, r, t, G)
    BY <1>2, <1>3, <2>1, <2>2 DEF Ready
  <2> QED BY <1>3, <2>1, <2>3 DEF SameWindows, SameWay, SamePaint, r
<1>4. CASE t # None
  <2>1. t \in Transform /\ ~s.m.used[t]
    BY <1>4
  <2>2. t # s.m.mTransform /\ s.refs[t] = 0 /\ t \notin G
    BY <2>1, <1>4 DEF CountOK
  <2>3. /\ f \in [Transform -> Int] /\ f[t] = 1 /\ \A v \in Transform : v # t => f[v] = s.refs[v]
    BY <1>1, <2>1
  <2>4. /\ u \in [Transform -> BOOLEAN] /\ u[t] = TRUE
        /\ \A v \in Transform : v # t => u[v] = s.m.used[v]
    BY <1>1, <2>1
  <2>5. r = [s EXCEPT !.refs = f, !.m = y]
    BY <1>4 DEF Given, States
  <2> HIDE DEF f, u
  <2>6. /\ y \in Manager /\ y.used = u
        /\ y.mWndStack = s.m.mWndStack /\ y.mDialog = s.m.mDialog /\ y.modal = s.m.modal
        /\ y.mTransform = s.m.mTransform /\ y.mPeriodTransform = s.m.mPeriodTransform
        /\ y.mPeroidid = s.m.mPeroidid /\ y.suspended = s.m.suspended
        /\ y.mRectRedraws = s.m.mRectRedraws /\ y.mPeriodRedraw = s.m.mPeriodRedraw
    BY <1>1, <2>4, GivenFacts
  <2> HIDE DEF y, r
  <2>7. r \in States
    BY <2>3, <2>5, <2>6 DEF States
  <2>8. /\ r.m = y /\ r.cap = s.cap /\ r.refs = f /\ r.bmps = s.bmps /\ r.lost = s.lost
        /\ r.backs = s.backs /\ r.stale = s.stale
    BY <2>5 DEF States
  <2>9. CountOK(r, G \cup {t})
    <3>1. \A v \in Transform :
             f[v] = (IF v = s.m.mTransform THEN 1 ELSE 0) + (IF v \in G \cup {t} THEN 1 ELSE 0)
      BY <2>2, <2>3 DEF CountOK
    <3>2. s.m.mTransform # None => u[s.m.mTransform]
      BY <1>1, <2>2, <2>4 DEF CountOK
    <3>3. \A v \in Transform : v \in G \cup {t} => u[v]
      BY <2>4 DEF CountOK
    <3>4. s.m.mPeriodTransform => s.m.mTransform # None
      BY DEF CountOK
    <3> QED BY <2>6, <2>8, <3>1, <3>2, <3>3, <3>4 DEF CountOK
  <2>10. Ready(o, r, t, G)
    BY <1>2, <2>2, <2>6, <2>7, <2>8, <2>9 DEF Ready, BitmapsUpTo
  <2>11. SameWindows(s, r) /\ SameWay(s, r) /\ SamePaint(s, r)
    BY <2>6, <2>8 DEF SameWindows, SameWay, SamePaint
  <2> QED BY <1>4, <2>6, <2>8, <2>10, <2>11 DEF r
<1> QED BY <1>3, <1>4

-----------------------------------------------------------------------------
(* What a handler calls while a change is made, c with the new window w *)

Call == [do : {"nothing", "redraw", "back", "window", "dialog"}, bDelay : BOOLEAN,
         t : Transform \cup {None}]

Tellable(o, s, c, w) ==
    /\ c \in Call /\ (c.t # None => ~s.m.used[c.t])
    /\ Shows(c) => w \in Window
    /\ o => c.do \in {"nothing", "redraw"}

LEMMA CallFacts ==
    /\ Harmless \subseteq Call /\ Nothing \in Call /\ Nothing.do = "nothing" /\ Nothing.t = None
    /\ \A c \in Harmless : c.do \in {"nothing", "redraw"} /\ c.t = None
    /\ \A T \in SUBSET (Transform \cup {None}) : \A c \in Change(T) : c \in Call /\ c.t \in T
<1>1. Nothing \in Call /\ Nothing.do = "nothing" /\ Nothing.t = None
  BY DEF Nothing, Call
<1>2. \A c \in [do : {"redraw"}, bDelay : BOOLEAN, t : {None}] :
         c \in Call /\ c.do = "redraw" /\ c.t = None
  BY DEF Call
<1>3. \A T \in SUBSET (Transform \cup {None}) : \A c \in Change(T) : c \in Call /\ c.t \in T
  BY DEF Change, Call
<1> QED BY <1>1, <1>2, <1>3 DEF Harmless

LEMMA TellableAfter ==
    ASSUME NEW o, NEW s, NEW r, NEW c, NEW w, r.m.used = s.m.used, Tellable(o, s, c, w)
    PROVE  Tellable(o, r, c, w)
BY DEF Tellable

LEMMA NothingTold ==
    ASSUME NEW o, NEW s, NEW w
    PROVE  Tellable(o, s, Nothing, w) /\ CalledBack(s, Nothing, w) = s
BY CallFacts DEF Tellable, CalledBack, Shows

\* The transition of the call around it stays, whatever the handler calls.
LEMMA CalledBackFacts ==
    ASSUME NEW o, NEW s, NEW t, NEW G, NEW S, Under(o, s, t, G, S),
           NEW c, NEW w, Tellable(o, s, c, w)
    PROVE  LET r == CalledBack(s, c, w)
           IN  Under(o, r, t, G, S) /\ Calmer(s, r) /\ (o => SameWay(s, r))
<1> DEFINE r == CalledBack(s, c, w)
           g == Given(s, c.t)
           H == G \cup {c.t}
<1>1. /\ s \in States /\ CountOK(s, G) /\ c \in Call
      /\ c.do \in {"nothing", "redraw", "back", "window", "dialog"} /\ c.bDelay \in BOOLEAN
      /\ c.t \in Transform \cup {None}
  BY DEF Under, Tellable, Call
<1>2. CASE c.do = "nothing" \/ GetTopWindow(s) = None
  <2>1. r = s
    BY <1>2 DEF CalledBack
  <2> HIDE DEF r
  <2> QED BY <2>1 DEF Calmer, SameWay, r
<1>3. CASE c.do = "redraw" /\ GetTopWindow(s) # None
  <2>1. r = Redraw(s, All, c.bDelay)
    BY <1>3 DEF CalledBack
  <2> HIDE DEF r
  <2>2. Under(o, r, t, G, S) /\ Onward(s, r)
    BY <1>1, <2>1, UnderRedrawn
  <2> QED BY <2>2 DEF Onward, r
<1>4. CASE c.do \in {"back", "window", "dialog"} /\ GetTopWindow(s) # None
  <2>1. ~o /\ (Shows(c) => w \in Window)
    BY <1>4 DEF Tellable
  <2>2. c.t # None => ~s.m.used[c.t]
    BY DEF Tellable
  <2>3. Ready(FALSE, g, c.t, G) /\ g.cap = s.cap
    BY <1>1, <2>2, GivenReady
  <2> HIDE DEF g
  <2>4. c.t # None => c.t \notin G
    BY <2>3 DEF Ready
  <2>5. r \in States /\ CountOK(r, G) /\ Calmer(g, r)
    <3>1. CASE c.do = "back"
      <4>1. r = BackLater(g, c.t)
        BY <1>4, <3>1 DEF CalledBack, g
      <4> HIDE DEF r
      <4>2. r \in States /\ CountOK(r, G) /\ r.cap = g.cap
        BY <1>1, <2>3, <4>1, BackLaterFacts
      <4> QED BY <4>2 DEF Calmer
    <3>2. CASE c.do = "window"
      <4> DEFINE left == WindowLeft(g, c.t, TRUE)
                 put == WindowPut(left, w)
                 q == Release(Performed(SetTopWindow(put, c.t, w), c.t, FALSE), c.t)
      <4>1. w \in Window
        BY <2>1, <3>2 DEF Shows
      <4>2. Under(FALSE, left, c.t, H, {"old"}) /\ Onward(g, left)
        BY <1>1, <2>3, WindowLeftFacts
      <4>3. r = q
        BY <1>4, <3>2 DEF CalledBack, g, WindowShown
      <4> HIDE DEF left, H
      <4>4. Under(FALSE, put, c.t, H, {"old"}) /\ Onward(left, put)
        BY <4>1, <4>2, WindowPutFacts
      <4> HIDE DEF put, r
      <4>5. Finished(FALSE, q, c.t, G) /\ Onward(put, q)
        BY <1>1, <2>4, <4>1, <4>4, ShownFacts DEF H
      <4> HIDE DEF q
      <4>6. Onward(g, q)
        BY <4>2, <4>4, <4>5, OnwardAfter
      <4> QED BY <4>3, <4>5, <4>6 DEF Finished, Onward
    <3>3. CASE c.do = "dialog"
      <4> DEFINE put == DialogPut(g, w, c.t, TRUE)
                 q == Release(Performed(SetTopWindow(put, c.t, w), c.t, TRUE), c.t)
      <4>1. w \in Window
        BY <2>1, <3>3 DEF Shows
      <4>2. Under(FALSE, put, c.t, H, {"old"}) /\ Onward(g, put)
        BY <1>1, <2>3, <4>1, DialogPutFacts
      <4>3. r = q
        BY <1>4, <3>3 DEF CalledBack, g, DialogShown
      <4> HIDE DEF put, r, H
      <4>5. Finished(FALSE, q, c.t, G) /\ Onward(put, q)
        BY <1>1, <2>4, <4>1, <4>2, ShownFacts DEF H
      <4> HIDE DEF q
      <4>6. Onward(g, q)
        BY <4>2, <4>5, OnwardAfter
      <4> QED BY <4>3, <4>5, <4>6 DEF Finished, Onward
    <3> QED BY <1>4, <3>1, <3>2, <3>3
  <2> HIDE DEF r
  <2>6. Calmer(s, r)
    BY <2>3, <2>5 DEF Calmer
  <2>7. Under(o, r, t, G, S)
    BY <2>1, <2>5 DEF Under
  <2> QED BY <2>1, <2>6, <2>7 DEF r
<1> QED BY <1>1, <1>2, <1>3, <1>4

-----------------------------------------------------------------------------
(* The calls that change windows *)

\* What is known after a call that shows a window, or a dialog.
WindowAfter(o, s, r, t, G, push, ok) ==
    /\ r \in States /\ CountOK(r, G) /\ Calmer(s, r)
    /\ ok => Finished(o, r, t, G) /\ (o => SameWay(s, r))
    /\ ~ok /\ push /\ t = None => r = s
DialogAfter(o, s, r, t, G, ok) ==
    /\ r \in States /\ CountOK(r, G) /\ Calmer(s, r)
    /\ ok => /\ Finished(o, r, t, G) /\ (o => SameWay(s, r))
             /\ HeldOK(s) => Plain(r)
    /\ ~ok /\ t = None => r = s

LEMMA ShowWindowFacts ==
    ASSUME NEW o, NEW s, NEW t \in Transform \cup {None}, NEW G, Ready(o, s, t, G),
           NEW w \in Window, NEW push \in BOOLEAN, NEW ok \in BOOLEAN, NEW c, NEW d,
           Tellable(o, s, c, w + 1), Tellable(o, s, d, w + 1), c = Nothing \/ d = Nothing
    PROVE  LET r == ShowWindow(s, w, t, push, ok, c, d)
           IN  WindowAfter(o, s, r, t, G, push, ok)
<1> DEFINE left == WindowLeft(s, t, push)
           gone == CalledBack(left, c, w + 1)
           put == WindowPut(gone, w)
           told == CalledBack(put, d, w + 1)
           done == Release(Performed(SetTopWindow(told, t, w), t, FALSE), t)
           r == ShowWindow(s, w, t, push, ok, c, d)
           H == G \cup {t}
<1>1. t # None => t \notin G
  BY DEF Ready
<1>2. /\ Under(o, left, t, H, {"old"}) /\ Onward(s, left)
      /\ push /\ t = None => left = s
  BY WindowLeftFacts
<1>3. r = (IF ok THEN done ELSE Release(left, t))
  BY DEF ShowWindow, WindowShown
<1> HIDE DEF left, H, r
<1>4. CASE ok
  <2>1. Under(o, gone, t, H, {"old"}) /\ Calmer(left, gone) /\ (o => SameWay(left, gone))
    BY <1>2, TellableAfter, CalledBackFacts DEF Onward
  <2>2. c = Nothing => gone = left
    BY NothingTold
  <2> HIDE DEF gone
  <2>3. Under(o, put, t, H, {"old"}) /\ Onward(gone, put)
    BY <2>1, WindowPutFacts
  <2> HIDE DEF put
  <2>4. Tellable(o, put, d, w + 1)
    <3>1. CASE d = Nothing
      BY <3>1, NothingTold
    <3>2. CASE c = Nothing
      <4>1. put.m.used = s.m.used
        BY <1>2, <2>2, <2>3, <3>2 DEF Onward
      <4> QED BY <4>1, TellableAfter
    <3> QED BY <3>1, <3>2
  <2>5. Under(o, told, t, H, {"old"}) /\ Calmer(put, told) /\ (o => SameWay(put, told))
    BY <2>3, <2>4, CalledBackFacts
  <2> HIDE DEF told
  <2>6. Finished(o, done, t, G) /\ Onward(told, done)
    BY <1>1, <2>5, ShownFacts DEF H
  <2> HIDE DEF done
  <2>7. Calmer(s, done)
    BY <1>2, <2>1, <2>3, <2>5, <2>6, CalmerAfter DEF Onward
  <2>8. o => SameWay(s, done)
    BY <1>2, <2>1, <2>3, <2>5, <2>6 DEF Onward, SameWay
  <2>9. r = done
    BY <1>3, <1>4
  <2> QED BY <1>4, <2>6, <2>7, <2>8, <2>9 DEF Finished, WindowAfter, r
<1>5. CASE ~ok
  <2> DEFINE q == Release(left, t)
  <2>1. q \in States /\ CountOK(q, G) /\ Onward(left, q)
    BY <1>1, <1>2, UnderReleased DEF H
  <2>2. t = None => q = left
    BY DEF Release
  <2>3. r = q
    BY <1>3, <1>5
  <2> HIDE DEF q
  <2>4. Calmer(s, q)
    BY <1>2, <2>1, CalmerAfter DEF Onward
  <2> QED BY <1>2, <1>5, <2>1, <2>2, <2>3, <2>4 DEF WindowAfter, r
<1> QED BY <1>4, <1>5

LEMMA ShowDialogFacts ==
    ASSUME NEW o, NEW s, NEW t \in Transform \cup {None}, NEW G, Ready(o, s, t, G),
           NEW w \in Window, NEW modal \in BOOLEAN, NEW ok \in BOOLEAN, NEW c,
           Tellable(o, s, c, w + 1)
    PROVE  LET r == ShowDialog(s, w, t, modal, ok, c)
           IN  DialogAfter(o, s, r, t, G, ok)
<1> DEFINE put == DialogPut(s, w, t, modal)
           told == CalledBack(put, c, w + 1)
           done == Release(Performed(SetTopWindow(told, t, w), t, TRUE), t)
           set == SetTransform(s, t)
           r == ShowDialog(s, w, t, modal, ok, c)
           H == G \cup {t}
<1>1. t # None => t \notin G
  BY DEF Ready
<1>2. r = (IF ok THEN done ELSE Release(set, t))
  BY DEF ShowDialog, DialogShown
<1> HIDE DEF r
<1>3. CASE ok
  <2>1. /\ Under(o, put, t, H, {"old"}) /\ Onward(s, put)
        /\ HeldOK(s) => Plain(put)
    BY DialogPutFacts
  <2> HIDE DEF put, H
  <2>2. Under(o, told, t, H, {"old"}) /\ Calmer(put, told) /\ (o => SameWay(put, told))
    BY <2>1, TellableAfter, CalledBackFacts DEF Onward
  <2> HIDE DEF told
  <2>3. Finished(o, done, t, G) /\ Onward(told, done)
    BY <1>1, <2>2, ShownFacts DEF H
  <2> HIDE DEF done
  <2>4. Calmer(s, done) /\ Calmer(put, done)
    BY <2>1, <2>2, <2>3, CalmerAfter DEF Onward
  <2>5. o => SameWay(s, done)
    BY <2>1, <2>2, <2>3 DEF Onward, SameWay
  <2>6. HeldOK(s) => Plain(done)
    BY <2>1, <2>4, PlainAfter
  <2>7. r = done
    BY <1>2, <1>3
  <2> QED BY <1>3, <2>3, <2>4, <2>5, <2>6, <2>7 DEF Finished, DialogAfter, r
<1>4. CASE ~ok
  <2> DEFINE q == Release(set, t)
  <2>1. /\ Under(o, set, t, H, {}) /\ Onward(s, set)
        /\ t = None => set = s
    BY UnderSet
  <2> HIDE DEF set
  <2>2. q \in States /\ CountOK(q, G) /\ Onward(set, q)
    BY <1>1, <2>1, UnderReleased
  <2>3. t = None => q = set
    BY DEF Release
  <2>4. r = q
    BY <1>2, <1>4
  <2> HIDE DEF q
  <2>5. Calmer(s, q)
    BY <2>1, <2>2, CalmerAfter DEF Onward
  <2> QED BY <1>4, <2>1, <2>2, <2>3, <2>4, <2>5 DEF DialogAfter, r
<1> QED BY <1>3, <1>4

LEMMA DestroyDialogFacts ==
    ASSUME NEW o, NEW s, NEW t \in Transform \cup {None}, NEW G, Ready(o, s, t, G)
    PROVE  LET r == DestroyDialog(s, t)
           IN  /\ r \in States /\ CountOK(r, G) /\ Calmer(s, r)
               /\ s.m.mDialog # None => /\ Finished(o, r, t, G) /\ SameWay(s, r)
                                        /\ HeldOK(s) => Plain(r)
               /\ s.m.mDialog = None /\ t = None => r = s
<1> DEFINE dialog == s.m.mDialog
           set == SetTransform(s, t)
           new == SetTopWindow(set, t, dialog)
           dead == Deleted(new, dialog)
           gone == [dead EXCEPT !.m.mDialog = None]
           top == GetTopWindow(gone)
           old == SetBackWindow(gone, t, top)
           done == Performed(old, t, TRUE)
           H == G \cup {t}
           r == DestroyDialog(s, t)
<1>1. s \in States /\ dialog \in Window \cup {None} /\ (t # None => t \notin G)
  BY DEF Ready, States, Manager
<1>2. /\ Under(o, set, t, H, {}) /\ SameWindows(s, set) /\ Onward(s, set)
      /\ t = None => set = s
  BY UnderSet
<1>3. r = Release(IF dialog = None THEN set ELSE done, t)
  BY DEF DestroyDialog
<1> HIDE DEF set, r, H
<1>4. CASE dialog = None
  <2> DEFINE q == Release(set, t)
  <2>1. q \in States /\ CountOK(q, G) /\ Onward(set, q)
    BY <1>1, <1>2, UnderReleased DEF H
  <2>2. t = None => q = set
    BY DEF Release
  <2>3. r = q
    BY <1>3, <1>4
  <2> HIDE DEF q
  <2>4. Calmer(s, q)
    BY <1>2, <2>1, CalmerAfter DEF Onward
  <2> QED BY <1>2, <1>4, <2>1, <2>2, <2>3, <2>4 DEF r
<1>5. CASE dialog # None
  <2>0. set.m.mDialog = dialog
    BY <1>2 DEF SameWindows
  <2> HIDE DEF dialog
  <2>1. Under(o, new, t, H, {"new"}) /\ SameWindows(set, new) /\ Onward(set, new)
    <3>1. {} \in SUBSET {"old", "new"} /\ "new" \in {"old", "new"} /\ "new" \notin {}
      OBVIOUS
    <3> QED BY <1>1, <1>2, <3>1, UnderBitmaps DEF SetTopWindow
  <2> HIDE DEF new
  <2>2. /\ Under(o, dead, t, H, {"new"}) /\ Onward(new, dead)
        /\ Forgotten(new, dead, dialog)
    BY <1>1, <1>5, <2>1, UnderDeleted
  <2> HIDE DEF dead
  <2>3. /\ gone \in States /\ SameTransforms(dead, gone) /\ SameBitmaps(dead, gone)
        /\ SameWay(dead, gone) /\ gone.cap = dead.cap
    BY <2>2, DialogGone DEF Under
  <2> HIDE DEF gone
  <2>4. Under(o, gone, t, H, {"new"}) /\ Onward(dead, gone)
    BY <2>2, <2>3, UnderChanged, OnwardSame DEF SameTransforms
  <2>5. top \in Window \cup {None}
    BY <2>3, TopFacts
  <2> HIDE DEF top
  <2>6. Under(o, old, t, H, {"old", "new"}) /\ Onward(gone, old)
    <3>1. /\ {"new"} \in SUBSET {"old", "new"} /\ "old" \in {"old", "new"} /\ "old" \notin {"new"}
          /\ {"new"} # {}
      OBVIOUS
    <3> QED BY <2>4, <2>5, <3>1, UnderBitmaps DEF SetBackWindow
  <2> HIDE DEF old
  <2>7. Finished(o, done, t, H) /\ Onward(old, done)
    BY <2>6, PerformedFacts
  <2> HIDE DEF done
  <2> DEFINE q == Release(done, t)
  <2>8. Finished(o, q, t, G) /\ Onward(done, q)
    BY <1>1, <2>7, FinishedReleased DEF H
  <2>9. r = q
    BY <1>3, <1>5
  <2> HIDE DEF q
  <2>10. Onward(s, new) /\ Onward(new, gone) /\ Onward(gone, q)
    BY <1>2, <2>1, <2>2, <2>4, <2>6, <2>7, <2>8, OnwardAfter
  <2>11. HeldOK(s) => Plain(q)
    <3> SUFFICES ASSUME HeldOK(s) PROVE Plain(q)
      OBVIOUS
    <3>1. SameWindows(s, new)
      BY <1>2, <2>1 DEF SameWindows
    <3>2. HeldOK(new) /\ new.m.mDialog = dialog
      BY <2>10, <3>1, HeldAfter DEF Onward, SameWindows, dialog
    <3>3. Forgotten(new, gone, dialog) /\ new \in States
      BY <2>1, <2>2, <2>3 DEF Forgotten, Under
    <3>4. Plain(gone)
      BY <2>10, <3>2, <3>3, DialogForgotten DEF Onward
    <3> QED BY <2>10, <3>4, PlainAfter DEF Onward
  <2>12. Onward(s, q)
    BY <2>10, OnwardAfter
  <2> QED BY <1>5, <2>8, <2>9, <2>11, <2>12 DEF Finished, Onward, r, dialog
<1> QED BY <1>4, <1>5

\* The window on top goes, and the number of the handler with it.
LEMMA WindowTakenFacts ==
    ASSUME NEW o, NEW s, NEW t \in Transform \cup {None}, NEW G, Under(o, s, t, G, {}),
           GetTopWindow(s) # None
    PROVE  LET r == WindowTaken(s, t)
           IN  /\ Under(o, r, t, G, {"new"}) /\ Calmer(s, r) /\ r.backs = s.backs
               /\ r.m.mPeroidid = FALSE /\ r.m.suspended = s.m.suspended
               /\ r.m.used = s.m.used
               /\ HeldOK(s) => Plain(r)
<1> DEFINE w == GetTopWindow(s)
           less == [s EXCEPT !.m.mWndStack = Front(@)]
           new == SetTopWindow(less, t, w)
           dead == Deleted(new, w)
           gone == [dead EXCEPT !.m.mPeroidid = FALSE]
<1>1. s \in States /\ w \in Window /\ Front(s.m.mWndStack) \in Seq(Window)
  <2>1. s \in States
    BY DEF Under
  <2> QED BY <2>1, TopFacts
<1>2. WindowTaken(s, t) = gone
  BY DEF WindowTaken
<1>3. Under(o, less, t, G, {}) /\ Onward(s, less)
  <2> DEFINE q == Front(s.m.mWndStack)
  <2>1. q \in Seq(Window) /\ less = [s EXCEPT !.m.mWndStack = q]
    BY <1>1 DEF States
  <2> HIDE DEF q, less
  <2>2. /\ less \in States /\ SameTransforms(s, less) /\ SameBitmaps(s, less)
        /\ SameWay(s, less) /\ less.cap = s.cap
    BY <1>1, <2>1, StackChanged
  <2> QED BY <2>2, UnderChanged, OnwardSame DEF SameTransforms
<1> HIDE DEF less
<1>4. Under(o, new, t, G, {"new"}) /\ Onward(less, new)
  <2>1. {} \in SUBSET {"old", "new"} /\ "new" \in {"old", "new"} /\ "new" \notin {}
    OBVIOUS
  <2> HIDE DEF w
  <2> QED BY <1>1, <1>3, <2>1, UnderBitmaps DEF SetTopWindow
<1> HIDE DEF new
<1>5. Under(o, dead, t, G, {"new"}) /\ Onward(new, dead) /\ Forgotten(new, dead, w)
  <2> HIDE DEF w
  <2> QED BY <1>1, <1>4, UnderDeleted
<1> HIDE DEF dead
<1>6. /\ Under(o, gone, t, G, {"new"}) /\ gone.backs = dead.backs /\ gone.cap = dead.cap
      /\ gone.m.mPeroidid = FALSE /\ gone.m.suspended = dead.m.suspended
      /\ gone.m.used = dead.m.used
  <2> DEFINE y == [dead.m EXCEPT !.mPeroidid = FALSE]
  <2>1. dead \in States /\ dead.m \in Manager
    BY <1>5 DEF Under, States
  <2>2. gone = [dead EXCEPT !.m = y]
    BY <2>1 DEF States
  <2>3. /\ y \in Manager /\ y.mPeroidid = FALSE /\ y.suspended = dead.m.suspended
        /\ y.mTransform = dead.m.mTransform /\ y.mPeriodTransform = dead.m.mPeriodTransform
        /\ y.used = dead.m.used
    BY <2>1, WayFacts
  <2> HIDE DEF y, gone
  <2>4. /\ gone \in States /\ gone.m = y /\ gone.cap = dead.cap /\ gone.refs = dead.refs
        /\ gone.bmps = dead.bmps /\ gone.lost = dead.lost /\ gone.backs = dead.backs
    BY <2>1, <2>2, <2>3, ManagerChanged
  <2>5. Under(o, gone, t, G, {"new"})
    BY <1>5, <2>3, <2>4, UnderChanged DEF SameTransforms, SameBitmaps
  <2> QED BY <2>3, <2>4, <2>5
<1> HIDE DEF gone
<1>7. Onward(s, dead)
  BY <1>3, <1>4, <1>5, OnwardAfter
<1>8. Calmer(s, gone)
  BY <1>6, <1>7 DEF Onward, Calmer
<1>9. HeldOK(s) => Plain(gone)
  <2> SUFFICES ASSUME HeldOK(s), NEW v \in Window, gone.cap[v] # None PROVE gone.cap[v] = v
    BY DEF Plain
  <2>1. v # w
    BY <1>5, <1>6 DEF Forgotten
  <2>2. s.cap[v] = gone.cap[v]
    BY <1>8 DEF Calmer
  <2> QED BY <2>1, <2>2 DEF HeldOK
<1> QED BY <1>2, <1>6, <1>7, <1>8, <1>9 DEF Onward, SameWay

LEMMA BackInternalFacts ==
    ASSUME NEW o, NEW s, NEW t \in Transform \cup {None}, NEW G, Under(o, s, t, G, {}),
           GetTopWindow(s) # None, NEW c, NEW w, Tellable(o, s, c, w)
    PROVE  LET r == BackInternal(s, t, c, w)
           IN  /\ Finished(o, r, t, G) /\ Calmer(s, r)
               /\ o => /\ r.backs = s.backs /\ r.m.mPeroidid = FALSE
                       /\ r.m.suspended = s.m.suspended
               /\ HeldOK(s) => Plain(r)
<1> DEFINE taken == WindowTaken(s, t)
           told == CalledBack(taken, c, w)
           top == GetTopWindow(told)
           old == SetBackWindow(told, t, top)
           done == Performed(old, t, TRUE)
<1>1. /\ Under(o, taken, t, G, {"new"}) /\ Calmer(s, taken) /\ taken.backs = s.backs
      /\ taken.m.mPeroidid = FALSE /\ taken.m.suspended = s.m.suspended
      /\ taken.m.used = s.m.used
      /\ HeldOK(s) => Plain(taken)
  BY WindowTakenFacts
<1>2. BackInternal(s, t, c, w) = done
  BY DEF BackInternal
<1> HIDE DEF taken
<1>3. Under(o, told, t, G, {"new"}) /\ Calmer(taken, told) /\ (o => SameWay(taken, told))
  BY <1>1, TellableAfter, CalledBackFacts
<1> HIDE DEF told
<1>4. top \in Window \cup {None}
  BY <1>3, TopFacts DEF Under
<1> HIDE DEF top
<1>5. Under(o, old, t, G, {"old", "new"}) /\ Onward(told, old)
  <2>1. /\ {"new"} \in SUBSET {"old", "new"} /\ "old" \in {"old", "new"} /\ "old" \notin {"new"}
        /\ {"new"} # {}
    OBVIOUS
  <2> QED BY <1>3, <1>4, <2>1, UnderBitmaps DEF SetBackWindow
<1> HIDE DEF old
<1>6. Finished(o, done, t, G) /\ Onward(old, done)
  BY <1>5, PerformedFacts
<1> HIDE DEF done
<1>7. Calmer(taken, done) /\ Calmer(s, done)
  BY <1>1, <1>3, <1>5, <1>6, CalmerAfter DEF Onward
<1>8. o => /\ done.backs = s.backs /\ done.m.mPeroidid = FALSE
           /\ done.m.suspended = s.m.suspended
  BY <1>1, <1>3, <1>5, <1>6 DEF Onward, SameWay
<1>9. HeldOK(s) => Plain(done)
  BY <1>1, <1>7, PlainAfter
<1> QED BY <1>2, <1>6, <1>7, <1>8, <1>9

\* Back at once; the handler that was known goes on, without a number.
LEMMA BackAtOnceFacts ==
    ASSUME NEW o, NEW s, NEW t \in Transform \cup {None}, NEW G, Ready(o, s, t, G),
           GetTopWindow(s) # None, NEW c, NEW w, Tellable(o, s, c, w)
    PROVE  LET r == BackAtOnce(s, t, c, w)
           IN  /\ Finished(o, r, t, G) /\ Calmer(s, r)
               /\ o => /\ r.backs = s.backs /\ r.m.mPeroidid = FALSE
                       /\ r.m.suspended = s.m.suspended
               /\ HeldOK(s) => Plain(r)
<1> DEFINE set == SetTransform(s, t)
           done == BackInternal(set, t, c, w)
           r == Release(done, t)
           H == G \cup {t}
<1>1. Under(o, set, t, H, {}) /\ SameWindows(s, set) /\ Onward(s, set)
  BY UnderSet
<1>2. BackAtOnce(s, t, c, w) = r
  BY DEF BackAtOnce
<1> HIDE DEF set, H
<1>3. GetTopWindow(set) # None /\ Tellable(o, set, c, w)
  BY <1>1, TellableAfter DEF GetTopWindow, SameWindows, Onward
<1>4. /\ Finished(o, done, t, H) /\ Calmer(set, done)
      /\ o => /\ done.backs = set.backs /\ done.m.mPeroidid = FALSE
              /\ done.m.suspended = set.m.suspended
      /\ HeldOK(set) => Plain(done)
  BY <1>1, <1>3, BackInternalFacts
<1> HIDE DEF done
<1>5. Finished(o, r, t, G) /\ Onward(done, r)
  BY <1>4, FinishedReleased DEF H, Ready
<1> HIDE DEF r
<1>6. Calmer(s, r)
  BY <1>1, <1>4, <1>5, CalmerAfter DEF Onward
<1>7. o => /\ r.backs = s.backs /\ r.m.mPeroidid = FALSE
           /\ r.m.suspended = s.m.suspended
  BY <1>1, <1>4, <1>5 DEF Onward, SameWay
<1>8. HeldOK(s) => Plain(r)
  BY <1>1, <1>4, <1>5, HeldAfter, PlainAfter DEF Onward
<1> QED BY <1>2, <1>5, <1>6, <1>7, <1>8

\* What is known after the delayed way back.
WentBack(o, s, r) ==
    /\ r \in States /\ CountOK(r, {}) /\ Calmer(s, r)
    /\ o /\ GetTopWindow(s) # None =>
          /\ Finished(o, r, s.m.mTransform, {}) /\ r.backs = s.backs - 1
          /\ r.m.mPeroidid = FALSE /\ r.m.suspended = s.m.suspended
          /\ HeldOK(s) => Plain(r)

\* The delayed way back: with the transition that waited for it.
LEMMA DelayBackFacts ==
    ASSUME NEW o, NEW s \in States, CountOK(s, {}), o => BitmapsOK(s) /\ ~s.m.mPeriodTransform,
           NEW c, NEW w, Tellable(o, s, c, w)
    PROVE  LET r == DelayBack(s, c, w)
           IN  WentBack(o, s, r)
<1> DEFINE t == s.m.mTransform
           done == BackInternal(s, t, c, w)
           k == done.backs - 1
           r == [done EXCEPT !.backs = k]
<1>1. t \in Transform \cup {None} /\ Under(o, s, t, {}, {}) /\ s.backs \in Int
  BY DEF States, Manager, Under, BitmapsOK, BitmapsUpTo
<1>2. /\ done \in States /\ CountOK(done, {}) /\ Calmer(s, done)
      /\ o /\ GetTopWindow(s) # None =>
            /\ Finished(o, done, t, {}) /\ done.backs = s.backs
            /\ done.m.mPeroidid = FALSE /\ done.m.suspended = s.m.suspended
            /\ HeldOK(s) => Plain(done)
  <2>1. CASE GetTopWindow(s) = None
    <3>1. done = s
      BY <2>1 DEF BackInternal
    <3> QED BY <2>1, <3>1 DEF Calmer
  <2>2. CASE GetTopWindow(s) # None
    <3> HIDE DEF t
    <3>1. /\ Finished(o, done, t, {}) /\ Calmer(s, done)
          /\ o => /\ done.backs = s.backs /\ done.m.mPeroidid = FALSE
                  /\ done.m.suspended = s.m.suspended
          /\ HeldOK(s) => Plain(done)
      BY <1>1, <2>2, BackInternalFacts
    <3> HIDE DEF done
    <3>2. done \in States /\ CountOK(done, {})
      BY <3>1 DEF Finished
    <3> QED BY <3>1, <3>2
  <2> QED BY <2>1, <2>2
<1>3. DelayBack(s, c, w) = r
  BY DEF DelayBack
<1> HIDE DEF done, t
<1>4. k \in Int
  BY <1>2 DEF States
<1> HIDE DEF k
<1>5. r \in States
  BY <1>2, <1>4 DEF States
<1>6. /\ r.m = done.m /\ r.cap = done.cap /\ r.refs = done.refs /\ r.bmps = done.bmps
      /\ r.lost = done.lost /\ r.backs = k /\ r.stale = done.stale
  BY <1>2 DEF States
<1> HIDE DEF r
<1>7. CountOK(r, {}) /\ Calmer(s, r) /\ (Plain(done) => Plain(r))
  BY <1>2, <1>6 DEF CountOK, Calmer, Plain
<1>8. Finished(o, done, t, {}) => Finished(o, r, t, {})
  BY <1>5, <1>6, <1>7 DEF Finished, BitmapsUpTo, PaintOK
<1> QED BY <1>2, <1>3, <1>5, <1>6, <1>7, <1>8 DEF WentBack, t, k
-----------------------------------------------------------------------------
(* Every step keeps the invariant *)

\* The state of the next step is the one that an operation returns.
LEMMA StateAfter ==
    ASSUME NEW r \in States, StateBecomes(r)
    PROVE  State' = r
<1>1. r = [m |-> r.m, cap |-> r.cap, pushed |-> r.pushed, refs |-> r.refs, bmps |-> r.bmps,
           lost |-> r.lost, backs |-> r.backs, stale |-> r.stale]
  BY DEF States
<1>2. State' = [m |-> m', cap |-> cap', pushed |-> pushed', refs |-> refs', bmps |-> bmps',
                lost |-> lost', backs |-> backs', stale |-> stale']
  BY DEF State
<1> QED BY <1>1, <1>2 DEF StateBecomes

\* What the fields of the state are called by themselves.
LEMMA StateFields ==
    /\ State.m = m /\ State.cap = cap /\ State.pushed = pushed /\ State.refs = refs
    /\ State.bmps = bmps /\ State.lost = lost /\ State.backs = backs /\ State.stale = stale
BY DEF State

\* The invariant after a step that leaves the state r.
LEMMA InvAfter ==
    ASSUME ManagerInv, NEW r \in States, StateBecomes(r), CountOK(r, {}),
           made' \in Nat, down' \in Window \cup {None, Up}, missed' \in BOOLEAN,
           orderly' = orderly, orderly => OrderOK(r),
           missed' \/ (PenOK(r, down') /\ ~astray')
    PROVE  ManagerInv'
<1>1. State' = r
  BY StateAfter
<1>2. orderly' \in BOOLEAN
  BY DEF ManagerInv
<1> QED BY <1>1, <1>2 DEF ManagerInv

\* The invariant after a step in which no window takes the pen.
LEMMA CalmStep ==
    ASSUME ManagerInv, NEW r \in States, StateBecomes(r), CountOK(r, {}), Calmer(State, r),
           made' \in Nat, down' = down, astray' = astray, missed' = missed,
           orderly' = orderly, orderly => OrderOK(r)
    PROVE  ManagerInv'
<1>1. missed' \/ (PenOK(r, down') /\ ~astray')
  BY PenAfter DEF ManagerInv
<1>2. down' \in Window \cup {None, Up} /\ missed' \in BOOLEAN
  BY DEF ManagerInv
<1> QED BY <1>1, <1>2, InvAfter

\* A transition is made for a call of the application.
LEMMA GivenAway ==
    ASSUME ManagerInv, NEW t \in NewTransform(State)
    PROVE  LET s == Given(State, t)
           IN  /\ Ready(orderly, s, t, {}) /\ SameWindows(State, s) /\ SameWay(State, s)
               /\ SamePaint(State, s) /\ s.cap = State.cap
               /\ s.m.mTransform = State.m.mTransform
               /\ s.m.mPeriodTransform = State.m.mPeriodTransform
               /\ t \in Transform \cup {None} /\ s \in States
<1>1. t \in Transform \cup {None} /\ (t # None => ~State.m.used[t])
  BY DEF NewTransform
<1>2. /\ State \in States /\ CountOK(State, {})
      /\ orderly => BitmapsOK(State) /\ State.m.mTransform \notin {}
  BY DEF ManagerInv, OrderOK
<1> QED BY <1>1, <1>2, GivenReady DEF Ready

\* A handler may be told of the change, whatever it calls.
LEMMA CallReady ==
    ASSUME ManagerInv, NEW t, NEW c \in CallAfter(t), NEW w, Shows(c) => w \in Window
    PROVE  Tellable(orderly, Given(State, t), c, w)
<1> DEFINE s == Given(State, t)
           T == NewTransform(s)
<1>1. T \subseteq Transform \cup {None} /\ \A u \in T : u # None => ~s.m.used[u]
  BY DEF NewTransform
<1>2. c \in Harmless \/ (~orderly /\ c \in Change(T))
  BY DEF CallAfter
<1> HIDE DEF s, T
<1>3. CASE c \in Harmless
  BY <1>3, CallFacts DEF Tellable, s
<1>4. CASE ~orderly /\ c \in Change(T)
  <2>1. c \in Call /\ c.t \in T
    BY <1>1, <1>4, CallFacts
  <2> QED BY <1>1, <1>4, <2>1 DEF Tellable, s
<1> QED BY <1>2, <1>3, <1>4

\* Without a delayed way back there is none after a change of windows either.
LEMMA Undisturbed ==
    ASSUME ManagerInv, orderly, ~m.mPeroidid, Running, NEW r, r.backs = backs,
           ~r.m.mPeroidid, r.m.suspended = m.suspended
    PROVE  WayOK(r)
<1>1. WayOK(State)
  BY DEF ManagerInv, OrderOK
<1> QED BY <1>1, StateFields DEF WayOK, Running

LEMMA ShowWindowStep == ManagerInv /\ AppShowWindow => ManagerInv'
<1> SUFFICES ASSUME ManagerInv, AppShowWindow PROVE ManagerInv'
  OBVIOUS
<1> DEFINE Heard(told, x, c) == IF told = x THEN c ELSE Nothing
<1> DEFINE Shown(t, push, ok, c, told) ==
              /\ made + NewWindows(c) < MaxWindows /\ Disciplined
              /\ orderly => ok \/ (push /\ t = None)
              /\ orderly => m.mDialog = None \/ GetCapture(State) # m.mDialog
              /\ StateBecomes(ShowWindow(Given(State, t), made + 1, t, push, ok,
                                         Heard(told, "background", c), Heard(told, "create", c)))
              /\ made' = made + 1 + NewWindows(c)
<1>0. PICK t \in NewTransform(State), push \in BOOLEAN, ok \in BOOLEAN :
          \E c \in CallAfter(t), told \in {"background", "create"} : Shown(t, push, ok, c, told)
  BY DEF AppShowWindow
<1>1. PICK c \in CallAfter(t), told \in {"background", "create"} : Shown(t, push, ok, c, told)
  BY <1>0
<1>2. /\ Running /\ down' = down /\ astray' = astray /\ missed' = missed /\ orderly' = orderly
  BY DEF AppShowWindow
<1> DEFINE s == Given(State, t)
           w == made + 1
           x == Heard(told, "background", c)
           y == Heard(told, "create", c)
           r == ShowWindow(s, w, t, push, ok, x, y)
<1>3. w \in Window /\ made' \in Nat /\ (Shows(c) => w + 1 \in Window)
  BY <1>1, ManagerAssumption DEF ManagerInv, Window, NewWindows
<1>4. /\ Ready(orderly, s, t, {}) /\ SameWindows(State, s) /\ SameWay(State, s)
      /\ SamePaint(State, s) /\ s.cap = State.cap
      /\ s.m.mTransform = State.m.mTransform
      /\ s.m.mPeriodTransform = State.m.mPeriodTransform
      /\ t \in Transform \cup {None}
  BY GivenAway
<1>5. Tellable(orderly, s, c, w + 1)
  BY <1>3, CallReady
<1>6. StateBecomes(r)
  BY <1>1
<1> HIDE DEF s, w
<1>7. /\ x = c \/ x = Nothing
      /\ y = c \/ y = Nothing
      /\ x = Nothing \/ y = Nothing
  OBVIOUS
<1> HIDE DEF x, y
<1>8. Tellable(orderly, s, x, w + 1) /\ Tellable(orderly, s, y, w + 1)
  BY <1>5, <1>7, NothingTold
<1>9a. WindowAfter(orderly, s, r, t, {}, push, ok)
  BY <1>3, <1>4, <1>7, <1>8, ShowWindowFacts
<1> HIDE DEF r
<1>9. /\ r \in States /\ CountOK(r, {}) /\ Calmer(s, r)
      /\ ok => Finished(orderly, r, t, {}) /\ (orderly => SameWay(s, r))
      /\ ~ok /\ push /\ t = None => r = s
  BY <1>9a DEF WindowAfter
<1>10. Calmer(State, r)
  BY <1>4, <1>9 DEF Calmer
<1>11. ASSUME orderly PROVE OrderOK(r)
  <2>1. OrderOK(State) /\ ~m.mPeroidid /\ State \in States
    BY <1>1, <1>11 DEF ManagerInv, Disciplined
  <2>2. CASE ok
    <3>1. Plain(State)
      <4> SUFFICES ASSUME NEW v \in Window, cap[v] # None PROVE cap[v] = v
        BY StateFields DEF Plain
      <4>1. HeldOK(State) /\ v # None
        BY <2>1, WindowsAreNumbers DEF OrderOK
      <4> QED BY <1>1, <1>11, <4>1, StateFields DEF HeldOK, GetCapture
    <3>2. Plain(r)
      BY <1>10, <3>1, PlainAfter
    <3>3. SameWay(State, r)
      BY <1>4, <1>9, <1>11, <2>2 DEF SameWay
    <3>4. WayOK(r)
      BY <1>2, <1>11, <2>1, <3>3, Undisturbed, StateFields DEF SameWay
    <3> QED BY <1>4, <1>9, <1>11, <2>2, <3>2, <3>4, FinishedOrder
  <2>3. CASE ~ok
    <3>1. r = State
      BY <1>1, <1>9, <1>11, <2>3 DEF s, Given
    <3> QED BY <2>1, <3>1
  <2> QED BY <2>2, <2>3
<1> QED BY <1>2, <1>3, <1>6, <1>9, <1>10, <1>11, CalmStep

LEMMA ShowDialogStep == ManagerInv /\ AppShowDialog => ManagerInv'
<1> SUFFICES ASSUME ManagerInv, AppShowDialog PROVE ManagerInv'
  OBVIOUS
<1> DEFINE Shown(t, modal, ok, c) ==
              /\ made + NewWindows(c) < MaxWindows /\ Disciplined
              /\ orderly => ok \/ t = None
              /\ StateBecomes(ShowDialog(Given(State, t), made + 1, t, modal, ok, c))
              /\ made' = made + 1 + NewWindows(c)
<1>0. PICK t \in NewTransform(State), modal \in BOOLEAN, ok \in BOOLEAN :
          \E c \in CallAfter(t) : Shown(t, modal, ok, c)
  BY DEF AppShowDialog
<1>1. PICK c \in CallAfter(t) : Shown(t, modal, ok, c)
  BY <1>0
<1>2. /\ Running /\ down' = down /\ astray' = astray /\ missed' = missed /\ orderly' = orderly
  BY DEF AppShowDialog
<1> DEFINE s == Given(State, t)
           w == made + 1
           r == ShowDialog(s, w, t, modal, ok, c)
<1>3. w \in Window /\ made' \in Nat /\ (Shows(c) => w + 1 \in Window)
  BY <1>1, ManagerAssumption DEF ManagerInv, Window, NewWindows
<1>4. /\ Ready(orderly, s, t, {}) /\ SameWindows(State, s) /\ SameWay(State, s)
      /\ s.cap = State.cap /\ t \in Transform \cup {None}
  BY GivenAway
<1>5. Tellable(orderly, s, c, w + 1)
  BY <1>3, CallReady
<1>6. StateBecomes(r)
  BY <1>1
<1> HIDE DEF s, w
<1>7a. DialogAfter(orderly, s, r, t, {}, ok)
  BY <1>3, <1>4, <1>5, ShowDialogFacts
<1> HIDE DEF r
<1>7. /\ r \in States /\ CountOK(r, {}) /\ Calmer(s, r)
      /\ ok => /\ Finished(orderly, r, t, {}) /\ (orderly => SameWay(s, r))
               /\ HeldOK(s) => Plain(r)
      /\ ~ok /\ t = None => r = s
  BY <1>7a DEF DialogAfter
<1>8. Calmer(State, r)
  BY <1>4, <1>7 DEF Calmer
<1>9. ASSUME orderly PROVE OrderOK(r)
  <2>1. OrderOK(State) /\ ~m.mPeroidid
    BY <1>1, <1>9 DEF ManagerInv, Disciplined
  <2>2. CASE ok
    <3>1. HeldOK(s)
      BY <1>4, <2>1, HeldAfter DEF OrderOK, Calmer
    <3>2. SameWay(State, r)
      BY <1>4, <1>7, <1>9, <2>2 DEF SameWay
    <3>3. WayOK(r)
      BY <1>2, <1>9, <2>1, <3>2, Undisturbed, StateFields DEF SameWay
    <3> QED BY <1>4, <1>7, <1>9, <2>2, <3>1, <3>3, FinishedOrder
  <2>3. CASE ~ok
    <3>1. r = State
      BY <1>1, <1>7, <1>9, <2>3 DEF s, Given
    <3> QED BY <2>1, <3>1
  <2> QED BY <2>2, <2>3
<1> QED BY <1>2, <1>3, <1>6, <1>7, <1>8, <1>9, CalmStep

LEMMA DestroyDialogStep == ManagerInv /\ AppDestroyDialog => ManagerInv'
<1> SUFFICES ASSUME ManagerInv, AppDestroyDialog PROVE ManagerInv'
  OBVIOUS
<1>1. PICK t \in NewTransform(State) :
          /\ orderly => m.mDialog # None \/ t = None
          /\ StateBecomes(DestroyDialog(Given(State, t), t))
  BY DEF AppDestroyDialog
<1>2. /\ Running /\ Disciplined
      /\ down' = down /\ astray' = astray /\ missed' = missed /\ orderly' = orderly
      /\ made' = made
  BY DEF AppDestroyDialog, Client
<1> DEFINE s == Given(State, t)
           r == DestroyDialog(s, t)
<1>3. /\ Ready(orderly, s, t, {}) /\ SameWindows(State, s) /\ SameWay(State, s)
      /\ s.cap = State.cap /\ t \in Transform \cup {None}
  BY GivenAway
<1>4. StateBecomes(r)
  BY <1>1
<1> HIDE DEF s
<1>5. /\ r \in States /\ CountOK(r, {}) /\ Calmer(s, r)
      /\ s.m.mDialog # None => /\ Finished(orderly, r, t, {}) /\ SameWay(s, r)
                               /\ HeldOK(s) => Plain(r)
      /\ s.m.mDialog = None /\ t = None => r = s
  BY <1>3, DestroyDialogFacts
<1> HIDE DEF r
<1>6. Calmer(State, r)
  BY <1>3, <1>5 DEF Calmer
<1>7. ASSUME orderly PROVE OrderOK(r)
  <2>1. OrderOK(State) /\ ~m.mPeroidid /\ s.m.mDialog = m.mDialog
    BY <1>2, <1>3, <1>7, StateFields DEF ManagerInv, Disciplined, SameWindows
  <2>2. CASE m.mDialog # None
    <3>1. HeldOK(s)
      BY <1>3, <2>1, HeldAfter DEF OrderOK, Calmer
    <3>2. SameWay(State, r)
      BY <1>3, <1>5, <2>1, <2>2 DEF SameWay
    <3>3. WayOK(r)
      BY <1>2, <1>7, <2>1, <3>2, Undisturbed, StateFields DEF SameWay
    <3> QED BY <1>3, <1>5, <1>7, <2>1, <2>2, <3>1, <3>3, FinishedOrder
  <2>3. CASE m.mDialog = None
    <3>1. r = State
      BY <1>1, <1>5, <1>7, <2>1, <2>3 DEF s, Given
    <3> QED BY <2>1, <3>1
  <2> QED BY <2>2, <2>3
<1>8. made' \in Nat
  BY <1>2 DEF ManagerInv
<1> QED BY <1>2, <1>4, <1>5, <1>6, <1>7, <1>8, CalmStep

LEMMA BackStep == ManagerInv /\ AppBack => ManagerInv'
<1> SUFFICES ASSUME ManagerInv, AppBack PROVE ManagerInv'
  OBVIOUS
<1> DEFINE Left(t, c) ==
              /\ made + NewWindows(c) <= MaxWindows /\ Disciplined
              /\ StateBecomes(BackAtOnce(Given(State, t), t, c, made + 1))
              /\ made' = made + NewWindows(c)
<1>0. PICK t \in NewTransform(State) : \E c \in CallAfter(t) : Left(t, c)
  BY DEF AppBack
<1>1. PICK c \in CallAfter(t) : Left(t, c)
  BY <1>0
<1>2. /\ Running /\ m.mWndStack # <<>>
      /\ down' = down /\ astray' = astray /\ missed' = missed /\ orderly' = orderly
  BY DEF AppBack
<1> DEFINE s == Given(State, t)
           w == made + 1
           r == BackAtOnce(s, t, c, w)
<1>3. made' \in Nat /\ (Shows(c) => w \in Window)
  BY <1>1, ManagerAssumption DEF ManagerInv, Window, NewWindows
<1>4. /\ Ready(orderly, s, t, {}) /\ SameWindows(State, s) /\ SameWay(State, s)
      /\ s.cap = State.cap /\ t \in Transform \cup {None} /\ s \in States
  BY GivenAway
<1>5. Tellable(orderly, s, c, w)
  BY <1>3, CallReady
<1>6. StateBecomes(r)
  BY <1>1
<1> HIDE DEF s, w
<1>7. GetTopWindow(s) # None
  BY <1>2, <1>4, TopFacts, StateFields DEF SameWindows
<1>8. /\ Finished(orderly, r, t, {}) /\ Calmer(s, r)
      /\ orderly => /\ r.backs = s.backs /\ r.m.mPeroidid = FALSE
                    /\ r.m.suspended = s.m.suspended
      /\ HeldOK(s) => Plain(r)
  BY <1>4, <1>5, <1>7, BackAtOnceFacts
<1> HIDE DEF r
<1>9. Calmer(State, r)
  BY <1>4, <1>8 DEF Calmer
<1>10. ASSUME orderly PROVE OrderOK(r)
  <2>1. OrderOK(State) /\ ~m.mPeroidid
    BY <1>1, <1>10 DEF ManagerInv, Disciplined
  <2>2. HeldOK(s)
    BY <1>4, <2>1, HeldAfter DEF OrderOK, Calmer
  <2>3. WayOK(r)
    BY <1>2, <1>4, <1>8, <1>10, <2>1, Undisturbed, StateFields DEF SameWay
  <2> QED BY <1>4, <1>8, <1>10, <2>2, <2>3, FinishedOrder
<1>11. r \in States /\ CountOK(r, {})
  BY <1>8 DEF Finished
<1> QED BY <1>2, <1>3, <1>6, <1>9, <1>10, <1>11, CalmStep

LEMMA BackLaterStep == ManagerInv /\ AppBackLater => ManagerInv'
<1> SUFFICES ASSUME ManagerInv, AppBackLater PROVE ManagerInv'
  OBVIOUS
<1>1. PICK t \in NewTransform(State) :
          /\ orderly => t # None \/ ~m.mPeriodTransform
          /\ StateBecomes(BackLater(Given(State, t), t))
  BY DEF AppBackLater
<1>2. /\ Running /\ m.mWndStack # <<>> /\ Disciplined
      /\ down' = down /\ astray' = astray /\ missed' = missed /\ orderly' = orderly
      /\ made' = made
  BY DEF AppBackLater, Client
<1> DEFINE s == Given(State, t)
           r == BackLater(s, t)
<1>3. /\ Ready(orderly, s, t, {}) /\ SameWindows(State, s) /\ SameWay(State, s)
      /\ SamePaint(State, s) /\ s.cap = State.cap
      /\ s.m.mTransform = State.m.mTransform
      /\ s.m.mPeriodTransform = State.m.mPeriodTransform
      /\ t \in Transform \cup {None}
  BY GivenAway
<1>4. StateBecomes(r)
  BY <1>1
<1> HIDE DEF s
<1>5. /\ r \in States /\ CountOK(r, {}) /\ SameWindows(s, r) /\ SamePaint(s, r)
      /\ r.cap = s.cap
      /\ orderly => BitmapsUpTo(r, t, {})
      /\ orderly /\ t # None => r.m.mTransform = t /\ ~r.m.mPeriodTransform
      /\ t = None => /\ r.m.mTransform = s.m.mTransform
                     /\ r.m.mPeriodTransform = s.m.mPeriodTransform
      /\ r.backs = (IF s.m.mPeroidid THEN s.backs ELSE s.backs + 1)
      /\ r.m.mPeroidid = TRUE /\ r.m.suspended = s.m.suspended
  BY <1>3, BackLaterFacts
<1> HIDE DEF r
<1>6. Calmer(State, r) /\ SameWindows(State, r) /\ SamePaint(State, r)
  BY <1>3, <1>5 DEF Calmer, SameWindows, SamePaint
<1>7. ASSUME orderly PROVE OrderOK(r)
  <2>1. OrderOK(State) /\ ~m.mPeroidid /\ ~m.suspended
    BY <1>2, <1>7 DEF ManagerInv, Disciplined, Running
  <2>2. ~r.m.mPeriodTransform
    BY <1>1, <1>3, <1>5, <1>7, StateFields
  <2>3. BitmapsOK(r)
    BY <1>5, <1>7, <2>2 DEF BitmapsUpTo, BitmapsOK
  <2>4. HeldOK(r)
    BY <1>6, <2>1, HeldAfter DEF OrderOK
  <2>5. s.backs = 0 /\ ~s.m.mPeroidid /\ ~s.m.suspended
    BY <1>3, <2>1, StateFields DEF OrderOK, WayOK, SameWay
  <2>6. WayOK(r)
    BY <1>2, <1>5, <1>6, <2>2, <2>5, StateFields DEF WayOK, SameWindows
  <2>7. CASE t # None
    BY <1>5, <1>7, <2>3, <2>4, <2>6, <2>7 DEF OrderOK, PaintOK
  <2>8. CASE t = None
    <3>1. PaintOK(r)
      BY <1>1, <1>2, <1>6, <1>7, <2>1, <2>8, StateFields DEF OrderOK, PaintOK, SamePaint
    <3> QED BY <2>3, <2>4, <2>6, <3>1 DEF OrderOK
  <2> QED BY <2>7, <2>8
<1>8. made' \in Nat
  BY <1>2 DEF ManagerInv
<1> QED BY <1>2, <1>4, <1>5, <1>6, <1>7, <1>8, CalmStep

\* Only what is shown changes, so only the repaint is left to be seen to.
LEMMA PaintedOnly ==
    ASSUME ManagerInv, NEW r \in States, SameWindows(State, r), SameTransforms(State, r),
           SameBitmaps(State, r), SameWay(State, r)
    PROVE  /\ CountOK(r, {})
           /\ orderly => BitmapsOK(r) /\ WayOK(r)
           /\ orderly /\ Calmer(State, r) => HeldOK(r)
<1>1. CountOK(r, {})
  BY DEF ManagerInv, CountOK, SameTransforms
<1>2. orderly => BitmapsOK(r)
  BY DEF ManagerInv, OrderOK, BitmapsOK, SameTransforms, SameBitmaps
<1>3. orderly => WayOK(r)
  BY DEF ManagerInv, OrderOK, WayOK, SameTransforms, SameWindows, SameWay
<1>4. orderly /\ Calmer(State, r) => HeldOK(r)
  BY HeldAfter DEF ManagerInv, OrderOK
<1> QED BY <1>1, <1>2, <1>3, <1>4

\* It is seen to where nothing is unseen while windows are shown and nothing plays.
LEMMA NothingUnseen ==
    ASSUME NEW r,
           /\ ~r.m.suspended /\ r.m.mWndStack # <<>> /\ ~r.m.mPeriodTransform
           /\ ~(r.m.mPeroidid /\ r.m.mTransform # None)
           => Unseen(r) = {}
    PROVE  PaintOK(r)
BY DEF PaintOK, Unseen, Pending

\* What no step makes worse is painted after it.
LEMMA StillPainted ==
    ASSUME NEW s, NEW r, SameWindows(s, r), SameTransforms(s, r), SameWay(s, r), PaintOK(s),
           ~s.m.mPeriodTransform /\ s.m.mWndStack # <<>> => Unseen(r) \subseteq Unseen(s)
    PROVE  PaintOK(r)
<1> SUFFICES ASSUME ~r.m.suspended, r.m.mWndStack # <<>>, ~r.m.mPeriodTransform,
                    ~(r.m.mPeroidid /\ r.m.mTransform # None)
             PROVE  Unseen(r) = {}
  BY NothingUnseen
<1>1. /\ ~s.m.suspended /\ s.m.mWndStack # <<>> /\ ~s.m.mPeriodTransform
      /\ ~(s.m.mPeroidid /\ s.m.mTransform # None)
  BY DEF SameWindows, SameTransforms, SameWay
<1>2. Unseen(s) = {}
  BY <1>1 DEF PaintOK, Unseen, Pending
<1> QED BY <1>1, <1>2

LEMMA RedrawsStep == ManagerInv /\ AppRedraws => ManagerInv'
<1> SUFFICES ASSUME ManagerInv, AppRedraws PROVE ManagerInv'
  OBVIOUS
<1>1. PICK x \in Region, d \in BOOLEAN :
          StateBecomes(Redraw([State EXCEPT !.stale = @ \cup {x}], x, d))
  BY DEF AppRedraws
<1>2. /\ down' = down /\ astray' = astray /\ missed' = missed /\ orderly' = orderly
      /\ made' = made
  BY DEF AppRedraws, Client
<1> DEFINE s == State
           n == [s EXCEPT !.stale = @ \cup {x}]
           r == Redraw(n, x, d)
<1>3. s \in States
  BY DEF ManagerInv
<1> HIDE DEF s
<1>4. n \in States
  BY <1>3 DEF States
<1>5. /\ n.m = s.m /\ n.cap = s.cap /\ n.refs = s.refs /\ n.bmps = s.bmps /\ n.lost = s.lost
      /\ n.backs = s.backs /\ n.stale = s.stale \cup {x}
  BY <1>3 DEF States
<1>6. StateBecomes(r)
  BY <1>1 DEF s
<1> HIDE DEF n
<1>7. /\ r \in States /\ SameWindows(n, r) /\ SameTransforms(n, r)
      /\ SameBitmaps(n, r) /\ SameWay(n, r) /\ r.cap = n.cap
      /\ ~n.m.mPeriodTransform /\ n.m.mWndStack # <<>> =>
            Unseen(r) \subseteq Unseen(n) \ Regions(x)
  BY <1>4, RedrawFacts
<1> HIDE DEF r
<1>8. /\ SameWindows(s, r) /\ SameTransforms(s, r) /\ SameBitmaps(s, r) /\ SameWay(s, r)
      /\ Calmer(s, r)
  BY <1>5, <1>7 DEF SameWindows, SameTransforms, SameBitmaps, SameWay, Calmer
<1>9. x \in Regions(x) /\ Unseen(n) \subseteq Unseen(s) \cup {x}
  BY <1>5 DEF Regions, Unseen, Pending
<1>10. ~s.m.mPeriodTransform /\ s.m.mWndStack # <<>> => Unseen(r) \subseteq Unseen(s)
  BY <1>5, <1>7, <1>9
<1>11. orderly => PaintOK(r)
  BY <1>8, <1>10, StillPainted DEF ManagerInv, OrderOK, s
<1>12. orderly => OrderOK(r)
  BY <1>7, <1>8, <1>11, PaintedOnly DEF OrderOK, s
<1>13. CountOK(r, {})
  BY <1>7, <1>8, PaintedOnly DEF s
<1>14. made' \in Nat
  BY <1>2 DEF ManagerInv
<1> QED BY <1>2, <1>6, <1>7, <1>8, <1>12, <1>13, <1>14, CalmStep DEF s

\* The delayed repaint is done, or left to the transition that plays.
LEMMA RedrawBackFacts ==
    ASSUME NEW s \in States
    PROVE  LET r == RedrawBack(s)
           IN  /\ r \in States /\ SameWindows(s, r) /\ SameTransforms(s, r)
               /\ SameBitmaps(s, r) /\ SameWay(s, r) /\ r.cap = s.cap
               /\ s.m.mPeriodRedraw /\ ~s.m.mPeriodTransform /\ s.m.mWndStack # <<>> =>
                     Unseen(r) \subseteq Unseen(s)
<1> USE DEF SameWindows, SameTransforms, SameBitmaps, SameWay
<1> DEFINE y == [s.m EXCEPT !.mPeriodRedraw = FALSE]
           off == [s EXCEPT !.m = y]
           rs == Covered(s.m.mRectRedraws)
           done == RedrawInternal(off, rs)
           z == [done.m EXCEPT !.mRectRedraws = <<>>]
           r == [done EXCEPT !.m = z]
<1>1. s.m \in Manager /\ rs \in SUBSET Region /\ s.m.mRectRedraws \in Seq(Region) \cup {All}
  BY CoveredFacts DEF States, Manager
<1>2. /\ y \in Manager /\ y.mPeriodRedraw = FALSE /\ y.mRectRedraws = s.m.mRectRedraws
      /\ y.mWndStack = s.m.mWndStack /\ y.mDialog = s.m.mDialog /\ y.modal = s.m.modal
      /\ y.mTransform = s.m.mTransform /\ y.mPeriodTransform = s.m.mPeriodTransform
      /\ y.used = s.m.used /\ y.mPeroidid = s.m.mPeroidid /\ y.suspended = s.m.suspended
  BY <1>1, RepaintFacts
<1>3. [s EXCEPT !.m.mPeriodRedraw = FALSE] = off
  BY DEF States
<1> HIDE DEF y
<1>4. /\ off \in States /\ off.m = y /\ off.cap = s.cap /\ off.refs = s.refs
      /\ off.bmps = s.bmps /\ off.lost = s.lost /\ off.backs = s.backs /\ off.stale = s.stale
  BY <1>2, ManagerChanged
<1>5. CASE s.m.mPeriodTransform
  <2>1. RedrawBack(s) = off
    BY <1>3, <1>5 DEF RedrawBack
  <2> HIDE DEF off
  <2> QED BY <1>2, <1>4, <1>5, <2>1
<1>6. CASE ~s.m.mPeriodTransform
  <2> HIDE DEF off, rs
  <2>1. /\ done \in States /\ done.m = off.m /\ done.cap = off.cap /\ done.refs = off.refs
        /\ SameBitmaps(off, done) /\ done.backs = off.backs /\ done.stale \subseteq off.stale
        /\ off.m.mWndStack # <<>> => done.stale = off.stale \ rs
    BY <1>1, <1>4, RedrawInternalFacts
  <2>2. RedrawBack(s) = [done EXCEPT !.m.mRectRedraws = <<>>]
    BY <1>3, <1>6 DEF RedrawBack, rs
  <2> HIDE DEF done
  <2>3. [done EXCEPT !.m.mRectRedraws = <<>>] = r
    BY <2>1 DEF States
  <2>4. <<>> \in Seq(Region) \cup {All} /\ done.m \in Manager
    BY <2>1, <1>2, <1>4
  <2>5. /\ z \in Manager /\ z.mPeriodRedraw = done.m.mPeriodRedraw
        /\ z.mWndStack = done.m.mWndStack /\ z.mDialog = done.m.mDialog /\ z.modal = done.m.modal
        /\ z.mTransform = done.m.mTransform /\ z.mPeriodTransform = done.m.mPeriodTransform
        /\ z.used = done.m.used /\ z.mPeroidid = done.m.mPeroidid
        /\ z.suspended = done.m.suspended
    BY <2>4, RectsFacts
  <2> HIDE DEF z
  <2>6. /\ r \in States /\ r.m = z /\ r.cap = done.cap /\ r.refs = done.refs
        /\ r.bmps = done.bmps /\ r.lost = done.lost /\ r.backs = done.backs
        /\ r.stale = done.stale
    BY <2>1, <2>5, ManagerChanged
  <2> HIDE DEF r
  <2>7. s.m.mPeriodRedraw /\ s.m.mWndStack # <<>> => Unseen(r) \subseteq Unseen(s)
    BY <1>2, <1>4, <2>1, <2>5, <2>6 DEF Unseen, Pending, rs
  <2>8. /\ SameWindows(s, r) /\ SameTransforms(s, r) /\ SameBitmaps(s, r) /\ SameWay(s, r)
        /\ r.cap = s.cap
    BY <1>2, <1>4, <2>1, <2>5, <2>6
  <2> QED BY <2>2, <2>3, <2>6, <2>7, <2>8
<1>7. s.m.mPeriodTransform \in BOOLEAN
  BY <1>1 DEF Manager
<1> QED BY <1>5, <1>6

LEMMA PeriodRedrawStep == ManagerInv /\ PeriodRedraw => ManagerInv'
<1> SUFFICES ASSUME ManagerInv, PeriodRedraw PROVE ManagerInv'
  OBVIOUS
<1>1. /\ StateBecomes(RedrawBack(State)) /\ m.mPeriodRedraw
      /\ down' = down /\ astray' = astray /\ missed' = missed /\ orderly' = orderly
      /\ made' = made
  BY DEF PeriodRedraw, Client
<1> DEFINE s == State
           r == RedrawBack(s)
<1>2. s \in States /\ s.m.mPeriodRedraw
  BY <1>1, StateFields DEF ManagerInv
<1> HIDE DEF s
<1>3. /\ r \in States /\ SameWindows(s, r) /\ SameTransforms(s, r)
      /\ SameBitmaps(s, r) /\ SameWay(s, r) /\ r.cap = s.cap
      /\ s.m.mPeriodRedraw /\ ~s.m.mPeriodTransform /\ s.m.mWndStack # <<>> =>
            Unseen(r) \subseteq Unseen(s)
  BY <1>2, RedrawBackFacts
<1>4. StateBecomes(r)
  BY <1>1 DEF s
<1> HIDE DEF r
<1>5. Calmer(s, r)
  BY <1>3 DEF Calmer
<1>6. orderly => PaintOK(r)
  BY <1>2, <1>3, StillPainted DEF ManagerInv, OrderOK, s
<1>7. orderly => OrderOK(r)
  BY <1>3, <1>5, <1>6, PaintedOnly DEF OrderOK, s
<1>8. CountOK(r, {})
  BY <1>3, PaintedOnly DEF s
<1>9. made' \in Nat
  BY <1>1 DEF ManagerInv
<1> QED BY <1>1, <1>3, <1>4, <1>5, <1>7, <1>8, <1>9, CalmStep DEF s

LEMMA TransformStep == ManagerInv /\ PeriodTransform => ManagerInv'
<1> SUFFICES ASSUME ManagerInv, PeriodTransform PROVE ManagerInv'
  OBVIOUS
<1> DEFINE s == State
<1>1. PICK finished \in BOOLEAN : StateBecomes(TransformCallback(s, finished))
  BY DEF PeriodTransform
<1>2. /\ m.mPeriodTransform /\ Running
      /\ down' = down /\ astray' = astray /\ missed' = missed /\ orderly' = orderly
      /\ made' = made
  BY DEF PeriodTransform, Client
<1>3. s \in States /\ CountOK(s, {}) /\ s.m.mPeriodTransform /\ s.m.mTransform # None
  BY <1>2, StateFields DEF ManagerInv, CountOK
<1>4. orderly => OrderOK(s)
  BY DEF ManagerInv
<1>5. made' \in Nat
  BY <1>2 DEF ManagerInv
<1>6. CASE finished
  <2> DEFINE a == StopTransform(s)
             r == Redraw(a, All, TRUE)
  <2>1. StateBecomes(r)
    BY <1>1, <1>3, <1>6 DEF TransformCallback
  <2> HIDE DEF s
  <2>2. /\ a \in States /\ SameWindows(s, a) /\ SameWay(s, a) /\ SamePaint(s, a)
        /\ a.cap = s.cap /\ a.lost = s.lost /\ a.m.used = s.m.used
        /\ a.m.mTransform = None /\ ~a.m.mPeriodTransform /\ CountOK(a, {})
        /\ s.m.mTransform \notin {} => BitmapsWithout(s, a)
    BY <1>3, StopTransformFacts
  <2> HIDE DEF a
  <2>3. /\ r \in States /\ SameWindows(a, r) /\ SameTransforms(a, r)
        /\ SameBitmaps(a, r) /\ SameWay(a, r) /\ r.cap = a.cap
        /\ ~a.m.mPeriodTransform /\ a.m.mWndStack # <<>> =>
              Unseen(r) \subseteq Unseen(a) \ Regions(All)
    BY <2>2, RedrawFacts
  <2> HIDE DEF r
  <2>4. CountOK(r, {}) /\ Calmer(s, r) /\ SameWindows(s, r) /\ SameWay(s, r)
    BY <2>2, <2>3 DEF CountOK, SameTransforms, Calmer, SameWindows, SameWay
  <2>5. ASSUME orderly PROVE OrderOK(r)
    <3>1. PaintOK(r)
      <4>1. Regions(All) = Region /\ Unseen(a) \subseteq Region
        BY <2>2 DEF Regions, Unseen, States
      <4>2. r.m.mWndStack # <<>> => Unseen(r) = {}
        BY <2>2, <2>3, <4>1 DEF SameWindows
      <4> QED BY <4>2, NothingUnseen
    <3>2. BitmapsOK(r)
      BY <1>4, <2>2, <2>3, <2>5 DEF OrderOK, BitmapsOK, SameBitmaps, BitmapsWithout
    <3>3. HeldOK(r)
      BY <1>4, <2>4, <2>5, HeldAfter DEF OrderOK
    <3>4. WayOK(r)
      BY <1>3, <1>4, <2>2, <2>3, <2>4, <2>5
         DEF OrderOK, WayOK, SameWindows, SameWay, SameTransforms
    <3> QED BY <3>1, <3>2, <3>3, <3>4 DEF OrderOK
  <2> QED BY <1>2, <1>5, <2>1, <2>3, <2>4, <2>5, CalmStep DEF s
<1>7. CASE ~finished
  <2> DEFINE r == [s EXCEPT !.stale = Region]
  <2>1. StateBecomes(r)
    BY <1>1, <1>3, <1>7 DEF TransformCallback
  <2> HIDE DEF s
  <2>2. Region \in SUBSET Region
    OBVIOUS
  <2>3. r \in States
    BY <1>3, <2>2 DEF States
  <2>4. /\ r.m = s.m /\ r.cap = s.cap /\ r.refs = s.refs /\ r.bmps = s.bmps
        /\ r.lost = s.lost /\ r.backs = s.backs
    BY <1>3 DEF States
  <2> HIDE DEF r
  <2>5. CountOK(r, {}) /\ Calmer(s, r)
    BY <1>3, <2>4 DEF CountOK, Calmer
  <2>6. orderly => OrderOK(r)
    BY <1>3, <1>4, <2>4 DEF OrderOK, BitmapsOK, HeldOK, WayOK, PaintOK, GetTopWindow
  <2> QED BY <1>2, <1>5, <2>1, <2>3, <2>5, <2>6, CalmStep DEF s
<1> QED BY <1>6, <1>7

LEMMA PeriodBackStep == ManagerInv /\ PeriodBack => ManagerInv'
<1> SUFFICES ASSUME ManagerInv, PeriodBack PROVE ManagerInv'
  OBVIOUS
<1>1. PICK c \in CallAfter(None) :
          /\ made + NewWindows(c) <= MaxWindows
          /\ StateBecomes(DelayBack(State, c, made + 1))
          /\ made' = made + NewWindows(c)
  BY DEF PeriodBack
<1>2. /\ backs > 0
      /\ down' = down /\ astray' = astray /\ missed' = missed /\ orderly' = orderly
  BY DEF PeriodBack
<1> DEFINE s == State
           w == made + 1
           r == DelayBack(s, c, w)
           t == s.m.mTransform
<1>3. made' \in Nat /\ (Shows(c) => w \in Window)
  BY <1>1, ManagerAssumption DEF ManagerInv, Window, NewWindows
<1>4. Tellable(orderly, s, c, w)
  BY <1>3, CallReady DEF Given
<1>5. /\ s \in States /\ CountOK(s, {}) /\ t \in Transform \cup {None}
      /\ s.m.mPeroidid \in BOOLEAN
  BY DEF ManagerInv, States, Manager
<1>6. ASSUME orderly
      PROVE  /\ OrderOK(s) /\ s.m.mPeroidid /\ s.backs = 1 /\ ~s.m.suspended
             /\ ~s.m.mPeriodTransform /\ s.m.mWndStack # <<>>
  <2>1. OrderOK(s)
    BY <1>6 DEF ManagerInv
  <2>2. s.m.mPeroidid /\ s.backs = 1
    BY <1>2, <1>5, <2>1, StateFields DEF OrderOK, WayOK
  <2> QED BY <2>1, <2>2 DEF OrderOK, WayOK
<1>7. StateBecomes(r)
  BY <1>1
<1> HIDE DEF s, w
<1>8a. orderly => BitmapsOK(s) /\ ~s.m.mPeriodTransform
  BY <1>6 DEF OrderOK
<1>8b. WentBack(orderly, s, r)
  BY <1>4, <1>5, <1>8a, DelayBackFacts
<1> HIDE DEF r
<1>8. /\ r \in States /\ CountOK(r, {}) /\ Calmer(s, r)
      /\ orderly /\ GetTopWindow(s) # None =>
            /\ Finished(orderly, r, t, {}) /\ r.backs = s.backs - 1
            /\ r.m.mPeroidid = FALSE /\ r.m.suspended = s.m.suspended
            /\ HeldOK(s) => Plain(r)
  BY <1>8b DEF WentBack
<1> HIDE DEF t
<1>9. ASSUME orderly PROVE OrderOK(r)
  <2>1. GetTopWindow(s) # None
    BY <1>5, <1>6, <1>9, TopFacts
  <2>2. WayOK(r)
    BY <1>6, <1>8, <1>9, <2>1 DEF WayOK
  <2>3. Plain(r)
    BY <1>6, <1>8, <1>9, <2>1 DEF OrderOK
  <2> QED BY <1>5, <1>8, <1>9, <2>1, <2>2, <2>3, FinishedOrder
<1> QED BY <1>2, <1>3, <1>7, <1>8, <1>9, CalmStep DEF s

LEMMA SuspendStep == ManagerInv /\ ManagerSuspend => ManagerInv'
<1> SUFFICES ASSUME ManagerInv, ManagerSuspend PROVE ManagerInv'
  OBVIOUS
<1> DEFINE s == State
           a == StopTransform(s)
           k == IF a.m.mPeroidid THEN a.backs - 1 ELSE a.backs
           y == [a.m EXCEPT !.mPeroidid = FALSE, !.mPeriodRedraw = FALSE]
           z == [y EXCEPT !.suspended = TRUE]
           r == [a EXCEPT !.m = z, !.backs = k]
<1>1. /\ StateBecomes([StopAllPeriod(a) EXCEPT !.m.suspended = TRUE])
      /\ down' = Up /\ missed' = (missed \/ \E w \in Window : cap[w] # None)
      /\ astray' = astray /\ orderly' = orderly /\ made' = made
  BY DEF ManagerSuspend, GoesUp
<1>2. s \in States /\ CountOK(s, {})
  BY DEF ManagerInv
<1>3. orderly => OrderOK(s)
  BY DEF ManagerInv
<1>3a. missed' \in BOOLEAN /\ (missed' \/ (~astray' /\ PenOK(s, Up)))
  BY <1>1, StateFields DEF ManagerInv, PenOK
<1> HIDE DEF s
<1>4. /\ a \in States /\ SameWindows(s, a) /\ SameWay(s, a) /\ SamePaint(s, a)
      /\ a.cap = s.cap /\ a.lost = s.lost /\ a.m.used = s.m.used
      /\ a.m.mTransform = None /\ ~a.m.mPeriodTransform /\ CountOK(a, {})
      /\ s.m.mTransform \notin {} => BitmapsWithout(s, a)
  BY <1>2, StopTransformFacts
<1> HIDE DEF a
<1>5. a.m \in Manager /\ a.backs \in Int
  BY <1>4 DEF States
<1>6. StateBecomes(r)
  <2>1. [StopAllPeriod(a) EXCEPT !.m.suspended = TRUE] = r
    <3>1. StopAllPeriod(a) = [a EXCEPT !.m = y, !.backs = k]
      BY <1>4 DEF StopAllPeriod, States
    <3> HIDE DEF y, k
    <3>2. [[a EXCEPT !.m = y, !.backs = k] EXCEPT !.m.suspended = TRUE] = r
      BY <1>4 DEF States
    <3> QED BY <3>1, <3>2
  <2> QED BY <1>1, <2>1
<1>7. /\ y \in Manager /\ y.mPeroidid = FALSE /\ y.mPeriodRedraw = FALSE
      /\ y.mWndStack = a.m.mWndStack /\ y.mDialog = a.m.mDialog /\ y.modal = a.m.modal
      /\ y.mTransform = a.m.mTransform /\ y.mPeriodTransform = a.m.mPeriodTransform
      /\ y.used = a.m.used
  BY <1>5, PeriodsFacts
<1> HIDE DEF y
<1>8. /\ z \in Manager /\ z.suspended = TRUE /\ z.mPeroidid = FALSE
      /\ z.mWndStack = y.mWndStack /\ z.mDialog = y.mDialog /\ z.modal = y.modal
      /\ z.mTransform = y.mTransform /\ z.mPeriodTransform = y.mPeriodTransform
      /\ z.used = y.used
  BY <1>7, SuspendedFacts
<1>9. k \in Int
  BY <1>5
<1>10. orderly => k = 0
  BY <1>3, <1>4 DEF OrderOK, WayOK, SameWay
<1> HIDE DEF z, k
<1>11. r \in States
  BY <1>4, <1>8, <1>9 DEF States
<1>12. /\ r.m = z /\ r.cap = a.cap /\ r.refs = a.refs /\ r.bmps = a.bmps
       /\ r.lost = a.lost /\ r.backs = k
  BY <1>4 DEF States
<1> HIDE DEF r
<1>13. CountOK(r, {}) /\ Calmer(s, r) /\ SameWindows(s, r)
  BY <1>4, <1>7, <1>8, <1>12 DEF CountOK, Calmer, SameWindows
<1>14. ASSUME orderly PROVE OrderOK(r)
  <2>1. HeldOK(r)
    BY <1>3, <1>13, <1>14, HeldAfter DEF OrderOK
  <2>2. BitmapsOK(r)
    BY <1>3, <1>4, <1>12, <1>14 DEF OrderOK, BitmapsOK, BitmapsWithout
  <2>3. WayOK(r) /\ PaintOK(r)
    BY <1>4, <1>7, <1>8, <1>10, <1>12, <1>14 DEF WayOK, PaintOK
  <2> QED BY <2>1, <2>2, <2>3 DEF OrderOK
<1>15. Up \in Window \cup {None, Up} /\ made' \in Nat
  BY <1>1 DEF ManagerInv
<1>16. missed' \/ (PenOK(r, Up) /\ ~astray')
  BY <1>3a, <1>13, PenAfter
<1> QED BY <1>1, <1>3a, <1>6, <1>11, <1>13, <1>14, <1>15, <1>16, InvAfter

LEMMA ResumeStep == ManagerInv /\ ManagerResume => ManagerInv'
<1> SUFFICES ASSUME ManagerInv, ManagerResume PROVE ManagerInv'
  OBVIOUS
<1> DEFINE s == State
           y == [s.m EXCEPT !.suspended = FALSE]
           n == [s EXCEPT !.m = y, !.stale = Region]
           r == Redraw(n, All, FALSE)
<1>1. /\ StateBecomes(Redraw([s EXCEPT !.m.suspended = FALSE, !.stale = Region], All, FALSE))
      /\ m.suspended
      /\ down' = down /\ astray' = astray /\ missed' = missed /\ orderly' = orderly
      /\ made' = made
  BY DEF ManagerResume, Client
<1>2. s \in States /\ CountOK(s, {}) /\ s.m \in Manager /\ s.m.suspended
  BY <1>1, StateFields DEF ManagerInv, States
<1>3. orderly => OrderOK(s)
  BY DEF ManagerInv
<1> HIDE DEF s
<1>4. StateBecomes(r)
  <2>1. [s EXCEPT !.m.suspended = FALSE, !.stale = Region] = n
    BY <1>2 DEF States
  <2> QED BY <1>1, <2>1
<1>5. /\ y \in Manager /\ y.suspended = FALSE
      /\ y.mWndStack = s.m.mWndStack /\ y.mDialog = s.m.mDialog /\ y.modal = s.m.modal
      /\ y.mTransform = s.m.mTransform /\ y.mPeriodTransform = s.m.mPeriodTransform
      /\ y.used = s.m.used /\ y.mPeroidid = s.m.mPeroidid
  BY <1>2, SuspendedFacts
<1> HIDE DEF y
<1>6. Region \in SUBSET Region
  OBVIOUS
<1>7. n \in States
  BY <1>2, <1>5, <1>6 DEF States
<1>8. /\ n.m = y /\ n.cap = s.cap /\ n.refs = s.refs /\ n.bmps = s.bmps
      /\ n.lost = s.lost /\ n.backs = s.backs
  BY <1>2 DEF States
<1> HIDE DEF n
<1>9. /\ r \in States /\ SameWindows(n, r) /\ SameTransforms(n, r)
      /\ SameBitmaps(n, r) /\ SameWay(n, r) /\ r.cap = n.cap
      /\ ~n.m.mPeriodTransform /\ n.m.mWndStack # <<>> =>
            Unseen(r) \subseteq Unseen(n) \ Regions(All)
  BY <1>7, RedrawFacts
<1> HIDE DEF r
<1>10. CountOK(r, {}) /\ Calmer(s, r) /\ SameWindows(s, r)
  BY <1>2, <1>5, <1>8, <1>9 DEF CountOK, SameTransforms, Calmer, SameWindows
<1>11. ASSUME orderly PROVE OrderOK(r)
  <2>1. OrderOK(s) /\ ~s.m.mPeroidid /\ ~s.m.mPeriodTransform
    BY <1>2, <1>3, <1>11 DEF OrderOK, WayOK
  <2>2. Regions(All) = Region /\ Unseen(n) \subseteq Region
    BY <1>7 DEF Regions, Unseen, States
  <2>3. r.m.mWndStack # <<>> => Unseen(r) = {}
    BY <1>5, <1>8, <1>9, <2>1, <2>2 DEF SameWindows
  <2>4. PaintOK(r)
    BY <2>3, NothingUnseen
  <2>5. BitmapsOK(r) /\ WayOK(r)
    BY <1>5, <1>8, <1>9, <2>1
       DEF OrderOK, BitmapsOK, WayOK, SameWindows, SameTransforms, SameBitmaps, SameWay
  <2>6. HeldOK(r)
    BY <1>10, <2>1, HeldAfter DEF OrderOK
  <2> QED BY <2>4, <2>5, <2>6 DEF OrderOK
<1>12. made' \in Nat
  BY <1>1 DEF ManagerInv
<1> QED BY <1>1, <1>4, <1>9, <1>10, <1>11, <1>12, CalmStep DEF s

\* A button is pushed or let go, and painted at once.
LEMMA PushedFacts ==
    ASSUME NEW s \in States, NEW p \in SUBSET Window, NEW e \in SUBSET Region,
           e \subseteq s.stale \cup {Spot}
    PROVE  LET r == Redraw([s EXCEPT !.pushed = p, !.stale = e], Spot, FALSE)
           IN  /\ r \in States /\ SameWindows(s, r) /\ SameTransforms(s, r)
               /\ SameBitmaps(s, r) /\ SameWay(s, r) /\ r.cap = s.cap
               /\ ~s.m.mPeriodTransform /\ s.m.mWndStack # <<>> => Unseen(r) \subseteq Unseen(s)
<1> DEFINE n == [s EXCEPT !.pushed = p, !.stale = e]
           r == Redraw(n, Spot, FALSE)
<1>1. n \in States
  BY DEF States
<1>2. /\ n.m = s.m /\ n.cap = s.cap /\ n.refs = s.refs /\ n.bmps = s.bmps /\ n.lost = s.lost
      /\ n.backs = s.backs /\ n.stale = e
  BY DEF States
<1> HIDE DEF n
<1>3. /\ r \in States /\ SameWindows(n, r) /\ SameTransforms(n, r)
      /\ SameBitmaps(n, r) /\ SameWay(n, r) /\ r.cap = n.cap
      /\ ~n.m.mPeriodTransform /\ n.m.mWndStack # <<>> =>
            Unseen(r) \subseteq Unseen(n) \ Regions(Spot)
  BY <1>1, SpotIsRegion, RedrawFacts
<1> HIDE DEF r
<1>4. Spot \in Regions(Spot) /\ Unseen(n) \subseteq Unseen(s) \cup {Spot}
  BY <1>2, SpotIsRegion DEF Regions, Unseen, Pending
<1>5. SameWindows(s, r) /\ SameTransforms(s, r) /\ SameBitmaps(s, r) /\ SameWay(s, r)
  BY <1>2, <1>3 DEF SameWindows, SameTransforms, SameBitmaps, SameWay
<1> QED BY <1>2, <1>3, <1>4, <1>5 DEF r, n

\* Two operations of the pen, one after the other.
LEMMA SameAfter ==
    ASSUME NEW s, NEW q, NEW r,
           SameWindows(s, q), SameTransforms(s, q), SameBitmaps(s, q), SameWay(s, q),
           SameWindows(q, r), SameTransforms(q, r), SameBitmaps(q, r), SameWay(q, r)
    PROVE  SameWindows(s, r) /\ SameTransforms(s, r) /\ SameBitmaps(s, r) /\ SameWay(s, r)
BY DEF SameWindows, SameTransforms, SameBitmaps, SameWay

LEMMA PenDownStep == ManagerInv /\ (\E b \in Window \cup {None} : PenDown(b)) => ManagerInv'
<1> SUFFICES ASSUME ManagerInv, NEW b \in Window \cup {None}, PenDown(b) PROVE ManagerInv'
  OBVIOUS
<1> DEFINE s == State
<1>1. /\ down = Up /\ down' = (IF Reaches(b) THEN b ELSE None)
      /\ StateBecomes(IF m.mPeriodTransform \/ ~Reaches(b) THEN s ELSE Pressed(s, b))
      /\ astray' = astray /\ missed' = missed /\ made' = made /\ orderly' = orderly
  BY DEF PenDown
<1>2. s \in States /\ CountOK(s, {}) /\ s.cap \in [Window -> Window \cup {None}]
  BY DEF ManagerInv, States
<1>3. (orderly => OrderOK(s)) /\ missed' \in BOOLEAN
  BY <1>1 DEF ManagerInv
<1>4. missed' \/ (~astray' /\ \A w \in Window : s.cap[w] = None)
  BY <1>1, <1>2, WindowsAreNumbers DEF ManagerInv, PenOK
<1>5. down' \in Window \cup {None, Up} /\ made' \in Nat
  BY <1>1 DEF ManagerInv
<1>6. CASE m.mPeriodTransform \/ ~Reaches(b)
  <2>1. StateBecomes(s)
    BY <1>1, <1>6
  <2>2. missed' \/ (PenOK(s, down') /\ ~astray')
    BY <1>4 DEF PenOK
  <2> QED BY <1>1, <1>2, <1>3, <1>5, <2>1, <2>2, InvAfter
<1>7. CASE ~m.mPeriodTransform /\ Reaches(b)
  <2> DEFINE q == SetCapture(s, b)
             p == q.pushed \cup {b}
             e == q.stale \cup {Spot}
             r == Redraw([q EXCEPT !.pushed = p, !.stale = e], Spot, FALSE)
             top == GetTopWindow(s)
  <2>1. /\ b \in Window /\ down' = b /\ ~s.m.mPeriodTransform
        /\ b = s.m.mDialog \/ b = top
    BY <1>1, <1>7, StateFields DEF Reaches
  <2>2. StateBecomes(r)
    BY <1>1, <1>7 DEF Pressed
  <2> HIDE DEF s
  <2>3. /\ q \in States /\ SameWindows(s, q) /\ SameTransforms(s, q)
        /\ SameBitmaps(s, q) /\ SameWay(s, q)
        /\ top = None => q = s
        /\ top # None => q.cap = [s.cap EXCEPT ![top] = b]
        /\ ~s.m.mPeriodTransform => Unseen(q) \subseteq Unseen(s)
    BY <1>2, SetCaptureFacts
  <2> HIDE DEF q
  <2>4. p \in SUBSET Window /\ e \in SUBSET Region
    BY <2>1, <2>3, SpotIsRegion DEF States
  <2> HIDE DEF p
  <2>5. /\ r \in States /\ SameWindows(q, r) /\ SameTransforms(q, r)
        /\ SameBitmaps(q, r) /\ SameWay(q, r) /\ r.cap = q.cap
        /\ ~q.m.mPeriodTransform /\ q.m.mWndStack # <<>> => Unseen(r) \subseteq Unseen(q)
    BY <2>3, <2>4, PushedFacts
  <2> HIDE DEF r, e
  <2>6. SameWindows(s, r) /\ SameTransforms(s, r) /\ SameBitmaps(s, r) /\ SameWay(s, r)
    BY <2>3, <2>5, SameAfter
  <2>7. CountOK(r, {})
    BY <2>5, <2>6, PaintedOnly DEF s
  <2>8. GetTopWindow(r) = top /\ r.m.mDialog = s.m.mDialog /\ top \in Window \cup {None}
    BY <1>2, <2>6, TopFacts DEF SameWindows, GetTopWindow
  <2> HIDE DEF top
  <2>9. \A w \in Window : r.cap[w] = (IF w = top THEN b ELSE s.cap[w])
    BY <1>2, <2>3, <2>5, <2>8, WindowsAreNumbers
  <2>10. ASSUME orderly PROVE OrderOK(r)
    <3>1. BitmapsOK(r) /\ WayOK(r)
      BY <2>5, <2>6, <2>10, PaintedOnly DEF s
    <3>2. ~s.m.mPeriodTransform /\ s.m.mWndStack # <<>> => Unseen(r) \subseteq Unseen(s)
      BY <2>3, <2>5 DEF SameWindows, SameTransforms
    <3>3. PaintOK(r)
      BY <1>3, <2>6, <2>10, <3>2, StillPainted DEF OrderOK
    <3>4. HeldOK(s)
      BY <1>3, <2>10 DEF OrderOK
    <3>5. HeldOK(r)
      BY <2>1, <2>8, <2>9, <3>4 DEF HeldOK, top
    <3> QED BY <3>1, <3>3, <3>5 DEF OrderOK
  <2>11. missed' \/ (PenOK(r, down') /\ ~astray')
    BY <1>4, <2>1, <2>9 DEF PenOK
  <2> QED BY <1>1, <1>3, <1>5, <2>2, <2>5, <2>7, <2>10, <2>11, InvAfter
<1>8. m.mPeriodTransform \in BOOLEAN
  BY <1>2, StateFields DEF States, Manager
<1> QED BY <1>6, <1>7

LEMMA PenMoveStep == ManagerInv /\ (\E b \in Window \cup {None} : PenMove(b)) => ManagerInv'
<1> SUFFICES ASSUME ManagerInv, NEW b \in Window \cup {None}, PenMove(b) PROVE ManagerInv'
  OBVIOUS
<1> DEFINE s == State
           c == GetCapture(s)
           p == IF b = c THEN s.pushed \cup {c} ELSE s.pushed \ {c}
           on == [s EXCEPT !.pushed = IF b = c THEN @ \cup {c} ELSE @ \ {c}]
           e == s.stale \cup {Spot}
           r == Redraw([s EXCEPT !.pushed = p, !.stale = e], Spot, FALSE)
<1>1. /\ Reaches(c)
      /\ StateBecomes(IF on.pushed = pushed THEN s
                      ELSE Redraw([on EXCEPT !.stale = @ \cup {Spot}], Spot, FALSE))
      /\ down' = down /\ astray' = astray /\ missed' = missed /\ made' = made
      /\ orderly' = orderly
  BY DEF PenMove, Client
<1>2. s \in States /\ CountOK(s, {}) /\ (orderly => OrderOK(s)) /\ Calmer(s, s)
  BY DEF ManagerInv, Calmer
<1>3. c \in Window
  <2>1. c # None
    BY <1>1 DEF Reaches
  <2>2. GetTopWindow(s) \in Window \cup {None} /\ s.cap \in [Window -> Window \cup {None}]
    BY <1>2, TopFacts DEF States
  <2> QED BY <2>1, <2>2 DEF GetCapture
<1>4. made' \in Nat
  BY <1>1 DEF ManagerInv
<1>5. StateBecomes(s) \/ StateBecomes(r)
  <2>1. [on EXCEPT !.stale = @ \cup {Spot}] = [s EXCEPT !.pushed = p, !.stale = e]
    BY DEF State
  <2> QED BY <1>1, <2>1
<1>6. CASE StateBecomes(s)
  BY <1>1, <1>2, <1>4, <1>6, CalmStep
<1>7. CASE StateBecomes(r)
  <2> HIDE DEF s, c
  <2>1. p \in SUBSET Window /\ e \in SUBSET Region
    BY <1>2, <1>3, SpotIsRegion DEF States
  <2> HIDE DEF p
  <2>2. /\ r \in States /\ SameWindows(s, r) /\ SameTransforms(s, r)
        /\ SameBitmaps(s, r) /\ SameWay(s, r) /\ r.cap = s.cap
        /\ ~s.m.mPeriodTransform /\ s.m.mWndStack # <<>> => Unseen(r) \subseteq Unseen(s)
    BY <1>2, <2>1, PushedFacts
  <2> HIDE DEF r, e
  <2>3. Calmer(s, r)
    BY <2>2 DEF Calmer
  <2>4. /\ CountOK(r, {})
        /\ orderly => BitmapsOK(r) /\ WayOK(r) /\ HeldOK(r)
    BY <2>2, <2>3, PaintedOnly DEF s
  <2>5. orderly => PaintOK(r)
    BY <1>2, <2>2, StillPainted DEF OrderOK
  <2>6. orderly => OrderOK(r)
    BY <2>4, <2>5 DEF OrderOK
  <2> QED BY <1>1, <1>4, <1>7, <2>2, <2>3, <2>4, <2>6, CalmStep DEF s
<1> QED BY <1>5, <1>6, <1>7

LEMMA PenUpStep == ManagerInv /\ (\E b \in Window \cup {None} : PenUp(b)) => ManagerInv'
<1> SUFFICES ASSUME ManagerInv, NEW b \in Window \cup {None}, PenUp(b) PROVE ManagerInv'
  OBVIOUS
<1> DEFINE s == State
           c == GetCapture(s)
           heard == ~m.mPeriodTransform /\ Reaches(c)
           freed == SetCapture(s, None)
           p == freed.pushed \ {c}
           r == Redraw([freed EXCEPT !.pushed = @ \ {c}], Spot, FALSE)
           top == GetTopWindow(s)
<1>1. /\ down' = Up /\ made' = made /\ orderly' = orderly
      /\ missed' = (missed \/ \E w \in Window : cap[w] # None /\ ~(heard /\ w = top))
      /\ StateBecomes(IF ~heard THEN s ELSE IF b = c THEN r ELSE freed)
      /\ astray' = (astray \/ (heard /\ b = c /\ c # down))
  BY DEF PenUp, PenReleased, GoesUp
<1>2. s \in States /\ CountOK(s, {}) /\ s.cap \in [Window -> Window \cup {None}]
      /\ top \in Window \cup {None} /\ (orderly => OrderOK(s))
  BY TopFacts DEF ManagerInv, States
<1>3. Up \in Window \cup {None, Up} /\ made' \in Nat /\ missed' \in BOOLEAN
  BY <1>1 DEF ManagerInv
<1>4. c = (IF top = None THEN None ELSE s.cap[top])
  BY DEF GetCapture
<1>5. ASSUME ~missed'
      PROVE  ~astray' /\ \A w \in Window : s.cap[w] # None => heard /\ w = top
  <2>1. \A w \in Window : s.cap[w] # None => heard /\ w = top
    BY <1>1, <1>5, StateFields
  <2>2. ~astray /\ PenOK(s, down)
    BY <1>1, <1>5 DEF ManagerInv
  <2>3. heard => c # None
    BY DEF Reaches
  <2> HIDE DEF s, c, heard, top
  <2>4. heard => c = down
    BY <1>2, <1>4, <2>2, <2>3 DEF PenOK
  <2> QED BY <1>1, <2>1, <2>2, <2>4
<1>6. CASE ~heard
  <2>1. StateBecomes(s)
    BY <1>1, <1>6
  <2>2. missed' \/ (PenOK(s, Up) /\ ~astray')
    BY <1>5, <1>6 DEF PenOK
  <2> QED BY <1>1, <1>2, <1>3, <2>1, <2>2, InvAfter
<1>7. CASE heard
  <2>0. StateBecomes(IF b = c THEN r ELSE freed)
    BY <1>1, <1>7
  <2> HIDE DEF s, heard
  <2>1. /\ freed \in States /\ SameWindows(s, freed) /\ SameTransforms(s, freed)
        /\ SameBitmaps(s, freed) /\ SameWay(s, freed)
        /\ top = None => freed = s
        /\ top # None => freed.cap = [s.cap EXCEPT ![top] = None]
        /\ ~s.m.mPeriodTransform => Unseen(freed) \subseteq Unseen(s)
    BY <1>2, SetCaptureFacts
  <2> HIDE DEF freed, top, c
  <2>2. \A w \in Window : freed.cap[w] = (IF w = top THEN None ELSE s.cap[w])
    BY <1>2, <2>1, WindowsAreNumbers
  <2>3. Calmer(s, freed)
    BY <1>2, <2>2 DEF Calmer
  <2>4. missed' \/ (PenOK(freed, Up) /\ ~astray')
    BY <1>5, <2>2 DEF PenOK
  <2>5. CASE b # c
    <3>1. StateBecomes(freed)
      BY <2>0, <2>5
    <3>2. CountOK(freed, {}) /\ (orderly => BitmapsOK(freed) /\ WayOK(freed) /\ HeldOK(freed))
      BY <2>1, <2>3, PaintedOnly DEF s
    <3>3. orderly => PaintOK(freed)
      BY <1>2, <2>1, StillPainted DEF OrderOK
    <3>4. orderly => OrderOK(freed)
      BY <3>2, <3>3 DEF OrderOK
    <3> QED BY <1>1, <1>3, <2>1, <2>4, <3>1, <3>2, <3>4, InvAfter
  <2>6. CASE b = c
    <3>1. StateBecomes(r)
      BY <2>0, <2>6
    <3> DEFINE e == freed.stale
    <3>2. p \in SUBSET Window /\ e \in SUBSET Region /\ e \subseteq freed.stale \cup {Spot}
      BY <2>1 DEF States
    <3>3. r = Redraw([freed EXCEPT !.pushed = p, !.stale = e], Spot, FALSE)
      <4>1. [freed EXCEPT !.pushed = @ \ {c}] = [freed EXCEPT !.pushed = p, !.stale = e]
        BY <2>1 DEF States
      <4> QED BY <4>1
    <3> HIDE DEF p, e, r
    <3>4. /\ r \in States /\ SameWindows(freed, r) /\ SameTransforms(freed, r)
          /\ SameBitmaps(freed, r) /\ SameWay(freed, r) /\ r.cap = freed.cap
          /\ ~freed.m.mPeriodTransform /\ freed.m.mWndStack # <<>> =>
                Unseen(r) \subseteq Unseen(freed)
      BY <2>1, <3>2, <3>3, PushedFacts
    <3>5. SameWindows(s, r) /\ SameTransforms(s, r) /\ SameBitmaps(s, r) /\ SameWay(s, r)
      BY <2>1, <3>4, SameAfter
    <3>6. Calmer(s, r) /\ (missed' \/ (PenOK(r, Up) /\ ~astray'))
      BY <2>3, <2>4, <3>4 DEF Calmer, PenOK
    <3>7. CountOK(r, {}) /\ (orderly => BitmapsOK(r) /\ WayOK(r) /\ HeldOK(r))
      BY <3>4, <3>5, <3>6, PaintedOnly DEF s
    <3>8. ~s.m.mPeriodTransform /\ s.m.mWndStack # <<>> => Unseen(r) \subseteq Unseen(s)
      BY <2>1, <3>4 DEF SameWindows, SameTransforms
    <3>9. orderly => PaintOK(r)
      BY <1>2, <3>5, <3>8, StillPainted DEF OrderOK
    <3>10. orderly => OrderOK(r)
      BY <3>7, <3>9 DEF OrderOK
    <3> QED BY <1>1, <1>3, <3>1, <3>4, <3>6, <3>7, <3>10, InvAfter
  <2> QED BY <2>5, <2>6
<1> QED BY <1>6, <1>7

LEMMA ManagerStep == ManagerInv /\ [ManagerNext]_<<muiVars, orderly>> => ManagerInv'
<1> SUFFICES ASSUME ManagerInv, [ManagerNext]_<<muiVars, orderly>> PROVE ManagerInv'
  OBVIOUS
<1>1. CASE AppShowWindow \/ AppShowDialog \/ AppDestroyDialog \/ AppBack \/ AppBackLater
  BY <1>1, ShowWindowStep, ShowDialogStep, DestroyDialogStep, BackStep, BackLaterStep
<1>2. CASE AppRedraws \/ PeriodRedraw \/ PeriodTransform \/ PeriodBack
  BY <1>2, RedrawsStep, PeriodRedrawStep, TransformStep, PeriodBackStep
<1>3. CASE ManagerSuspend \/ ManagerResume
  BY <1>3, SuspendStep, ResumeStep
<1>4. CASE \E b \in Window \cup {None} : PenDown(b) \/ PenMove(b) \/ PenUp(b)
  <2>1. \/ \E b \in Window \cup {None} : PenDown(b)
        \/ \E b \in Window \cup {None} : PenMove(b)
        \/ \E b \in Window \cup {None} : PenUp(b)
    BY <1>4
  <2> QED BY <2>1, PenDownStep, PenMoveStep, PenUpStep
<1>5. CASE UNCHANGED <<muiVars, orderly>>
  <2>1. /\ StateBecomes(State) /\ made' = made /\ down' = down /\ astray' = astray
        /\ missed' = missed /\ orderly' = orderly
    BY <1>5, StateFields DEF muiVars, StateBecomes
  <2>2. Calmer(State, State)
    BY DEF Calmer
  <2> QED BY <2>1, <2>2, CalmStep DEF ManagerInv
<1> QED BY <1>1, <1>2, <1>3, <1>4, <1>5 DEF ManagerNext

\* The invariant holds in every life of the manager, orderly or not.
LEMMA ManagerCorrect == ManagerSpec => []ManagerInv
<1>1. ManagerInit => ManagerInv
  <2> SUFFICES ASSUME ManagerInit PROVE ManagerInv
    OBVIOUS
  <2> DEFINE s == State
  <2>1. m \in Manager
    <3>1. /\ m = [mWndStack |-> <<>>, mDialog |-> None, modal |-> FALSE, mTransform |-> None,
                  mPeriodTransform |-> FALSE, mPeriodRedraw |-> FALSE, mPeroidid |-> FALSE,
                  mRectRedraws |-> <<>>, suspended |-> FALSE,
                  used |-> [t \in Transform |-> FALSE]]
      BY DEF ManagerInit
    <3>2. <<>> \in Seq(Window) /\ <<>> \in Seq(Region) /\ [t \in Transform |-> FALSE] \in [Transform -> BOOLEAN]
      OBVIOUS
    <3> QED BY <3>1, <3>2 DEF Manager
  <2>2. /\ cap \in [Window -> Window \cup {None}] /\ pushed \in SUBSET Window
        /\ refs \in [Transform -> Int] /\ bmps \in [Transform -> SUBSET {"old", "new"}]
        /\ lost \in BOOLEAN /\ backs \in Int /\ stale \in SUBSET Region
    <3>1. /\ cap = [w \in Window |-> None] /\ refs = [t \in Transform |-> 0]
          /\ bmps = [t \in Transform |-> {}]
      BY DEF ManagerInit
    <3>2. refs \in [Transform -> Int] /\ cap \in [Window -> Window \cup {None}]
      BY <3>1
    <3>3. bmps \in [Transform -> SUBSET {"old", "new"}]
      BY <3>1
    <3>4. pushed = {} /\ backs = 0 /\ stale = {}
      BY DEF ManagerInit
    <3>5. pushed \in SUBSET Window /\ backs \in Int /\ stale \in SUBSET Region
      BY <3>4
    <3>6. lost = FALSE
      BY DEF ManagerInit
    <3>7. lost \in BOOLEAN
      BY <3>6
    <3> QED BY <3>2, <3>3, <3>5, <3>7
  <2>3. s \in States
    BY <2>1, <2>2 DEF State, States
  <2>4. /\ m.mWndStack = <<>> /\ m.mDialog = None /\ m.mTransform = None
        /\ m.mPeriodTransform = FALSE /\ m.mPeroidid = FALSE /\ m.suspended = FALSE
    BY DEF ManagerInit
  <2>5. CountOK(s, {})
    BY <2>4, StateFields, WindowsAreNumbers DEF ManagerInit, CountOK
  <2>6. OrderOK(s) /\ PenOK(s, Up)
    BY <2>4, StateFields
       DEF ManagerInit, OrderOK, BitmapsOK, HeldOK, WayOK, PaintOK, PenOK
  <2> QED BY <2>3, <2>5, <2>6 DEF ManagerInit, ManagerInv
<1> QED BY <1>1, ManagerStep, PTL DEF ManagerSpec

\* However transitions replace each other, with windows that cannot be made, dialogs
\* that are not there, handlers that change windows again while they are told of a
\* change, and suspensions between: every one that is alive has exactly the manager's
\* reference, and none is played after it was deleted.
THEOREM TransformsCorrect == ManagerSpec => []TransformsCounted
<1>1. ManagerInv => TransformsCounted
  <2> SUFFICES ASSUME ManagerInv PROVE TransformsCounted
    OBVIOUS
  <2>1. CountOK(State, {})
    BY DEF ManagerInv
  <2> QED BY <2>1, StateFields, WindowsAreNumbers DEF CountOK, TransformsCounted
<1> QED BY <1>1, ManagerCorrect, PTL

\* Of any number of windows and dialogs, in any order: in every life, transitions are
\* released by all that hold them, and a click is told to the button on which the pen
\* went down unless a window missed before that it went up.  While the application
\* keeps to what Disciplined says, no bitmap of a transition is lost, no handler of a delayed
\* way back is left without its number, the pen is held for a button that is there, and
\* what the screen does not show will be painted.
THEOREM WindowsCorrect == ManagerSpec => []MuiWindowsKept
<1>1. ManagerInv => MuiWindowsKept
  <2> SUFFICES ASSUME ManagerInv PROVE MuiWindowsKept
    OBVIOUS
  <2>1. CountOK(State, {}) /\ State \in States /\ (orderly => OrderOK(State))
    BY DEF ManagerInv
  <2>2. TransformsCounted
    BY <2>1, StateFields, WindowsAreNumbers DEF CountOK, TransformsCounted
  <2>3. NothingDangles
    <3> SUFFICES ASSUME orderly
                 PROVE  /\ \A w \in AliveWindows(State) : cap[w] \in AliveWindows(State) \cup {None}
                        /\ backs = (IF m.mPeroidid THEN 1 ELSE 0)
                        /\ ~lost
      BY DEF NothingDangles
    <3>1. BitmapsOK(State) /\ WayOK(State) /\ HeldOK(State)
      BY <2>1 DEF OrderOK
    <3>2. m.mWndStack \in Seq(Window) /\ m.mDialog \in Window \cup {None}
      BY <2>1, StateFields DEF States, Manager
    <3>3. \A w \in ToSet(m.mWndStack) : w \in Window
      BY <3>2 DEF ToSet
    <3>4. ASSUME NEW w \in AliveWindows(State), cap[w] # None PROVE cap[w] \in AliveWindows(State)
      <4>1. w \in Window
        BY <3>2, <3>3, StateFields DEF AliveWindows
      <4>2. cap[w] = w \/ cap[w] = m.mDialog
        BY <3>1, <3>4, <4>1, StateFields DEF HeldOK
      <4> QED BY <3>4, <4>2, StateFields DEF AliveWindows
    <3> QED BY <3>1, <3>4, StateFields DEF BitmapsOK, WayOK
  <2>4. RepaintScheduled
    BY <2>1, StateFields DEF OrderOK, PaintOK, RepaintScheduled
  <2>5. ClickWhereDown
    BY DEF ManagerInv, ClickWhereDown
  <2> QED BY <2>2, <2>3, <2>4, <2>5 DEF MuiWindowsKept
<1> QED BY <1>1, ManagerCorrect, PTL

-----------------------------------------------------------------------------
(* MUITab: the item under the pen *)

TabPlaces == Tabs!Places \cup {Tabs!Nowhere}
TabState == [shape : Shapes, pages : Seq(1..MaxPages), made : Nat, mCount : Nat,
             mSelectIdx : Tabs!Index, mDownIdx : Int, select : SUBSET Int, pushed : SUBSET Nat,
             caption : [Tabs!Index -> 0..MaxPages], capture : Int, buttons : SUBSET Int,
             told : Int, torn : BOOLEAN, penDown : BOOLEAN, downAt : TabPlaces, upAt : TabPlaces,
             below : Int, chosen : Int, clicked : Int, missed : BOOLEAN, jumped : BOOLEAN,
             events : Int]

\* Items and pages belong together, and one of them is selected.
TabItems(s) ==
    /\ s \in TabState
    /\ s.mCount = Len(s.pages) /\ s.mCount <= Capacity
    /\ s.told = s.mSelectIdx
    /\ s.select = IF s.mCount = 0 THEN {} ELSE {s.mSelectIdx}
    /\ IF s.mCount = 0 THEN s.mSelectIdx = 0 ELSE s.mSelectIdx < s.mCount
    /\ \A i \in 0..(s.mCount - 1) : s.caption[i] = s.pages[i + 1]
    /\ s.mDownIdx # Tabs!NoTab => s.mDownIdx \in 0..(s.mCount - 1)

\* While the window hears of the pen, an item is waiting for it to go up as long
\* as the tabs have the capture; and a button, as long as its page is shown.
TabPen(s) ==
    ~s.missed =>
        /\ s.mDownIdx # Tabs!NoTab <=> s.penDown /\ s.capture = Tabs!TheTab
        /\ s.capture = Tabs!TheTab => s.penDown
        /\ s.mDownIdx # Tabs!NoTab => Tabs!InItem(s, s.mDownIdx, s.downAt)
        /\ ~s.jumped => s.pushed \subseteq {s.mDownIdx}
        /\ ~s.torn /\ s.capture \in 1..MaxPages =>
               s.penDown /\ s.capture = Tabs!TabBody(s, s.mSelectIdx) /\ s.below = s.capture

TabChosen(s) ==
    /\ s.chosen # Tabs!NoTab /\ ~s.missed =>
           Tabs!InItem(s, s.chosen, s.downAt) /\ Tabs!InItem(s, s.chosen, s.upAt)
    /\ s.chosen # Tabs!NoTab => Tabs!InItem(s, s.chosen, s.upAt)
    /\ s.clicked # Tabs!NoPage /\ ~s.missed /\ ~s.torn => s.below = s.clicked /\ s.upAt.on = "button"

TabInv == TabItems(tabs) /\ TabPen(tabs) /\ TabChosen(tabs)

\* The page of an item that is there, none otherwise
LEMMA TabBodyIs ==
    ASSUME Tabs!TabAssumption, NEW s \in TabState, NEW i \in Nat
    PROVE  /\ Tabs!TabBody(s, i) = IF i < Len(s.pages) THEN s.pages[i + 1] ELSE 0
           /\ Tabs!TabBody(s, i) \in 0..MaxPages
<1>1. s.pages \in Seq(1..MaxPages) /\ DOMAIN s.pages = 1..Len(s.pages) /\ Len(s.pages) \in Nat
  BY DEF TabState
<1>2. \A k \in 1..Len(s.pages) : s.pages[k] \in 1..MaxPages
  BY <1>1, ElementOfSeq
<1> QED BY <1>1, <1>2 DEF Tabs!TabBody, Tabs!NoPage, Tabs!TabAssumption

\* Tabs start without pages.
LEMMA TabsInit ==
    ASSUME Tabs!TabAssumption, Tabs!Init PROVE TabInv
BY DEF Tabs!TabAssumption, Tabs!Init, TabInv, TabItems, TabPen, TabChosen, TabState, TabPlaces,
       Tabs!Places, Tabs!Nowhere, Tabs!NoTab, Tabs!NoPage, Tabs!TheTab, Tabs!Index

\* What a step leaves as it was
SameItems(r, s) ==
    /\ r.shape = s.shape /\ r.pages = s.pages /\ r.made = s.made /\ r.mCount = s.mCount
    /\ r.caption = s.caption /\ r.missed = s.missed
SameSelect(r, s) ==
    r.mSelectIdx = s.mSelectIdx /\ r.select = s.select /\ r.told = s.told /\ r.torn = s.torn
SameHeld(r, s) ==
    r.capture = s.capture /\ r.mDownIdx = s.mDownIdx /\ r.pushed = s.pushed
SameDown(r, s) ==
    r.penDown = s.penDown /\ r.downAt = s.downAt /\ r.below = s.below /\ r.jumped = s.jumped
SameChosen(r, s) ==
    r.chosen = s.chosen /\ r.clicked = s.clicked /\ r.upAt = s.upAt

\* What the operations of MUITab change, and what they leave
LEMMA FreshTabs ==
    ASSUME NEW s \in TabState, NEW r, r = Tabs!Fresh(s)
    PROVE  /\ r \in TabState
           /\ SameItems(r, s) /\ SameSelect(r, s) /\ SameHeld(r, s) /\ SameDown(r, s)
           /\ r.chosen = Tabs!NoTab /\ r.clicked = Tabs!NoPage /\ r.upAt = Tabs!Nowhere
<1>1. Tabs!NoTab \in Int /\ Tabs!NoPage \in Int /\ Tabs!Nowhere \in TabPlaces
  BY DEF Tabs!NoTab, Tabs!NoPage, TabPlaces
<1> QED BY <1>1 DEF Tabs!Fresh, TabState, SameItems, SameSelect, SameHeld, SameDown

\* Counting the events changes nothing else.
LEMMA CountedEvent ==
    ASSUME NEW s \in TabState, NEW e \in Int, NEW r, r = [s EXCEPT !.events = e]
    PROVE  /\ r \in TabState
           /\ SameItems(r, s) /\ SameSelect(r, s) /\ SameHeld(r, s) /\ SameDown(r, s)
           /\ SameChosen(r, s)
BY DEF TabState, SameItems, SameSelect, SameHeld, SameDown, SameChosen

\* setCapture presses and lets go of buttons only.
LEMMA Capturing ==
    ASSUME NEW s \in TabState, NEW w \in Int, NEW r, r = Tabs!SetCapture(s, w)
    PROVE  /\ r \in TabState
           /\ SameItems(r, s) /\ SameSelect(r, s) /\ SameDown(r, s) /\ SameChosen(r, s)
           /\ r.capture = w /\ r.mDownIdx = s.mDownIdx /\ r.pushed = s.pushed
<1> DEFINE buttons == s.buttons \ {s.capture}
<1>1. buttons \in SUBSET Int
  BY DEF TabState
<1>2. r = [s EXCEPT !.capture = w, !.buttons = buttons]
  BY Zenon DEF Tabs!SetCapture
<1> HIDE DEF buttons
<1> QED BY <1>1, <1>2 DEF TabState, SameItems, SameSelect, SameDown, SameChosen

\* So does the button of a page.
LEMMA PressedButtons ==
    ASSUME NEW s \in TabState, NEW buttons \in SUBSET Int, NEW r, r = [s EXCEPT !.buttons = buttons]
    PROVE  /\ r \in TabState
           /\ SameItems(r, s) /\ SameSelect(r, s) /\ SameHeld(r, s) /\ SameDown(r, s)
           /\ SameChosen(r, s)
BY DEF TabState, SameItems, SameSelect, SameHeld, SameDown, SameChosen

\* An item is pushed, or no longer.
LEMMA PushedItems ==
    ASSUME NEW s \in TabState, NEW held \in SUBSET Nat, NEW r, r = [s EXCEPT !.pushed = held]
    PROVE  /\ r \in TabState
           /\ SameItems(r, s) /\ SameSelect(r, s) /\ SameDown(r, s) /\ SameChosen(r, s)
           /\ r.capture = s.capture /\ r.mDownIdx = s.mDownIdx /\ r.pushed = held
BY DEF TabState, SameItems, SameSelect, SameDown, SameChosen

\* What setSelectItem changes
LEMMA SelectItem ==
    ASSUME Tabs!TabAssumption, NEW s \in TabState, NEW i \in Tabs!Index,
           NEW r, r = Tabs!SetSelectItem(s, i)
    PROVE  /\ r \in TabState
           /\ SameItems(r, s) /\ SameHeld(r, s) /\ SameDown(r, s) /\ SameChosen(r, s)
           /\ r.mSelectIdx = i /\ r.select = (s.select \ {s.mSelectIdx}) \cup {i}
           /\ s.told = s.mSelectIdx => r.told = i
           /\ r.torn = (s.torn \/ (i # s.mSelectIdx /\ s.capture \in 1..MaxPages))
<1> DEFINE select == (s.select \ {s.mSelectIdx}) \cup {i}
           told == IF i # s.mSelectIdx THEN i ELSE s.told
           torn == s.torn \/ (i # s.mSelectIdx /\ s.capture \in 1..MaxPages)
<1>1. select \in SUBSET Int /\ told \in Int /\ torn \in BOOLEAN
  BY DEF Tabs!TabAssumption, Tabs!Index, TabState
<1>2. r = [s EXCEPT !.select = select, !.mSelectIdx = i, !.told = told, !.torn = torn]
  BY Zenon DEF Tabs!SetSelectItem
<1>3. s.told = s.mSelectIdx => told = i
  BY DEF TabState
<1> HIDE DEF select, told, torn
<1>4. r \in TabState /\ r.select = select /\ r.mSelectIdx = i /\ r.told = told /\ r.torn = torn
  BY ZenonT(30), <1>1, <1>2 DEF TabState
<1>5. SameItems(r, s) /\ SameHeld(r, s) /\ SameDown(r, s) /\ SameChosen(r, s)
  BY <1>2 DEF TabState, SameItems, SameHeld, SameDown, SameChosen
<1> QED BY <1>3, <1>4, <1>5 DEF select, torn

-----------------------------------------------------------------------------

\* Where an item lies depends on the row and on the number of items.
LEMMA SameRow ==
    ASSUME NEW r, NEW s, r.shape = s.shape, r.mCount = s.mCount, NEW i, NEW pen
    PROVE  Tabs!InItem(r, i, pen) <=> Tabs!InItem(s, i, pen)
BY DEF Tabs!InItem, Tabs!ItemX

\* The pages decide which one an item shows.
LEMMA SameBody ==
    ASSUME NEW r, NEW s, r.pages = s.pages, NEW i
    PROVE  Tabs!TabBody(r, i) = Tabs!TabBody(s, i)
BY DEF Tabs!TabBody

\* Items are kept by what changes none of them.
LEMMA ItemsStay ==
    ASSUME NEW s, TabItems(s), NEW r \in TabState, SameItems(r, s), SameSelect(r, s),
           r.mDownIdx # Tabs!NoTab => r.mDownIdx \in 0..(s.mCount - 1)
    PROVE  TabItems(r)
BY DEF TabItems, SameItems, SameSelect

\* They are kept when another one is selected.
LEMMA ItemsSelected ==
    ASSUME Tabs!TabAssumption, NEW s, TabItems(s), NEW i \in 0..(s.mCount - 1),
           NEW r, r = Tabs!SetSelectItem(s, i)
    PROVE  TabItems(r)
<1>1. s \in TabState /\ i \in Tabs!Index /\ s.mCount # 0
  <2>1. s \in TabState /\ s.mCount \in Nat /\ s.mCount <= Capacity
    BY DEF TabItems, TabState
  <2> QED BY <2>1 DEF Tabs!Index, Tabs!TabAssumption
<1>2. /\ r \in TabState /\ SameItems(r, s) /\ SameHeld(r, s)
      /\ r.mSelectIdx = i /\ r.select = (s.select \ {s.mSelectIdx}) \cup {i} /\ r.told = i
  BY <1>1, SelectItem DEF TabItems
<1> QED BY <1>1, <1>2 DEF TabItems, SameItems, SameHeld

-----------------------------------------------------------------------------
(* The items lie in the row. *)

TabRow(s) ==
    \A i \in 0..(s.mCount - 1) :
        /\ s.shape.x <= Tabs!ItemX(s, i)
        /\ Tabs!ItemX(s, i) + TabWidth <= s.shape.x + s.shape.w
        /\ \A j \in 0..(i - 1) : Tabs!ItemX(s, j) + TabWidth <= Tabs!ItemX(s, i)

\* More items take more room.
LEMMA Widths ==
    ASSUME NEW a \in Nat, NEW b \in Nat, NEW t \in Nat, a <= b
    PROVE  a * t \in Nat /\ a * t <= b * t
<1>1. PICK c \in Nat : b = a + c
  BY b - a \in Nat, b = a + (b - a)
<1>2. b * t = a * t + c * t /\ c * t \in Nat /\ a * t \in Nat
  BY <1>1
<1> QED BY <1>2

\* As long as they are not more than there is room for
LEMMA RowKept ==
    ASSUME Tabs!TabAssumption, NEW s \in TabState, s.mCount <= Capacity
    PROVE  TabRow(s)
<1> DEFINE x == s.shape.x
           w == s.shape.w
           n == s.mCount
           a == s.shape.align
<1>1. /\ x \in Int /\ w \in Int /\ a \in 0..2 /\ n \in Nat /\ n <= Capacity /\ Capacity \in Nat
      /\ TabWidth \in Nat /\ Interval \in Nat
      /\ w >= Capacity * (TabWidth + Interval) + 2 * Interval /\ (a = 1 => x = 0)
  BY DEF TabState, Tabs!TabAssumption
<1> DEFINE X(i) == Tabs!ItemX(s, i)
<1>2. ASSUME NEW i \in Nat
      PROVE  X(i) = IF a = 0 THEN x + w - Interval * 2 - (n - i) * TabWidth
                    ELSE IF a = 1 THEN i * TabWidth
                    ELSE x + ((w - (TabWidth + Interval) * n) \div 2) + i * TabWidth
  BY <1>1 DEF Tabs!ItemX
<1> HIDE DEF x, w, n, a, X
<1>3. PICK full \in Nat, gaps \in Nat, whole \in Nat : 
         /\ full = n * TabWidth /\ gaps = n * Interval /\ whole = Capacity * TabWidth
         /\ w >= whole + gaps + 2 * Interval /\ full <= whole
  <2>1. n * Interval \in Nat /\ n * Interval <= Capacity * Interval
    BY <1>1, Widths
  <2>2. n * TabWidth \in Nat /\ n * TabWidth <= Capacity * TabWidth
    BY <1>1, Widths
  <2>3. Capacity * TabWidth \in Nat /\ Capacity * Interval \in Nat
    BY <1>1
  <2>4. Capacity * (TabWidth + Interval) = Capacity * TabWidth + Capacity * Interval
    BY <1>1
  <2> QED BY <1>1, <2>1, <2>2, <2>3, <2>4
<1>4. PICK half \in Int : half = (w - (TabWidth + Interval) * n) \div 2
  BY <1>1
<1>5. half >= 0 /\ half + full <= w
  <2>1. (TabWidth + Interval) * n = full + gaps
    BY <1>1, <1>3
  <2>2. PICK d \in Nat : d = w - (full + gaps)
    BY <1>1, <1>3
  <2>3. half = d \div 2
    BY <1>4, <2>1, <2>2
  <2>4. half >= 0 /\ half <= d
    BY <2>2, <2>3
  <2> QED BY <1>1, <1>3, <2>2, <2>4
<1>6. ASSUME NEW i \in 0..(n - 1)
      PROVE  /\ i * TabWidth \in Nat /\ i * TabWidth + TabWidth <= full
             /\ X(i) = (IF a = 0 THEN x + w - Interval * 2 - (full - i * TabWidth)
                        ELSE IF a = 1 THEN i * TabWidth
                        ELSE x + half + i * TabWidth)
  <2>1. i \in Nat /\ i + 1 \in Nat /\ i + 1 <= n
    BY <1>1
  <2>2. i * TabWidth \in Nat
    BY <1>1, <2>1
  <2>3. (i + 1) * TabWidth <= n * TabWidth
    BY <1>1, <2>1, Widths
  <2>4. (i + 1) * TabWidth = i * TabWidth + TabWidth /\ (n - i) * TabWidth = full - i * TabWidth
    BY <1>1, <1>3, <2>1
  <2> QED BY <1>2, <1>3, <1>4, <2>1, <2>2, <2>3, <2>4
<1>7. ASSUME NEW i \in 0..(n - 1)
      PROVE  x <= X(i) /\ X(i) + TabWidth <= x + w
  <2>1. PICK p \in Nat : p = i * TabWidth
    BY <1>6
  <2>2. p + TabWidth <= full /\ X(i) = (IF a = 0 THEN x + w - Interval * 2 - (full - p)
                        ELSE IF a = 1 THEN p ELSE x + half + p)
    BY <1>6, <2>1
  <2> QED BY <1>1, <1>3, <1>5, <2>1, <2>2
<1>8. ASSUME NEW i \in 0..(n - 1), NEW j \in 0..(i - 1)
      PROVE  X(j) + TabWidth <= X(i)
  <2>1. j \in 0..(n - 1) /\ i \in Nat /\ j \in Nat /\ j + 1 <= i
    BY <1>1
  <2>2. PICK p \in Nat : p = i * TabWidth
    BY <1>6
  <2>3. PICK q \in Nat : q = j * TabWidth
    BY <1>6, <2>1
  <2>4. q + TabWidth <= p
    <3>1. (j + 1) * TabWidth <= i * TabWidth
      BY <1>1, <2>1, Widths
    <3>2. (j + 1) * TabWidth = j * TabWidth + TabWidth
      BY <1>1, <2>1
    <3> QED BY <2>2, <2>3, <3>1, <3>2
  <2>5. X(i) = (IF a = 0 THEN x + w - Interval * 2 - (full - p)
                        ELSE IF a = 1 THEN p ELSE x + half + p)
    BY <1>6, <2>2
  <2>6. X(j) = (IF a = 0 THEN x + w - Interval * 2 - (full - q)
                        ELSE IF a = 1 THEN q ELSE x + half + q)
    BY <1>6, <2>1, <2>3
  <2> QED BY <1>1, <1>3, <1>5, <2>2, <2>3, <2>4, <2>5, <2>6
<1> QED BY <1>7, <1>8 DEF TabRow, x, w, n, X

\* Items do not overlap, so that only one is under the pen.
LEMMA ItemUnderPen ==
    ASSUME Tabs!TabAssumption, NEW s \in TabState, s.mCount <= Capacity,
           NEW pen \in Tabs!Places, Tabs!ItemAt(s, pen) # {}
    PROVE  LET i == CHOOSE j \in Tabs!ItemAt(s, pen) : \A k \in Tabs!ItemAt(s, pen) : j <= k
           IN  i \in 0..(s.mCount - 1) /\ Tabs!InItem(s, i, pen)
<1>1. PICK i \in 0..(s.mCount - 1) : Tabs!InItem(s, i, pen)
  BY DEF Tabs!ItemAt
<1>2. ASSUME NEW j \in 0..(s.mCount - 1), NEW k \in 0..(s.mCount - 1), j < k,
             Tabs!InItem(s, j, pen), Tabs!InItem(s, k, pen)
      PROVE  FALSE
  <2>1. /\ j \in 0..(k - 1) /\ s.shape.x <= Tabs!ItemX(s, k)
    BY SMTT(30), <1>2, RowKept DEF TabRow, TabState
  <2>2. Tabs!ItemX(s, j) + TabWidth <= Tabs!ItemX(s, k)
    BY <1>2, <2>1, RowKept DEF TabRow
  <2>3. Tabs!ItemX(s, j) \in Int /\ Tabs!ItemX(s, k) \in Int /\ TabWidth \in Int
    <3>1. /\ s.shape.x \in Int /\ s.shape.w \in Int /\ s.shape.align \in 0..2 /\ s.mCount \in Int
          /\ TabWidth \in Int /\ Interval \in Int /\ j \in Int /\ k \in Int
      BY SMTT(30) DEF TabState, Tabs!TabAssumption
    <3> QED BY <3>1 DEF Tabs!ItemX
  <2>4. pen.x \in Int
    BY <1>2 DEF Tabs!InItem, Tabs!Places, Tabs!TabAssumption
  <2> QED BY <1>2, <2>2, <2>3, <2>4 DEF Tabs!InItem
<1>3. \A j \in Tabs!ItemAt(s, pen) : j = i
  BY <1>1, <1>2 DEF Tabs!ItemAt, TabState
<1>4. i \in Tabs!ItemAt(s, pen) /\ \A k \in Tabs!ItemAt(s, pen) : i <= k
  BY <1>1, <1>3 DEF Tabs!ItemAt, TabState
<1> DEFINE first == CHOOSE j \in Tabs!ItemAt(s, pen) : \A k \in Tabs!ItemAt(s, pen) : j <= k
<1>5. first \in Tabs!ItemAt(s, pen)
  BY <1>4
<1> QED BY <1>5 DEF Tabs!ItemAt

-----------------------------------------------------------------------------
(* The pen on the tabs *)

\* onPenEv: an item that has the pen is drawn pushed while the pen is on it.
LEMMA PenMoveKeeps ==
    ASSUME Tabs!TabAssumption, TabInv, NEW pen \in Tabs!Places, Tabs!PenMove(pen)
    PROVE  TabInv'
<1> DEFINE f == Tabs!Fresh(tabs)
           s == Tabs!TabMove(f, pen)
           e == tabs.events + 1
<1>1. tabs \in TabState /\ e \in Int /\ tabs.penDown /\ tabs' = [s EXCEPT !.events = e]
  BY DEF Tabs!PenMove, Tabs!Becomes, TabInv, TabItems, TabState
<1>2. /\ f \in TabState
      /\ SameItems(f, tabs) /\ SameSelect(f, tabs) /\ SameHeld(f, tabs) /\ SameDown(f, tabs)
      /\ f.chosen = Tabs!NoTab /\ f.clicked = Tabs!NoPage
  BY <1>1, FreshTabs
<1>3. /\ s \in TabState
      /\ SameItems(s, f) /\ SameSelect(s, f) /\ SameDown(s, f) /\ SameChosen(s, f)
      /\ s.mDownIdx = f.mDownIdx /\ s.capture = f.capture
      /\ s.pushed \subseteq f.pushed \cup {f.mDownIdx}
  <2> HIDE DEF f
  <2>1. CASE Tabs!Captured(f)
    <3> DEFINE held == IF Tabs!InItem(f, f.mDownIdx, pen)
                       THEN f.pushed \cup {f.mDownIdx} ELSE f.pushed \ {f.mDownIdx}
    <3>1. s = [f EXCEPT !.pushed = held]
      BY <2>1, Zenon DEF Tabs!TabMove
    <3>2. held \in SUBSET Nat /\ held \subseteq f.pushed \cup {f.mDownIdx}
      BY <1>2, <2>1 DEF TabState, Tabs!Captured
    <3> HIDE DEF held, s
    <3> QED BY <1>2, <3>1, <3>2, PushedItems
  <2>2. CASE ~Tabs!Captured(f)
    <3> DEFINE b == Tabs!TabBody(f, f.mSelectIdx)
               buttons == IF pen.on = "button" THEN f.buttons \cup {b} ELSE f.buttons \ {b}
    <3>1. s = f \/ s = [f EXCEPT !.buttons = buttons]
      BY <2>2, Zenon DEF Tabs!TabMove, Tabs!ButtonMove
    <3>2. f.mSelectIdx \in Nat
      BY <1>2 DEF TabState, Tabs!Index, Tabs!TabAssumption
    <3>3. b \in Int
      BY <1>2, <3>2, TabBodyIs DEF Tabs!TabAssumption
    <3>4. buttons \in SUBSET Int
      BY <1>2, <3>3 DEF TabState
    <3> HIDE DEF buttons, s
    <3>5. CASE s = f
      BY <3>5, <1>2 DEF SameItems, SameSelect, SameDown, SameChosen
    <3>6. CASE s = [f EXCEPT !.buttons = buttons]
      BY <1>2, <3>6, <3>4, PressedButtons DEF SameHeld
    <3> QED BY <3>1, <3>5, <3>6
  <2> QED BY <2>1, <2>2
<1> HIDE DEF s, f, e
<1>4. /\ tabs' \in TabState
      /\ SameItems(tabs', s) /\ SameSelect(tabs', s) /\ SameHeld(tabs', s) /\ SameDown(tabs', s)
      /\ SameChosen(tabs', s)
  BY <1>1, <1>3, CountedEvent
<1>5. /\ SameItems(tabs', tabs) /\ SameSelect(tabs', tabs) /\ SameDown(tabs', tabs)
      /\ tabs'.mDownIdx = tabs.mDownIdx /\ tabs'.capture = tabs.capture
      /\ tabs'.pushed \subseteq tabs.pushed \cup {tabs.mDownIdx}
      /\ tabs'.chosen = Tabs!NoTab /\ tabs'.clicked = Tabs!NoPage
  BY <1>2, <1>3, <1>4 DEF SameItems, SameSelect, SameHeld, SameDown, SameChosen
<1>6. TabItems(tabs')
  BY <1>4, <1>5, ItemsStay DEF TabInv, TabItems
<1>7. TabPen(tabs')
  <2>1. Tabs!InItem(tabs', tabs.mDownIdx, tabs.downAt) <=> Tabs!InItem(tabs, tabs.mDownIdx, tabs.downAt)
    BY <1>5, SameRow DEF SameItems
  <2>2. Tabs!TabBody(tabs', tabs.mSelectIdx) = Tabs!TabBody(tabs, tabs.mSelectIdx)
    BY <1>5, SameBody DEF SameItems
  <2> QED BY <1>5, <2>1, <2>2 DEF TabInv, TabPen, SameItems, SameSelect, SameDown
<1>8. TabChosen(tabs')
  BY <1>5 DEF TabChosen
<1> QED BY <1>6, <1>7, <1>8 DEF TabInv



\* What is not heard leaves items waiting: only the items are promised then.
LEMMA PenUnheardKeeps ==
    ASSUME Tabs!TabAssumption, TabInv, Tabs!PenUnheard
    PROVE  TabInv'
<1> DEFINE f == Tabs!Fresh(tabs)
           s == [f EXCEPT !.penDown = ~@, !.downAt = Tabs!Nowhere, !.missed = TRUE]
           e == tabs.events + 1
<1>1. tabs \in TabState /\ e \in Int /\ tabs' = [s EXCEPT !.events = e]
  BY DEF Tabs!PenUnheard, Tabs!Becomes, TabInv, TabItems, TabState
<1>2. /\ f \in TabState
      /\ SameItems(f, tabs) /\ SameSelect(f, tabs) /\ SameHeld(f, tabs) /\ SameDown(f, tabs)
      /\ f.chosen = Tabs!NoTab /\ f.clicked = Tabs!NoPage
  BY <1>1, FreshTabs
<1> HIDE DEF f, e
<1>3. /\ s \in TabState /\ SameHeld(s, f) /\ SameChosen(s, f) /\ SameSelect(s, f)
      /\ s.shape = f.shape /\ s.pages = f.pages /\ s.mCount = f.mCount /\ s.caption = f.caption
      /\ s.missed
  <2>1. Tabs!Nowhere \in TabPlaces
    BY DEF TabPlaces
  <2> QED BY <1>2, <2>1 DEF TabState, SameHeld, SameChosen, SameSelect
<1> HIDE DEF s
<1>4. /\ tabs' \in TabState
      /\ SameItems(tabs', s) /\ SameSelect(tabs', s) /\ SameHeld(tabs', s) /\ SameChosen(tabs', s)
  BY <1>1, <1>3, CountedEvent
<1>5. TabItems(tabs')
  BY <1>2, <1>3, <1>4 DEF TabInv, TabItems, SameItems, SameSelect, SameHeld
<1>6. TabPen(tabs') /\ TabChosen(tabs')
  BY <1>2, <1>3, <1>4 DEF TabPen, TabChosen, SameItems, SameChosen
<1> QED BY <1>5, <1>6 DEF TabInv

\* onKeyEv: the next item; a button that is pressed is left behind (torn).
LEMMA KeyReleaseKeeps ==
    ASSUME Tabs!TabAssumption, TabInv, NEW left \in BOOLEAN, Tabs!KeyRelease(left)
    PROVE  TabInv'
<1> DEFINE f == Tabs!Fresh(tabs)
           e == tabs.events + 1
<1>1. tabs \in TabState /\ TabItems(tabs) /\ e \in Int /\ tabs.mCount \in Nat \ {0}
      /\ tabs.mSelectIdx \in 0..(tabs.mCount - 1)
  BY SMTT(30) DEF Tabs!KeyRelease, TabInv, TabItems, TabState, Tabs!Index
<1>2. PICK i \in 0..(tabs.mCount - 1) : tabs' = [Tabs!SetSelectItem(f, i) EXCEPT !.events = e]
  <2> DEFINE j == IF left THEN tabs.mSelectIdx - 1 ELSE tabs.mSelectIdx + 1
             i == CASE j < 0 -> tabs.mCount - 1 [] j >= tabs.mCount -> 0 [] OTHER -> j
  <2>1. tabs' = [Tabs!SetSelectItem(f, i) EXCEPT !.events = e]
    BY DEF Tabs!KeyRelease, Tabs!Becomes
  <2>2. i \in 0..(tabs.mCount - 1)
    BY <1>1
  <2> HIDE DEF i
  <2> QED BY <2>1, <2>2
<1> DEFINE s == Tabs!SetSelectItem(f, i)
<1>3. /\ f \in TabState
      /\ SameItems(f, tabs) /\ SameSelect(f, tabs) /\ SameHeld(f, tabs) /\ SameDown(f, tabs)
      /\ f.chosen = Tabs!NoTab /\ f.clicked = Tabs!NoPage
  BY <1>1, FreshTabs
<1> HIDE DEF f, e
<1>4. TabItems(f) /\ f.mCount = tabs.mCount
  BY <1>1, <1>3, ItemsStay DEF TabItems, SameHeld, SameItems
<1>5. TabItems(s)
  BY <1>2, <1>4, ItemsSelected
<1>6. /\ SameItems(s, f) /\ SameHeld(s, f) /\ SameDown(s, f) /\ SameChosen(s, f) /\ s.mSelectIdx = i
      /\ s.torn = (f.torn \/ (i # f.mSelectIdx /\ f.capture \in 1..MaxPages))
  <2>1. i \in Tabs!Index
    BY <1>1, <1>2 DEF TabItems, Tabs!Index, Tabs!TabAssumption
  <2> QED BY <1>3, <2>1, SelectItem
<1> HIDE DEF s
<1>7. /\ tabs' \in TabState
      /\ SameItems(tabs', s) /\ SameSelect(tabs', s) /\ SameHeld(tabs', s) /\ SameDown(tabs', s)
      /\ SameChosen(tabs', s)
  BY <1>1, <1>2, <1>5, CountedEvent DEF TabItems, s
<1>8. /\ SameItems(tabs', tabs) /\ SameHeld(tabs', tabs) /\ SameDown(tabs', tabs)
      /\ tabs'.mSelectIdx = i /\ tabs'.chosen = Tabs!NoTab /\ tabs'.clicked = Tabs!NoPage
      /\ tabs'.torn = (tabs.torn \/ (i # tabs.mSelectIdx /\ tabs.capture \in 1..MaxPages))
  BY <1>3, <1>6, <1>7 DEF SameItems, SameSelect, SameHeld, SameDown, SameChosen
<1>9. TabItems(tabs')
  BY <1>5, <1>7, ItemsStay DEF TabItems, SameHeld
<1>10. TabPen(tabs')
  <2>1. Tabs!InItem(tabs', tabs.mDownIdx, tabs.downAt) <=> Tabs!InItem(tabs, tabs.mDownIdx, tabs.downAt)
    BY <1>8, SameRow DEF SameItems
  <2>2. Tabs!TabBody(tabs', i) = Tabs!TabBody(tabs, i)
    BY <1>8, SameBody DEF SameItems
  <2>3. tabs.torn \in BOOLEAN
    BY <1>1 DEF TabState
  <2> QED BY <1>8, <2>1, <2>2, <2>3 DEF TabInv, TabPen, SameItems, SameHeld, SameDown
<1>11. TabChosen(tabs')
  BY <1>8 DEF TabChosen
<1> QED BY <1>9, <1>10, <1>11 DEF TabInv

\* onPenEv: an item waits for the pen to go up, or the button of the page.
LEMMA PenDownKeeps ==
    ASSUME Tabs!TabAssumption, TabInv, NEW pen \in Tabs!Places, Tabs!PenDown(pen)
    PROVE  TabInv'
<1> DEFINE f == Tabs!Fresh(tabs)
           d == [f EXCEPT !.penDown = TRUE, !.downAt = pen, !.below = Tabs!NoPage]
           s == Tabs!TabDown(d, pen)
           e == tabs.events + 1
<1>1. tabs \in TabState /\ TabItems(tabs) /\ e \in Int /\ ~tabs.penDown /\ tabs' = [s EXCEPT !.events = e]
  BY DEF Tabs!PenDown, Tabs!Becomes, TabInv, TabItems, TabState
<1>2. /\ f \in TabState
      /\ SameItems(f, tabs) /\ SameSelect(f, tabs) /\ SameHeld(f, tabs) /\ SameDown(f, tabs)
      /\ f.chosen = Tabs!NoTab /\ f.clicked = Tabs!NoPage
  BY <1>1, FreshTabs
<1> HIDE DEF f, e
<1>3. /\ d \in TabState
      /\ SameItems(d, f) /\ SameSelect(d, f) /\ SameHeld(d, f) /\ SameChosen(d, f)
      /\ d.penDown /\ d.downAt = pen /\ d.jumped = f.jumped
  <2>1. pen \in TabPlaces /\ Tabs!NoPage \in Int
    BY DEF TabPlaces, Tabs!NoPage
  <2> HIDE DEF Tabs!NoPage
  <2> QED BY <1>2, <2>1 DEF TabState, SameItems, SameSelect, SameHeld, SameChosen
<1> HIDE DEF d
<1>4. /\ s \in TabState
      /\ SameItems(s, d) /\ SameSelect(s, d) /\ SameChosen(s, d)
      /\ s.penDown /\ s.downAt = pen /\ s.jumped = d.jumped
      /\ \/ /\ s.mDownIdx \in 0..(d.mCount - 1) /\ Tabs!InItem(d, s.mDownIdx, pen)
            /\ s.capture = Tabs!TheTab /\ s.pushed = d.pushed \cup {s.mDownIdx}
         \/ /\ s.mDownIdx = d.mDownIdx /\ s.pushed = d.pushed
            /\ s.capture = Tabs!TabBody(d, d.mSelectIdx) /\ s.below = s.capture
            /\ s.capture # Tabs!TheTab
         \/ s.mDownIdx = d.mDownIdx /\ s.pushed = d.pushed /\ s.capture = d.capture
  <2>1. CASE Tabs!ItemAt(d, pen) # {}
    <3> DEFINE i == CHOOSE j \in Tabs!ItemAt(d, pen) : \A k \in Tabs!ItemAt(d, pen) : j <= k
               c == Tabs!SetCapture(d, Tabs!TheTab)
               held == c.pushed \cup {i}
    <3>1. s = [c EXCEPT !.mDownIdx = i, !.pushed = held]
      BY <2>1, Zenon DEF Tabs!TabDown
    <3>2. d.mCount <= Capacity
      BY <1>1, <1>2, <1>3 DEF TabItems, SameItems
    <3>3. i \in 0..(d.mCount - 1) /\ Tabs!InItem(d, i, pen)
      BY <2>1, <1>3, <3>2, ItemUnderPen
    <3>4. Tabs!TheTab \in Int
      BY DEF Tabs!TheTab
    <3>5. /\ c \in TabState
          /\ SameItems(c, d) /\ SameSelect(c, d) /\ SameDown(c, d) /\ SameChosen(c, d)
          /\ c.capture = Tabs!TheTab /\ c.mDownIdx = d.mDownIdx /\ c.pushed = d.pushed
      BY <1>3, <3>4, Capturing
    <3>6. i \in Int /\ held \in SUBSET Nat
      <4>1. d.mCount \in Nat /\ c.pushed \subseteq Nat
        BY <1>3, <3>5 DEF TabState
      <4> HIDE DEF i, c
      <4>2. i \in Nat
        BY <3>3, <4>1
      <4> QED BY <4>1, <4>2
    <3> HIDE DEF i, c, held
    <3>7. /\ s \in TabState /\ SameItems(s, c) /\ SameSelect(s, c) /\ SameDown(s, c) /\ SameChosen(s, c)
          /\ s.capture = c.capture /\ s.mDownIdx = i /\ s.pushed = held
      BY <3>1, <3>5, <3>6 DEF TabState, SameItems, SameSelect, SameDown, SameChosen
    <3>8. s.pushed = d.pushed \cup {i}
      BY <3>5, <3>7 DEF held
    <3> HIDE DEF s
    <3> QED BY <1>3, <3>3, <3>5, <3>7, <3>8 DEF SameItems, SameSelect, SameDown, SameChosen
  <2>2. CASE Tabs!ItemAt(d, pen) = {}
    <3> DEFINE b == Tabs!TabBody(d, d.mSelectIdx)
               c == Tabs!SetCapture(d, b)
               buttons == c.buttons \cup {b}
    <3>1. s = IF b # Tabs!NoPage /\ pen.on = "button"
              THEN [c EXCEPT !.buttons = buttons, !.below = b] ELSE d
      BY <2>2, Zenon DEF Tabs!TabDown, Tabs!ButtonDown
    <3>2. b \in 0..MaxPages /\ b \in Int /\ b # Tabs!TheTab
      <4>1. d.mSelectIdx \in Nat
        BY <1>3 DEF TabState, Tabs!Index, Tabs!TabAssumption
      <4> QED BY <1>3, <4>1, TabBodyIs DEF Tabs!TheTab, Tabs!TabAssumption
    <3>3. /\ c \in TabState
          /\ SameItems(c, d) /\ SameSelect(c, d) /\ SameDown(c, d) /\ SameChosen(c, d)
          /\ c.capture = b /\ c.mDownIdx = d.mDownIdx /\ c.pushed = d.pushed
      BY <1>3, <3>2, Capturing
    <3>4. buttons \in SUBSET Int
      BY <3>2, <3>3 DEF TabState
    <3> HIDE DEF c, buttons
    <3>5. CASE s = d
      BY <3>5, <1>3 DEF SameItems, SameSelect, SameChosen
    <3>6. CASE s = [c EXCEPT !.buttons = buttons, !.below = b]
      <4> DEFINE bb == b
      <4> HIDE DEF bb, s
      <4>0. s = [c EXCEPT !.buttons = buttons, !.below = bb] /\ bb \in Int
        BY <3>6, <3>2 DEF bb
      <4>1. /\ s \in TabState /\ SameItems(s, c) /\ SameSelect(s, c) /\ SameChosen(s, c) /\ SameHeld(s, c)
            /\ s.penDown = c.penDown /\ s.downAt = c.downAt /\ s.jumped = c.jumped /\ s.below = bb
        BY <3>3, <3>4, <4>0 DEF TabState, SameItems, SameSelect, SameChosen, SameHeld
      <4> QED BY <1>3, <3>2, <3>3, <4>1 DEF SameItems, SameSelect, SameDown, SameChosen, SameHeld, bb
    <3> QED BY <3>1, <3>5, <3>6
  <2> QED BY <2>1, <2>2
<1> HIDE DEF s
<1>5. /\ tabs' \in TabState
      /\ SameItems(tabs', s) /\ SameSelect(tabs', s) /\ SameHeld(tabs', s) /\ SameDown(tabs', s)
      /\ SameChosen(tabs', s)
  BY <1>1, <1>4, CountedEvent
<1>6. /\ SameItems(tabs', tabs) /\ SameSelect(tabs', tabs)
      /\ tabs'.penDown /\ tabs'.downAt = pen /\ tabs'.jumped = tabs.jumped
      /\ tabs'.chosen = Tabs!NoTab /\ tabs'.clicked = Tabs!NoPage
  BY <1>2, <1>3, <1>4, <1>5 DEF SameItems, SameSelect, SameDown, SameChosen
<1>7. \/ /\ tabs'.mDownIdx \in 0..(tabs.mCount - 1) /\ Tabs!InItem(tabs', tabs'.mDownIdx, pen)
         /\ tabs'.capture = Tabs!TheTab /\ tabs'.pushed = tabs.pushed \cup {tabs'.mDownIdx}
      \/ /\ tabs'.mDownIdx = tabs.mDownIdx /\ tabs'.pushed = tabs.pushed
         /\ tabs'.capture = Tabs!TabBody(tabs', tabs'.mSelectIdx) /\ tabs'.below = tabs'.capture
         /\ tabs'.capture # Tabs!TheTab
      \/ tabs'.mDownIdx = tabs.mDownIdx /\ tabs'.pushed = tabs.pushed /\ tabs'.capture = tabs.capture
  <2>1. Tabs!InItem(tabs', s.mDownIdx, pen) <=> Tabs!InItem(d, s.mDownIdx, pen)
    BY <1>4, <1>5, SameRow DEF SameItems
  <2>2. Tabs!TabBody(tabs', d.mSelectIdx) = Tabs!TabBody(d, d.mSelectIdx)
    BY <1>4, <1>5, SameBody DEF SameItems
  <2> QED BY <1>2, <1>3, <1>4, <1>5, <2>1, <2>2 DEF SameItems, SameSelect, SameHeld, SameDown
<1>8. TabItems(tabs')
  BY <1>1, <1>5, <1>6, <1>7, ItemsStay DEF TabItems
<1>9. TabPen(tabs')
  <2>1. SUFFICES ASSUME ~tabs.missed PROVE TabPen(tabs')
    BY <1>6 DEF TabPen, SameItems
  <2>2. /\ tabs.mDownIdx = Tabs!NoTab /\ tabs.capture # Tabs!TheTab
        /\ ~tabs.torn => tabs.capture \notin 1..MaxPages
        /\ ~tabs.jumped => tabs.pushed \subseteq {Tabs!NoTab}
    BY <1>1, <2>1 DEF TabInv, TabPen
  <2>3. Tabs!NoTab \notin tabs.pushed
    BY <1>1 DEF TabState, Tabs!NoTab
  <2> QED BY <1>6, <1>7, <2>2, <2>3 DEF TabPen, SameItems, SameSelect, Tabs!TheTab, Tabs!NoTab
<1>10. TabChosen(tabs')
  BY <1>6 DEF TabChosen
<1> QED BY <1>8, <1>9, <1>10 DEF TabInv


\* onPenEv: the item is chosen if the pen is still on it; nothing waits any more.
LEMMA PenUpKeeps ==
    ASSUME Tabs!TabAssumption, TabInv, NEW pen \in Tabs!Places, Tabs!PenUp(pen)
    PROVE  TabInv'
<1> DEFINE f == Tabs!Fresh(tabs)
           up == Tabs!TabUp(f, pen)
           jumped == tabs.mDownIdx \in tabs.pushed /\ ~Tabs!InItem(tabs, tabs.mDownIdx, pen)
           s == [up EXCEPT !.penDown = FALSE, !.upAt = pen, !.jumped = @ \/ jumped]
           e == tabs.events + 1
           i == tabs.mDownIdx
           chosen == Tabs!InItem(f, f.mDownIdx, pen) /\ f.mDownIdx \in f.pushed
           b == Tabs!TabBody(f, f.mSelectIdx)
<1>1. tabs \in TabState /\ TabItems(tabs) /\ e \in Int /\ tabs.penDown /\ tabs' = [s EXCEPT !.events = e]
  BY DEF Tabs!PenUp, Tabs!Becomes, TabInv, TabItems, TabState
<1>2. /\ f \in TabState
      /\ SameItems(f, tabs) /\ SameSelect(f, tabs) /\ SameHeld(f, tabs) /\ SameDown(f, tabs)
      /\ f.chosen = Tabs!NoTab /\ f.clicked = Tabs!NoPage
  BY <1>1, FreshTabs
<1>3. chosen <=> Tabs!InItem(tabs, i, pen) /\ i \in tabs.pushed
  BY <1>2, SameRow DEF SameItems, SameHeld
<1>4. b = Tabs!TabBody(tabs, tabs.mSelectIdx) /\ b \in 0..MaxPages
  <2>1. tabs.mSelectIdx \in Nat
    BY <1>1 DEF TabState, Tabs!Index, Tabs!TabAssumption
  <2> QED BY <1>1, <1>2, <2>1, TabBodyIs, SameBody DEF SameItems, SameSelect
<1>5. TabItems(f)
  BY <1>1, <1>2, ItemsStay DEF TabItems, SameHeld
<1> HIDE DEF f, e, jumped, b
\* What onPenEv does
<1>6. /\ TabItems(up) /\ SameItems(up, tabs) /\ SameDown(up, tabs)
      /\ \/ /\ tabs.capture = Tabs!TheTab /\ i >= 0
            /\ up.capture = Tabs!NoPage /\ up.mDownIdx = Tabs!NoTab /\ up.clicked = Tabs!NoPage
            /\ IF chosen THEN up.chosen = i /\ up.pushed = tabs.pushed \ {i}
               ELSE up.chosen = Tabs!NoTab /\ up.pushed = tabs.pushed
         \/ /\ ~(tabs.capture = Tabs!TheTab /\ i >= 0) /\ SameSelect(up, tabs)
            /\ up.mDownIdx = i /\ up.pushed = tabs.pushed /\ up.chosen = Tabs!NoTab
            /\ \/ /\ b = Tabs!NoPage \/ tabs.capture # b
                  /\ up.capture = tabs.capture /\ up.clicked = Tabs!NoPage
               \/ /\ b # Tabs!NoPage /\ tabs.capture = b
                  /\ up.capture = Tabs!NoPage
                  /\ up.clicked = IF pen.on = "button" THEN b ELSE Tabs!NoPage
  <2>1. CASE Tabs!Captured(f)
    <3> DEFINE g == [f EXCEPT !.pushed = @ \ {i}]
               t == IF chosen THEN Tabs!SetSelectItem(g, i) ELSE f
               c == Tabs!SetCapture(t, Tabs!NoPage)
               which == IF chosen THEN i ELSE Tabs!NoTab
    <3>1. f.mDownIdx = i
      BY <1>2 DEF SameHeld
    <3>2. up = [c EXCEPT !.mDownIdx = Tabs!NoTab, !.chosen = which]
      BY <2>1, <3>1, Zenon DEF Tabs!TabUp
    <3>3. i \in 0..(tabs.mCount - 1) /\ tabs.capture = Tabs!TheTab
      <4>1. i >= 0 /\ i # Tabs!NoTab /\ tabs.capture = Tabs!TheTab
        BY <1>2, <2>1 DEF Tabs!Captured, SameHeld, Tabs!NoTab
      <4> QED BY <1>1, <4>1 DEF TabItems
    <3> HIDE DEF chosen
    <3>4. /\ TabItems(t) /\ SameItems(t, f) /\ SameDown(t, f) /\ SameChosen(t, f)
          /\ t.pushed = IF chosen THEN f.pushed \ {i} ELSE f.pushed
      <4>1. CASE chosen
        <5> DEFINE rest == f.pushed \ {i}
        <5>1. g = [f EXCEPT !.pushed = rest]
          BY Zenon
        <5>2. rest \in SUBSET Nat
          BY <1>2 DEF TabState
        <5> HIDE DEF g, rest
        <5>3. /\ g \in TabState
              /\ SameItems(g, f) /\ SameSelect(g, f) /\ SameDown(g, f) /\ SameChosen(g, f)
              /\ g.capture = f.capture /\ g.mDownIdx = f.mDownIdx /\ g.pushed = rest
          BY <1>2, <5>1, <5>2, PushedItems
        <5>4. TabItems(g) /\ i \in 0..(g.mCount - 1)
          BY <1>2, <1>5, <3>3, <5>3, ItemsStay DEF TabItems, SameItems
        <5>5. TabItems(t)
          BY <4>1, <5>4, ItemsSelected
        <5>6. i \in Tabs!Index
          <6>1. g.mCount \in Nat /\ g.mCount <= Capacity
            BY <5>4 DEF TabItems, TabState
          <6> QED BY <5>4, <6>1 DEF Tabs!Index, Tabs!TabAssumption
        <5>7. SameItems(t, g) /\ SameHeld(t, g) /\ SameDown(t, g) /\ SameChosen(t, g)
          BY <4>1, <5>3, <5>6, SelectItem
        <5> HIDE DEF t
        <5> QED BY <4>1, <5>3, <5>5, <5>7 DEF SameItems, SameHeld, SameDown, SameChosen, rest
      <4>2. CASE ~chosen
        BY <4>2, <1>5 DEF SameItems, SameDown, SameChosen
      <4> QED BY <4>1, <4>2
    <3> HIDE DEF t
    <3>5. Tabs!NoTab \in Int /\ Tabs!NoPage \in Int /\ which \in Int
      BY <1>1 DEF Tabs!NoTab, Tabs!NoPage, TabState
    <3>6. /\ c \in TabState
          /\ SameItems(c, t) /\ SameSelect(c, t) /\ SameDown(c, t) /\ SameChosen(c, t)
          /\ c.capture = Tabs!NoPage /\ c.mDownIdx = t.mDownIdx /\ c.pushed = t.pushed
      BY SMTT(30), <3>4, <3>5, Capturing DEF TabItems
    <3> HIDE DEF c, which
    <3>7. /\ up \in TabState /\ SameItems(up, c) /\ SameSelect(up, c) /\ SameDown(up, c)
          /\ up.capture = c.capture /\ up.mDownIdx = Tabs!NoTab /\ up.pushed = c.pushed
          /\ up.chosen = which /\ up.clicked = c.clicked
      BY ZenonT(30), <3>2, <3>5, <3>6 DEF TabState, SameItems, SameSelect, SameDown
    <3> HIDE DEF up
    <3>8. TabItems(up)
      <4>1. SameItems(up, t) /\ SameSelect(up, t)
        BY <3>6, <3>7 DEF SameItems, SameSelect
      <4> QED BY <3>4, <3>7, <4>1, ItemsStay
    <3>9. SameItems(up, tabs) /\ SameDown(up, tabs)
      BY <1>2, <3>4, <3>6, <3>7 DEF SameItems, SameDown
    <3>10. /\ up.capture = Tabs!NoPage /\ up.mDownIdx = Tabs!NoTab /\ up.clicked = Tabs!NoPage
           /\ IF chosen THEN up.chosen = i /\ up.pushed = tabs.pushed \ {i}
              ELSE up.chosen = Tabs!NoTab /\ up.pushed = tabs.pushed
      BY <1>2, <3>4, <3>6, <3>7 DEF SameHeld, SameChosen, which
    <3> QED BY <3>3, <3>8, <3>9, <3>10
  <2>2. CASE ~Tabs!Captured(f)
    <3>1. up = IF b = Tabs!NoPage \/ f.capture # b THEN f
              ELSE [Tabs!SetCapture(f, Tabs!NoPage)
                       EXCEPT !.clicked = IF pen.on = "button" THEN b ELSE Tabs!NoPage]
      BY <2>2, Zenon DEF Tabs!TabUp, Tabs!ButtonUp, b
    <3>2. ~(tabs.capture = Tabs!TheTab /\ i >= 0)
      BY <1>2, <2>2 DEF Tabs!Captured, SameHeld
    <3>3. CASE b = Tabs!NoPage \/ f.capture # b
      <4>1. up = f
        BY <3>1, <3>3
      <4> HIDE DEF up
      <4> QED BY <1>2, <1>5, <3>2, <3>3, <4>1 DEF SameHeld
    <3>4. CASE b # Tabs!NoPage /\ f.capture = b
      <4> DEFINE c == Tabs!SetCapture(f, Tabs!NoPage)
                 clicked == IF pen.on = "button" THEN b ELSE Tabs!NoPage
      <4>1. up = [c EXCEPT !.clicked = clicked]
        BY <3>1, <3>4, Zenon
      <4>2. Tabs!NoPage \in Int /\ clicked \in Int
        BY <1>4 DEF Tabs!NoPage
      <4>3. /\ c \in TabState
            /\ SameItems(c, f) /\ SameSelect(c, f) /\ SameDown(c, f) /\ SameChosen(c, f)
            /\ c.capture = Tabs!NoPage /\ c.mDownIdx = f.mDownIdx /\ c.pushed = f.pushed
        BY <1>2, <4>2, Capturing
      <4> HIDE DEF c, clicked
      <4>4. /\ up \in TabState /\ SameItems(up, c) /\ SameSelect(up, c) /\ SameHeld(up, c) /\ SameDown(up, c)
            /\ up.chosen = c.chosen /\ up.clicked = clicked
        BY <4>1, <4>2, <4>3 DEF TabState, SameItems, SameSelect, SameHeld, SameDown
      <4> HIDE DEF up
      <4>5. SameItems(up, tabs) /\ SameSelect(up, tabs) /\ SameDown(up, tabs)
        BY <1>2, <4>3, <4>4 DEF SameItems, SameSelect, SameDown
      <4>6. up.mDownIdx = i /\ up.pushed = tabs.pushed /\ up.chosen = Tabs!NoTab /\ up.capture = Tabs!NoPage
        BY <1>2, <4>3, <4>4 DEF SameHeld, SameChosen
      <4>7. TabItems(up)
        BY <1>1, <4>4, <4>5, <4>6, ItemsStay DEF TabItems
      <4> QED BY <1>2, <3>2, <3>4, <4>4, <4>5, <4>6, <4>7 DEF SameHeld, clicked
    <3> QED BY <3>3, <3>4
  <2> QED BY <2>1, <2>2
<1> HIDE DEF up
<1>7. /\ s \in TabState /\ SameItems(s, up) /\ SameSelect(s, up) /\ SameHeld(s, up)
      /\ s.penDown = FALSE /\ s.upAt = pen /\ s.jumped = (up.jumped \/ jumped)
      /\ s.downAt = up.downAt /\ s.below = up.below /\ s.chosen = up.chosen /\ s.clicked = up.clicked
  <2>1. up \in TabState /\ pen \in TabPlaces
    BY <1>6 DEF TabItems, TabPlaces
  <2>2. jumped \in BOOLEAN
    BY DEF jumped
  <2> DEFINE j == up.jumped \/ jumped
  <2>3. s = [up EXCEPT !.penDown = FALSE, !.upAt = pen, !.jumped = j] /\ j \in BOOLEAN
    BY <2>1, <2>2
  <2> HIDE DEF j, s
  <2>4. /\ s \in TabState /\ SameItems(s, up) /\ SameSelect(s, up) /\ SameHeld(s, up)
        /\ s.penDown = FALSE /\ s.upAt = pen /\ s.jumped = j
        /\ s.downAt = up.downAt /\ s.below = up.below /\ s.chosen = up.chosen /\ s.clicked = up.clicked
    BY <2>1, <2>3 DEF TabState, SameItems, SameSelect, SameHeld
  <2> QED BY <2>4 DEF j
<1> HIDE DEF s
<1>8. /\ tabs' \in TabState
      /\ SameItems(tabs', s) /\ SameSelect(tabs', s) /\ SameHeld(tabs', s) /\ SameDown(tabs', s)
      /\ SameChosen(tabs', s)
  BY <1>1, <1>7, CountedEvent
<1>9. /\ SameItems(tabs', up) /\ SameSelect(tabs', up) /\ SameHeld(tabs', up) /\ SameItems(tabs', tabs)
      /\ ~tabs'.penDown /\ tabs'.upAt = pen /\ tabs'.jumped = (tabs.jumped \/ jumped)
      /\ tabs'.downAt = tabs.downAt /\ tabs'.below = tabs.below
      /\ tabs'.chosen = up.chosen /\ tabs'.clicked = up.clicked
  BY <1>6, <1>7, <1>8 DEF SameItems, SameSelect, SameHeld, SameDown, SameChosen
<1>10. TabItems(tabs')
  BY <1>6, <1>8, <1>9, ItemsStay DEF TabItems, SameHeld
<1>11. /\ Tabs!InItem(tabs', i, pen) <=> Tabs!InItem(tabs, i, pen)
       /\ Tabs!InItem(tabs', i, tabs.downAt) <=> Tabs!InItem(tabs, i, tabs.downAt)
  BY <1>9, SameRow DEF SameItems
<1>12. /\ tabs.pushed \subseteq Nat /\ Tabs!NoTab \notin tabs.pushed /\ Tabs!NoPage \notin 1..MaxPages
       /\ Tabs!NoPage # Tabs!TheTab /\ Tabs!TheTab \notin 1..MaxPages
  BY <1>1 DEF TabState, Tabs!NoTab, Tabs!NoPage, Tabs!TheTab
<1>13. ASSUME ~tabs.missed, tabs.capture = Tabs!TheTab PROVE i \in 0..(tabs.mCount - 1) /\ i >= 0
  <2>1. i # Tabs!NoTab
    BY <1>1, <1>13 DEF TabInv, TabPen
  <2> QED BY <1>1, <2>1 DEF TabItems, TabState
<1>14. TabPen(tabs')
  <2>1. SUFFICES ASSUME ~tabs.missed PROVE TabPen(tabs')
    BY <1>9 DEF TabPen, SameItems
  <2>2. /\ i # Tabs!NoTab <=> tabs.capture = Tabs!TheTab
        /\ ~tabs.jumped => tabs.pushed \subseteq {i}
        /\ ~tabs.torn /\ tabs.capture \in 1..MaxPages => tabs.capture = b
    BY <1>1, <1>4, <2>1 DEF TabInv, TabPen
  <2>3. CASE /\ up.capture = Tabs!NoPage /\ up.mDownIdx = Tabs!NoTab
             /\ up.pushed = IF chosen THEN tabs.pushed \ {i} ELSE tabs.pushed
    <3>1. ~tabs'.jumped => up.pushed = {}
      BY <1>3, <1>9, <2>2, <2>3 DEF jumped
    <3> HIDE DEF chosen
    <3> QED BY <1>9, <1>12, <2>3, <3>1 DEF TabPen, SameHeld
  <2>4. CASE /\ tabs.capture # Tabs!TheTab
             /\ SameSelect(up, tabs) /\ up.mDownIdx = i /\ up.pushed = tabs.pushed
             /\ \/ (b = Tabs!NoPage \/ tabs.capture # b) /\ up.capture = tabs.capture
                \/ up.capture = Tabs!NoPage
    <3>1. up.torn \/ up.capture \notin 1..MaxPages
      BY <1>12, <2>2, <2>4 DEF SameSelect
    <3>2. up.capture # Tabs!TheTab
      BY <1>12, <2>4
    <3> QED BY <1>9, <2>2, <2>4, <3>1, <3>2 DEF TabPen, SameHeld, SameSelect
  <2> HIDE DEF chosen, i
  <2>5. tabs.capture = Tabs!TheTab => i >= 0
    BY <1>13, <2>1
  <2> QED BY <1>6, <2>3, <2>4, <2>5
<1>15. TabChosen(tabs')
  <2>1. CASE up.chosen = i /\ chosen /\ up.clicked = Tabs!NoPage /\ tabs.capture = Tabs!TheTab /\ i >= 0
    <3>1. i # Tabs!NoTab
      BY <2>1 DEF Tabs!NoTab
    <3>2. ~tabs.missed => Tabs!InItem(tabs, i, tabs.downAt)
      BY <3>1 DEF TabInv, TabPen
    <3> QED BY <1>3, <1>9, <1>11, <2>1, <3>2 DEF TabChosen, SameItems
  <2>2. CASE up.chosen = Tabs!NoTab /\ up.clicked = Tabs!NoPage
    BY <1>9, <2>2 DEF TabChosen
  <2>3. CASE /\ up.chosen = Tabs!NoTab /\ b # Tabs!NoPage /\ tabs.capture = b /\ SameSelect(up, tabs)
             /\ up.clicked = IF pen.on = "button" THEN b ELSE Tabs!NoPage
    <3>1. b \in 1..MaxPages
      BY <1>4, <2>3 DEF Tabs!NoPage, Tabs!TabAssumption
    <3>2. ~tabs.missed /\ ~tabs.torn => tabs.below = b
      BY <2>3, <3>1 DEF TabInv, TabPen
    <3> QED BY <1>9, <2>3, <3>2 DEF TabChosen, SameItems, SameSelect
  <2> HIDE DEF i
  <2> QED BY <1>6, <2>1, <2>2, <2>3
<1> QED BY <1>10, <1>14, <1>15 DEF TabInv

-----------------------------------------------------------------------------
(* Pages come and go *)

\* setTabItem of a new page
LEMMA AppendPageKeeps ==
    ASSUME Tabs!TabAssumption, TabInv, NEW selected \in BOOLEAN, Tabs!AppendPage(selected)
    PROVE  TabInv'
<1> DEFINE f == Tabs!Fresh(tabs)
           page == tabs.made + 1
           i == Len(tabs.pages)
           pages == Append(f.pages, page)
           s == [f EXCEPT !.pages = pages, !.made = page]
           select == s.select \ {i}
           held == s.pushed \ {i}
           n == Len(s.pages)
           t == [s EXCEPT !.mCount = n, !.caption[i] = page, !.select = select, !.pushed = held]
           u == IF selected THEN Tabs!SetSelectItem(t, i) ELSE t
           e == tabs.events + 1
<1>1. /\ tabs \in TabState /\ TabItems(tabs) /\ e \in Int /\ ~tabs.penDown
      /\ page \in 1..MaxPages /\ i \in Nat /\ i < Capacity /\ i = tabs.mCount /\ i \in Tabs!Index
      /\ (tabs.pages = <<>> => selected) /\ tabs' = [u EXCEPT !.events = e]
  <2>1. /\ tabs \in TabState /\ TabItems(tabs) /\ e \in Int /\ tabs.mCount \in Nat
        /\ i = tabs.mCount /\ tabs.made \in Nat
    BY DEF TabInv, TabItems, TabState
  <2>2. /\ ~tabs.penDown /\ tabs.made < MaxPages /\ i < Capacity /\ (tabs.pages = <<>> => selected)
        /\ tabs' = [u EXCEPT !.events = e]
    BY DEF Tabs!AppendPage, Tabs!Becomes, Tabs!SetTabItem
  <2> HIDE DEF i, u, e
  <2> QED BY <2>1, <2>2 DEF Tabs!Index, Tabs!TabAssumption
<1>2. /\ f \in TabState
      /\ SameItems(f, tabs) /\ SameSelect(f, tabs) /\ SameHeld(f, tabs) /\ SameDown(f, tabs)
      /\ f.chosen = Tabs!NoTab /\ f.clicked = Tabs!NoPage
  BY <1>1, FreshTabs
<1>3. /\ pages \in Seq(1..MaxPages) /\ Len(pages) = i + 1 /\ pages[i + 1] = page
      /\ \A k \in 1..i : pages[k] = tabs.pages[k]
  <2>1. f.pages = tabs.pages /\ tabs.pages \in Seq(1..MaxPages)
    BY <1>1, <1>2 DEF SameItems, TabState
  <2> HIDE DEF page, f
  <2> QED BY <1>1, <2>1, AppendProperties
<1> HIDE DEF f, pages, e
<1>4. /\ s \in TabState /\ SameSelect(s, f) /\ SameHeld(s, f) /\ SameDown(s, f) /\ SameChosen(s, f)
      /\ s.pages = pages /\ s.shape = f.shape /\ s.mCount = f.mCount /\ s.caption = f.caption
      /\ s.missed = f.missed
  <2>1. page \in Nat
    BY <1>1
  <2> HIDE DEF page
  <2> QED BY <1>2, <1>3, <2>1 DEF TabState, SameSelect, SameHeld, SameDown, SameChosen
<1> HIDE DEF s
<1>5. /\ t \in TabState /\ SameDown(t, s) /\ SameChosen(t, s)
      /\ t.pages = s.pages /\ t.shape = s.shape /\ t.missed = s.missed
      /\ t.mSelectIdx = s.mSelectIdx /\ t.told = s.told /\ t.torn = s.torn
      /\ t.capture = s.capture /\ t.mDownIdx = s.mDownIdx
      /\ t.mCount = i + 1 /\ t.select = select /\ t.pushed = held
      /\ \A k \in Tabs!Index : t.caption[k] = IF k = i THEN page ELSE tabs.caption[k]
  <2> DEFINE caption == [s.caption EXCEPT ![i] = page]
  <2>1. n = i + 1 /\ n \in Nat
    BY <1>1, <1>3, <1>4
  <2>2. select \in SUBSET Int /\ held \in SUBSET Nat
    BY <1>4 DEF TabState
  <2>3. s.caption \in [Tabs!Index -> 0..MaxPages] /\ s.caption = tabs.caption
    BY <1>2, <1>4 DEF TabState, SameItems
  <2>4. page \in 0..MaxPages
    BY <1>1 DEF Tabs!TabAssumption
  <2>5. /\ caption \in [Tabs!Index -> 0..MaxPages]
        /\ \A k \in Tabs!Index : caption[k] = IF k = i THEN page ELSE tabs.caption[k]
    <3> HIDE DEF page, i
    <3> QED BY <1>1, <2>3, <2>4
  <2>6. t = [s EXCEPT !.mCount = n, !.caption = caption, !.select = select, !.pushed = held]
    BY Zenon
  <2> HIDE DEF n, caption, select, held, t
  <2>7. /\ t \in TabState /\ SameDown(t, s) /\ SameChosen(t, s)
        /\ t.pages = s.pages /\ t.shape = s.shape /\ t.missed = s.missed
        /\ t.mSelectIdx = s.mSelectIdx /\ t.told = s.told /\ t.torn = s.torn
        /\ t.capture = s.capture /\ t.mDownIdx = s.mDownIdx
        /\ t.mCount = n /\ t.select = select /\ t.pushed = held /\ t.caption = caption
    BY <1>4, <2>1, <2>2, <2>5, <2>6 DEF TabState, SameDown, SameChosen
  <2> QED BY <2>1, <2>5, <2>7
<1> HIDE DEF t
<1>6. /\ t.shape = tabs.shape /\ t.pages = pages /\ t.missed = tabs.missed
      /\ t.mSelectIdx = tabs.mSelectIdx /\ t.told = tabs.told /\ t.torn = tabs.torn
      /\ t.capture = tabs.capture /\ t.mDownIdx = tabs.mDownIdx
      /\ t.select = tabs.select \ {i} /\ t.pushed = tabs.pushed \ {i} /\ SameDown(t, tabs)
      /\ t.chosen = Tabs!NoTab /\ t.clicked = Tabs!NoPage
  BY <1>2, <1>4, <1>5 DEF SameItems, SameSelect, SameHeld, SameDown, SameChosen
<1> HIDE DEF u
<1>7. /\ u \in TabState /\ u.shape = t.shape /\ u.pages = t.pages /\ u.mCount = t.mCount
      /\ u.caption = t.caption /\ u.missed = t.missed
      /\ SameHeld(u, t) /\ SameDown(u, t) /\ SameChosen(u, t)
      /\ IF selected
         THEN /\ u.mSelectIdx = i /\ u.select = (t.select \ {t.mSelectIdx}) \cup {i} /\ u.told = i
              /\ u.torn = (t.torn \/ (i # t.mSelectIdx /\ t.capture \in 1..MaxPages))
         ELSE SameSelect(u, t)
  <2>1. t.told = t.mSelectIdx
    BY <1>1, <1>6 DEF TabItems
  <2>2. CASE selected
    BY <2>2, <2>1, <1>1, <1>5, SelectItem DEF u, SameItems
  <2>3. CASE ~selected
    BY <2>3, <1>5 DEF u, SameHeld, SameDown, SameChosen, SameSelect
  <2> QED BY <2>2, <2>3
<1>8. TabItems(u)
  <2>1. /\ tabs.told = tabs.mSelectIdx /\ tabs.select = (IF i = 0 THEN {} ELSE {tabs.mSelectIdx})
        /\ IF i = 0 THEN tabs.mSelectIdx = 0 ELSE tabs.mSelectIdx < i
        /\ tabs.mDownIdx # Tabs!NoTab => tabs.mDownIdx \in 0..(i - 1)
        /\ i = 0 => selected /\ tabs.mSelectIdx \in Nat
        /\ tabs.mSelectIdx \in Int
        /\ \A k \in 0..(i - 1) : tabs.caption[k] = tabs.pages[k + 1]
    <3>1. i = 0 => tabs.pages = <<>>
      BY <1>1, EmptySeq DEF TabState
    <3> QED BY <1>1, <3>1 DEF TabItems, TabState, Tabs!Index
  <2>2. \A k \in 0..i : u.caption[k] = u.pages[k + 1]
    <3>1. ASSUME NEW k \in 0..i PROVE u.caption[k] = u.pages[k + 1]
      <4>1. k \in Tabs!Index /\ k \in Nat
        BY <1>1 DEF Tabs!Index, Tabs!TabAssumption
      <4>2. u.caption[k] = IF k = i THEN page ELSE tabs.caption[k]
        BY <1>5, <1>7, <4>1
      <4>3. u.pages[k + 1] = IF k = i THEN page ELSE tabs.pages[k + 1]
        BY <1>1, <1>3, <1>6, <1>7, <4>1
      <4>4. k # i => k \in 0..(i - 1)
        BY <1>1, <3>1
      <4> QED BY <4>2, <4>3, <4>4, <2>1
    <3> QED BY <3>1
  <2>3. u.select = {u.mSelectIdx} /\ u.mSelectIdx <= i /\ u.told = u.mSelectIdx
    <3>1. CASE selected
      BY <3>1, <2>1, <1>1, <1>6, <1>7
    <3>2. CASE ~selected
      BY <3>2, <2>1, <1>1, <1>6, <1>7 DEF SameSelect
    <3> QED BY <3>1, <3>2
  <2>4. u.mCount = i + 1 /\ Len(u.pages) = i + 1
    BY <1>3, <1>5, <1>6, <1>7
  <2>5. u.mDownIdx = tabs.mDownIdx /\ u.mSelectIdx \in Int
    BY <1>6, <1>7 DEF SameHeld, TabState, Tabs!Index
  <2> HIDE DEF i
  <2>6. u.mDownIdx # Tabs!NoTab => u.mDownIdx \in 0..(u.mCount - 1)
    BY <1>1, <2>1, <2>4, <2>5
  <2>7. u.mSelectIdx < u.mCount /\ u.mCount <= Capacity /\ u.mCount # 0
    BY <1>1, <2>3, <2>4, <2>5 DEF Tabs!TabAssumption
  <2> QED BY <1>1, <1>7, <2>2, <2>3, <2>4, <2>6, <2>7 DEF TabItems
<1>9. /\ tabs' \in TabState
      /\ SameItems(tabs', u) /\ SameSelect(tabs', u) /\ SameHeld(tabs', u) /\ SameDown(tabs', u)
      /\ SameChosen(tabs', u)
  BY <1>1, <1>7, CountedEvent
<1>10. TabItems(tabs')
  BY <1>8, <1>9, ItemsStay DEF TabItems, SameHeld
<1>11. /\ tabs'.missed = tabs.missed /\ tabs'.penDown = FALSE /\ tabs'.jumped = tabs.jumped
       /\ tabs'.capture = tabs.capture /\ tabs'.mDownIdx = tabs.mDownIdx
       /\ tabs'.pushed \subseteq tabs.pushed /\ (tabs.torn => tabs'.torn)
       /\ tabs'.chosen = Tabs!NoTab /\ tabs'.clicked = Tabs!NoPage
  <2>1. u.torn \in BOOLEAN /\ tabs.torn \in BOOLEAN /\ tabs.penDown = FALSE /\ (tabs.torn => u.torn)
    BY <1>1, <1>6, <1>7 DEF TabState, SameSelect
  <2> QED BY <2>1, <1>6, <1>7, <1>9 DEF SameItems, SameSelect, SameHeld, SameDown, SameChosen
<1>12. TabPen(tabs') /\ TabChosen(tabs')
  BY <1>1, <1>11 DEF TabInv, TabPen, TabChosen
<1> QED BY <1>10, <1>12 DEF TabInv


\* A sequence without one of its elements
LEMMA OneTakenAway ==
    ASSUME NEW S, NEW q \in Seq(S), NEW k \in 1..Len(q)
    PROVE  Tabs!RemoveAt(q, k) \in Seq(S) /\ Len(Tabs!RemoveAt(q, k)) = Len(q) - 1
<1>1. Len(q) \in Nat /\ \A j \in 1..Len(q) : q[j] \in S
  BY ElementOfSeq
<1>2. SubSeq(q, 1, k - 1) \in Seq(S) /\ Len(SubSeq(q, 1, k - 1)) = k - 1
  <2>1. \A j \in 1..(k - 1) : q[j] \in S
    BY <1>1
  <2>2. 1 \in Int /\ k - 1 \in Int /\ (IF 1 <= k - 1 THEN k - 1 - 1 + 1 ELSE 0) = k - 1
    BY <1>1
  <2> QED BY <2>1, <2>2, SubSeqProperties
<1>3. SubSeq(q, k + 1, Len(q)) \in Seq(S) /\ Len(SubSeq(q, k + 1, Len(q))) = Len(q) - k
  <2>1. \A j \in (k + 1)..Len(q) : q[j] \in S
    BY <1>1
  <2>2. k + 1 \in Int /\ Len(q) \in Int /\ (IF k + 1 <= Len(q) THEN Len(q) - (k + 1) + 1 ELSE 0) = Len(q) - k
    BY <1>1
  <2> QED BY <2>1, <2>2, SubSeqProperties
<1> DEFINE a == SubSeq(q, 1, k - 1)
           b == SubSeq(q, k + 1, Len(q))
<1>4. Tabs!RemoveAt(q, k) = a \o b
  BY DEF Tabs!RemoveAt
<1> HIDE DEF a, b
<1>5. a \in Seq(S) /\ b \in Seq(S) /\ Len(a) = k - 1 /\ Len(b) = Len(q) - k
  BY <1>2, <1>3 DEF a, b
<1>6. a \o b \in Seq(S) /\ Len(a \o b) = Len(a) + Len(b)
  BY <1>5, ConcatProperties
<1> QED BY <1>1, <1>4, <1>5, <1>6

\* setTabItem of all pages that are left: nothing keeps the style of before.
LEMMA DeletePageKeeps ==
    ASSUME Tabs!TabAssumption, TabInv, NEW k \in DOMAIN tabs.pages,
           NEW selected \in 1..(Len(tabs.pages) - 1), Tabs!DeletePage(k, selected)
    PROVE  TabInv'
<1> DEFINE f == Tabs!Fresh(tabs)
           gone == tabs.pages[k]
           pages == Tabs!RemoveAt(f.pages, k)
           buttons == f.buttons \ {gone}
           capture == IF f.capture = gone THEN Tabs!NoPage ELSE f.capture
           s == [f EXCEPT !.pages = pages, !.buttons = buttons, !.capture = capture]
           n == Len(s.pages)
           caption == [i \in Tabs!Index |-> IF i < n THEN s.pages[i + 1] ELSE s.caption[i]]
           select == s.select \ 0..(n - 1)
           held == s.pushed \ 0..(n - 1)
           t == [s EXCEPT !.mCount = n, !.caption = caption, !.select = select, !.pushed = held]
           i == selected - 1
           u == Tabs!SetSelectItem(t, i)
           e == tabs.events + 1
<1>1. /\ tabs \in TabState /\ TabItems(tabs) /\ e \in Int /\ ~tabs.penDown
      /\ tabs.mDownIdx = Tabs!NoTab /\ tabs.pages \in Seq(1..MaxPages) /\ k \in 1..Len(tabs.pages)
      /\ Len(tabs.pages) \in Nat /\ Len(tabs.pages) > 1 /\ tabs' = [u EXCEPT !.events = e]
  <2>1. tabs \in TabState /\ TabItems(tabs) /\ e \in Int /\ tabs.pages \in Seq(1..MaxPages)
    BY DEF TabInv, TabItems, TabState
  <2>2. /\ ~tabs.penDown /\ tabs.mDownIdx = Tabs!NoTab /\ Len(tabs.pages) > 1
        /\ tabs' = [Tabs!SetTabItems(s, i) EXCEPT !.events = e]
    BY Zenon DEF Tabs!DeletePage, Tabs!Becomes
  <2>3. Tabs!SetTabItems(s, i) = u
    BY Zenon DEF Tabs!SetTabItems
  <2> HIDE DEF u, e, s
  <2> QED BY <2>1, <2>2, <2>3
<1>2. /\ f \in TabState
      /\ SameItems(f, tabs) /\ SameSelect(f, tabs) /\ SameHeld(f, tabs) /\ SameDown(f, tabs)
      /\ f.chosen = Tabs!NoTab /\ f.clicked = Tabs!NoPage
  BY <1>1, FreshTabs
<1> HIDE DEF f
<1>3. pages \in Seq(1..MaxPages) /\ Len(pages) = Len(tabs.pages) - 1
  <2>1. f.pages = tabs.pages
    BY <1>2 DEF SameItems
  <2> QED BY <1>1, <2>1, OneTakenAway
<1> HIDE DEF pages, e
<1>4. /\ s \in TabState /\ SameSelect(s, f) /\ SameDown(s, f) /\ SameChosen(s, f)
      /\ s.pages = pages /\ s.shape = f.shape /\ s.caption = f.caption
      /\ s.missed = f.missed /\ s.mDownIdx = f.mDownIdx /\ s.pushed = f.pushed /\ s.capture = capture
  <2>1. buttons \in SUBSET Int /\ capture \in Int
    BY <1>2 DEF TabState, Tabs!NoPage
  <2> HIDE DEF buttons, capture
  <2> QED BY <1>2, <1>3, <2>1 DEF TabState, SameSelect, SameDown, SameChosen
<1> HIDE DEF s, capture
<1>5. n \in Nat /\ n = Len(tabs.pages) - 1 /\ n <= Capacity /\ n >= 1
  <2>1. n = Len(tabs.pages) - 1
    BY <1>3, <1>4
  <2>2. tabs.mCount <= Capacity
    BY <1>1 DEF TabItems
  <2>3. Len(tabs.pages) \in Nat /\ Len(tabs.pages) > 1
    BY <1>1
  <2>4. tabs.mCount = Len(tabs.pages) /\ Capacity \in Nat
    BY <1>1 DEF TabItems, Tabs!TabAssumption
  <2> HIDE DEF n
  <2> QED BY <2>1, <2>2, <2>3, <2>4
<1>6. /\ t \in TabState /\ SameDown(t, s) /\ SameChosen(t, s)
      /\ t.pages = s.pages /\ t.shape = s.shape /\ t.missed = s.missed
      /\ t.mSelectIdx = s.mSelectIdx /\ t.told = s.told /\ t.torn = s.torn
      /\ t.capture = s.capture /\ t.mDownIdx = s.mDownIdx
      /\ t.mCount = n /\ t.select = select /\ t.pushed = held /\ t.caption = caption
  <2>1. select \in SUBSET Int /\ held \in SUBSET Nat
    BY <1>4 DEF TabState
  <2>2. caption \in [Tabs!Index -> 0..MaxPages]
    <3>1. ASSUME NEW j \in Tabs!Index PROVE (IF j < n THEN s.pages[j + 1] ELSE s.caption[j]) \in 0..MaxPages
      <4>1. CASE j < n
        <5>1. j + 1 \in 1..Len(s.pages)
          <6>1. j \in Nat
            BY DEF Tabs!Index, Tabs!TabAssumption
          <6> HIDE DEF n
          <6>2. j + 1 \in 1..n
            BY <1>5, <4>1, <6>1
          <6> QED BY <6>2 DEF n
        <5>3. s.pages \in Seq(1..MaxPages)
          BY <1>4 DEF TabState
        <5>2. s.pages[j + 1] \in 1..MaxPages
          BY <5>1, <5>3, ElementOfSeq
        <5> QED BY <4>1, <5>2 DEF Tabs!TabAssumption
      <4>2. CASE ~(j < n)
        BY <4>2, <1>4 DEF TabState
      <4> QED BY <4>1, <4>2
    <3> QED BY <3>1
  <2> HIDE DEF n, caption, select, held
  <2> QED BY <1>4, <1>5, <2>1, <2>2 DEF TabState, SameDown, SameChosen
<1> HIDE DEF t
<1>7. /\ t.shape = tabs.shape /\ t.pages = pages /\ t.missed = tabs.missed
      /\ t.mSelectIdx = tabs.mSelectIdx /\ t.told = tabs.told /\ t.torn = tabs.torn
      /\ t.capture = capture /\ t.mDownIdx = tabs.mDownIdx
      /\ t.select = tabs.select \ 0..(n - 1) /\ t.pushed \subseteq tabs.pushed /\ SameDown(t, tabs)
      /\ t.chosen = Tabs!NoTab /\ t.clicked = Tabs!NoPage
  BY <1>2, <1>4, <1>6 DEF SameItems, SameSelect, SameHeld, SameDown, SameChosen
<1>8. i \in 0..(n - 1) /\ i \in Tabs!Index /\ i < n
  <2> HIDE DEF n
  <2>1. selected \in 1..n
    BY <1>5
  <2>3. i \in 0..(n - 1)
    BY <1>5, <2>1
  <2>5. i < n
    BY <1>5, <2>1
  <2>4. i \in Tabs!Index
    BY <1>5, <2>1 DEF Tabs!Index, Tabs!TabAssumption
  <2> QED BY <2>3, <2>4, <2>5
<1> HIDE DEF i
<1>9. /\ u \in TabState /\ SameItems(u, t)
      /\ SameHeld(u, t) /\ SameDown(u, t) /\ SameChosen(u, t)
      /\ u.mSelectIdx = i /\ u.select = (t.select \ {t.mSelectIdx}) \cup {i} /\ u.told = i
      /\ u.torn = (t.torn \/ (i # t.mSelectIdx /\ t.capture \in 1..MaxPages))
  <2>1. t.told = t.mSelectIdx
    BY <1>1, <1>7 DEF TabItems
  <2> QED BY <2>1, <1>6, <1>8, SelectItem
<1> HIDE DEF u
<1>10. TabItems(u)
  <2>1. tabs.select = {tabs.mSelectIdx}
    BY <1>1 DEF TabItems
  <2>2. u.select = {i}
    BY <2>1, <1>7, <1>9
  <2>3. \A j \in 0..(n - 1) : u.caption[j] = u.pages[j + 1]
    <3>1. ASSUME NEW j \in 0..(n - 1) PROVE u.caption[j] = u.pages[j + 1]
      <4>1. j \in Tabs!Index /\ j < n
        BY <1>5 DEF Tabs!Index, Tabs!TabAssumption
      <4>2. u.caption = caption /\ u.pages = s.pages
        BY <1>6, <1>9 DEF SameItems
      <4> HIDE DEF n
      <4> QED BY <4>1, <4>2
    <3> QED BY <3>1
  <2>4. u.mCount = n /\ Len(u.pages) = n /\ u.mDownIdx = Tabs!NoTab
    BY <1>1, <1>6, <1>7, <1>9 DEF SameItems, SameHeld
  <2> HIDE DEF n
  <2>5. n \in 1..Capacity
    BY <1>5 DEF Tabs!TabAssumption
  <2>6. PICK c \in 1..Capacity : c = n
    BY <2>5
  <2>7. c # 0
    BY <2>6
  <2>8. u.mCount # 0
    BY <2>6, <2>7, <2>4
  <2> QED BY <1>5, <1>8, <1>9, <2>2, <2>3, <2>4, <2>8 DEF TabItems
<1>11. /\ tabs' \in TabState
       /\ SameItems(tabs', u) /\ SameSelect(tabs', u) /\ SameHeld(tabs', u) /\ SameDown(tabs', u)
       /\ SameChosen(tabs', u)
  BY <1>1, <1>9, CountedEvent
<1>12. TabItems(tabs')
  BY <1>10, <1>11, ItemsStay DEF TabItems, SameHeld
<1>13. /\ tabs'.missed = tabs.missed /\ tabs'.penDown = FALSE /\ tabs'.jumped = tabs.jumped
       /\ tabs'.capture = capture /\ tabs'.mDownIdx = tabs.mDownIdx
       /\ tabs'.pushed \subseteq tabs.pushed /\ (tabs.torn => tabs'.torn)
       /\ tabs'.chosen = Tabs!NoTab /\ tabs'.clicked = Tabs!NoPage
  <2>1. u.torn \in BOOLEAN /\ tabs.torn \in BOOLEAN /\ tabs.penDown = FALSE /\ (tabs.torn => u.torn)
    BY <1>1, <1>7, <1>9 DEF TabState
  <2> QED BY <2>1, <1>7, <1>9, <1>11 DEF SameItems, SameSelect, SameHeld, SameDown, SameChosen
<1>14. capture = tabs.capture \/ (capture # Tabs!TheTab /\ capture \notin 1..MaxPages)
  BY <1>2 DEF capture, SameHeld, Tabs!NoPage, Tabs!TheTab
<1>15. TabPen(tabs') /\ TabChosen(tabs')
  BY <1>1, <1>13, <1>14 DEF TabInv, TabPen, TabChosen
<1> QED BY <1>12, <1>15 DEF TabInv

\* Whatever the pen does, whatever keys are pressed and pages made or deleted, one
\* item is selected and its page shown; the pen chooses what it went down on and up
\* from, although the window may miss any of its events; no item stays pushed; and
\* the items lie apart within the row.  For any rows, sizes, places of the pen and
\* number of pages.
THEOREM TabsCorrect ==
    ASSUME Tabs!TabAssumption
    PROVE  Tabs!Spec => [](/\ Tabs!OneTab /\ Tabs!ChosenUnderPen
                           /\ Tabs!PushedWhileDown /\ Tabs!ItemsInRow)
<1>1. Tabs!Init => TabInv
  BY TabsInit
<1>2. TabInv /\ [Tabs!Next]_tabs => TabInv'
  <2> SUFFICES ASSUME TabInv, [Tabs!Next]_tabs PROVE TabInv'
    OBVIOUS
  <2>1. ASSUME NEW pen \in Tabs!Places, Tabs!PenDown(pen) PROVE TabInv'
    BY <2>1, PenDownKeeps
  <2>2. ASSUME NEW pen \in Tabs!Places, Tabs!PenMove(pen) PROVE TabInv'
    BY <2>2, PenMoveKeeps
  <2>3. ASSUME NEW pen \in Tabs!Places, Tabs!PenUp(pen) PROVE TabInv'
    BY <2>3, PenUpKeeps
  <2>4. CASE Tabs!PenUnheard
    BY <2>4, PenUnheardKeeps
  <2>5. ASSUME NEW left \in BOOLEAN, Tabs!KeyRelease(left) PROVE TabInv'
    BY <2>5, KeyReleaseKeeps
  <2>6. ASSUME NEW selected \in BOOLEAN, Tabs!AppendPage(selected) PROVE TabInv'
    BY <2>6, AppendPageKeeps
  <2>7. ASSUME NEW k \in DOMAIN tabs.pages, NEW selected \in 1..(Len(tabs.pages) - 1),
               Tabs!DeletePage(k, selected)
        PROVE  TabInv'
    BY <2>7, DeletePageKeeps
  <2>8. CASE UNCHANGED tabs
    BY <2>8 DEF TabInv
  <2> QED BY <2>1, <2>2, <2>3, <2>4, <2>5, <2>6, <2>7, <2>8 DEF Tabs!Next
<1>3. TabInv => /\ Tabs!OneTab /\ Tabs!ChosenUnderPen
                /\ Tabs!PushedWhileDown /\ Tabs!ItemsInRow
  <2> SUFFICES ASSUME TabInv
               PROVE  /\ Tabs!OneTab /\ Tabs!ChosenUnderPen
                      /\ Tabs!PushedWhileDown /\ Tabs!ItemsInRow
    OBVIOUS
  <2>1. tabs \in TabState /\ TabItems(tabs) /\ tabs.mCount \in Nat /\ tabs.mSelectIdx \in Nat
    <3>1. tabs \in TabState /\ TabItems(tabs)
      BY DEF TabInv, TabItems
    <3>2. tabs.mCount \in Nat /\ tabs.mSelectIdx \in Tabs!Index
      BY <3>1 DEF TabState
    <3> QED BY <3>1, <3>2 DEF Tabs!Index, Tabs!TabAssumption
  <2>2. Tabs!OneTab
    <3> SUFFICES ASSUME tabs.pages # <<>> PROVE Tabs!OneTab
      BY DEF Tabs!OneTab
    <3>1. tabs.mCount # 0 /\ tabs.mSelectIdx \in 0..(tabs.mCount - 1)
      <4>1. Len(tabs.pages) # 0
        BY <2>1, EmptySeq DEF TabState
      <4> QED BY <2>1, <4>1 DEF TabItems
    <3>2. /\ Tabs!TabBody(tabs, tabs.mSelectIdx) = tabs.pages[tabs.mSelectIdx + 1]
          /\ Tabs!TabBody(tabs, tabs.mSelectIdx) # Tabs!NoPage
      <4>1. tabs.mSelectIdx + 1 \in 1..Len(tabs.pages) /\ tabs.pages \in Seq(1..MaxPages)
        BY <2>1, <3>1 DEF TabItems, TabState
      <4>2. tabs.pages[tabs.mSelectIdx + 1] \in 1..MaxPages
        BY <4>1, ElementOfSeq
      <4>3. Tabs!TabBody(tabs, tabs.mSelectIdx) = tabs.pages[tabs.mSelectIdx + 1]
        BY <2>1, <3>1, TabBodyIs DEF TabItems
      <4> QED BY <4>2, <4>3 DEF Tabs!NoPage
    <3> QED BY <2>1, <3>1, <3>2 DEF Tabs!OneTab, TabItems
  <2>3. Tabs!ChosenUnderPen
    BY DEF TabInv, TabChosen, Tabs!ChosenUnderPen
  <2>4. Tabs!PushedWhileDown
    BY DEF TabInv, TabPen, Tabs!PushedWhileDown
  <2>5. Tabs!ItemsInRow
    BY <2>1, RowKept DEF TabItems, TabRow, Tabs!ItemsInRow
  <2> QED BY <2>2, <2>3, <2>4, <2>5
<1> QED BY <1>1, <1>2, <1>3, PTL DEF Tabs!Spec
=============================================================================
