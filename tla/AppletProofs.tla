---------------------------- MODULE AppletProofs ----------------------------
(***************************************************************************)
(* Proofs about the life of an applet (AEEApplet), about its sounds        *)
(* (AEEMultiMedia) and about its bitmaps (DUIBitmapTable), for any number  *)
(* of payments, sizes of the screen, voice messages, handles and layers.   *)
(***************************************************************************)
EXTENDS
    DUIBitmapTable, AEEApplet, AEEMultiMedia, FiniteSetTheorems, WellFoundedInduction, TLAPS

-----------------------------------------------------------------------------
(* The applet: inductive invariant *)

\* An application and its AeeCharge.
App == [stat : {"normal", "suspended", "exiting"}, size : ScreenSize, told : Int,
        mIsSuspend : BOOLEAN, pays : Nat]
Charge == [m_chargeStatus : {"idle", "paying", "failure"}, m_appcharge : BOOLEAN,
           m_bActivate : BOOLEAN]

\* The types, and the application is there while the shell has it.
AppletType ==
    /\ shell \in {"none", "front", "back"} /\ screen \in ScreenSize
    /\ untimely \in BOOLEAN /\ misread \in BOOLEAN
    /\ app \in App \cup {NoApp} /\ (shell = "none" <=> app = NoApp)
    /\ handler \in {"app", "charge"} /\ charge \in Charge
    /\ pending \in {"none", "pay", "activate"}
    /\ flag \in BOOLEAN /\ bought \in BOOLEAN

\* A request that is under way keeps its kind and, as long as nothing strayed, the events.
PayingOK ==
    /\ app = NoApp => pending = "none"
    /\ pending # "none" => (charge.m_bActivate <=> pending = "activate")
    /\ ~untimely /\ pending # "none" => charge.m_appcharge /\ charge.m_chargeStatus = "paying"

\* Where the application is shown and nothing is paid it is not suspended, and
\* only there: the platform and the payment do not tell it twice.
ShownOK ==
    ~untimely /\ app # NoApp =>
        /\ app.told \in {0, 1} /\ (app.mIsSuspend <=> app.told = 1)
        /\ app.stat = "suspended" => app.told = 1
        /\ app.stat = "normal" => app.told = 0
        /\ app.stat # "exiting" =>
              (app.stat = "normal" <=> shell = "front" /\ pending = "none")

AppletInv == AppletType /\ PayingOK /\ HandlerBack /\ ShownOK /\ FlagForActivation

-----------------------------------------------------------------------------
(* The handlers of the application *)

\* An application is not the lack of one.
LEMMA NoAppIsNone == NoApp \notin App
<1>1. NoApp.stat = "none"
  BY DEF NoApp
<1>2. \A a \in App : a.stat # "none"
  BY DEF App
<1> QED BY <1>1, <1>2

\* The application that OnStart makes.
LEMMA StartedFacts ==
    ASSUME screen \in ScreenSize
    PROVE  /\ Started(screen) \in App /\ Started(screen).stat = "normal"
           /\ Started(screen).told = 0 /\ Started(screen).mIsSuspend = FALSE
BY DEF App, Started

\* What a SUSPEND makes of it.
LEMMA SuspendedFacts ==
    ASSUME NEW a \in App
    PROVE  /\ Suspended(a) \in App
           /\ a.stat = "exiting" => Suspended(a) = a
           /\ a.stat # "exiting" => /\ Suspended(a).stat = "suspended"
                                    /\ Suspended(a).told = a.told + 1
                                    /\ Suspended(a).mIsSuspend = TRUE
<1>1. CASE a.stat = "exiting"
  BY <1>1 DEF Suspended
<1>2. CASE a.stat # "exiting"
  <2>1. Suspended(a) = [a EXCEPT !.stat = "suspended", !.told = a.told + 1, !.mIsSuspend = TRUE]
    BY <1>2 DEF Suspended
  <2> DEFINE b == [a EXCEPT !.stat = "suspended", !.told = a.told + 1, !.mIsSuspend = TRUE]
             c == [a EXCEPT !.stat = "suspended", !.mIsSuspend = TRUE]
  <2>2. b \in App
    <3>1. a.told + 1 \in Int
      BY DEF App
    <3>2. c \in App
      BY Zenon DEF App
    <3>3. b = [c EXCEPT !.told = a.told + 1]
      BY DEF App
    <3> HIDE DEF c
    <3> QED BY <3>1, <3>2, <3>3 DEF App
  <2>3. b.stat = "suspended" /\ b.told = a.told + 1 /\ b.mIsSuspend = TRUE
    BY DEF App
  <2> HIDE DEF b
  <2>4. Suspended(a) = b
    BY <2>1 DEF b
  <2> QED BY <1>2, <2>2, <2>3, <2>4
<1> QED BY <1>1, <1>2

\* What a RESUME makes of it.
LEMMA ResumedFacts ==
    ASSUME NEW a \in App, screen \in ScreenSize
    PROVE  /\ Resumed(a) \in App
           /\ a.stat = "exiting" => Resumed(a) = a
           /\ a.stat # "exiting" => /\ Resumed(a).stat = "normal"
                                    /\ Resumed(a).told = a.told - 1
                                    /\ Resumed(a).mIsSuspend = FALSE
<1>1. CASE a.stat = "exiting"
  BY <1>1 DEF Resumed
<1>2. CASE a.stat # "exiting"
  <2>1. Resumed(a) = [a EXCEPT !.stat = "normal", !.size = screen, !.told = a.told - 1,
                               !.mIsSuspend = FALSE]
    BY <1>2 DEF Resumed
  <2> DEFINE b == [a EXCEPT !.stat = "normal", !.size = screen, !.told = a.told - 1,
                            !.mIsSuspend = FALSE]
             c == [a EXCEPT !.stat = "normal", !.size = screen, !.mIsSuspend = FALSE]
  <2>2. b \in App
    <3>1. a.told - 1 \in Int
      BY DEF App
    <3>2. c \in App
      BY Zenon DEF App
    <3>3. b = [c EXCEPT !.told = a.told - 1]
      BY DEF App
    <3> HIDE DEF c
    <3> QED BY <3>1, <3>2, <3>3 DEF App
  <2>3. b.stat = "normal" /\ b.told = a.told - 1 /\ b.mIsSuspend = FALSE
    BY DEF App
  <2> HIDE DEF b
  <2>4. Resumed(a) = b
    BY <2>1 DEF b
  <2> QED BY <1>2, <2>2, <2>3, <2>4
<1> QED BY <1>1, <1>2

\* A repaint changes no more than the size that the application knows.
LEMMA RepaintedFacts ==
    ASSUME NEW a \in App, screen \in ScreenSize, NEW w
    PROVE  /\ Repainted(a, w) \in App
           /\ Repainted(a, w).stat = a.stat /\ Repainted(a, w).told = a.told
           /\ Repainted(a, w).mIsSuspend = a.mIsSuspend
BY DEF Repainted, App

\* What a request leaves behind: with the library, or as it was.
RequestLeaves(a, kind, accepted, r) ==
    /\ r.app \in App /\ r.charge \in Charge
    /\ r.charge.m_bActivate = (kind = "activate")
    /\ accepted => /\ r.charge.m_appcharge = TRUE /\ r.charge.m_chargeStatus = "paying"
                   /\ r.handler = "charge" /\ r.pending = kind
    /\ ~accepted => r.handler = "app" /\ r.pending = "none"
    /\ a.stat = "normal" /\ accepted =>
          /\ r.app.stat = "suspended" /\ r.app.told = a.told + 1
          /\ r.app.mIsSuspend = TRUE
    /\ a.stat = "normal" /\ ~accepted =>
          /\ r.app.stat = "normal" /\ r.app.told = a.told
          /\ r.app.mIsSuspend = FALSE
    /\ a.stat = "exiting" => /\ r.app.stat = "exiting" /\ r.app.told = a.told
                             /\ r.app.mIsSuspend = a.mIsSuspend

\* A request suspends an application that was in its normal state, or is refused
\* and leaves it there; one that exits it leaves alone.
LEMMA RequestFacts ==
    ASSUME NEW a \in App, screen \in ScreenSize, NEW kind \in {"pay", "activate"},
           NEW accepted \in BOOLEAN
    PROVE  RequestLeaves(a, kind, accepted, Request(a, kind, accepted))
<1> DEFINE paid == [a EXCEPT !.pays = a.pays + 1]
           s == Suspended(paid)
           t == Resumed(s)
<1>1. paid \in App /\ paid.stat = a.stat /\ paid.told = a.told
      /\ paid.mIsSuspend = a.mIsSuspend
  BY DEF App
<1>2. a.told \in Int
  BY DEF App
<1> HIDE DEF paid
<1>3. s \in App
  BY <1>1, SuspendedFacts
<1>4. a.stat = "normal" => s.stat = "suspended" /\ s.told = a.told + 1 /\ s.mIsSuspend = TRUE
  BY <1>1, SuspendedFacts
<1>e. a.stat = "exiting" =>
         s.stat = "exiting" /\ s.told = a.told /\ s.mIsSuspend = a.mIsSuspend
  BY <1>1, SuspendedFacts
<1> HIDE DEF s
<1>5. t \in App
  BY <1>3, ResumedFacts
<1>6. a.stat = "normal" => t.stat = "normal" /\ t.told = a.told /\ t.mIsSuspend = FALSE
  <2> SUFFICES ASSUME a.stat = "normal"
               PROVE  t.stat = "normal" /\ t.told = a.told /\ t.mIsSuspend = FALSE
    OBVIOUS
  <2>1. s.stat # "exiting" /\ s.told = a.told + 1
    BY <1>4
  <2>2. t.stat = "normal" /\ t.told = s.told - 1 /\ t.mIsSuspend = FALSE
    BY <1>3, <2>1, ResumedFacts
  <2> QED BY <1>2, <2>1, <2>2
<1>f. a.stat = "exiting" =>
         t.stat = "exiting" /\ t.told = a.told /\ t.mIsSuspend = a.mIsSuspend
  BY <1>3, <1>e, ResumedFacts
<1> HIDE DEF t
<1>7. CASE accepted
  <2> DEFINE c == [m_chargeStatus |-> "paying", m_appcharge |-> TRUE,
                   m_bActivate |-> kind = "activate"]
             r == [app |-> s, charge |-> c, handler |-> "charge", pending |-> kind]
  <2>1. Request(a, kind, accepted) = r
    BY <1>7 DEF Request, paid, s
  <2>2. /\ c \in Charge /\ c.m_bActivate = (kind = "activate")
        /\ c.m_appcharge = TRUE /\ c.m_chargeStatus = "paying"
    BY DEF Charge
  <2> HIDE DEF c
  <2>3. r.app = s /\ r.charge = c /\ r.handler = "charge" /\ r.pending = kind
    OBVIOUS
  <2> HIDE DEF r
  <2> QED BY <1>3, <1>4, <1>e, <1>7, <2>1, <2>2, <2>3 DEF RequestLeaves
<1>8. CASE ~accepted
  <2> DEFINE c == [m_chargeStatus |-> "failure", m_appcharge |-> FALSE,
                   m_bActivate |-> kind = "activate"]
             r == [app |-> t, charge |-> c, handler |-> "app", pending |-> "none"]
  <2>1. Request(a, kind, accepted) = r
    BY <1>8 DEF Request, paid, s, t
  <2>2. c \in Charge /\ c.m_bActivate = (kind = "activate")
    BY DEF Charge
  <2> HIDE DEF c
  <2>3. r.app = t /\ r.charge = c /\ r.handler = "app" /\ r.pending = "none"
    OBVIOUS
  <2> HIDE DEF r
  <2> QED BY <1>5, <1>6, <1>f, <1>8, <2>1, <2>2, <2>3 DEF RequestLeaves
<1> QED BY <1>7, <1>8

-----------------------------------------------------------------------------
(* Every step keeps the invariant *)

\* A start finds no request and makes an application that is shown.
LEMMA StartStep == AppletInv /\ (\E b \in BOOLEAN : Start(b)) => AppletInv'
<1> SUFFICES ASSUME AppletInv, NEW b \in BOOLEAN, Start(b) PROVE AppletInv'
  OBVIOUS
<1> USE DEF AppletInv, AppletType
<1>1. /\ app' = Started(screen) /\ shell' = "front" /\ handler' = "app"
      /\ charge' = NewCharge /\ UNCHANGED <<screen, pending, flag, bought, misread>>
      /\ pending = "none" /\ untimely' = FALSE
  BY DEF Start, PayingOK
<1>2. /\ app' \in App /\ app' # NoApp /\ app'.stat = "normal" /\ app'.told = 0
      /\ app'.mIsSuspend = FALSE
  BY <1>1, StartedFacts, NoAppIsNone
<1>3. charge' \in Charge
  BY <1>1 DEF NewCharge, Charge
<1>4. AppletType'
  BY <1>1, <1>2, <1>3
<1> QED BY <1>1, <1>2, <1>4 DEF PayingOK, HandlerBack, Alive, ShownOK, FlagForActivation

\* A stop takes the request with the application.
LEMMA StopStep == AppletInv /\ (\E b \in BOOLEAN : Stop(b)) => AppletInv'
<1> SUFFICES ASSUME AppletInv, NEW b \in BOOLEAN, Stop(b) PROVE AppletInv'
  OBVIOUS
<1> USE DEF AppletInv, AppletType
<1>1. /\ app' = NoApp /\ shell' = "none" /\ pending' = "none" /\ charge' = NewCharge
      /\ UNCHANGED <<screen, handler, flag, bought, untimely, misread>>
  BY DEF Stop
<1>2. charge' \in Charge
  BY <1>1 DEF NewCharge, Charge
<1> QED BY <1>1, <1>2 DEF PayingOK, HandlerBack, Alive, ShownOK, FlagForActivation

\* While a payment is under way and nothing strayed, the library gets the events.
LEMMA NothingToApp ==
    ASSUME AppletInv, app # NoApp, ~untimely, ToApp
    PROVE  pending = "none"
BY DEF AppletInv, AppletType, PayingOK, HandlerBack, Alive, ToApp

\* A SUSPEND reaches an application that was shown, or the library.
LEMMA SuspendStep == AppletInv /\ OnSuspend => AppletInv'
<1> SUFFICES ASSUME AppletInv, OnSuspend PROVE AppletInv'
  OBVIOUS
<1> USE DEF AppletInv, AppletType
<1>1. /\ shell = "front" /\ shell' = "back" /\ app \in App /\ app # NoApp
      /\ UNCHANGED <<screen, handler, charge, pending, flag, bought, untimely, misread>>
  BY DEF OnSuspend
<1>2. CASE ToApp
  <2>1. app' = Suspended(app)
    BY <1>2 DEF OnSuspend
  <2>2. app' \in App /\ app' # NoApp
    BY <1>1, <2>1, SuspendedFacts, NoAppIsNone
  <2>3. ShownOK'
    <3> SUFFICES ASSUME ~untimely
                 PROVE  /\ app'.told \in {0, 1} /\ (app'.mIsSuspend <=> app'.told = 1)
                        /\ app'.stat # "normal"
                        /\ app'.stat = "suspended" => app'.told = 1
      BY <1>1 DEF ShownOK
    <3>1. pending = "none"
      BY <1>1, <1>2, NothingToApp
    <3>2. CASE app.stat = "exiting"
      <4>1. app' = app
        BY <1>1, <2>1, <3>2, SuspendedFacts
      <4> QED BY <1>1, <3>2, <4>1 DEF ShownOK
    <3>3. CASE app.stat # "exiting"
      <4>1. app.stat = "normal" /\ app.told = 0
        BY <1>1, <3>1, <3>3 DEF ShownOK
      <4>2. app'.stat = "suspended" /\ app'.told = app.told + 1 /\ app'.mIsSuspend = TRUE
        BY <1>1, <2>1, <3>3, SuspendedFacts
      <4> QED BY <4>1, <4>2
    <3> QED BY <3>2, <3>3
  <2> QED BY <1>1, <2>2, <2>3 DEF PayingOK, HandlerBack, Alive, FlagForActivation
<1>3. CASE ~ToApp
  <2>1. app' = app
    BY <1>3 DEF OnSuspend
  <2>2. pending # "none"
    BY <1>1, <1>3 DEF ToApp, HandlerBack, Alive
  <2> QED BY <1>1, <2>1, <2>2 DEF PayingOK, HandlerBack, Alive, ShownOK, FlagForActivation
<1> QED BY <1>2, <1>3

\* A RESUME reaches an application that was suspended once, or the library.
LEMMA ResumeStep == AppletInv /\ OnResume => AppletInv'
<1> SUFFICES ASSUME AppletInv, OnResume PROVE AppletInv'
  OBVIOUS
<1> USE DEF AppletInv, AppletType
<1>1. /\ shell = "back" /\ shell' = "front" /\ app \in App /\ app # NoApp
      /\ UNCHANGED <<screen, handler, charge, pending, flag, bought, untimely, misread>>
  BY DEF OnResume
<1>2. CASE ToApp
  <2>1. app' = Resumed(app)
    BY <1>2 DEF OnResume
  <2>2. app' \in App /\ app' # NoApp
    BY <1>1, <2>1, ResumedFacts, NoAppIsNone
  <2>3. ShownOK'
    <3> SUFFICES ASSUME ~untimely
                 PROVE  /\ app'.told \in {0, 1} /\ (app'.mIsSuspend <=> app'.told = 1)
                        /\ app'.stat # "suspended"
                        /\ app'.stat = "normal" => app'.told = 0 /\ pending = "none"
                        /\ app'.stat # "exiting" => app'.stat = "normal"
      BY <1>1 DEF ShownOK
    <3>1. pending = "none"
      BY <1>1, <1>2, NothingToApp
    <3>2. CASE app.stat = "exiting"
      <4>1. app' = app
        BY <1>1, <2>1, <3>2, ResumedFacts
      <4> QED BY <1>1, <3>2, <4>1 DEF ShownOK
    <3>3. CASE app.stat # "exiting"
      <4>1. app.stat = "suspended" /\ app.told = 1
        BY <1>1, <3>1, <3>3 DEF ShownOK, App
      <4>2. app'.stat = "normal" /\ app'.told = app.told - 1 /\ app'.mIsSuspend = FALSE
        BY <1>1, <2>1, <3>3, ResumedFacts
      <4> QED BY <3>1, <4>1, <4>2
    <3> QED BY <3>2, <3>3
  <2> QED BY <1>1, <2>2, <2>3 DEF PayingOK, HandlerBack, Alive, FlagForActivation
<1>3. CASE ~ToApp
  <2>1. app' = app
    BY <1>3 DEF OnResume
  <2>2. pending # "none"
    BY <1>1, <1>3 DEF ToApp, HandlerBack, Alive
  <2> QED BY <1>1, <2>1, <2>2 DEF PayingOK, HandlerBack, Alive, ShownOK, FlagForActivation
<1> QED BY <1>2, <1>3

\* A repaint changes nothing that is proved about.
LEMMA RepaintStep == AppletInv /\ (\E w \in {0, 1} : Repaint(w)) => AppletInv'
<1> SUFFICES ASSUME AppletInv, NEW w \in {0, 1}, Repaint(w) PROVE AppletInv'
  OBVIOUS
<1> USE DEF AppletInv, AppletType
<1>1. /\ shell = "front" /\ app \in App /\ app # NoApp /\ app' = Repainted(app, w)
      /\ UNCHANGED <<shell, screen, handler, charge, pending, flag, bought, untimely, misread>>
  BY DEF Repaint
<1>2. /\ app' \in App /\ app' # NoApp /\ app'.stat = app.stat /\ app'.told = app.told
      /\ app'.mIsSuspend = app.mIsSuspend
  BY <1>1, RepaintedFacts, NoAppIsNone
<1> QED BY <1>1, <1>2 DEF PayingOK, HandlerBack, Alive, ShownOK, FlagForActivation

\* An application that exits is out of the game of SUSPEND and RESUME.
LEMMA ExitStep == AppletInv /\ ExitApp => AppletInv'
<1> SUFFICES ASSUME AppletInv, ExitApp PROVE AppletInv'
  OBVIOUS
<1> USE DEF AppletInv, AppletType
<1>1. /\ app \in App /\ app # NoApp /\ app' = [app EXCEPT !.stat = "exiting"]
      /\ UNCHANGED <<shell, screen, handler, charge, pending, flag, bought, untimely, misread>>
  BY DEF ExitApp, Alive
<1>2. /\ app' \in App /\ app'.stat = "exiting" /\ app'.told = app.told
      /\ app'.mIsSuspend = app.mIsSuspend
  BY <1>1 DEF App
<1>3. app' # NoApp
  BY <1>2, NoAppIsNone
<1> QED BY <1>1, <1>2, <1>3 DEF PayingOK, HandlerBack, Alive, ShownOK, FlagForActivation

\* A request has the handler if it is accepted, and gives it back if not.
LEMMA PayStep ==
    AppletInv /\ (\E k \in {"pay", "activate"}, b \in BOOLEAN : Pay(k, b)) => AppletInv'
<1> SUFFICES ASSUME AppletInv, NEW k \in {"pay", "activate"}, NEW b \in BOOLEAN, Pay(k, b)
             PROVE  AppletInv'
  OBVIOUS
<1> USE DEF AppletInv, AppletType
<1> DEFINE r == Request(app, k, b)
<1>1. /\ app \in App /\ app # NoApp /\ Becomes(r)
      /\ pending = "none" /\ untimely' = (untimely \/ shell = "back")
      /\ UNCHANGED <<shell, screen, flag, bought, misread>>
  BY DEF Pay, Alive
<1>2. RequestLeaves(app, k, b, r)
  BY <1>1, RequestFacts
<1> HIDE DEF r
<1>3. RequestLeaves(app, k, b, r) /\ app' = r.app /\ charge' = r.charge
      /\ handler' = r.handler /\ pending' = r.pending
  BY <1>1, <1>2 DEF Becomes
<1>4. app' \in App /\ app' # NoApp /\ charge' \in Charge
  BY <1>3, NoAppIsNone DEF RequestLeaves
<1>5. AppletType' /\ PayingOK' /\ HandlerBack'
  BY <1>1, <1>3, <1>4 DEF RequestLeaves, PayingOK, HandlerBack, Alive
<1>6. ShownOK'
  <2> SUFFICES ASSUME ~untimely, shell = "front"
               PROVE  /\ app'.told \in {0, 1} /\ (app'.mIsSuspend <=> app'.told = 1)
                      /\ app'.stat = "suspended" => app'.told = 1
                      /\ app'.stat = "normal" => app'.told = 0
                      /\ app'.stat # "exiting" =>
                            (app'.stat = "normal" <=> shell' = "front" /\ pending' = "none")
    BY <1>1 DEF ShownOK
  <2> SUFFICES ASSUME app.stat # "exiting"
               PROVE  /\ app'.told \in {0, 1} /\ (app'.mIsSuspend <=> app'.told = 1)
                      /\ app'.stat = "suspended" => app'.told = 1
                      /\ app'.stat = "normal" => app'.told = 0
                      /\ app'.stat = "normal" <=> shell' = "front" /\ pending' = "none"
    BY <1>1, <1>3 DEF RequestLeaves, ShownOK
  <2>1. app.told = 0 /\ app.stat = "normal" /\ shell' = "front"
    BY <1>1 DEF ShownOK
  <2>2. CASE b
    <3>1. /\ app'.stat = "suspended" /\ app'.told = app.told + 1 /\ app'.mIsSuspend = TRUE
          /\ pending' # "none"
      BY <1>3, <2>1, <2>2 DEF RequestLeaves
    <3> QED BY <2>1, <3>1
  <2>3. CASE ~b
    <3>1. /\ app'.stat = "normal" /\ app'.told = app.told /\ app'.mIsSuspend = FALSE
          /\ pending' = "none"
      BY <1>3, <2>1, <2>3 DEF RequestLeaves
    <3> QED BY <2>1, <3>1
  <2> QED BY <2>2, <2>3
<1> QED BY <1>1, <1>5, <1>6 DEF FlagForActivation

\* The library answers: without another request in the callback, or with one that is
\* refused, everything is as before the payment; with one that is accepted the
\* events go untimely, but the handler is right.
LEMMA CallbackStep ==
    ASSUME AppletInv, NEW success \in BOOLEAN, NEW again \in {"none", "pay", "activate"},
           NEW accepted \in BOOLEAN, ChargeCallback(success, again, accepted)
    PROVE  AppletInv'
<1> USE DEF AppletInv, AppletType
<1> DEFINE back == Resumed(app)
           quiet == [app |-> back, charge |-> charge, handler |-> "app", pending |-> "none"]
           r == Request(back, again, accepted)
           nested == again # "none" /\ app.pays < MaxPays
           inner == IF nested THEN r ELSE quiet
<1>1. /\ app \in App /\ app # NoApp /\ pending # "none"
      /\ untimely' = (untimely \/ shell = "back" \/ (nested /\ accepted))
      /\ misread' = (misread \/ (success /\ nested /\ again # pending))
      /\ Becomes([inner EXCEPT !.charge.m_chargeStatus = "idle"])
      /\ flag' = FlagWritten(success, inner.charge.m_bActivate)
      /\ bought' = (bought \/ (success /\ pending = "activate"))
      /\ UNCHANGED <<shell, screen>>
  BY DEF ChargeCallback, Alive
<1>2. back \in App
  BY <1>1, ResumedFacts
<1>3. CASE ~nested
  <2>1. inner = quiet
    BY <1>3
  <2>2. /\ app' = back /\ charge' = [charge EXCEPT !.m_chargeStatus = "idle"]
        /\ handler' = "app" /\ pending' = "none"
    BY <1>1, <2>1 DEF Becomes
  <2>3. flag' = FlagWritten(success, charge.m_bActivate)
    BY <1>1, <2>1
  <2>4. charge' \in Charge
    BY <2>2 DEF Charge
  <2>5. flag' \in BOOLEAN /\ bought' \in BOOLEAN /\ FlagForActivation'
    BY <1>1, <2>3 DEF FlagForActivation, FlagWritten, PayingOK
  <2>6. app' \in App /\ app' # NoApp
    BY <1>2, <2>2, NoAppIsNone
  <2>7. ShownOK'
    <3> SUFFICES ASSUME ~untimely, shell = "front"
                 PROVE  /\ app'.told \in {0, 1} /\ (app'.mIsSuspend <=> app'.told = 1)
                        /\ app'.stat # "suspended"
                        /\ app'.stat = "normal" => app'.told = 0
                        /\ app'.stat # "exiting" => app'.stat = "normal"
      BY <1>1, <2>2 DEF ShownOK
    <3>1. CASE app.stat = "exiting"
      <4>1. app' = app
        BY <1>1, <2>2, <3>1, ResumedFacts
      <4> QED BY <1>1, <3>1, <4>1 DEF ShownOK
    <3>2. CASE app.stat # "exiting"
      <4>1. app.stat = "suspended" /\ app.told = 1
        BY <1>1, <3>2 DEF ShownOK, App
      <4>2. app'.stat = "normal" /\ app'.told = app.told - 1 /\ app'.mIsSuspend = FALSE
        BY <1>1, <2>2, <3>2, ResumedFacts
      <4> QED BY <4>1, <4>2
    <3> QED BY <3>1, <3>2
  <2> QED BY <1>1, <2>2, <2>4, <2>5, <2>6, <2>7 DEF PayingOK, HandlerBack, Alive
<1>4. CASE nested
  <2>1. inner = r /\ again \in {"pay", "activate"}
    BY <1>1, <1>4
  <2>2. RequestLeaves(back, again, accepted, r)
    BY <1>1, <1>2, <2>1, RequestFacts
  <2>3. r = [app |-> r.app, charge |-> r.charge, handler |-> r.handler, pending |-> r.pending]
    BY DEF Request
  <2>4. flag' = FlagWritten(success, r.charge.m_bActivate)
    BY <1>1, <2>1
  <2>5. Becomes([r EXCEPT !.charge.m_chargeStatus = "idle"])
    BY <1>1, <2>1
  <2> HIDE DEF r
  <2>6. /\ app' = r.app /\ charge' = [r.charge EXCEPT !.m_chargeStatus = "idle"]
        /\ handler' = r.handler /\ pending' = r.pending
    BY <2>3, <2>5 DEF Becomes
  <2>7. /\ charge' \in Charge /\ charge'.m_bActivate = r.charge.m_bActivate
    BY <2>2, <2>6 DEF RequestLeaves, Charge
  <2>8. flag' \in BOOLEAN /\ bought' \in BOOLEAN
    BY <1>1, <2>2, <2>4 DEF FlagWritten, RequestLeaves, Charge
  <2>9. app' \in App /\ app' # NoApp
    BY <2>2, <2>6, NoAppIsNone DEF RequestLeaves
  <2>10. AppletType' /\ HandlerBack'
    BY <1>1, <2>1, <2>2, <2>6, <2>7, <2>8, <2>9 DEF RequestLeaves, HandlerBack, Alive
  <2>11. accepted => untimely'
    BY <1>1, <1>4
  <2>12. PayingOK'
    BY <2>2, <2>6, <2>7, <2>9, <2>11 DEF RequestLeaves, PayingOK
  <2>13. ShownOK'
    <3> SUFFICES ASSUME ~untimely, shell = "front", ~accepted
                 PROVE  /\ app'.told \in {0, 1} /\ (app'.mIsSuspend <=> app'.told = 1)
                        /\ app'.stat # "suspended"
                        /\ app'.stat = "normal" => app'.told = 0
                        /\ app'.stat # "exiting" =>
                              app'.stat = "normal" /\ shell' = "front" /\ pending' = "none"
      BY <1>1, <2>11 DEF ShownOK
    <3>1. CASE app.stat = "exiting"
      <4>1. back = app
        BY <1>1, <3>1, ResumedFacts
      <4>2. /\ app'.stat = "exiting" /\ app'.told = app.told
            /\ app'.mIsSuspend = app.mIsSuspend
        BY <2>2, <2>6, <3>1, <4>1 DEF RequestLeaves
      <4> QED BY <1>1, <3>1, <4>2 DEF ShownOK
    <3>2. CASE app.stat # "exiting"
      <4>1. app.stat = "suspended" /\ app.told = 1
        BY <1>1, <3>2 DEF ShownOK, App
      <4>2. back.stat = "normal" /\ back.told = app.told - 1
        BY <1>1, <3>2, ResumedFacts
      <4>3. /\ app'.stat = "normal" /\ app'.told = back.told /\ app'.mIsSuspend = FALSE
            /\ pending' = "none"
        BY <2>2, <2>6, <4>2 DEF RequestLeaves
      <4> QED BY <1>1, <4>1, <4>2, <4>3
    <3> QED BY <3>1, <3>2
  <2>14. FlagForActivation'
    <3>1. misread' = (misread \/ (success /\ again # pending))
      BY <1>1, <1>4
    <3>2. r.charge.m_bActivate = (again = "activate")
      BY <2>2 DEF RequestLeaves
    <3> QED BY <1>1, <2>4, <3>1, <3>2 DEF FlagForActivation, FlagWritten
  <2> QED BY <2>10, <2>12, <2>13, <2>14
<1> QED BY <1>3, <1>4

\* Every step keeps the invariant.
LEMMA AppletStep == AppletInv /\ [AppletNext]_appletVars => AppletInv'
<1> SUFFICES ASSUME AppletInv, [AppletNext]_appletVars PROVE AppletInv'
  OBVIOUS
<1> USE DEF AppletInv, AppletType, PayingOK, HandlerBack, Alive, ShownOK, FlagForActivation
<1>1. CASE Rotate
  BY <1>1 DEF Rotate, App
<1>2. CASE UNCHANGED appletVars
  BY <1>2 DEF appletVars
<1> QED
  BY <1>1, <1>2, StartStep, StopStep, SuspendStep, ResumeStep, RepaintStep, ExitStep,
     PayStep, CallbackStep DEF AppletNext

\* The invariant holds in every life of an applet.
LEMMA AppletCorrect == AppletSpec => []AppletInv
<1>1. AppletInit => AppletInv
  <2> SUFFICES ASSUME AppletInit PROVE AppletInv
    OBVIOUS
  <2>1. charge \in Charge
    BY DEF AppletInit, NewCharge, Charge
  <2>2. AppletType
    BY <2>1 DEF AppletInit, AppletType
  <2> QED BY <2>2 DEF AppletInit, AppletInv, PayingOK, HandlerBack, Alive, ShownOK, FlagForActivation
<1> QED BY <1>1, AppletStep, PTL DEF AppletSpec

\* Through payments that are accepted, refused at once or asked for inside the
\* callback of another, in front and in the back, the platform's events are handled
\* by AeeCharge while a request is pending and by the application otherwise.
THEOREM HandlerCorrect == AppletSpec => []HandlerBack
<1>1. AppletInv => HandlerBack
  BY DEF AppletInv
<1> QED BY <1>1, AppletCorrect, PTL

\* The platform and AeeCharge never suspend an application twice nor resume it twice,
\* whatever asks it to exit on the way, and it paints in front only, until a request
\* is made or answered in the background, or accepted inside the callback of another.
THEOREM NormalCorrect == AppletSpec => []NormalIsShown
<1>1. AppletInv => NormalIsShown
  BY DEF AppletInv, NormalIsShown, ShownOK, Alive
<1> QED BY <1>1, AppletCorrect, PTL

\* The flag file is written exactly when an activation is paid, over any number of
\* requests of both kinds, restarts and failures, until one of the other kind is made
\* inside the callback of a request that was paid.
THEOREM FlagCorrect == AppletSpec => []FlagForActivation
<1>1. AppletInv => FlagForActivation
  BY DEF AppletInv
<1> QED BY <1>1, AppletCorrect, PTL

-----------------------------------------------------------------------------
(* The context: what a recursive function computes, by induction *)

\* Induction over the natural numbers, with a set in place of a property.
LEMMA NatSetInduction ==
    ASSUME NEW S, 0 \in S, \A n \in Nat : n \in S => n + 1 \in S
    PROVE  Nat \subseteq S
<1> DEFINE T == Nat \ S
           R == OpToRel(<, Nat)
<1>1. SUFFICES ASSUME T # {} PROVE FALSE
  OBVIOUS
<1>2. \E x \in T : \A y \in T : ~ (<<y, x>> \in R)
  <2>1. IsWellFoundedOn(R, Nat)
    BY NatLessThanWellFounded
  <2> HIDE DEF R
  <2> QED BY <1>1, <2>1, WFMin
<1>3. PICK x \in T : \A y \in T : ~ (<<y, x>> \in R)
  BY <1>2
<1>4. x \in Nat /\ x # 0 /\ x - 1 \in Nat /\ x - 1 \notin S
  BY SMT
<1>5. <<x - 1, x>> \in R
  BY <1>4 DEF OpToRel
<1> QED BY <1>3, <1>4, <1>5


\* f is a before the first value, and G[k] makes f[k] of f[k - 1].
Recurs(a, G, n, f) == f = [k \in 0..n |-> IF k = 0 THEN a ELSE G[k][f[k - 1]]]

\* Such a function exists, for any number of values.
LEMMA RecursionDefined ==
    ASSUME NEW X, NEW a \in X, NEW G, \A k \in Nat, x \in X : G[k][x] \in X
    PROVE  \A n \in Nat : \E f \in [0..n -> X] : Recurs(a, G, n, f)
<1> USE DEF Recurs
<1> DEFINE To(n, f) == Recurs(a, G, n, f)
           S == {n \in Nat : \E f \in [0..n -> X] : To(n, f)}
<1>1. 0 \in S
  <2> DEFINE f == [k \in 0..0 |-> a]
  <2>1. f \in [0..0 -> X] /\ To(0, f)
    OBVIOUS
  <2> HIDE DEF f
  <2> QED BY <2>1
<1>2. ASSUME NEW n \in Nat, n \in S PROVE n + 1 \in S
  <2>1. PICK f \in [0..n -> X] : To(n, f)
    BY <1>2
  <2> DEFINE g == [k \in 0..(n + 1) |-> IF k = n + 1 THEN G[n + 1][f[n]] ELSE f[k]]
  <2>2. ASSUME NEW k \in 0..(n + 1)
        PROVE  g[k] \in X /\ g[k] = IF k = 0 THEN a ELSE G[k][g[k - 1]]
    <3>1. CASE k = 0
      BY <3>1, <2>1
    <3>2. CASE k = n + 1
      BY <3>2, <2>1
    <3>3. CASE k \in 1..n
      <4>1. k - 1 \in 0..n /\ k - 1 \in 0..(n + 1) /\ k \in 0..n /\ k # 0 /\ k # n + 1
            /\ k - 1 # n + 1
        BY <3>3
      <4> QED BY <2>1, <4>1
    <3> QED BY <3>1, <3>2, <3>3
  <2>3. g \in [0..(n + 1) -> X] /\ To(n + 1, g)
    BY <2>2
  <2> HIDE DEF g, To
  <2> QED BY <2>3
<1> HIDE DEF S
<1>3. Nat \subseteq S
  BY <1>1, <1>2, NatSetInduction
<1> QED BY <1>3 DEF S

\* What memory[n] and read[n] are.
Memory == [at : Nat, cells : SUBSET (Nat \X Nat \X Nat)]
Writes(start, f) ==
    f = [n \in 0..Len(Saved) |-> IF n = 0 THEN [at |-> start, cells |-> {}]
                                 ELSE WriteNext(f[n - 1], n)]
Reading == [at : Nat, cells : SUBSET (Nat \X Nat \X Nat), got : SUBSET (Nat \X Nat \X Nat \X Nat)]
Reads(cells, start, f) ==
    f = [n \in 0..Len(Saved) |-> IF n = 0 THEN [at |-> start, cells |-> cells, got |-> {}]
                                 ELSE ReadNext(f[n - 1], n)]

\* The values, and where in the memory they end.
LEMMA WidthsAreNat == Len(Saved) \in Nat /\ \A i \in 1..Len(Saved) : Saved[i] \in Nat
BY AppletAssumption

LEMMA WritesDefined ==
    ASSUME NEW start \in Nat
    PROVE  /\ \E f \in [0..Len(Saved) -> Memory] : Writes(start, f)
           /\ \E f : Writes(start, f) /\ Written(start) = f[Len(Saved)].cells
<1> DEFINE n == Len(Saved)
           a == [at |-> start, cells |-> {}]
           G == [k \in Nat |-> [x \in Memory |-> IF k \in 1..n THEN WriteNext(x, k) ELSE x]]
<1>1. a \in Memory
  BY DEF Memory
<1>2. ASSUME NEW k \in Nat, NEW x \in Memory PROVE G[k][x] \in Memory
  <2>1. CASE k \in 1..n
    <3>1. Saved[k] \in Nat /\ x.at \in Nat
      BY <2>1, WidthsAreNat DEF Memory
    <3>2. {<<x.at + b, k, b>> : b \in 0..(Saved[k] - 1)} \in SUBSET (Nat \X Nat \X Nat)
      BY <3>1
    <3>3. WriteNext(x, k) \in Memory
      BY <3>1, <3>2 DEF WriteNext, Memory
    <3> QED BY <2>1, <3>3
  <2>2. CASE k \notin 1..n
    BY <2>2
  <2> QED BY <2>1, <2>2
<1>3. PICK f \in [0..n -> Memory] : Recurs(a, G, n, f)
  <2> HIDE DEF G, a
  <2>1. \A j \in Nat : \E f \in [0..j -> Memory] : Recurs(a, G, j, f)
    BY <1>1, <1>2, RecursionDefined
  <2> QED BY <2>1, WidthsAreNat
<1>4. ASSUME NEW k \in 0..n, k # 0
      PROVE  G[k][f[k - 1]] = WriteNext(f[k - 1], k)
  <2>1. k \in 1..n /\ k \in Nat /\ k - 1 \in 0..n
    BY <1>4, WidthsAreNat
  <2> QED BY <1>3, <2>1 DEF Recurs
<1>5. Writes(start, f)
  <2> HIDE DEF G
  <2>1. \A k \in 0..n : f[k] = IF k = 0 THEN a ELSE WriteNext(f[k - 1], k)
    BY <1>3, <1>4 DEF Recurs
  <2> QED BY <2>1, <1>3 DEF Writes, Recurs
<1>6. \E g : Writes(start, g) /\ Written(start) = g[Len(Saved)].cells
  <2> DEFINE g == CHOOSE h : Writes(start, h)
  <2>1. Writes(start, g)
    BY <1>5
  <2>2. Written(start) = g[Len(Saved)].cells
    BY DEF Written, Writes
  <2> QED BY <2>1, <2>2
<1> QED BY <1>5, <1>6

LEMMA ReadsDefined ==
    ASSUME NEW start \in Nat, NEW cells \in SUBSET (Nat \X Nat \X Nat)
    PROVE  /\ \E f \in [0..Len(Saved) -> Reading] : Reads(cells, start, f)
           /\ \E f : Reads(cells, start, f) /\ ReadBack(cells, start) = f[Len(Saved)].got
<1> DEFINE n == Len(Saved)
           a == [at |-> start, cells |-> cells, got |-> {}]
           G == [k \in Nat |-> [x \in Reading |-> IF k \in 1..n THEN ReadNext(x, k) ELSE x]]
<1>1. a \in Reading
  BY DEF Reading
<1>2. ASSUME NEW k \in Nat, NEW x \in Reading PROVE G[k][x] \in Reading
  <2>1. CASE k \in 1..n
    <3>1. Saved[k] \in Nat /\ x.at \in Nat /\ x.cells \in SUBSET (Nat \X Nat \X Nat)
      BY <2>1, WidthsAreNat DEF Reading
    <3>2. \A b \in 0..(Saved[k] - 1), c \in x.cells :
              <<k, b, c[2], c[3]>> \in Nat \X Nat \X Nat \X Nat
      BY <3>1
    <3>3. Found(x, k) \in SUBSET (Nat \X Nat \X Nat \X Nat)
      BY <3>2 DEF Found
    <3>4. ReadNext(x, k) \in Reading
      BY <3>1, <3>3 DEF ReadNext, Reading
    <3> QED BY <2>1, <3>4
  <2>2. CASE k \notin 1..n
    BY <2>2
  <2> QED BY <2>1, <2>2
<1>3. PICK f \in [0..n -> Reading] : Recurs(a, G, n, f)
  <2> HIDE DEF G, a
  <2>1. \A j \in Nat : \E f \in [0..j -> Reading] : Recurs(a, G, j, f)
    BY <1>1, <1>2, RecursionDefined
  <2> QED BY <2>1, WidthsAreNat
<1>4. ASSUME NEW k \in 0..n, k # 0
      PROVE  G[k][f[k - 1]] = ReadNext(f[k - 1], k)
  <2>1. k \in 1..n /\ k \in Nat /\ k - 1 \in 0..n
    BY <1>4, WidthsAreNat
  <2> QED BY <1>3, <2>1 DEF Recurs
<1>5. Reads(cells, start, f)
  <2> HIDE DEF G
  <2>1. \A k \in 0..n : f[k] = IF k = 0 THEN a ELSE ReadNext(f[k - 1], k)
    BY <1>3, <1>4 DEF Recurs
  <2> QED BY <2>1, <1>3 DEF Reads, Recurs
<1>6. \E g : Reads(cells, start, g) /\ ReadBack(cells, start) = g[Len(Saved)].got
  <2> DEFINE g == CHOOSE h : Reads(cells, start, h)
  <2>1. Reads(cells, start, g)
    BY <1>5
  <2>2. ReadBack(cells, start) = g[Len(Saved)].got
    BY DEF ReadBack, Reads
  <2> QED BY <2>1, <2>2
<1> QED BY <1>5, <1>6

\* The memory written to, one value more.
LEMMA WriteOne ==
    ASSUME NEW start \in Nat, NEW f, Writes(start, f)
    PROVE  /\ f[0].at = start /\ f[0].cells = {}
           /\ \A k \in 1..Len(Saved) :
                 /\ f[k].at = f[k - 1].at + Saved[k]
                 /\ f[k].cells = f[k - 1].cells \cup
                        {<<f[k - 1].at + b, k, b>> : b \in 0..(Saved[k] - 1)}
<1>1. f[0] = [at |-> start, cells |-> {}]
  BY WidthsAreNat DEF Writes
<1>2. ASSUME NEW k \in 1..Len(Saved) PROVE f[k] = WriteNext(f[k - 1], k)
  <2>1. k \in 0..Len(Saved) /\ k # 0
    BY WidthsAreNat
  <2> QED BY <2>1 DEF Writes
<1>3. ASSUME NEW k \in 1..Len(Saved)
      PROVE  /\ f[k].at = f[k - 1].at + Saved[k]
             /\ f[k].cells = f[k - 1].cells \cup
                    {<<f[k - 1].at + b, k, b>> : b \in 0..(Saved[k] - 1)}
  <2>1. f[k] = WriteNext(f[k - 1], k)
    BY <1>2
  <2> DEFINE m == f[k - 1]
  <2>2. /\ WriteNext(m, k).at = m.at + Saved[k]
        /\ WriteNext(m, k).cells = m.cells \cup {<<m.at + b, k, b>> : b \in 0..(Saved[k] - 1)}
    <3> HIDE DEF m
    <3> QED BY DEF WriteNext
  <2> QED BY ONLY <2>1, <2>2
<1> QED BY <1>1, <1>3

\* Every value begins where the one before it ends, so none overlaps another.
LEMMA WritesApart ==
    ASSUME NEW start \in Nat, NEW f, Writes(start, f)
    PROVE  /\ \A k \in 0..Len(Saved) : f[k].at \in Nat
           /\ \A k, j \in 1..Len(Saved), b, c \in Nat :
                 /\ b < Saved[k] /\ c < Saved[j]
                 /\ f[k - 1].at + b = f[j - 1].at + c
                 => k = j /\ b = c
<1> DEFINE n == Len(Saved)
           at(k) == f[k].at
<1>1. n \in Nat /\ \A k \in 1..n : Saved[k] \in Nat
  BY WidthsAreNat
<1>2. at(0) = start /\ \A k \in 1..n : at(k) = at(k - 1) + Saved[k]
  BY WriteOne
<1> HIDE DEF at, n
<1> DEFINE S == {k \in Nat : k <= n => at(k) \in Nat /\ \A j \in 0..k : at(j) \in Nat /\ at(j) <= at(k)}
<1>3. 0 \in S
  BY <1>2
<1>4. ASSUME NEW k \in Nat, k \in S PROVE k + 1 \in S
  <2>1. CASE k + 1 <= n
    <3>1. at(k + 1) = at(k) + Saved[k + 1] /\ Saved[k + 1] \in Nat
      <4>1. k + 1 \in 1..n /\ (k + 1) - 1 = k
        BY <1>1, <2>1
      <4> QED BY <1>1, <1>2, <4>1
    <3>2. at(k) \in Nat /\ \A j \in 0..k : at(j) \in Nat /\ at(j) <= at(k)
      BY <1>1, <1>4, <2>1
    <3>3. ASSUME NEW j \in 0..(k + 1) PROVE at(j) \in Nat /\ at(j) <= at(k + 1)
      BY <3>1, <3>2
    <3> QED BY <3>1, <3>2, <3>3
  <2>2. CASE ~(k + 1 <= n)
    BY <2>2
  <2> QED BY <2>1, <2>2
<1> HIDE DEF S
<1>5. Nat \subseteq S
  BY <1>3, <1>4, NatSetInduction
<1>6. \A k \in 0..n : at(k) \in Nat /\ \A j \in 0..k : at(j) <= at(k)
  BY <1>1, <1>5 DEF S
<1>7. ASSUME NEW k \in 1..n, NEW j \in 1..n, NEW b \in Nat, NEW c \in Nat,
             b < Saved[k], c < Saved[j], at(k - 1) + b = at(j - 1) + c
      PROVE  k = j /\ b = c
  <2>1. /\ at(k) = at(k - 1) + Saved[k] /\ at(j) = at(j - 1) + Saved[j]
        /\ at(k - 1) \in Nat /\ at(j - 1) \in Nat /\ Saved[k] \in Nat /\ Saved[j] \in Nat
    BY <1>1, <1>2, <1>6
  <2>2. ~(k < j)
    <3>1. SUFFICES ASSUME k < j PROVE FALSE
      OBVIOUS
    <3>2. at(k) <= at(j - 1)
      BY <1>1, <1>6, <3>1
    <3> QED BY <1>7, <2>1, <3>2
  <2>3. ~(j < k)
    <3>1. SUFFICES ASSUME j < k PROVE FALSE
      OBVIOUS
    <3>2. at(j) <= at(k - 1)
      BY <1>1, <1>6, <3>1
    <3> QED BY <1>7, <2>1, <3>2
  <2>4. k = j
    BY <1>1, <2>2, <2>3
  <2> QED BY <1>7, <2>1, <2>4
<1> QED BY <1>6, <1>7 DEF at, n

\* After k values a cell is a byte of one of them, at its place.
LEMMA CellsOfValues ==
    ASSUME NEW start \in Nat, NEW f, Writes(start, f)
    PROVE  \A k \in 0..Len(Saved) :
              f[k].cells = UNION {{<<f[i - 1].at + b, i, b>> : b \in 0..(Saved[i] - 1)} :
                                      i \in 1..k}
<1> DEFINE n == Len(Saved)
           Value(i) == {<<f[i - 1].at + b, i, b>> : b \in 0..(Saved[i] - 1)}
           S == {k \in Nat : k <= n => f[k].cells = UNION {Value(i) : i \in 1..k}}
<1>1. /\ f[0].cells = {}
      /\ \A k \in 1..n : f[k].cells = f[k - 1].cells \cup Value(k)
  BY WriteOne
<1>2. n \in Nat
  BY WidthsAreNat
<1> HIDE DEF Value, n
<1>3. 0 \in S
  BY <1>1
<1>4. ASSUME NEW k \in Nat, k \in S PROVE k + 1 \in S
  <2>1. CASE k + 1 <= n
    <3>1. f[k + 1].cells = f[k].cells \cup Value(k + 1)
      <4>1. k + 1 \in 1..n /\ (k + 1) - 1 = k
        BY <1>2, <2>1
      <4> QED BY <1>1, <4>1
    <3>2. f[k].cells = UNION {Value(i) : i \in 1..k}
      BY <1>2, <1>4, <2>1
    <3>3. 1..(k + 1) = 1..k \cup {k + 1}
      OBVIOUS
    <3>4. UNION {Value(i) : i \in 1..(k + 1)} = (UNION {Value(i) : i \in 1..k}) \cup Value(k + 1)
      BY <3>3
    <3> QED BY <3>1, <3>2, <3>4
  <2>2. CASE ~(k + 1 <= n)
    BY <2>2
  <2> QED BY <2>1, <2>2
<1> HIDE DEF S
<1>5. Nat \subseteq S
  BY <1>3, <1>4, NatSetInduction
<1> QED BY <1>2, <1>5 DEF S, Value, n

\* What is found of a value in the memory that was written to.
LEMMA FoundIsWritten ==
    ASSUME NEW start \in Nat, NEW f, Writes(start, f), NEW k \in 1..Len(Saved),
           NEW m, m.at = f[k - 1].at, m.cells = f[Len(Saved)].cells
    PROVE  Found(m, k) = {<<k, b, k, b>> : b \in 0..(Saved[k] - 1)}
<1> DEFINE n == Len(Saved)
<1>1. n \in Nat /\ n \in 0..n /\ k - 1 \in 0..n /\ \A i \in 1..n : Saved[i] \in Nat /\ i - 1 \in 0..n
  BY WidthsAreNat
<1>2. m.cells = UNION {{<<f[i - 1].at + b, i, b>> : b \in 0..(Saved[i] - 1)} : i \in 1..n}
  BY <1>1, CellsOfValues
<1>3. ASSUME NEW b \in 0..(Saved[k] - 1)
      PROVE  {<<k, b, c[2], c[3]>> : c \in {cell \in m.cells : cell[1] = m.at + b}}
                = {<<k, b, k, b>>}
  <2> DEFINE C == <<f[k - 1].at + b, k, b>>
  <2>1. C \in m.cells
    BY <1>2
  <2>2. C[1] = m.at + b /\ C[2] = k /\ C[3] = b
    OBVIOUS
  <2>3. ASSUME NEW c \in m.cells, c[1] = m.at + b PROVE c = C
    <3>1. PICK i \in 1..n : c \in {<<f[i - 1].at + d, i, d>> : d \in 0..(Saved[i] - 1)}
      BY <1>2, <2>3
    <3>2. PICK d \in 0..(Saved[i] - 1) : c = <<f[i - 1].at + d, i, d>>
      BY <3>1
    <3>3. f[k - 1].at + b = f[i - 1].at + d
      BY <2>3, <3>2
    <3>4. b \in Nat /\ d \in Nat /\ b < Saved[k] /\ d < Saved[i]
      BY <1>1
    <3>5. k = i /\ b = d
      BY <3>3, <3>4, WritesApart
    <3> QED BY <3>2, <3>5
  <2> HIDE DEF C
  <2>4. {cell \in m.cells : cell[1] = m.at + b} = {C}
    BY <2>1, <2>2, <2>3
  <2> QED BY <2>2, <2>4
<1>4. Found(m, k) = UNION {{<<k, b, k, b>>} : b \in 0..(Saved[k] - 1)}
  BY <1>3 DEF Found
<1> QED BY <1>4

\* After k values were read, those values were got, each byte in its place.
LEMMA GotValues ==
    ASSUME NEW start \in Nat, NEW f, Writes(start, f), NEW cells,
           cells = f[Len(Saved)].cells, NEW g, Reads(cells, start, g)
    PROVE  \A k \in 0..Len(Saved) :
              /\ g[k].at = f[k].at /\ g[k].cells = cells
              /\ g[k].got = UNION {{<<i, b, i, b>> : b \in 0..(Saved[i] - 1)} : i \in 1..k}
<1> DEFINE n == Len(Saved)
           Value(i) == {<<i, b, i, b>> : b \in 0..(Saved[i] - 1)}
           Right(k) == /\ g[k].at = f[k].at /\ g[k].cells = cells
                       /\ g[k].got = UNION {Value(i) : i \in 1..k}
           S == {k \in Nat : k <= n => Right(k)}
<1>1. n \in Nat
  BY WidthsAreNat
<1>2. 0 \in S
  <2>1. g[0] = [at |-> start, cells |-> cells, got |-> {}]
    BY <1>1 DEF Reads
  <2>2. f[0].at = start
    BY WriteOne
  <2> QED BY <2>1, <2>2
<1>3. ASSUME NEW k \in Nat, k \in S PROVE k + 1 \in S
  <2>1. CASE k + 1 <= n
    <3>1. k + 1 \in 1..n /\ (k + 1) - 1 = k /\ k + 1 \in 0..n /\ k + 1 # 0
      BY <1>1, <2>1
    <3>2. Right(k)
      BY <1>1, <1>3, <2>1
    <3>3. g[k + 1] = ReadNext(g[k], k + 1)
      BY <3>1 DEF Reads
    <3>4. f[k + 1].at = f[k].at + Saved[k + 1]
      BY <3>1, WriteOne
    <3>5. Found(g[k], k + 1) = Value(k + 1)
      BY <3>1, <3>2, FoundIsWritten
    <3> DEFINE m == g[k]
    <3>6. /\ ReadNext(m, k + 1).at = m.at + Saved[k + 1]
          /\ ReadNext(m, k + 1).cells = m.cells
          /\ ReadNext(m, k + 1).got = m.got \cup Found(m, k + 1)
      <4> HIDE DEF m
      <4> QED BY DEF ReadNext
    <3>7. 1..(k + 1) = 1..k \cup {k + 1}
      OBVIOUS
    <3> HIDE DEF Value
    <3>8. (UNION {Value(i) : i \in 1..k}) \cup Value(k + 1) = UNION {Value(i) : i \in 1..(k + 1)}
      BY <3>7
    <3>9. Right(k + 1)
      BY <3>2, <3>3, <3>4, <3>5, <3>6, <3>8
    <3> QED BY <3>9
  <2>2. CASE ~(k + 1 <= n)
    BY <2>2
  <2> QED BY <2>1, <2>2
<1> HIDE DEF S
<1>4. Nat \subseteq S
  BY <1>2, <1>3, NatSetInduction
<1> QED BY <1>1, <1>4 DEF S

\* What is read back is what was written, wherever the context begins.
LEMMA RoundTrip ==
    ASSUME NEW start \in Nat
    PROVE  ReadBack(Written(start), start) =
               UNION {{<<i, b, i, b>> : b \in 0..(Saved[i] - 1)} : i \in 1..Len(Saved)}
<1>1. PICK f : Writes(start, f) /\ Written(start) = f[Len(Saved)].cells
  BY WritesDefined
<1>2. Written(start) \in SUBSET (Nat \X Nat \X Nat)
  <2>1. Written(start) = UNION {{<<f[i - 1].at + b, i, b>> : b \in 0..(Saved[i] - 1)} :
                                    i \in 1..Len(Saved)}
    <3>1. Len(Saved) \in 0..Len(Saved)
      BY WidthsAreNat
    <3>2. f[Len(Saved)].cells =
              UNION {{<<f[i - 1].at + b, i, b>> : b \in 0..(Saved[i] - 1)} : i \in 1..Len(Saved)}
      BY <1>1, <3>1, CellsOfValues
    <3> QED BY <1>1, <3>2
  <2>2. ASSUME NEW i \in 1..Len(Saved), NEW b \in 0..(Saved[i] - 1)
        PROVE  <<f[i - 1].at + b, i, b>> \in Nat \X Nat \X Nat
    <3>1. f[i - 1].at \in Nat /\ i \in Nat /\ b \in Nat
      <4>1. i - 1 \in 0..Len(Saved)
        BY WidthsAreNat
      <4> QED BY <1>1, <4>1, WidthsAreNat, WritesApart
    <3> QED BY <3>1
  <2> QED BY <2>1, <2>2
<1>3. PICK g : /\ Reads(Written(start), start, g)
               /\ ReadBack(Written(start), start) = g[Len(Saved)].got
  BY <1>2, ReadsDefined
<1>4. Len(Saved) \in 0..Len(Saved)
  BY WidthsAreNat
<1> QED BY <1>1, <1>3, <1>4, GotValues

\* The context of the shell is empty or one an application wrote.
ContextInv ==
    /\ context = [start |-> context.start, cells |-> context.cells, loaded |-> context.loaded]
    /\ context.cells # {} => context.start \in Nat /\ context.cells = Written(context.start)
    /\ ContextKept

\* One step of the applet and the context it leaves.
LEMMA ContextStep == ContextInv /\ [AppletNext]_appletVars => ContextInv'
<1> SUFFICES ASSUME ContextInv, [AppletNext]_appletVars PROVE ContextInv'
  OBVIOUS
<1> DEFINE All == UNION {{<<i, b, i, b>> : b \in 0..(Saved[i] - 1)} : i \in 1..Len(Saved)}
           n == context.start
           e == context.cells
           l == context.loaded
<1>c. /\ context = [start |-> n, cells |-> e, loaded |-> l] /\ l \in {{}, All}
      /\ e # {} => n \in Nat /\ e = Written(n)
  BY DEF ContextInv, ContextKept
<1>1. ASSUME NEW b \in BOOLEAN, Start(b) PROVE ContextInv'
  <2>1. CASE b
    <3>1. e # {} /\ context' = [context EXCEPT !.loaded = ReadBack(e, n)]
      BY <1>1, <2>1 DEF Start
    <3>2. ReadBack(e, n) = All
      <4>1. n \in Nat /\ e = Written(n)
        BY <1>c, <3>1
      <4> QED BY <4>1, RoundTrip
    <3> HIDE DEF All, n, e, l
    <3>3. context' = [start |-> n, cells |-> e, loaded |-> All]
      BY <1>c, <3>1, <3>2
    <3>4. context'.start = n /\ context'.cells = e /\ context'.loaded = All
      BY <3>3
    <3>5. ContextKept'
      BY <3>4 DEF ContextKept, All
    <3>6. e # {} => n \in Nat /\ e = Written(n)
      BY <1>c
    <3> QED BY <3>3, <3>4, <3>5, <3>6 DEF ContextInv
  <2>2. CASE ~b
    <3>1. UNCHANGED context
      BY <1>1, <2>2 DEF Start
    <3> QED BY <3>1 DEF ContextInv, ContextKept
  <2> QED BY <2>1, <2>2
<1>2. ASSUME NEW b \in BOOLEAN, Stop(b) PROVE ContextInv'
  <2>1. PICK start \in StartIndex :
            context' = IF b THEN [start |-> start, cells |-> Written(start), loaded |-> {}]
                       ELSE context
    BY <1>2 DEF Stop
  <2>2. start \in Nat
    BY AppletAssumption
  <2>3. CASE b
    <3>1. context' = [start |-> start, cells |-> Written(start), loaded |-> {}]
      BY <2>1, <2>3
    <3>2. context'.start = start /\ context'.cells = Written(start) /\ context'.loaded = {}
      BY <3>1
    <3>3. ContextKept'
      BY <3>2 DEF ContextKept
    <3> QED BY <2>2, <3>1, <3>2, <3>3 DEF ContextInv
  <2>4. CASE ~b
    <3>1. UNCHANGED context
      BY <2>1, <2>4
    <3> QED BY <3>1 DEF ContextInv, ContextKept
  <2> QED BY <2>3, <2>4
<1>3. ASSUME UNCHANGED context PROVE ContextInv'
  BY <1>3 DEF ContextInv, ContextKept
<1>4. ASSUME NEW w \in {0, 1}, Repaint(w) PROVE UNCHANGED context
  BY <1>4 DEF Repaint
<1>5. ASSUME NEW k \in {"pay", "activate"}, NEW b \in BOOLEAN, Pay(k, b) PROVE UNCHANGED context
  BY <1>5 DEF Pay
<1>6. ASSUME NEW s \in BOOLEAN, NEW b \in BOOLEAN, NEW k \in {"none", "pay", "activate"},
             ChargeCallback(s, k, b)
      PROVE  UNCHANGED context
  BY <1>6 DEF ChargeCallback
<1>7. OnSuspend \/ OnResume \/ ExitApp \/ Rotate => UNCHANGED context
  BY DEF OnSuspend, OnResume, ExitApp, Rotate
<1>8. UNCHANGED appletVars => UNCHANGED context
  BY DEF appletVars
<1> QED BY <1>1, <1>2, <1>3, <1>4, <1>5, <1>6, <1>7, <1>8 DEF AppletNext

\* For any values an application saves, of any widths, and wherever in the memory of
\* the shell its context begins: what is read back is every byte of every value, in
\* its place, and nothing else.
THEOREM ContextCorrect == AppletSpec => []ContextKept
<1>1. AppletInit => ContextInv
  BY DEF AppletInit, ContextInv, ContextKept
<1>2. ContextInv => ContextKept
  BY DEF ContextInv
<1> QED BY <1>1, <1>2, ContextStep, PTL DEF AppletSpec

\* In every life of an applet a payment gives the handler back and the context is
\* kept; it is suspended and resumed in turns until a request is made or answered in the
\* background or accepted inside the callback of another, and the flag of an activation
\* is written for one that was paid until one of the other kind is asked for inside the
\* callback of a paid one.
THEOREM AppletKeptCorrect == AppletSpec => []AppletKept
<1>1. NormalIsShown /\ FlagForActivation /\ HandlerBack /\ ContextKept => AppletKept
  BY DEF AppletKept
<1> QED BY <1>1, NormalCorrect, FlagCorrect, HandlerCorrect, ContextCorrect, PTL

-----------------------------------------------------------------------------
(* The sounds: inductive invariant *)

\* The fields of AEEMultiMedia, and what the platform and the handlers have of it.
MediaRec ==
    [mStatus : SUBSET {"back", "record"}, mMusicFile : BOOLEAN, mIsBackMusic : BOOLEAN,
     mBackMusicProgress : BOOLEAN, mRecordCB : BOOLEAN,
     mPlayCbMap : SUBSET (1..MaxMessages), player : {"none", "sound", "music"},
     paused : BOOLEAN, recorder : BOOLEAN, messages : 0..MaxMessages,
     answered : [1..MaxMessages -> {0, 1}], freed : BOOLEAN, forsaken : BOOLEAN,
     stray : BOOLEAN, unheard : SUBSET (1..MaxMessages)]

\* A message that was played waits for its end, was cleared, or has been answered, once.
AnsweredOK(m) ==
    /\ m.mPlayCbMap \subseteq 1..m.messages /\ m.unheard \subseteq 1..m.messages
    /\ m.mPlayCbMap \cap m.unheard = {}
    /\ \A i \in 1..MaxMessages :
          m.answered[i] = IF i > m.messages \/ i \in m.mPlayCbMap \cup m.unheard THEN 0 ELSE 1

\* The music is held for a message that has an entry, or for one that has none.
HeldOK(m) == m.paused = TRUE => m.mPlayCbMap # {} \/ m.forsaken = TRUE

\* What the platform records mStatus knows of, but for a stray recording.
TurnsOK(m) ==
    m.stray = FALSE => /\ m.recorder = TRUE => "record" \in m.mStatus
                       /\ ~android => m.recorder = FALSE \/ m.player = "none"

MediaOK(m) == m \in MediaRec /\ AnsweredOK(m) /\ HeldOK(m) /\ TurnsOK(m)

-----------------------------------------------------------------------------
(* What the functions of AEEMultiMedia leave *)

\* The handlers of some messages that wait, or are new, are told.
LEMMA ToldFacts ==
    ASSUME NEW m \in MediaRec, AnsweredOK(m), NEW ids \in SUBSET (1..MaxMessages),
           \A i \in ids : i > m.messages \/ i \in m.mPlayCbMap
    PROVE  /\ Told(m, ids) \in [1..MaxMessages -> {0, 1}]
           /\ \A i \in 1..MaxMessages :
                 Told(m, ids)[i] = IF i \in ids THEN 1 ELSE m.answered[i]
<1>1. \A i \in 1..MaxMessages :
         Told(m, ids)[i] = m.answered[i] + (IF i \in ids THEN 1 ELSE 0)
  BY DEF Told
<1>2. ASSUME NEW i \in 1..MaxMessages
      PROVE  /\ Told(m, ids)[i] = IF i \in ids THEN 1 ELSE m.answered[i]
             /\ Told(m, ids)[i] \in {0, 1}
  <2>1. m.answered[i] = IF i > m.messages \/ i \in m.mPlayCbMap \cup m.unheard THEN 0 ELSE 1
    BY DEF AnsweredOK
  <2>2. Told(m, ids)[i] = m.answered[i] + (IF i \in ids THEN 1 ELSE 0)
    BY <1>1
  <2> QED BY <2>1, <2>2
<1>3. Told(m, ids) = [i \in 1..MaxMessages |-> Told(m, ids)[i]]
  BY DEF Told
<1> QED BY <1>2, <1>3

\* StopSound ends what is played, and tells all that wait and that it comes to.
LEMMA StoppedFacts ==
    ASSUME android \in BOOLEAN, NEW m, MediaOK(m), NEW n \in Nat,
           m.messages + n <= MaxMessages, NEW missed \in SUBSET Fresh(m, n)
    PROVE  LET s == Stopped(m, n, missed) IN
           /\ MediaOK(s)
           /\ s.player = "none" /\ s.mPlayCbMap = {} /\ s.recorder = m.recorder
           /\ s.stray = m.stray /\ s.mStatus = m.mStatus \cup {"record"}
<1> DEFINE s == Stopped(m, n, missed)
           ids == m.mPlayCbMap \cup (Fresh(m, n) \ missed)
           t == Told(m, ids)
<1>1. m \in MediaRec /\ AnsweredOK(m) /\ TurnsOK(m)
  BY DEF MediaOK
<1>2. /\ m.messages \in Nat /\ MaxMessages \in Nat /\ m.messages + n \in 0..MaxMessages
      /\ m.mPlayCbMap \subseteq 1..m.messages /\ m.unheard \subseteq 1..m.messages
      /\ m.mPlayCbMap \in SUBSET (1..MaxMessages) /\ m.unheard \in SUBSET (1..MaxMessages)
  BY <1>1, MultiMediaAssumption DEF AnsweredOK, MediaRec
<1>3. /\ \A i \in Fresh(m, n) : i \in 1..MaxMessages /\ i > m.messages
      /\ \A i \in 1..MaxMessages : i \in Fresh(m, n) <=> i > m.messages /\ i <= m.messages + n
  BY <1>2 DEF Fresh
<1>4. /\ t \in [1..MaxMessages -> {0, 1}]
      /\ \A i \in 1..MaxMessages : t[i] = IF i \in ids THEN 1 ELSE m.answered[i]
  <2>1. ids \in SUBSET (1..MaxMessages) /\ \A i \in ids : i > m.messages \/ i \in m.mPlayCbMap
    BY <1>2, <1>3
  <2> HIDE DEF ids
  <2> QED BY <1>1, <2>1, ToldFacts
<1> HIDE DEF t
<1>5. s = [m EXCEPT !.mBackMusicProgress = @ \/ (m.mIsBackMusic /\ ~android), !.mIsBackMusic = FALSE,
                    !.player = "none", !.paused = FALSE, !.forsaken = FALSE,
                    !.answered = t, !.unheard = @ \cup missed, !.messages = @ + n,
                    !.mPlayCbMap = {}, !.mStatus = @ \cup {"record"}]
  BY DEF Stopped, t
<1> HIDE DEF s
<1>6. /\ s.player = "none" /\ s.mPlayCbMap = {} /\ s.recorder = m.recorder
      /\ s.mStatus = m.mStatus \cup {"record"} /\ s.paused = FALSE /\ s.stray = m.stray
      /\ s.messages = m.messages + n /\ s.answered = t /\ s.unheard = m.unheard \cup missed
  BY <1>1, <1>5 DEF MediaRec
<1>7. s \in MediaRec
  <2>1. m.mStatus \cup {"record"} \in SUBSET {"back", "record"}
    BY <1>1 DEF MediaRec
  <2>2. (m.mBackMusicProgress \/ (m.mIsBackMusic /\ ~android)) \in BOOLEAN
    OBVIOUS
  <2>3. m.unheard \cup missed \in SUBSET (1..MaxMessages)
    BY <1>2, <1>3
  <2> QED BY <1>1, <1>2, <1>4, <1>5, <2>1, <2>2, <2>3 DEF MediaRec
<1>8. AnsweredOK(s)
  <2>1. s.unheard \subseteq 1..s.messages
    BY <1>2, <1>3, <1>6
  <2>2. ASSUME NEW i \in 1..MaxMessages
        PROVE  t[i] = IF i > m.messages + n \/ i \in m.unheard \cup missed THEN 0 ELSE 1
    <3>1. m.answered[i] = IF i > m.messages \/ i \in m.mPlayCbMap \cup m.unheard THEN 0 ELSE 1
      BY <1>1 DEF AnsweredOK
    <3>2. t[i] = IF i \in ids THEN 1 ELSE m.answered[i]
      BY <1>4
    <3>3. CASE i > m.messages
      <4>1. i \notin m.mPlayCbMap /\ i \notin m.unheard
        BY <1>2, <3>3
      <4>2. i \in ids <=> i <= m.messages + n /\ i \notin missed
        BY <1>3, <3>3, <4>1
      <4> QED BY <1>2, <3>1, <3>2, <3>3, <4>1, <4>2
    <3>4. CASE ~(i > m.messages)
      <4>1. i \notin Fresh(m, n) /\ i \notin missed /\ ~(i > m.messages + n)
        BY <1>2, <1>3, <3>4
      <4>2. i \in ids <=> i \in m.mPlayCbMap
        BY <4>1
      <4>3. ~(i \in m.mPlayCbMap /\ i \in m.unheard)
        BY <1>1 DEF AnsweredOK
      <4> QED BY <3>1, <3>2, <3>4, <4>1, <4>2, <4>3
    <3> QED BY <3>3, <3>4
  <2> QED BY <1>6, <2>1, <2>2 DEF AnsweredOK
<1>9. HeldOK(s) /\ TurnsOK(s)
  BY <1>1, <1>6 DEF HeldOK, TurnsOK
<1> QED BY <1>6, <1>7, <1>8, <1>9 DEF MediaOK, s

\* The sound stops where no handler plays on.
LEMMA SilencedFacts ==
    ASSUME android \in BOOLEAN, NEW m, MediaOK(m)
    PROVE  LET s == Silenced(m) IN
           /\ MediaOK(s)
           /\ s.player = "none" /\ s.recorder = m.recorder
           /\ s.stray = m.stray /\ s.mStatus = m.mStatus \cup {"record"}
<1>1. m.messages + 0 <= MaxMessages /\ {} \in SUBSET Fresh(m, 0)
  BY MultiMediaAssumption DEF MediaOK, MediaRec
<1> QED BY <1>1, StoppedFacts DEF Silenced

\* The fields that the three parts of the invariant are about.
SameMessages(n, m) ==
    /\ n.mPlayCbMap = m.mPlayCbMap /\ n.messages = m.messages /\ n.answered = m.answered
    /\ n.unheard = m.unheard /\ n.paused = m.paused /\ n.forsaken = m.forsaken

\* A change of other fields leaves the messages as they are.
LEMMA SameMessagesFacts ==
    ASSUME NEW m, NEW n, MediaOK(m), SameMessages(n, m)
    PROVE  AnsweredOK(n) /\ HeldOK(n)
BY DEF SameMessages, MediaOK, AnsweredOK, HeldOK

\* PlayBackMusic starts music over nothing that is recorded.
LEMMA PlayedFacts ==
    ASSUME android \in BOOLEAN, NEW m, MediaOK(m)
    PROVE  MediaOK(Played(m))
<1>1. m \in MediaRec /\ TurnsOK(m)
  BY DEF MediaOK
<1>2. CASE android
  <2> DEFINE n == [m EXCEPT !.player = "music"]
  <2>1. Played(m) = n
    BY <1>2 DEF Played
  <2>2. n \in MediaRec
    BY <1>1 DEF MediaRec
  <2>3. /\ SameMessages(n, m) /\ n.recorder = m.recorder /\ n.mStatus = m.mStatus
        /\ n.stray = m.stray
    BY <1>1 DEF MediaRec, SameMessages
  <2> HIDE DEF n
  <2> QED BY <1>1, <1>2, <2>1, <2>2, <2>3, SameMessagesFacts DEF MediaOK, TurnsOK
<1>3. CASE ~android /\ "record" \in m.mStatus
  <2> DEFINE n == [m EXCEPT !.mMusicFile = TRUE]
  <2>1. Played(m) = n
    BY <1>3 DEF Played, IsRecording
  <2>2. n \in MediaRec
    BY <1>1 DEF MediaRec
  <2>3. /\ SameMessages(n, m) /\ n.recorder = m.recorder /\ n.mStatus = m.mStatus
        /\ n.player = m.player /\ n.stray = m.stray
    BY <1>1 DEF MediaRec, SameMessages
  <2> HIDE DEF n
  <2> QED BY <1>1, <2>1, <2>2, <2>3, SameMessagesFacts DEF MediaOK, TurnsOK
<1>4. CASE ~android /\ "record" \notin m.mStatus
  <2> DEFINE s == Silenced(m)
             n == [s EXCEPT !.mStatus = @ \cup {"back"}, !.mMusicFile = TRUE,
                            !.player = "music", !.mBackMusicProgress = FALSE,
                            !.mIsBackMusic = TRUE]
  <2>1. Played(m) = n
    BY <1>4 DEF Played, IsRecording
  <2>2. MediaOK(s) /\ s.recorder = m.recorder /\ s.stray = m.stray
    BY SilencedFacts
  <2> HIDE DEF s
  <2>3. s \in MediaRec
    BY <2>2 DEF MediaOK
  <2>4. n \in MediaRec
    <3>1. s.mStatus \cup {"back"} \in SUBSET {"back", "record"}
      BY <2>3 DEF MediaRec
    <3> QED BY <2>3, <3>1 DEF MediaRec
  <2>5. SameMessages(n, s) /\ n.recorder = s.recorder /\ n.stray = s.stray
    BY <2>3 DEF MediaRec, SameMessages
  <2>6. m.recorder \in BOOLEAN /\ (m.stray = FALSE => m.recorder = FALSE)
    BY <1>1, <1>4 DEF TurnsOK, MediaRec
  <2> HIDE DEF n
  <2> QED BY <2>1, <2>2, <2>4, <2>5, <2>6, SameMessagesFacts DEF MediaOK, TurnsOK
<1> QED BY <1>2, <1>3, <1>4

\* StartRecordMem silences the player, or leaves that to the platform.
LEMMA RecordedFacts ==
    ASSUME android \in BOOLEAN, NEW m, MediaOK(m)
    PROVE  MediaOK(Recorded(m))
<1> DEFINE s == IF android THEN m ELSE Silenced(m)
           n == [s EXCEPT !.mStatus = @ \cup {"record"}, !.mRecordCB = TRUE, !.recorder = TRUE,
                          !.stray = FALSE]
<1>1. MediaOK(s) /\ (~android => s.player = "none")
  BY SilencedFacts
<1>2. Recorded(m) = n
  BY DEF Recorded
<1> HIDE DEF s
<1>3. s \in MediaRec
  BY <1>1 DEF MediaOK
<1>4. n \in MediaRec
  <2>1. s.mStatus \cup {"record"} \in SUBSET {"back", "record"}
    BY <1>3 DEF MediaRec
  <2> QED BY <1>3, <2>1 DEF MediaRec
<1>5. SameMessages(n, s) /\ n.player = s.player /\ "record" \in n.mStatus
  BY <1>3 DEF MediaRec, SameMessages
<1> HIDE DEF n
<1> QED BY <1>1, <1>2, <1>4, <1>5, SameMessagesFacts DEF MediaOK, TurnsOK

\* StopRecord: the recorder is free before the bit is cleared and the music goes on,
\* unless the handler has started another recording.
LEMMA RecordStoppedFacts ==
    ASSUME android \in BOOLEAN, NEW m, MediaOK(m), NEW again \in BOOLEAN
    PROVE  MediaOK(RecordStopped(m, again))
<1> DEFINE off == [m EXCEPT !.recorder = FALSE, !.stray = FALSE]
           another == again /\ IsRecording(m) /\ m.mRecordCB
           told == IF another THEN Recorded(off) ELSE off
           n == [told EXCEPT !.mStatus = @ \ {"record"}, !.mRecordCB = FALSE, !.stray = another]
<1>1. m \in MediaRec
  BY DEF MediaOK
<1>2. MediaOK(off) /\ off.recorder = FALSE
  <2>1. off \in MediaRec
    BY <1>1 DEF MediaRec
  <2>2. SameMessages(off, m) /\ off.recorder = FALSE
    BY <1>1 DEF MediaRec, SameMessages
  <2> HIDE DEF off
  <2> QED BY <2>1, <2>2, SameMessagesFacts DEF MediaOK, TurnsOK
<1> HIDE DEF off
<1>3. MediaOK(told) /\ (~another => told.recorder = FALSE) /\ another \in BOOLEAN
  <2> HIDE DEF another
  <2>1. MediaOK(told) /\ (~another => told.recorder = FALSE)
    BY <1>2, RecordedFacts
  <2>2. another \in BOOLEAN
    BY DEF another
  <2> QED BY <2>1, <2>2
<1>4. RecordStopped(m, again) = MusicAgain(n)
  BY DEF RecordStopped, off
<1> HIDE DEF told, another
<1>5. MediaOK(n)
  <2>1. told \in MediaRec
    BY <1>3 DEF MediaOK
  <2>2. n \in MediaRec
    <3>1. told.mStatus \ {"record"} \in SUBSET {"back", "record"}
      BY <2>1 DEF MediaRec
    <3> QED BY <1>3, <2>1, <3>1 DEF MediaRec
  <2>3. SameMessages(n, told) /\ n.recorder = told.recorder /\ n.stray = another
    BY <2>1 DEF MediaRec, SameMessages
  <2> HIDE DEF n
  <2> QED BY <1>3, <2>2, <2>3, SameMessagesFacts DEF MediaOK, TurnsOK
<1> HIDE DEF n
<1> QED BY <1>4, <1>5, PlayedFacts DEF MusicAgain

\* The fields as one record are the variables.
MediaInv == android \in BOOLEAN /\ MediaOK(Fields)

\* The state becomes what a function has made of it.
LEMMA BecomesFacts ==
    ASSUME NEW m, MediaOK(m), FieldsBecome(m), android \in BOOLEAN
    PROVE  MediaInv'
<1> DEFINE r == Fields
<1>1. m \in MediaRec /\ AnsweredOK(m) /\ HeldOK(m) /\ TurnsOK(m) /\ android' = android
  BY DEF MediaOK, FieldsBecome
<1>2. r' = [mStatus |-> m.mStatus, mMusicFile |-> m.mMusicFile, mIsBackMusic |-> m.mIsBackMusic,
            mBackMusicProgress |-> m.mBackMusicProgress, mRecordCB |-> m.mRecordCB,
            mPlayCbMap |-> m.mPlayCbMap, player |-> m.player, paused |-> m.paused,
            recorder |-> m.recorder, messages |-> m.messages, answered |-> m.answered,
            freed |-> m.freed, forsaken |-> m.forsaken, stray |-> m.stray,
            unheard |-> m.unheard]
  BY DEF FieldsBecome, Fields
<1> HIDE DEF r
<1>3. r' \in MediaRec
  BY <1>1, <1>2 DEF MediaRec
<1>4. /\ SameMessages(r', m) /\ r'.recorder = m.recorder /\ r'.player = m.player
      /\ r'.mStatus = m.mStatus /\ r'.stray = m.stray
  BY <1>2 DEF SameMessages
<1>5. AnsweredOK(r') /\ HeldOK(r')
  BY <1>4, SameMessagesFacts
<1>6. TurnsOK(r)'
  BY <1>1, <1>4 DEF TurnsOK
<1>7. AnsweredOK(r)' /\ HeldOK(r)' /\ (r \in MediaRec)'
  BY <1>3, <1>5 DEF AnsweredOK, HeldOK, MediaRec
<1> QED BY <1>1, <1>6, <1>7 DEF MediaInv, MediaOK, r

\* A message has its entry.
LEMMA EnteredFacts ==
    ASSUME android \in BOOLEAN, NEW m, MediaOK(m), m.messages < MaxMessages
    PROVE  MediaOK(Entered(m)) /\ Entered(m).mPlayCbMap = m.mPlayCbMap \cup {m.messages + 1}
<1> DEFINE t == [m EXCEPT !.messages = @ + 1, !.mPlayCbMap = @ \cup {m.messages + 1},
                          !.forsaken = FALSE]
<1>1. m \in MediaRec /\ AnsweredOK(m) /\ TurnsOK(m)
  BY DEF MediaOK
<1>2. /\ m.messages \in Nat /\ m.messages + 1 \in 1..MaxMessages
      /\ m.messages + 1 \in 0..MaxMessages
  BY <1>1, MultiMediaAssumption DEF MediaRec
<1>3. t \in MediaRec
  <2>1. m.mPlayCbMap \cup {m.messages + 1} \in SUBSET (1..MaxMessages)
    BY <1>1, <1>2 DEF MediaRec
  <2> QED BY <1>1, <1>2, <2>1 DEF MediaRec
<1>4. /\ t.messages = m.messages + 1 /\ t.mPlayCbMap = m.mPlayCbMap \cup {m.messages + 1}
      /\ t.answered = m.answered /\ t.recorder = m.recorder /\ t.unheard = m.unheard
      /\ t.mStatus = m.mStatus /\ t.player = m.player /\ t.stray = m.stray
  BY <1>1 DEF MediaRec
<1>5. Entered(m) = t
  BY DEF Entered
<1> HIDE DEF t
<1>6. AnsweredOK(t)
  <2>1. m.mPlayCbMap \subseteq 1..m.messages /\ m.unheard \subseteq 1..m.messages
    BY <1>1 DEF AnsweredOK
  <2>2. t.mPlayCbMap \subseteq 1..t.messages /\ t.unheard \subseteq 1..t.messages
    BY <1>2, <1>4, <2>1
  <2>3. t.mPlayCbMap \cap t.unheard = {}
    <3>1. m.mPlayCbMap \cap m.unheard = {}
      BY <1>1 DEF AnsweredOK
    <3>2. m.messages + 1 \notin m.unheard
      BY <1>2, <2>1
    <3> QED BY <1>4, <3>1, <3>2
  <2>4. ASSUME NEW i \in 1..MaxMessages
        PROVE  t.answered[i] =
                  IF i > t.messages \/ i \in t.mPlayCbMap \cup t.unheard THEN 0 ELSE 1
    <3>1. m.answered[i] = IF i > m.messages \/ i \in m.mPlayCbMap \cup m.unheard THEN 0 ELSE 1
      BY <1>1 DEF AnsweredOK
    <3>2. i > m.messages <=> i > m.messages + 1 \/ i = m.messages + 1
      BY <1>2
    <3> QED BY <1>4, <3>1, <3>2
  <2> QED BY <2>2, <2>3, <2>4 DEF AnsweredOK
<1>7. HeldOK(t) /\ TurnsOK(t)
  BY <1>1, <1>4 DEF HeldOK, TurnsOK
<1> QED BY <1>3, <1>4, <1>5, <1>6, <1>7 DEF MediaOK

\* A message is played: it has its entry, or the music is held for nothing.
LEMMA RealAmrStep ==
    ASSUME MediaInv, NEW outcome, PlayRealAmr(outcome)
    PROVE  MediaInv'
<1> DEFINE m == Fields
           held == IF mPlayCbMap = {} THEN [m EXCEPT !.paused = TRUE, !.forsaken = TRUE] ELSE m
<1>1. /\ MediaOK(m) /\ android \in BOOLEAN /\ m.messages = messages
      /\ m.mPlayCbMap = mPlayCbMap
  BY DEF MediaInv, Fields
<1>2. /\ FieldsBecome(IF outcome = "entered" THEN Entered(held) ELSE held)
      /\ messages < MaxMessages
  BY DEF PlayRealAmr
<1>3. m \in MediaRec /\ AnsweredOK(m) /\ TurnsOK(m)
  BY <1>1 DEF MediaOK
<1> HIDE DEF m
<1>4. MediaOK(held) /\ held.messages = messages
  <2>1. CASE mPlayCbMap = {}
    <3> DEFINE n == [m EXCEPT !.paused = TRUE, !.forsaken = TRUE]
    <3>1. n \in MediaRec
      BY <1>3 DEF MediaRec
    <3>2. /\ n.mPlayCbMap = m.mPlayCbMap /\ n.messages = m.messages /\ n.forsaken = TRUE
          /\ n.answered = m.answered /\ n.recorder = m.recorder /\ n.unheard = m.unheard
          /\ n.mStatus = m.mStatus /\ n.player = m.player /\ n.stray = m.stray
      BY <1>3 DEF MediaRec
    <3> HIDE DEF n
    <3>3. AnsweredOK(n) /\ HeldOK(n) /\ TurnsOK(n)
      BY <1>3, <3>2 DEF AnsweredOK, HeldOK, TurnsOK
    <3> QED BY <1>1, <2>1, <3>1, <3>2, <3>3 DEF MediaOK, n
  <2>2. CASE mPlayCbMap # {}
    BY <1>1, <2>2
  <2> QED BY <2>1, <2>2
<1> HIDE DEF held
<1>5. MediaOK(IF outcome = "entered" THEN Entered(held) ELSE held)
  BY <1>1, <1>2, <1>4, EnteredFacts
<1> QED BY <1>1, <1>2, <1>5, BecomesFacts

\* A message is over: its handler is told and waits no more.
LEMMA EndedFacts ==
    ASSUME android \in BOOLEAN, NEW m, MediaOK(m), NEW id \in m.mPlayCbMap
    PROVE  MediaOK(Ended(m, id))
<1> DEFINE t == Told(m, {id})
           rest == m.mPlayCbMap \ {id}
           p == m.paused /\ rest # {}
           f == m.forsaken /\ rest # {}
           n == [m EXCEPT !.answered = t, !.mPlayCbMap = rest, !.paused = p, !.forsaken = f]
<1>1. Ended(m, id) = n
  BY DEF Ended
<1>2. m \in MediaRec /\ AnsweredOK(m) /\ HeldOK(m) /\ TurnsOK(m)
  BY DEF MediaOK
<1>3. id \in 1..MaxMessages /\ {id} \in SUBSET (1..MaxMessages) /\ rest \in SUBSET (1..MaxMessages)
  BY <1>2 DEF MediaRec
<1>4. /\ t \in [1..MaxMessages -> {0, 1}]
      /\ \A i \in 1..MaxMessages : t[i] = IF i \in {id} THEN 1 ELSE m.answered[i]
  <2>1. \A i \in {id} : i > m.messages \/ i \in m.mPlayCbMap
    OBVIOUS
  <2> QED BY <1>2, <1>3, <2>1, ToldFacts
<1>5. p \in BOOLEAN /\ f \in BOOLEAN /\ (p = TRUE => rest # {})
  OBVIOUS
<1> HIDE DEF t, rest, p, f
<1>6. n \in MediaRec
  BY <1>2, <1>3, <1>4, <1>5 DEF MediaRec
<1>7. /\ n.mPlayCbMap = rest /\ n.messages = m.messages /\ n.answered = t
      /\ n.paused = p /\ n.recorder = m.recorder /\ n.unheard = m.unheard
      /\ n.mStatus = m.mStatus /\ n.player = m.player /\ n.stray = m.stray
  BY <1>2 DEF MediaRec
<1> HIDE DEF n
<1>8. AnsweredOK(n)
  <2>1. /\ rest \subseteq 1..m.messages /\ rest \cap m.unheard = {}
        /\ m.unheard \subseteq 1..m.messages /\ id \in 1..m.messages /\ id \notin m.unheard
    BY <1>2 DEF AnsweredOK, rest
  <2>2. ASSUME NEW i \in 1..MaxMessages
        PROVE  t[i] = IF i > m.messages \/ i \in rest \cup m.unheard THEN 0 ELSE 1
    <3>1. m.answered[i] = IF i > m.messages \/ i \in m.mPlayCbMap \cup m.unheard THEN 0 ELSE 1
      BY <1>2 DEF AnsweredOK
    <3>2. t[i] = IF i = id THEN 1 ELSE m.answered[i]
      BY <1>4
    <3>3. i \in rest <=> i \in m.mPlayCbMap /\ i # id
      BY DEF rest
    <3>4. ~(id > m.messages)
      BY <1>2, <2>1 DEF MediaRec
    <3> QED BY <2>1, <3>1, <3>2, <3>3, <3>4
  <2> QED BY <1>7, <2>1, <2>2 DEF AnsweredOK
<1>9. HeldOK(n) /\ TurnsOK(n)
  BY <1>2, <1>5, <1>7 DEF HeldOK, TurnsOK
<1> QED BY <1>1, <1>6, <1>8, <1>9 DEF MediaOK

\* Its handler may play another one, which has its entry first.
LEMMA SoundStep ==
    ASSUME MediaInv, NEW id, NEW plays \in BOOLEAN, SoundCB(id, plays)
    PROVE  MediaInv'
<1> DEFINE m == Fields
           n == IF plays /\ messages < MaxMessages THEN Entered(m) ELSE m
<1>1. /\ MediaOK(m) /\ android \in BOOLEAN /\ m.messages = messages
      /\ m.mPlayCbMap = mPlayCbMap
  BY DEF MediaInv, Fields
<1>2. FieldsBecome(Ended(n, id)) /\ id \in mPlayCbMap
  BY DEF SoundCB
<1> HIDE DEF m
<1>3. MediaOK(n) /\ id \in n.mPlayCbMap
  BY <1>1, <1>2, EnteredFacts
<1> HIDE DEF n
<1> QED BY <1>1, <1>2, <1>3, EndedFacts, BecomesFacts

\* Only the player changes, and not to music or sound over a recording.
LEMMA PlayerFacts ==
    ASSUME NEW m, MediaOK(m), NEW what \in {"none", "sound"},
           what = "none" \/ (m.stray = FALSE => m.recorder = FALSE)
    PROVE  MediaOK([m EXCEPT !.player = what])
<1> DEFINE n == [m EXCEPT !.player = what]
<1>1. m \in MediaRec /\ TurnsOK(m)
  BY DEF MediaOK
<1>2. n \in MediaRec
  BY <1>1 DEF MediaRec
<1>3. /\ SameMessages(n, m) /\ n.recorder = m.recorder /\ n.stray = m.stray
      /\ n.mStatus = m.mStatus /\ n.player = what /\ m.recorder \in BOOLEAN
  BY <1>1 DEF MediaRec, SameMessages
<1> HIDE DEF n
<1>4. AnsweredOK(n) /\ HeldOK(n) /\ TurnsOK(n)
  BY <1>1, <1>3, SameMessagesFacts DEF TurnsOK
<1> QED BY <1>2, <1>4 DEF MediaOK, n

\* A handler that stops the sounds ends what is said of them.
LEMMA FreedFacts ==
    ASSUME NEW m, MediaOK(m)
    PROVE  MediaOK([m EXCEPT !.freed = TRUE])
<1> DEFINE n == [m EXCEPT !.freed = TRUE]
<1>1. m \in MediaRec /\ TurnsOK(m)
  BY DEF MediaOK
<1>2. n \in MediaRec
  BY <1>1 DEF MediaRec
<1>3. /\ SameMessages(n, m) /\ n.recorder = m.recorder /\ n.stray = m.stray
      /\ n.mStatus = m.mStatus /\ n.player = m.player
  BY <1>1 DEF MediaRec, SameMessages
<1> HIDE DEF n
<1>4. AnsweredOK(n) /\ HeldOK(n) /\ TurnsOK(n)
  BY <1>1, <1>3, SameMessagesFacts DEF TurnsOK
<1> QED BY <1>2, <1>4 DEF MediaOK, n

\* StopSound and Suspend, whatever the handlers play on the way.
LEMMA StoppingStep == MediaInv /\ Stopping => MediaInv'
<1> SUFFICES ASSUME MediaInv, NEW n \in 0..MaxMessages, NEW missed \in SUBSET (1..MaxMessages),
                    StopSound(n, missed) \/ \E b \in BOOLEAN : MediaSuspend(n, missed, b)
             PROVE  MediaInv'
  BY DEF Stopping
<1> DEFINE m == Fields
           s == Stopped(m, n, missed)
<1>1. MediaOK(m) /\ android \in BOOLEAN /\ m.messages = messages
  BY DEF MediaInv, Fields
<1>2. n \in Nat /\ m.messages + n <= MaxMessages /\ missed \in SUBSET Fresh(m, n)
  BY <1>1, MultiMediaAssumption DEF StopSound, MediaSuspend, Meanwhile
<1> HIDE DEF m
<1>3. MediaOK(s)
  BY <1>1, <1>2, StoppedFacts
<1>4. FieldsBecome(s) \/ \E b \in BOOLEAN : FieldsBecome(RecordStopped(s, b))
  BY DEF StopSound, MediaSuspend, m
<1> HIDE DEF s
<1>5. \A b \in BOOLEAN : MediaOK(RecordStopped(s, b))
  BY <1>1, <1>3, RecordStoppedFacts
<1> QED BY <1>1, <1>3, <1>4, <1>5, BecomesFacts

\* Every call of the application and of the platform keeps the invariant.
LEMMA MediaStep == MediaInv /\ [MediaNext]_mediaVars => MediaInv'
<1> SUFFICES ASSUME MediaInv, [MediaNext]_mediaVars PROVE MediaInv'
  OBVIOUS
<1> DEFINE m == Fields
<1>a. MediaOK(m) /\ android \in BOOLEAN
  BY DEF MediaInv
<1>1. CASE PlayBackMusic
  BY <1>1, <1>a, PlayedFacts, BecomesFacts DEF PlayBackMusic
<1>2. CASE PlaySound
  <2>1. ~android /\ "record" \notin m.mStatus /\ m \in MediaRec /\ TurnsOK(m)
        /\ FieldsBecome([Silenced(m) EXCEPT !.player = "sound"])
    BY <1>2, <1>a DEF PlaySound, IsRecording, MediaOK
  <2>2. /\ MediaOK(Silenced(m)) /\ Silenced(m).recorder = m.recorder
        /\ Silenced(m).stray = m.stray
    BY <1>a, SilencedFacts
  <2>3. m.stray = FALSE => m.recorder = FALSE
    BY <2>1 DEF TurnsOK, MediaRec
  <2>4. MediaOK([Silenced(m) EXCEPT !.player = "sound"])
    BY <2>2, <2>3, PlayerFacts
  <2> QED BY <1>a, <2>1, <2>4, BecomesFacts
<1>3. CASE Stopping
  BY <1>3, StoppingStep
<1>4. CASE SoundEnds
  BY <1>4, <1>a, PlayerFacts, BecomesFacts DEF SoundEnds
<1>5. CASE StartRecordMem
  BY <1>5, <1>a, RecordedFacts, BecomesFacts DEF StartRecordMem
<1>6. CASE StopInHandler
  BY <1>6, <1>a, FreedFacts, BecomesFacts DEF StopInHandler
<1>7. CASE MediaResume
  <2>1. MediaOK(MusicAgain(m))
    BY <1>a, PlayedFacts DEF MusicAgain
  <2> QED BY <1>7, <1>a, <2>1, BecomesFacts DEF MediaResume
<1>8. ASSUME NEW o, PlayRealAmr(o) PROVE MediaInv'
  BY <1>8, RealAmrStep
<1>9. ASSUME NEW b \in BOOLEAN, StopRecord(b) \/ RecordCB(b) PROVE MediaInv'
  <2>1. FieldsBecome(RecordStopped(m, b))
    BY <1>9 DEF StopRecord, RecordCB
  <2>2. MediaOK(RecordStopped(m, b))
    BY <1>a, RecordStoppedFacts
  <2> QED BY <1>a, <2>1, <2>2, BecomesFacts
<1>10. ASSUME NEW id, NEW b \in BOOLEAN, SoundCB(id, b) PROVE MediaInv'
  BY <1>10, SoundStep
<1>11. CASE UNCHANGED mediaVars
  <2>1. UNCHANGED m /\ android' = android
    BY <1>11 DEF mediaVars, Fields
  <2> QED BY <1>a, <2>1 DEF MediaInv, MediaOK, MediaRec, AnsweredOK, HeldOK, TurnsOK
<1> QED
  BY <1>1, <1>2, <1>3, <1>4, <1>5, <1>6, <1>7, <1>8, <1>9, <1>10, <1>11 DEF MediaNext

\* In both builds, with any number of voice messages and any order of calls and
\* callbacks, until a handler stops the sounds: microphone and loudspeaker take turns,
\* except for a recording started by the handler that is told of the end of another;
\* music is held for messages that have an entry, unless it was held for one that has
\* none; and the handler of a message is called once, except for one that was played
\* inside StopSound and cleared.
THEOREM MediaCorrect == MediaSpec => []MediaTakesTurns
<1>1. MediaInit => MediaInv
  <2> SUFFICES ASSUME MediaInit PROVE MediaInv
    OBVIOUS
  <2> DEFINE m == Fields
  <2>1. /\ m.mPlayCbMap = {} /\ m.messages = 0 /\ m.paused = FALSE /\ m.recorder = FALSE
        /\ m.answered = [i \in 1..MaxMessages |-> 0] /\ m.unheard = {}
    BY DEF MediaInit, Fields
  <2>2. m \in MediaRec
    <3>1. /\ mStatus \in SUBSET {"back", "record"} /\ messages \in 0..MaxMessages
          /\ answered \in [1..MaxMessages -> {0, 1}] /\ mPlayCbMap \in SUBSET (1..MaxMessages)
          /\ unheard \in SUBSET (1..MaxMessages)
      BY MultiMediaAssumption DEF MediaInit
    <3>2. /\ mMusicFile \in BOOLEAN /\ mIsBackMusic \in BOOLEAN
          /\ mBackMusicProgress \in BOOLEAN
          /\ mRecordCB \in BOOLEAN /\ paused \in BOOLEAN /\ recorder \in BOOLEAN
          /\ player \in {"none", "sound", "music"}
          /\ freed \in BOOLEAN /\ forsaken \in BOOLEAN /\ stray \in BOOLEAN
      BY DEF MediaInit
    <3> QED BY <3>1, <3>2 DEF Fields, MediaRec
  <2> HIDE DEF m
  <2>3. AnsweredOK(m) /\ HeldOK(m) /\ TurnsOK(m)
    BY <2>1 DEF AnsweredOK, HeldOK, TurnsOK
  <2> QED BY <2>2, <2>3 DEF MediaInv, MediaOK, MediaInit, m
<1>2. MediaInv => MediaTakesTurns
  <2> SUFFICES ASSUME MediaInv PROVE MediaTakesTurns
    OBVIOUS
  <2>1. AnsweredOK(Fields) /\ HeldOK(Fields) /\ TurnsOK(Fields) /\ Fields \in MediaRec
    BY DEF MediaInv, MediaOK
  <2>2. paused \in BOOLEAN /\ recorder \in BOOLEAN /\ forsaken \in BOOLEAN /\ stray \in BOOLEAN
    BY <2>1 DEF Fields, MediaRec
  <2>3. SoundOrRecord
    BY <2>1, <2>2 DEF TurnsOK, Fields, SoundOrRecord
  <2>4. paused => mPlayCbMap # {} \/ forsaken
    BY <2>1, <2>2 DEF HeldOK, Fields
  <2>5. \A i \in 1..MaxMessages :
           answered[i] = IF i > messages \/ i \in mPlayCbMap \cup unheard THEN 0 ELSE 1
    BY <2>1 DEF AnsweredOK, Fields
  <2> QED BY <2>3, <2>4, <2>5 DEF MediaTakesTurns, MusicGoesOn
<1> QED BY <1>1, <1>2, MediaStep, PTL DEF MediaSpec

-----------------------------------------------------------------------------
(* Bitmaps: inductive invariant *)

USE DEF NULL, HEAP

ItemType == [pBmp : Nat, nRefCnt : Int, bScreenMem : BOOLEAN]

\* What holds of an item that the handles in users have counted: lost says that a
\* count of it was abandoned.  A bitmap in a layer is marked so that SuspendAll
\* will find it; one that is wanted and not there waits for ResumeAll.
ItemOK(item, users, lost, inLayer, asleep) ==
    /\ item \in ItemType /\ IsFiniteSet(users)
    /\ Cardinality(users) <= item.nRefCnt
    /\ ~lost => item.nRefCnt = Cardinality(users)
    /\ item.nRefCnt = 0 => item.pBmp = NULL
    /\ item.pBmp \in Layers => item.pBmp = inLayer /\ item.bScreenMem
    /\ ~mayFail /\ users # {} /\ item.pBmp = NULL => item.bScreenMem /\ asleep

ItemsOK == \A i \in Item : ItemOK(mItems[i], Counting(i), i \in abandoned, layer, mIsSuspend)

TableType ==
    /\ mItems \in [Item -> ItemType]
    /\ mBmpItem \in [Holder -> Item \cup {NoItem}]
    /\ layer \in Nat /\ layers \in Nat \ {0}
    /\ mIsSuspend \in BOOLEAN /\ mayFail \in BOOLEAN
    /\ owned \subseteq Filler /\ abandoned \subseteq Item
    /\ mIsSuspend => layer = NULL

\* The inductive invariant.
TableInv == TableType /\ ItemsOK /\ ~strayed

-----------------------------------------------------------------------------
(* One item *)

\* The users of a bitmap are handles, of which there are finitely many.
LEMMA HandlesFinite ==
    ASSUME owned \subseteq Filler, NEW i
    PROVE  IsFiniteSet(Counting(i))
<1>1. Counting(i) \in SUBSET Holder
  BY DEF Counting, Holder
<1> QED BY <1>1, TableAssumption, FS_Subset DEF TableAssumption

\* A handle that gives back what it has counted.
LEMMA UnLoadOK ==
    ASSUME NEW item, NEW users, NEW lost \in BOOLEAN, NEW inLayer, NEW asleep, NEW h \in users,
           ItemOK(item, users, lost, inLayer, asleep)
    PROVE  ItemOK(UnLoad(item), users \ {h}, lost, inLayer, asleep)
<1> DEFINE n == item.nRefCnt - 1
           rest == users \ {h}
<1>1. /\ item \in ItemType /\ IsFiniteSet(users) /\ IsFiniteSet(rest)
      /\ Cardinality(rest) = Cardinality(users) - 1
      /\ Cardinality(users) \in Nat /\ Cardinality(rest) \in Nat
      /\ Cardinality(rest) = 0 => rest = {}
  BY FS_RemoveElement, FS_CardinalityType, FS_EmptySet DEF ItemOK
<1>2. n \in Nat /\ Cardinality(rest) <= n /\ (~lost => n = Cardinality(rest))
  <2>1. item.nRefCnt \in Int /\ Cardinality(users) <= item.nRefCnt
        /\ (~lost => item.nRefCnt = Cardinality(users))
    BY <1>1 DEF ItemOK, ItemType
  <2> QED BY <1>1, <2>1
<1>4. UnLoad(item) \in ItemType /\ UnLoad(item).nRefCnt = n
      /\ UnLoad(item).pBmp = (IF n = 0 THEN NULL ELSE item.pBmp)
      /\ UnLoad(item).bScreenMem = item.bScreenMem
  <2>1. UnLoad(item) = [item EXCEPT !.nRefCnt = n, !.pBmp = IF n <= 0 THEN NULL ELSE @]
    BY DEF UnLoad
  <2> HIDE DEF n
  <2>2. n <= 0 <=> n = 0
    BY <1>2
  <2>3. UnLoad(item) \in ItemType
    <3>1. CASE n = 0
      <4> DEFINE counted == [item EXCEPT !.nRefCnt = n]
      <4>1. UnLoad(item) = [counted EXCEPT !.pBmp = NULL]
        BY <2>1, <3>1
      <4>2. counted \in ItemType
        BY <1>1, <1>2 DEF ItemType
      <4> HIDE DEF counted
      <4> QED BY <4>1, <4>2 DEF ItemType
    <3>2. CASE n # 0
      <4>1. UnLoad(item) = [item EXCEPT !.nRefCnt = n]
        BY <1>1, <2>1, <2>2, <3>2 DEF ItemType
      <4> QED BY <1>1, <1>2, <4>1 DEF ItemType
    <3> QED BY <3>1, <3>2
  <2>4. UnLoad(item).nRefCnt = n /\ UnLoad(item).pBmp = (IF n = 0 THEN NULL ELSE item.pBmp)
    BY <1>1, <1>2, <2>1, <2>2 DEF ItemType
  <2>5. UnLoad(item).bScreenMem = item.bScreenMem
    BY <1>1, <2>1 DEF ItemType
  <2> QED BY <2>3, <2>4, <2>5
<1>5. UnLoad(item).pBmp \in Layers => item.pBmp \in Layers /\ UnLoad(item).pBmp = item.pBmp
  BY <1>4 DEF Layers
<1>6. rest # {} => n # 0 /\ users # {}
  BY <1>1, <1>2
<1>7. item.pBmp = NULL => UnLoad(item).pBmp = NULL
  BY <1>4
<1>8. UnLoad(item).pBmp = NULL => n = 0 \/ item.pBmp = NULL
  BY <1>4
<1> HIDE DEF n, rest
<1> SUFFICES ItemOK(UnLoad(item), rest, lost, inLayer, asleep)
  BY DEF rest
<1> QED BY <1>1, <1>2, <1>4, <1>5, <1>6, <1>7, <1>8 DEF ItemOK

\* A handle that goes without giving back what it may have counted.
LEMMA ForgetOK ==
    ASSUME NEW item, NEW users, NEW inLayer, NEW asleep, NEW h, NEW lost \in BOOLEAN,
           ItemOK(item, users, lost, inLayer, asleep), lost \/ h \notin users
    PROVE  ItemOK(item, users \ {h}, lost, inLayer, asleep)
<1>1. /\ IsFiniteSet(users) /\ IsFiniteSet(users \ {h}) /\ Cardinality(users) \in Nat
      /\ Cardinality(users \ {h}) = IF h \in users THEN Cardinality(users) - 1 ELSE Cardinality(users)
  BY FS_RemoveElement, FS_CardinalityType DEF ItemOK
<1>2. item.nRefCnt \in Int
  BY DEF ItemOK, ItemType
<1> QED BY <1>1, <1>2 DEF ItemOK

\* What holds of an item with all its counts holds of one that lost a count.
LEMMA AbandonOK ==
    ASSUME NEW item, NEW users, NEW lost, NEW inLayer, NEW asleep, ItemOK(item, users, lost, inLayer, asleep)
    PROVE  ItemOK(item, users, TRUE, inLayer, asleep)
BY DEF ItemOK

\* What LoadBitmap may give.
LEMMA LoadFacts ==
    ASSUME NEW item \in ItemType, NEW inLayer \in Nat, NEW new \in LoadBitmap(item, inLayer)
    PROVE  /\ new \in ItemType /\ new.nRefCnt = item.nRefCnt
           /\ new.pBmp = NULL => new = item /\ mayFail
           /\ new.pBmp # NULL =>
                 \/ new = item
                 \/ new.pBmp = HEAP
                 \/ new.pBmp = inLayer /\ new.bScreenMem
<1>1. CASE item.pBmp # NULL
  BY <1>1 DEF LoadBitmap
<1>2. CASE item.pBmp = NULL
  <2>1. \/ new = [item EXCEPT !.pBmp = HEAP, !.bScreenMem = FALSE]
        \/ inLayer # NULL /\ new = [item EXCEPT !.pBmp = inLayer, !.bScreenMem = TRUE]
        \/ mayFail /\ new = item
    BY <1>2 DEF LoadBitmap
  <2>2. CASE new = [item EXCEPT !.pBmp = HEAP, !.bScreenMem = FALSE]
    <3>1. new \in ItemType
      BY <2>2 DEF ItemType
    <3>2. new.pBmp = HEAP /\ new.nRefCnt = item.nRefCnt
      BY <2>2 DEF ItemType
    <3> QED BY <3>1, <3>2
  <2>3. CASE inLayer # NULL /\ new = [item EXCEPT !.pBmp = inLayer, !.bScreenMem = TRUE]
    <3>1. new \in ItemType
      BY <2>3 DEF ItemType
    <3>2. new.pBmp = inLayer /\ new.nRefCnt = item.nRefCnt /\ new.bScreenMem = TRUE
      BY <2>3 DEF ItemType
    <3> QED BY <2>3, <3>1, <3>2
  <2>4. CASE mayFail /\ new = item
    BY <1>2, <2>4
  <2> QED BY <2>1, <2>2, <2>3, <2>4
<1> QED BY <1>1, <1>2

\* A bitmap that is loaded and counted once more, by a handle that had not
\* counted it, or by one that forgets its count.
LEMMA LoadOK ==
    ASSUME NEW item, NEW users, NEW lost \in BOOLEAN, NEW inLayer \in Nat, NEW asleep, NEW h,
           ItemOK(item, users, lost, inLayer, asleep), h \notin users \/ lost,
           NEW new \in LoadBitmap(item, inLayer), new.pBmp # NULL
    PROVE  ItemOK([new EXCEPT !.nRefCnt = @ + 1], users \cup {h}, lost, inLayer, asleep)
<1> DEFINE counted == [new EXCEPT !.nRefCnt = @ + 1]
<1>1. item \in ItemType
  BY DEF ItemOK
<1>2. /\ new \in ItemType /\ new.nRefCnt = item.nRefCnt
      /\ new = item \/ new.pBmp = HEAP \/ (new.pBmp = inLayer /\ new.bScreenMem)
  BY <1>1, LoadFacts
<1>3. /\ counted \in ItemType /\ counted.nRefCnt = item.nRefCnt + 1
      /\ counted.pBmp = new.pBmp /\ counted.bScreenMem = new.bScreenMem
  BY <1>2 DEF ItemType
<1>4. /\ IsFiniteSet(users \cup {h}) /\ Cardinality(users) \in Nat
      /\ Cardinality(users \cup {h}) = IF h \in users THEN Cardinality(users) ELSE Cardinality(users) + 1
  BY FS_AddElement, FS_CardinalityType DEF ItemOK
<1>5. counted.pBmp \in Layers => counted.pBmp = inLayer /\ counted.bScreenMem
  BY <1>2, <1>3 DEF ItemOK, Layers
<1>6. item.nRefCnt \in Int /\ Cardinality(users) <= item.nRefCnt
      /\ (~lost => item.nRefCnt = Cardinality(users))
  BY <1>1 DEF ItemOK, ItemType
<1> HIDE DEF counted
<1>7. counted.nRefCnt # 0 /\ counted.pBmp # NULL
  BY <1>3, <1>4, <1>6
<1>8. Cardinality(users \cup {h}) <= counted.nRefCnt /\ (~lost => counted.nRefCnt = Cardinality(users \cup {h}))
  BY <1>3, <1>4, <1>6
<1>9. ItemOK(counted, users \cup {h}, lost, inLayer, asleep)
  BY <1>3, <1>4, <1>5, <1>7, <1>8 DEF ItemOK
<1> QED BY <1>9 DEF counted

\* Nothing strays as long as bitmaps are in the layer that is there.
LEMMA NoStrays ==
    ASSUME NEW before, NEW after, NEW inLayer,
           \A i \in Item : before[i].pBmp \in Layers => before[i].pBmp = inLayer
    PROVE  ~Strays(before, after, inLayer)
BY DEF Strays

-----------------------------------------------------------------------------
(* The table *)

\* Every item has a bitmap in the layer that is there, or in none.
LEMMA InLayer ==
    ASSUME TableInv
    PROVE  \A i \in Item : mItems[i].pBmp \in Layers => mItems[i].pBmp = layer
BY DEF TableInv, ItemsOK, ItemOK

\* What the invariant of the items says in the next state.
LEMMA NextItemsOK ==
    ASSUME mayFail' = mayFail,
           \A i \in Item : ItemOK(mItems'[i], Counting(i)', i \in abandoned', layer', mIsSuspend')
    PROVE  ItemsOK'
BY DEF ItemsOK, ItemOK

\* A control that gives its bitmap back, and is no longer one of its users.
LEMMA ReleasedOK ==
    ASSUME TableInv, NEW c \in Control
    PROVE  /\ Released(c) \in [Item -> ItemType]
           /\ \A j \in Item : ItemOK(Released(c)[j], Counting(j) \ {c},
                                     j \in abandoned \cup Forgotten(c), layer, mIsSuspend)
<1> DEFINE i == mBmpItem[c]
           forgets == c \in WaitCursor /\ mItems[i].pBmp = NULL
<1>1. /\ mItems \in [Item -> ItemType] /\ i \in Item \cup {NoItem} /\ NoItem \notin Item
      /\ \A j \in Item : ItemOK(mItems[j], Counting(j), j \in abandoned, layer, mIsSuspend)
  BY TableAssumption DEF TableInv, TableType, ItemsOK, TableAssumption, Holder
<1>2. \A j \in Item : j # i => c \notin Counting(j)
  BY DEF Counting
<1>3. \A j \in Item : j # i => ItemOK(mItems[j], Counting(j) \ {c}, j \in abandoned, layer, mIsSuspend)
  BY <1>1, <1>2, ForgetOK
<1>4. CASE i = NoItem
  <2>1. Released(c) = mItems /\ Forgotten(c) = {}
    BY <1>4 DEF Released, Forgotten
  <2> QED BY <1>1, <1>3, <1>4, <2>1
<1>5. CASE i # NoItem /\ forgets
  <2>1. Released(c) = mItems /\ Forgotten(c) = {i}
    BY <1>5 DEF Released, Forgotten
  <2>2. ItemOK(mItems[i], Counting(i) \ {c}, TRUE, layer, mIsSuspend)
    <3>1. ItemOK(mItems[i], Counting(i), TRUE, layer, mIsSuspend)
      BY <1>1, <1>5, AbandonOK
    <3> QED BY <3>1, ForgetOK
  <2>3. ASSUME NEW j \in Item
        PROVE  ItemOK(Released(c)[j], Counting(j) \ {c}, j \in abandoned \cup Forgotten(c), layer, mIsSuspend)
    <3>1. CASE j = i
      BY <2>1, <2>2, <3>1 DEF ItemOK
    <3>2. CASE j # i
      BY <1>3, <2>1, <3>2 DEF ItemOK
    <3> QED BY <3>1, <3>2
  <2> QED BY <1>1, <2>1, <2>3
<1>6. CASE i # NoItem /\ ~forgets
  <2>1. Released(c) = [mItems EXCEPT ![i] = UnLoad(@)] /\ Forgotten(c) = {}
    BY <1>6 DEF Released, Forgotten
  <2>2. i \in Item /\ c \in Counting(i)
    BY <1>1, <1>6 DEF Counting
  <2>3. ItemOK(UnLoad(mItems[i]), Counting(i) \ {c}, i \in abandoned, layer, mIsSuspend)
    <3>1. ItemOK(mItems[i], Counting(i), i \in abandoned, layer, mIsSuspend) /\ (i \in abandoned) \in BOOLEAN
      BY <1>1, <2>2
    <3> HIDE DEF i
    <3> QED BY <2>2, <3>1, UnLoadOK
  <2>4. UnLoad(mItems[i]) \in ItemType
    BY <2>3 DEF ItemOK
  <2>5. ASSUME NEW j \in Item
        PROVE  ItemOK(Released(c)[j], Counting(j) \ {c}, j \in abandoned \cup Forgotten(c), layer, mIsSuspend)
    <3>1. CASE j = i
      BY <1>1, <2>1, <2>3, <3>1
    <3>2. CASE j # i
      BY <1>1, <1>3, <2>1, <3>2
    <3> QED BY <3>1, <3>2
  <2> QED BY <1>1, <2>1, <2>4, <2>5
<1> QED BY <1>4, <1>5, <1>6

-----------------------------------------------------------------------------
(* The actions *)

\* A new table has no bitmaps.
THEOREM InitInv == Init => TableInv
<1> SUFFICES ASSUME Init PROVE TableInv
  OBVIOUS
<1>1. NewItem \in ItemType /\ NewItem.pBmp = NULL /\ NewItem.nRefCnt = 0
  BY DEF NewItem, ItemType
<1>2. TableType
  <2>1. mItems \in [Item -> ItemType]
    BY <1>1 DEF Init
  <2>2. mBmpItem \in [Holder -> Item \cup {NoItem}]
    BY DEF Init
  <2>3. layer \in Nat /\ layers \in Nat \ {0} /\ mIsSuspend = FALSE /\ mayFail \in BOOLEAN
    BY DEF Init
  <2>4. owned = {} /\ abandoned = {}
    BY DEF Init
  <2> QED BY <2>1, <2>2, <2>3, <2>4 DEF TableType
<1>3. \A i \in Item : Counting(i) = {}
  BY TableAssumption DEF Init, Counting, TableAssumption
<1>4. ItemsOK
  <2> SUFFICES ASSUME NEW i \in Item PROVE ItemOK(mItems[i], Counting(i), i \in abandoned, layer, mIsSuspend)
    BY DEF ItemsOK
  <2>1. mItems[i] = NewItem
    BY DEF Init
  <2>2. NewItem.pBmp \notin Layers
    BY <1>1 DEF Layers
  <2> QED BY <1>1, <1>3, <2>1, <2>2, FS_EmptySet DEF ItemOK
<1> QED BY <1>2, <1>4 DEF TableInv, Init

\* A control that is deleted gives back its count, or abandons it.
LEMMA DestroyInv ==
    ASSUME TableInv, NEW c \in Control, Destroy(c)
    PROVE  TableInv'
<1>1. /\ Released(c) \in [Item -> ItemType]
      /\ \A j \in Item : ItemOK(Released(c)[j], Counting(j) \ {c},
                                j \in abandoned \cup Forgotten(c), layer, mIsSuspend)
  BY ReleasedOK
<1>2. \A j \in Item : Counting(j)' = Counting(j) \ {c}
  BY TableAssumption DEF Destroy, Counting, TableInv, TableType, TableAssumption, Holder
<1>3. TableType'
  <2>1. Forgotten(c) \subseteq Item
    BY DEF Forgotten, TableInv, TableType, Holder
  <2> QED BY <1>1, <2>1 DEF Destroy, TableInv, TableType, Holder
<1>4. ItemsOK'
  BY <1>1, <1>2, NextItemsOK DEF Destroy
<1>5. ~strayed'
  BY InLayer, NoStrays DEF Destroy, TableInv
<1> QED BY <1>3, <1>4, <1>5 DEF TableInv

\* A control gives its old bitmap back and counts the new one.
LEMMA SetBitmapInv ==
    ASSUME TableInv, NEW c \in Control, NEW i \in Item, SetBitmap(c, i)
    PROVE  TableInv'
<1> DEFINE R == Released(c)
           lost(j) == j \in abandoned \cup Forgotten(c)
<1>1. /\ R \in [Item -> ItemType]
      /\ \A j \in Item : ItemOK(R[j], Counting(j) \ {c}, lost(j), layer, mIsSuspend)
  BY ReleasedOK
<1>2. PICK item \in LoadBitmap(R[i], layer) :
          /\ mItems' = [R EXCEPT ![i] = IF item.pBmp # NULL THEN [item EXCEPT !.nRefCnt = @ + 1] ELSE item]
          /\ mBmpItem' = [mBmpItem EXCEPT ![c] = IF item.pBmp # NULL THEN i ELSE NoItem]
  BY DEF SetBitmap
<1>3. item \in ItemType /\ (item.pBmp = NULL => item = R[i])
  BY <1>1, LoadFacts DEF TableInv, TableType
<1>4. /\ abandoned' = abandoned \cup Forgotten(c)
      /\ UNCHANGED <<owned, layer, layers, mIsSuspend, closed, mayFail>>
  BY DEF SetBitmap
<1>5. \A j \in Item : Counting(j)' = IF item.pBmp # NULL /\ j = i THEN (Counting(j) \ {c}) \cup {c}
                                     ELSE Counting(j) \ {c}
  BY <1>2, <1>4, TableAssumption DEF Counting, TableInv, TableType, TableAssumption, Holder
<1>6. \A j \in Item : ItemOK(mItems'[j], Counting(j)', lost(j), layer, mIsSuspend)
  <2> SUFFICES ASSUME NEW j \in Item
               PROVE  ItemOK(mItems'[j], Counting(j)', lost(j), layer, mIsSuspend)
    OBVIOUS
  <2> HIDE DEF R, lost
  <2>1. CASE j = i /\ item.pBmp # NULL
    <3>1. lost(j) \in BOOLEAN /\ c \notin Counting(j) \ {c} /\ layer \in Nat
      BY DEF lost, TableInv, TableType
    <3>2. ItemOK(R[j], Counting(j) \ {c}, lost(j), layer, mIsSuspend) /\ item \in LoadBitmap(R[j], layer)
      BY <1>1, <2>1
    <3>4. ItemOK([item EXCEPT !.nRefCnt = @ + 1], (Counting(j) \ {c}) \cup {c}, lost(j), layer, mIsSuspend)
      BY <2>1, <3>1, <3>2, LoadOK
    <3>3. mItems'[j] = [item EXCEPT !.nRefCnt = @ + 1]
      BY <1>1, <1>2, <2>1
    <3> QED BY <1>5, <2>1, <3>3, <3>4
  <2>2. CASE j # i \/ item.pBmp = NULL
    <3>1. mItems'[j] = R[j] /\ Counting(j)' = Counting(j) \ {c}
      BY <1>1, <1>2, <1>3, <1>5, <2>2
    <3> QED BY <1>1, <3>1
  <2> QED BY <2>1, <2>2
<1>7. TableType'
  <2>1. Forgotten(c) \subseteq Item
    BY DEF Forgotten, TableInv, TableType, Holder
  <2>2. mItems' \in [Item -> ItemType]
    <3>1. \A j \in Item : mItems'[j] \in ItemType
      BY <1>6 DEF ItemOK
    <3>2. mItems' = [j \in Item |-> mItems'[j]]
      BY <1>1, <1>2
    <3> QED BY <3>1, <3>2
  <2>3. mBmpItem' \in [Holder -> Item \cup {NoItem}]
    BY <1>2 DEF TableInv, TableType
  <2> QED BY <1>4, <2>1, <2>2, <2>3 DEF TableInv, TableType
<1>8. ItemsOK'
  BY <1>4, <1>6, NextItemsOK
<1>9. ~strayed'
  BY InLayer, NoStrays DEF SetBitmap, TableInv
<1> QED BY <1>7, <1>8, <1>9 DEF TableInv

\* A bitmap that is painted and not there is counted once more; a count of
\* before is abandoned.
LEMMA PaintInv ==
    ASSUME TableInv, NEW h \in Holder, Paint(h)
    PROVE  TableInv'
<1> DEFINE lost(j) == j \in abandoned'
<1> PICK i \in Item : i = mBmpItem[h]
  BY DEF Paint, TableInv, TableType
<1>1. /\ h \in Animation \cup Filler /\ mItems[i].pBmp = NULL
      /\ mItems \in [Item -> ItemType] /\ NoItem \notin Item /\ layer \in Nat
      /\ owned \subseteq Filler /\ abandoned \subseteq Item
      /\ UNCHANGED <<strayed, layer, layers, mIsSuspend, closed, mayFail>>
  BY TableAssumption DEF Paint, TableInv, TableType, TableAssumption
<1>2. PICK item \in LoadBitmap(mItems[i], layer) :
          /\ mItems' = [mItems EXCEPT ![i] = IF item.pBmp # NULL THEN [item EXCEPT !.nRefCnt = @ + 1] ELSE item]
          /\ mBmpItem' = [mBmpItem EXCEPT ![h] = IF item.pBmp # NULL THEN i ELSE NoItem]
          /\ owned' = IF h \in Filler /\ item.pBmp # NULL THEN owned \cup {h} ELSE owned \ {h}
          /\ abandoned' = IF h \in Animation \cup owned THEN abandoned \cup {i} ELSE abandoned
  BY DEF Paint
<1>3. item \in ItemType /\ (item.pBmp = NULL => item = mItems[i])
  BY <1>1, LoadFacts
<1>4. h \in Counting(i) => i \in abandoned'
  BY <1>1, <1>2, TableAssumption DEF Counting, Control, TableAssumption
<1>5. \A j \in Item : h \in Counting(j) => j = i
  BY DEF Counting
<1>6. \A j \in Item : j # i => Counting(j)' = Counting(j)
  BY <1>1, <1>2 DEF Counting, TableInv, TableType
<1>7. Counting(i)' = IF item.pBmp # NULL THEN Counting(i) \cup {h} ELSE Counting(i) \ {h}
  <2>1. ASSUME NEW k, k # h
        PROVE  k \in Counting(i)' <=> k \in Counting(i)
    <3>1. k \in owned' <=> k \in owned
      BY <1>2, <2>1
    <3>2. k \in Holder => mBmpItem'[k] = mBmpItem[k]
      BY <1>2, <2>1 DEF TableInv, TableType
    <3>3. Control \cup owned \subseteq Holder
      BY <1>1 DEF Holder
    <3> QED BY <3>1, <3>2, <3>3 DEF Counting
  <2>2. CASE item.pBmp # NULL
    <3>1. h \in Counting(i)'
      BY <1>1, <1>2, <2>2 DEF Counting, Control, TableInv, TableType
    <3> QED BY <2>1, <2>2, <3>1
  <2>3. CASE item.pBmp = NULL
    <3>1. h \notin Counting(i)'
      BY <1>1, <1>2, <2>3 DEF Counting, TableInv, TableType
    <3> QED BY <2>1, <2>3, <3>1
  <2> QED BY <2>2, <2>3
<1>8. \A j \in Item : ItemOK(mItems[j], Counting(j), lost(j), layer, mIsSuspend)
  <2> SUFFICES ASSUME NEW j \in Item PROVE ItemOK(mItems[j], Counting(j), lost(j), layer, mIsSuspend)
    OBVIOUS
  <2>1. ItemOK(mItems[j], Counting(j), j \in abandoned, layer, mIsSuspend)
    BY DEF TableInv, ItemsOK
  <2>2. j \in abandoned => lost(j)
    BY <1>2
  <2> HIDE DEF lost
  <2> QED BY <2>1, <2>2 DEF ItemOK
<1>9. \A j \in Item : ItemOK(mItems'[j], Counting(j)', lost(j), layer, mIsSuspend)
  <2> SUFFICES ASSUME NEW j \in Item PROVE ItemOK(mItems'[j], Counting(j)', lost(j), layer, mIsSuspend)
    OBVIOUS
  <2>1. CASE j # i
    BY <1>1, <1>2, <1>6, <1>8, <2>1
  <2>2. CASE j = i /\ item.pBmp # NULL
    <3>1. ItemOK(mItems[j], Counting(j), lost(j), layer, mIsSuspend)
      BY <1>8
    <3>2. lost(j) \in BOOLEAN /\ (h \notin Counting(j) \/ lost(j)) /\ item \in LoadBitmap(mItems[j], layer)
      BY <1>4, <2>2
    <3>3. mItems'[j] = [item EXCEPT !.nRefCnt = @ + 1] /\ Counting(j)' = Counting(j) \cup {h}
      BY <1>1, <1>2, <1>7, <2>2
    <3> HIDE DEF lost
    <3>4. ItemOK([item EXCEPT !.nRefCnt = @ + 1], Counting(j) \cup {h}, lost(j), layer, mIsSuspend)
      BY <1>1, <2>2, <3>1, <3>2, LoadOK
    <3> QED BY <3>3, <3>4
  <2>3. CASE j = i /\ item.pBmp = NULL
    <3>1. ItemOK(mItems[j], Counting(j), lost(j), layer, mIsSuspend)
      BY <1>8
    <3>2. lost(j) \in BOOLEAN /\ (lost(j) \/ h \notin Counting(j))
      BY <1>4, <2>3
    <3>3. mItems'[j] = mItems[j] /\ Counting(j)' = Counting(j) \ {h}
      BY <1>1, <1>2, <1>3, <1>7, <2>3
    <3> HIDE DEF lost
    <3> QED BY <3>1, <3>2, <3>3, ForgetOK
  <2> QED BY <2>1, <2>2, <2>3
<1>10. TableType'
  <2>1. mItems' \in [Item -> ItemType]
    <3>1. \A j \in Item : mItems'[j] \in ItemType
      BY <1>9 DEF ItemOK
    <3>2. mItems' = [j \in Item |-> mItems'[j]]
      BY <1>1, <1>2
    <3> QED BY <3>1, <3>2
  <2>2. mBmpItem' \in [Holder -> Item \cup {NoItem}]
    BY <1>1, <1>2 DEF TableInv, TableType
  <2>3. owned' \subseteq Filler /\ abandoned' \subseteq Item
    BY <1>1, <1>2
  <2> QED BY <1>1, <2>1, <2>2, <2>3 DEF TableInv, TableType
<1>11. ItemsOK'
  BY <1>1, <1>9, NextItemsOK
<1> QED BY <1>1, <1>10, <1>11 DEF TableInv

\* A filler that has counted its bitmap gives it back.
LEMMA UnLoadBmpInv ==
    ASSUME TableInv, NEW f \in Filler, UnLoadBmp(f)
    PROVE  TableInv'
<1> DEFINE i == mBmpItem[f]
<1>1. /\ f \in owned /\ mItems' = [mItems EXCEPT ![i] = UnLoad(@)]
      /\ mBmpItem' = [mBmpItem EXCEPT ![f] = NoItem] /\ owned' = owned \ {f}
      /\ UNCHANGED <<abandoned, layer, layers, mIsSuspend, closed, mayFail>>
  BY DEF UnLoadBmp
<1>2. mItems \in [Item -> ItemType] /\ NoItem \notin Item /\ i \in Item \cup {NoItem}
  BY TableAssumption DEF TableInv, TableType, TableAssumption, Holder
<1>3. \A j \in Item : Counting(j)' = Counting(j) \ {f}
  <2>1. f \notin Control
    BY TableAssumption DEF TableAssumption, Control
  <2> QED BY <1>1, <1>2, <2>1 DEF Counting, TableInv, TableType
<1>4. \A j \in Item : ItemOK(mItems'[j], Counting(j)', j \in abandoned, layer, mIsSuspend)
  <2> SUFFICES ASSUME NEW j \in Item
               PROVE  ItemOK(mItems'[j], Counting(j)', j \in abandoned, layer, mIsSuspend)
    OBVIOUS
  <2>1. ItemOK(mItems[j], Counting(j), j \in abandoned, layer, mIsSuspend) /\ (j \in abandoned) \in BOOLEAN
    BY DEF TableInv, ItemsOK
  <2>2. CASE j = i
    <3>1. f \in Counting(j) /\ mItems'[j] = UnLoad(mItems[j])
      BY <1>1, <1>2, <2>2 DEF Counting
    <3>2. ItemOK(UnLoad(mItems[j]), Counting(j) \ {f}, j \in abandoned, layer, mIsSuspend)
      <4> HIDE DEF i
      <4> QED BY <2>1, <3>1, UnLoadOK
    <3> QED BY <1>3, <3>1, <3>2
  <2>3. CASE j # i
    <3>1. f \notin Counting(j) /\ mItems'[j] = mItems[j]
      BY <1>1, <1>2, <2>3 DEF Counting
    <3> HIDE DEF i
    <3> QED BY <1>3, <2>1, <3>1, ForgetOK
  <2> QED BY <2>2, <2>3
<1>5. TableType'
  <2>1. mItems' \in [Item -> ItemType]
    <3>1. \A j \in Item : mItems'[j] \in ItemType
      BY <1>4 DEF ItemOK
    <3>2. mItems' = [j \in Item |-> mItems'[j]]
      BY <1>1, <1>2
    <3> QED BY <3>1, <3>2
  <2>2. mBmpItem' \in [Holder -> Item \cup {NoItem}]
    BY <1>1 DEF TableInv, TableType
  <2> QED BY <1>1, <2>1, <2>2 DEF TableInv, TableType
<1>6. ItemsOK'
  BY <1>1, <1>4, NextItemsOK
<1>7. ~strayed'
  BY InLayer, NoStrays DEF UnLoadBmp, TableInv
<1> QED BY <1>5, <1>6, <1>7 DEF TableInv

\* Every bitmap in the layer has a count and the mark, so SuspendAll finds it.
LEMMA SuspendInv ==
    ASSUME TableInv, Suspend
    PROVE  TableInv'
<1>1. /\ mItems' = SuspendAll /\ layer' = NULL /\ mIsSuspend' = TRUE
      /\ UNCHANGED <<mBmpItem, owned, abandoned, layers, closed, mayFail>>
  BY DEF Suspend
<1>2. \A j \in Item : Counting(j)' = Counting(j)
  BY <1>1 DEF Counting
<1>3. \A j \in Item : mItems'[j] \in ItemType /\ ItemOK(mItems'[j], Counting(j), j \in abandoned, NULL, TRUE)
  <2> SUFFICES ASSUME NEW j \in Item
               PROVE  ItemOK(mItems'[j], Counting(j), j \in abandoned, NULL, TRUE)
    BY DEF ItemOK
  <2> DEFINE item == mItems[j]
  <2>1. ItemOK(item, Counting(j), j \in abandoned, layer, mIsSuspend)
    BY DEF TableInv, ItemsOK
  <2>2. mItems'[j] = IF item.nRefCnt # 0 /\ item.bScreenMem THEN [item EXCEPT !.pBmp = NULL] ELSE item
    BY <1>1 DEF SuspendAll
  <2> HIDE DEF item
  <2>3. CASE item.nRefCnt # 0 /\ item.bScreenMem
    <3>1. mItems'[j] = [item EXCEPT !.pBmp = NULL] /\ item \in ItemType
      BY <2>1, <2>2, <2>3 DEF ItemOK
    <3>2. /\ mItems'[j] \in ItemType /\ mItems'[j].nRefCnt = item.nRefCnt /\ mItems'[j].pBmp = NULL
          /\ mItems'[j].bScreenMem
      BY <2>3, <3>1 DEF ItemType
    <3>3. mItems'[j].pBmp \notin Layers
      BY <3>2 DEF Layers
    <3> QED BY <2>1, <3>2, <3>3 DEF ItemOK
  <2>4. CASE ~(item.nRefCnt # 0 /\ item.bScreenMem)
    <3>1. mItems'[j] = item
      BY <2>2, <2>4
    <3>2. item.pBmp \notin Layers
      BY <2>1, <2>4 DEF ItemOK, Layers
    <3> QED BY <2>1, <3>1, <3>2 DEF ItemOK
  <2> QED BY <2>3, <2>4
<1>4. TableType'
  <2>1. mItems' \in [Item -> ItemType]
    <3>1. mItems' = [j \in Item |-> mItems'[j]]
      BY <1>1 DEF SuspendAll
    <3> QED BY <1>3, <3>1
  <2> QED BY <1>1, <2>1 DEF TableInv, TableType
<1>5. ItemsOK'
  BY <1>1, <1>2, <1>3, NextItemsOK
<1>6. ~strayed'
  BY InLayer, NoStrays DEF Suspend, TableInv
<1> QED BY <1>4, <1>5, <1>6 DEF TableInv

\* No bitmap is in a layer while the application is suspended.
LEMMA ResumeInv ==
    ASSUME TableInv, Resume
    PROVE  TableInv'
<1>1. /\ mIsSuspend /\ layers' = layers + 1 /\ mIsSuspend' = FALSE
      /\ layer' \in {layers' + 1} \cup (IF mayFail THEN {NULL} ELSE {})
      /\ UNCHANGED <<mBmpItem, owned, abandoned, strayed, closed, mayFail>>
  BY DEF Resume
<1>2. mItems' \in [Item -> UNION {LoadBitmap(mItems[i], layer') \cup {mItems[i]} : i \in Item}]
  BY DEF Resume
<1>3. \A i \in Item : mItems'[i] \in IF Wanted(mItems[i]) THEN LoadBitmap(mItems[i], layer') ELSE {mItems[i]}
  BY DEF Resume
<1>4. /\ layers \in Nat \ {0} /\ layer = NULL /\ layer' \in Nat /\ layers' \in Nat \ {0}
      /\ ~mayFail => layer' # NULL
  BY <1>1 DEF TableInv, TableType
<1>5. \A j \in Item : Counting(j)' = Counting(j)
  BY <1>1 DEF Counting
<1>6. \A j \in Item : mItems'[j] \in ItemType /\ ItemOK(mItems'[j], Counting(j), j \in abandoned, layer', FALSE)
  <2> SUFFICES ASSUME NEW j \in Item
               PROVE  ItemOK(mItems'[j], Counting(j), j \in abandoned, layer', FALSE)
    BY DEF ItemOK
  <2> DEFINE item == mItems[j]
             new == mItems'[j]
  <2>1. ItemOK(item, Counting(j), j \in abandoned, NULL, TRUE) /\ item \in ItemType
    BY <1>1, <1>4 DEF TableInv, ItemsOK, ItemOK
  <2>2. item.pBmp \notin Layers
    BY <2>1 DEF ItemOK, Layers
  <2>3. CASE Wanted(item)
    <3>1. new \in LoadBitmap(item, layer')
      BY <1>3, <2>3
    <3> HIDE DEF item, new
    <3>2. /\ new \in ItemType /\ new.nRefCnt = item.nRefCnt
          /\ new.pBmp = NULL => new = item /\ mayFail
          /\ new.pBmp # NULL => (new = item \/ new.pBmp = HEAP \/ (new.pBmp = layer' /\ new.bScreenMem))
      BY <1>4, <2>1, <3>1, LoadFacts
    <3>3. item.nRefCnt # 0
      BY <2>3 DEF Wanted
    <3>4. new.pBmp \in Layers => new.pBmp = layer' /\ new.bScreenMem
      BY <2>2, <3>2 DEF Layers
    <3>5. ItemOK(new, Counting(j), j \in abandoned, layer', FALSE)
      BY <2>1, <3>2, <3>3, <3>4 DEF ItemOK
    <3> QED BY <3>5 DEF new
  <2>4. CASE ~Wanted(item)
    <3>1. new = item
      BY <1>3, <2>4
    <3> HIDE DEF item, new
    <3>2. Cardinality(Counting(j)) \in Nat /\ (Cardinality(Counting(j)) = 0 => Counting(j) = {})
      BY <2>1, FS_CardinalityType, FS_EmptySet DEF ItemOK
    <3>3. item.nRefCnt = 0 => Counting(j) = {}
      BY <2>1, <3>2 DEF ItemOK
    <3>4. ItemOK(item, Counting(j), j \in abandoned, layer', FALSE)
      BY <2>1, <2>2, <2>4, <3>3 DEF ItemOK, Wanted
    <3> QED BY <3>1, <3>4 DEF new
  <2> QED BY <2>3, <2>4
<1>7. TableType'
  <2>1. mItems' \in [Item -> ItemType]
    <3>1. mItems' = [j \in Item |-> mItems'[j]]
      BY <1>2
    <3> QED BY <1>6, <3>1
  <2> QED BY <1>1, <1>4, <2>1 DEF TableInv, TableType
<1>8. ItemsOK'
  BY <1>1, <1>5, <1>6, NextItemsOK
<1> QED BY <1>1, <1>7, <1>8 DEF TableInv

\* Nothing is left of a table that is deleted.
LEMMA CloseInv ==
    ASSUME TableInv, Close
    PROVE  TableInv'
<1>1. /\ mItems' = [i \in Item |-> NewItem] /\ mBmpItem' = [h \in Holder |-> NoItem]
      /\ layer' = NULL /\ owned' = {} /\ abandoned' = {}
      /\ UNCHANGED <<layers, mIsSuspend, mayFail>>
  BY DEF Close
<1>2. NewItem \in ItemType /\ NewItem.pBmp = NULL /\ NewItem.nRefCnt = 0 /\ NewItem.pBmp \notin Layers
  BY DEF NewItem, ItemType, Layers
<1>3. \A j \in Item : Counting(j)' = {}
  BY <1>1, TableAssumption DEF Counting, TableAssumption, Holder
<1>4. \A j \in Item : ItemOK(mItems'[j], Counting(j)', j \in abandoned', layer', mIsSuspend')
  <2> SUFFICES ASSUME NEW j \in Item
               PROVE  ItemOK(mItems'[j], {}, FALSE, NULL, mIsSuspend')
    BY <1>1, <1>3 DEF ItemOK
  <2> QED BY <1>1, <1>2, FS_EmptySet DEF ItemOK
<1>5. TableType'
  BY <1>1, <1>2 DEF TableInv, TableType
<1>6. ItemsOK'
  BY <1>1, <1>4, NextItemsOK
<1>7. ~strayed'
  BY InLayer, NoStrays DEF Close, TableInv
<1> QED BY <1>5, <1>6, <1>7 DEF TableInv

-----------------------------------------------------------------------------
(* The theorems *)

\* Every step keeps the invariant.
THEOREM NextInv == TableInv /\ [Next]_vars => TableInv'
<1> SUFFICES ASSUME TableInv, [Next]_vars PROVE TableInv'
  OBVIOUS
<1>1. ASSUME NEW c \in Control, Destroy(c) PROVE TableInv'
  BY <1>1, DestroyInv
<1>2. ASSUME NEW c \in Control, NEW i \in Item, SetBitmap(c, i) PROVE TableInv'
  BY <1>2, SetBitmapInv
<1>3. ASSUME NEW h \in Holder, Paint(h) PROVE TableInv'
  BY <1>3, PaintInv
<1>4. ASSUME NEW f \in Filler, UnLoadBmp(f) PROVE TableInv'
  BY <1>4, UnLoadBmpInv
<1>5. CASE UNCHANGED vars
  BY <1>5 DEF vars, table, TableInv, TableType, ItemsOK, ItemOK, Counting
<1> QED BY <1>1, <1>2, <1>3, <1>4, <1>5, SuspendInv, ResumeInv, CloseInv DEF Next

\* The invariant holds of every behaviour.
THEOREM InvCorrect == Spec => []TableInv
BY InitInv, NextInv, PTL DEF Spec

\* No bitmap is in the memory of a layer that is gone, nor is one freed as if
\* it were, whatever is set, painted, suspended and resumed.
THEOREM LayerAliveCorrect == Spec => []LayerAlive
<1>1. TableInv => LayerAlive
  BY InLayer DEF TableInv, LayerAlive
<1> QED BY <1>1, InvCorrect, PTL

\* Every bitmap has a count for each handle that will release it, no more unless
\* a count was abandoned, and is there for the handles when nothing fails.
THEOREM CountedCorrect == Spec => []Counted
<1>1. TableInv => Counted
  BY DEF TableInv, TableType, ItemsOK, ItemOK, Counted
<1> QED BY <1>1, InvCorrect, PTL
=============================================================================
