------------------------------ MODULE AEEApplet ------------------------------
(***************************************************************************)
(* The life of an applet: AEEAppletExt (AEEMain.cpp) makes and deletes the *)
(* application, AEEBaseApp::ev_handler (AEEBaseApp.cpp) gives it the events*)
(* of the platform, DUIApp (dui_app.cpp) passes them to its manager, and   *)
(* AeeCharge (charge/AeeCharge.cpp) takes the place of the handler while   *)
(* the library that charges by short message is at work.                   *)
(*                                                                         *)
(* One thread: the platform sends an event when no handler runs.  The      *)
(* library answers through a callback, and the application is called from  *)
(* inside that callback.  It answers later, not in the call of the request,*)
(* and the application makes no second request while one is pending.       *)
(***************************************************************************)
EXTENDS Integers, Sequences, SequencesExt

CONSTANTS
    ScreenSize, \* the sizes the screen can have
    Saved,      \* what the application writes to its context: widths in bytes
    StartIndex, \* where in the memory of the shell a context may begin
    MaxPays     \* bound: requests in the life of an application

ASSUME AppletAssumption ==
    /\ ScreenSize # {} /\ StartIndex \subseteq Nat /\ MaxPays \in Nat
    /\ Saved \in Seq(Nat \ {0})

VARIABLES
    shell,   \* what the platform holds the applet for: none, front or back
    screen,  \* the size of the screen
    app,     \* the application, NoApp if m_app is 0
    handler, \* p_vtbl->HandleEvent: the application's or AeeCharge's
    charge,  \* the AeeCharge of the application
    pending, \* the request the library works on, "none" if it has none
    flag,    \* the flag file that says the program is activated
    bought,  \* an activation was paid
    context, \* the context the shell keeps, and what was read back from it
    \* histories of two calls the code is not made for
    untimely, \* in this run of the application a request was made or answered in
              \* the background, or made and accepted inside the callback of another
    misread   \* inside the callback of a request that was paid another of the
              \* other kind was made

appletVars == <<shell, screen, app, handler, charge, pending, flag, bought, context,
                untimely, misread>>

NoApp == [stat |-> "none"]
Alive == app # NoApp

-----------------------------------------------------------------------------
(* AEEAppContext: a cell of the memory is a byte of one of the values. *)

\* Write: the value goes to write_index, which moves by its width.
WriteNext(m, i) ==
    [at |-> m.at + Saved[i],
     cells |-> m.cells \cup {<<m.at + b, i, b>> : b \in 0..(Saved[i] - 1)}]

Written(start) ==
    LET memory[n \in 0..Len(Saved)] ==
            IF n = 0 THEN [at |-> start, cells |-> {}] ELSE WriteNext(memory[n - 1], n)
    IN  memory[Len(Saved)].cells

\* Byte b of value i, and what is found in its place from m.at on.
Found(m, i) ==
    UNION {{<<i, b, c[2], c[3]>> : c \in {cell \in m.cells : cell[1] = m.at + b}} :
               b \in 0..(Saved[i] - 1)}

\* mutant: the pointer moves by one byte after every value
ReadByOne(m, i) ==
    [at |-> m.at + 1, cells |-> m.cells, got |-> m.got \cup Found(m, i)]

\* Read: m_nReadIdx begins at start_index and moves by the width.
ReadNext(m, i) ==
    [at |-> m.at + Saved[i], cells |-> m.cells, got |-> m.got \cup Found(m, i)]

\* What the same calls read back: byte b of value i, and what was found there.
ReadBack(cells, start) ==
    LET read[n \in 0..Len(Saved)] ==
            IF n = 0 THEN [at |-> start, cells |-> cells, got |-> {}]
            ELSE ReadNext(read[n - 1], n)
    IN  read[Len(Saved)].got

-----------------------------------------------------------------------------
(* The handler of the application: what an event makes of it *)

\* OnStart loads the resources of the manager; a call of ExitApp in it is
\* lost, because the state is set behind it.
Started(size) == [stat |-> "normal", size |-> size, told |-> 0, mIsSuspend |-> FALSE,
                  pays |-> 0]

Suspended(a) ==
    IF a.stat = "exiting" THEN a
    ELSE [a EXCEPT !.stat = "suspended", !.told = @ + 1, !.mIsSuspend = TRUE]

\* A screen of a new size is told to the application before it is painted.
Resumed(a) ==
    IF a.stat = "exiting" THEN a
    ELSE [a EXCEPT !.stat = "normal", !.size = screen, !.told = @ - 1, !.mIsSuspend = FALSE]

Repainted(a, wparam) ==
    IF wparam = 1 /\ a.stat = "normal" THEN [a EXCEPT !.size = screen] ELSE a

-----------------------------------------------------------------------------
(* AeeCharge *)

NewCharge == [m_chargeStatus |-> "idle", m_appcharge |-> FALSE, m_bActivate |-> FALSE]

\* AeeCharge::EventHandler: the library gets the events while it is paid.
ToApp == handler = "app" \/ ~(charge.m_appcharge /\ charge.m_chargeStatus = "paying")

\* What Reqeust leaves: the library has the request, or refuses it at once.
\* mutant: a refused request leaves the handler
RequestKeepsHandler(a, kind, accepted) ==
    LET paid == [a EXCEPT !.pays = @ + 1]
    IN  [app |-> IF accepted THEN Suspended(paid) ELSE Resumed(Suspended(paid)),
         charge |-> [m_chargeStatus |-> IF accepted THEN "paying" ELSE "failure",
                     m_appcharge |-> accepted, m_bActivate |-> kind = "activate"],
         handler |-> "charge",
         pending |-> IF accepted THEN kind ELSE "none"]

Request(a, kind, accepted) ==
    LET paid == [a EXCEPT !.pays = @ + 1]
    IN  [app |-> IF accepted THEN Suspended(paid) ELSE Resumed(Suspended(paid)),
         charge |-> [m_chargeStatus |-> IF accepted THEN "paying" ELSE "failure",
                     m_appcharge |-> accepted, m_bActivate |-> kind = "activate"],
         handler |-> IF accepted THEN "charge" ELSE "app",
         pending |-> IF accepted THEN kind ELSE "none"]

Becomes(r) ==
    /\ app' = r.app /\ charge' = r.charge /\ handler' = r.handler /\ pending' = r.pending

\* Pay and Activate.  A second request while one is pending would make
\* AeeCharge's handler call itself without end: the application makes none.
Pay(kind, accepted) ==
    /\ Alive /\ pending = "none" /\ handler = "app" /\ app.pays < MaxPays
    /\ Becomes(Request(app, kind, accepted))
    /\ untimely' = (untimely \/ shell = "back")
    /\ UNCHANGED <<shell, screen, flag, bought, context, misread>>

\* mutant: a success is remembered for the next request
FlagWrittenLate(success, activate) == flag \/ activate

\* zmaee_appcharge_writeflag
FlagWritten(success, activate) == flag \/ (success /\ activate)

\* ChargeCallback.  The RESUME goes to the application whether the shell shows it
\* or not; the status is set to idle and m_bActivate read after it, and in it the
\* application may have made another request (`again').
ChargeCallback(success, again, accepted) ==
    LET back == Resumed(app)
        nested == again # "none" /\ app.pays < MaxPays
        inner == IF nested THEN Request(back, again, accepted)
                 ELSE [app |-> back, charge |-> charge, handler |-> "app", pending |-> "none"]
    IN  /\ Alive /\ pending # "none"
        /\ Becomes([inner EXCEPT !.charge.m_chargeStatus = "idle"])
        /\ flag' = FlagWritten(success, inner.charge.m_bActivate)
        /\ bought' = (bought \/ (success /\ pending = "activate"))
        /\ untimely' = (untimely \/ shell = "back" \/ (nested /\ accepted))
        /\ misread' = (misread \/ (success /\ nested /\ again # pending))
        /\ UNCHANGED <<shell, screen, context>>

-----------------------------------------------------------------------------
(* The events of the platform *)

\* zmaee_main sets the handler; the application is made anew.  It may be
\* started with the context it saved.
Start(restore) ==
    /\ shell = "none"
    /\ shell' = "front"
    /\ app' = Started(screen)
    /\ handler' = "app"
    /\ charge' = NewCharge
    /\ restore => context.cells # {}
    /\ context' = IF restore
                  THEN [context EXCEPT !.loaded = ReadBack(context.cells, context.start)]
                  ELSE context
    /\ untimely' = FALSE
    /\ UNCHANGED <<screen, pending, flag, bought, misread>>

\* STOP reaches the application even while the library is paid; with the
\* application goes its AeeCharge, which destroys the request.
Stop(save) ==
    /\ shell # "none"
    /\ shell' = "none"
    /\ app' = NoApp
    /\ charge' = NewCharge
    /\ pending' = "none"
    /\ \E start \in StartIndex :
           context' = IF save
                      THEN [start |-> start, cells |-> Written(start), loaded |-> {}]
                      ELSE context
    /\ UNCHANGED <<screen, handler, flag, bought, untimely, misread>>

OnSuspend ==
    /\ shell = "front"
    /\ shell' = "back"
    /\ app' = IF ToApp THEN Suspended(app) ELSE app
    /\ UNCHANGED <<screen, handler, charge, pending, flag, bought, context, untimely, misread>>

OnResume ==
    /\ shell = "back"
    /\ shell' = "front"
    /\ app' = IF ToApp THEN Resumed(app) ELSE app
    /\ UNCHANGED <<screen, handler, charge, pending, flag, bought, context, untimely, misread>>

Repaint(wparam) ==
    /\ shell = "front" /\ ToApp
    /\ app' = Repainted(app, wparam)
    /\ UNCHANGED <<shell, screen, handler, charge, pending, flag, bought, context, untimely, misread>>

\* The application asks to be closed, in any of its handlers; STOP comes later.
ExitApp ==
    /\ Alive /\ app.stat # "exiting"
    /\ app' = [app EXCEPT !.stat = "exiting"]
    /\ UNCHANGED <<shell, screen, handler, charge, pending, flag, bought, context, untimely, misread>>

Rotate ==
    /\ screen' \in ScreenSize \ {screen}
    /\ UNCHANGED <<shell, app, handler, charge, pending, flag, bought, context, untimely, misread>>

AppletInit ==
    /\ shell = "none" /\ screen \in ScreenSize /\ app = NoApp /\ handler = "app"
    /\ charge = NewCharge /\ pending = "none" /\ flag = FALSE /\ bought = FALSE
    /\ context = [start |-> 0, cells |-> {}, loaded |-> {}]
    /\ untimely = FALSE /\ misread = FALSE

AppletNext ==
    \/ \E b \in BOOLEAN : Start(b) \/ Stop(b)
    \/ OnSuspend \/ OnResume \/ ExitApp \/ Rotate
    \/ \E w \in {0, 1} : Repaint(w)
    \/ \E k \in {"pay", "activate"}, b \in BOOLEAN : Pay(k, b)
    \/ \E s, b \in BOOLEAN, k \in {"none", "pay", "activate"} : ChargeCallback(s, k, b)

AppletSpec == AppletInit /\ [][AppletNext]_appletVars

-----------------------------------------------------------------------------
(* What must hold *)

\* An application is told to suspend and to resume in turns, by the platform
\* and by a payment together, and is in its normal state, in which it paints
\* the screen, only when it is in front and no payment is under way: as long as it
\* has made no request in the background or, one that was accepted, inside the
\* callback of another, and the library has not answered in the background.  After
\* these it does not hold: an answer tells the application to resume behind
\* another one (AeeCharge.cpp:168), and the callback calls the new request idle
\* (line 169), so that the events of the platform come through while it is paid.
NormalIsShown ==
    (Alive /\ ~untimely) =>
        /\ app.told \in {0, 1} /\ (app.mIsSuspend <=> app.told = 1)
        /\ app.stat = "normal" => app.told = 0 /\ shell = "front" /\ pending = "none"
        /\ app.stat = "suspended" => app.told = 1

\* An application has its own handler back after every payment: accepted,
\* refused at once, or followed by another one inside the callback.
HandlerBack == Alive => (handler = "app" <=> pending = "none")

\* The program counts as activated exactly if an activation was paid, not
\* when something else was bought after one that failed: until a request is made
\* inside the callback of a paid one of the other kind, which is taken for what
\* was paid (AeeCharge.cpp:172 reads m_bActivate after line 168).
FlagForActivation == ~misread => (flag <=> bought)

\* What an application wrote to its context it reads back, every byte of it and no
\* other, wherever in the memory of the shell the context begins.
ContextKept ==
    context.loaded \in {{}, UNION {{<<i, b, i, b>> : b \in 0..(Saved[i] - 1)} : i \in 1..Len(Saved)}}

\* An application that makes no request inside the callback of another, and none
\* and gets no answer in the background, suspends and resumes in turns and paints
\* only in front, and the flag of an activation is written for one that was paid;
\* whatever it does, it has its handler back after a payment, and what it saved in
\* its context it reads back.
AppletKept == NormalIsShown /\ FlagForActivation /\ HandlerBack /\ ContextKept
=============================================================================
