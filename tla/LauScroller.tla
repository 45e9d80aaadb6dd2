----------------------------- MODULE LauScroller -----------------------------
(***************************************************************************)
(* Scrolling with the pen: lau_scroller and lau_velocity_tracker, of which *)
(* mui/mui_scroll.cpp and dui/scroll/dui_scroll.cpp each hold a copy with  *)
(* limits of its own, MUIScroll and DUIScroll (under AEE++/).  A list is   *)
(* dragged beyond its ends at half the speed and springs back; let go      *)
(* inside, it flies on.                                                    *)
(***************************************************************************)
EXTENDS Integers, Sequences

CONSTANTS
    MaxOfs,   \* how far the lists scroll
    PageW,    \* the width of a page
    Pen,      \* the places of the pen
    Delays,   \* the milliseconds between two events
    Ticks,    \* the milliseconds until a timer of 10 fires
    Events    \* bound: events of the pen

ScrollerAssumption ==
    /\ MaxOfs \subseteq Nat /\ PageW \in Nat \ {0} /\ Pen \subseteq Int
    /\ Delays \subseteq Nat /\ Ticks \subseteq Nat \ {0} /\ Events \in Nat

VARIABLE task   \* a list: its scroll, the scroller, the tracker and the pen

-----------------------------------------------------------------------------
(* Arithmetic *)

\* Division of C
Quot(a, b) == IF a >= 0 THEN a \div b ELSE -((-a) \div b)
Lesser(a, b) == IF a < b THEN a ELSE b
Greater(a, b) == IF a > b THEN a ELSE b
Abs(a) == IF a < 0 THEN -a ELSE a

\* __fixed_mul: the product has 64 bits, so b is cut in two here.
Product(a, b) == (a * (b \div 256) + (a * (b % 256)) \div 256) \div 256

\* __f5: a polynomial without a constant; x and the result have 12 bits.
F5(x, cof) ==
    LET x1 == x * 16
        x2 == Product(x1, x1)
        x3 == Product(x2, x1)
    IN  (Product(cof[1], x1) + Product(cof[2], x2) + Product(cof[3], x3)
            + Product(cof[4], Product(x2, x2)) + Product(cof[5], Product(x2, x3))) \div 16

Half == 32768
EaseInBack == <<5 * Half, 2 * Half, -14 * Half, 12 * Half, -3 * Half>>
EaseOutBack == <<-3 * Half, 22 * Half, -34 * Half, 23 * Half, -6 * Half>>
EaseBack == <<10 * Half, -20 * Half, 20 * Half, -10 * Half, 2 * Half>>

\* MUIScroll::getEase...Value, of a value with 16 bits
Ease(cof, value) == F5(value \div 16, cof) * 16

\* MathInt_sqrt, from bit m down
RECURSIVE Root(_, _, _)
Root(m, root, left) ==
    LET over == (left \div m) * m > root
        next == (IF over THEN root + 2 * m ELSE root) \div 2
    IN  IF m = 0 THEN root
        ELSE IF m < 4 THEN next
        ELSE Root(m \div 4, next, IF over THEN left - root - m ELSE left)
MathInt_sqrt(n) == Root(2 ^ 30, 0, n)

-----------------------------------------------------------------------------
(* lau_velocity_tracker: places of the pen, the newest first, with their    *)
(* ages.  They are never forgotten between two presses.                     *)

\* NUM_PAST and MAX_AGE_MILLISECONDS
Past == IF task.lib = "MUI" THEN 64 ELSE 16
MaxAge == IF task.lib = "MUI" THEN 100 ELSE 500

\* The oldest sample that is not too old; the one before the newest counts
\* whatever its age.
LastSample(past) ==
    CHOOSE i \in 1..Len(past) :
        /\ i = Len(past) \/ (i + 1 > 2 /\ past[i + 1].age > MaxAge)
        /\ \A j \in 3..i : past[j].age <= MaxAge

Sampled(past, p) == SubSeq(<<[p |-> p, age |-> 0]>> \o past, 1, Lesser(Len(past) + 1, Past))

Velocity(past) ==
    LET old == past[LastSample(past)]
    IN  IF old.age > 0 THEN Quot((past[1].p - old.p) * 1000, old.age) ELSE 0

Aged(past, dt) == [i \in DOMAIN past |-> [past[i] EXCEPT !.age = @ + dt]]

-----------------------------------------------------------------------------
(* lau_scroller *)

IdleScroller ==
    [mode |-> "scroll", finished |-> TRUE, duration |-> 250, elapsed |-> 0,
     start |-> [x |-> 0, y |-> 0], final |-> [x |-> 0, y |-> 0], velocity |-> 0,
     coeff |-> [x |-> 0, y |-> 0]]

Deceleration == IF task.lib = "MUI" THEN 1024 ELSE 800

StartScroll(s, from, d, duration) ==
    [s EXCEPT !.mode = "scroll", !.finished = FALSE, !.start = from, !.elapsed = 0,
              !.final = [x |-> from.x + d.x, y |-> from.y + d.y], !.duration = duration]

\* start_fling of DUI ends in a scroll to where the fling would end, with the
\* duration of the way; that of MUI bounds the velocity and flies.
StartFling(s, from, v, max) ==
    LET capped == IF task.lib = "MUI"
                  THEN [a \in {"x", "y"} |-> Greater(-1024, Lesser(1024, v[a]))] ELSE v
        velocity == MathInt_sqrt(capped.x * capped.x + capped.y * capped.y)
        coeff == [a \in {"x", "y"} |->
                    IF velocity = 0 THEN 4096 ELSE Quot(capped[a] * 4096, velocity)]
        distance == Lesser(4096, (velocity * velocity) \div (2 * Deceleration))
        final == [a \in {"x", "y"} |->
                    Greater(0, Lesser(max[a], from[a] + (distance * coeff[a] + 2048) \div 4096))]
        way == [x |-> final.x - from.x, y |-> final.y - from.y]
    IN  IF task.lib = "MUI"
        THEN [mode |-> "fling", finished |-> FALSE, elapsed |-> 0, start |-> from, final |-> final,
              duration |-> (1000 * velocity) \div Deceleration, velocity |-> velocity, coeff |-> coeff]
        ELSE [StartScroll(s, from, way, MathInt_sqrt(way.x * way.x + way.y * way.y) * 2)
                EXCEPT !.velocity = velocity, !.coeff = coeff]

\* mutant: what the fling went past its range is not cut off
FlownUncut(s, a, max) ==
    LET distance == (s.elapsed * (s.velocity - (Deceleration * s.elapsed) \div 2000)) \div 1000
    IN  s.start[a] + (distance * s.coeff[a] + 2048) \div 4096

Flown(s, a, max) ==
    LET distance == (s.elapsed * (s.velocity - (Deceleration * s.elapsed) \div 2000)) \div 1000
    IN  Greater(0, Lesser(max[a], s.start[a] + (distance * s.coeff[a] + 2048) \div 4096))

\* compute_scroll_offset of a scroller that is not finished
Current(s, max) ==
    LET way(a) == s.final[a] - s.start[a]
        eased == F5((s.elapsed * 4096) \div s.duration, EaseInBack)
    IN  IF s.elapsed >= s.duration THEN s.final
        ELSE [a \in {"x", "y"} |->
                IF s.mode = "fling" THEN Flown(s, a, max)
                ELSE s.start[a] + (way(a) * eased + 2048) \div 4096]

-----------------------------------------------------------------------------
(* MUIScroll and DUIScroll *)

\* The axis the list scrolls along
Axis == IF task.type = "y" THEN "y" ELSE "x"

\* The range of start_fling; that of MUI has the axis only.
Range == IF task.lib = "DUI" THEN task.max
         ELSE [a \in {"x", "y"} |-> IF a = Axis THEN task.max[a] ELSE 0]

Event(dt, p) ==
    /\ task.events < Events
    /\ task.s.elapsed + dt <= 5000

\* What every event of the pen does: time has passed, the place is sampled.
After(dt, p) ==
    [task EXCEPT !.events = @ + 1, !.past = Sampled(Aged(@, dt), p),
                 !.s.elapsed = IF task.s.finished THEN @ ELSE @ + dt]

PenDown(p, inside, dt) ==
    /\ Event(dt, p) /\ ~task.pen
    /\ task' = IF inside
               THEN [After(dt, p) EXCEPT !.timer = FALSE, !.moving = FALSE, !.downAt = p,
                                         !.downPos = task.pos, !.down = TRUE, !.pen = TRUE]
               ELSE [After(dt, p) EXCEPT !.down = FALSE, !.pen = TRUE]

\* Beyond an end a list follows at half the speed; pages stop at the ends, or
\* go round.
Dragged(pos) ==
    LET max == task.max[Axis]
    IN  IF task.type = "page"
        THEN IF task.cycle THEN (IF pos < 0 THEN max ELSE IF pos > max THEN 0 ELSE pos)
             ELSE Greater(0, Lesser(pos, max))
        ELSE IF pos < 0 THEN (IF task.lib = "MUI" THEN Quot(pos, 2) ELSE -((-pos) \div 2))
        ELSE IF pos > max THEN max + (pos - max) \div 2
        ELSE pos

\* A pen that has not gone 16 pixels yet does not drag.  MUI puts the other
\* axis at 0.
PenMove(p, dt) ==
    /\ Event(dt, p) /\ task.pen
    /\ LET drags == task.down /\ (task.moving \/ Abs(task.downAt - p) >= 16)
           across == IF task.lib = "MUI" THEN 0 ELSE task.downPos[IF Axis = "x" THEN "y" ELSE "x"]
           to == Dragged(task.downPos[Axis] - (p - task.downAt))
       IN  task' = IF ~drags THEN After(dt, p)
                   ELSE [After(dt, p) EXCEPT
                            !.moving = TRUE, !.captured = TRUE,
                            !.pos = IF Axis = "x" THEN [x |-> to, y |-> across]
                                    ELSE [x |-> across, y |-> to]]

\* How far a page is moved when it is let go; a slow one not to a page, but to
\* the number of the page.
ToPage(pos, v) ==
    IF pos <= 0 THEN -pos
    ELSE IF pos >= task.max.x THEN task.max.x - pos
    ELSE IF v < -100 THEN PageW - (pos % PageW)
    ELSE IF v > 100 THEN -(pos % PageW)
    ELSE (pos + PageW \div 2) \div PageW - pos

\* What the scroller does when the pen goes up.  A list of DUI that scrolls
\* along x flies along y.
LetGo(v) ==
    LET pos == task.pos[Axis]
        back == IF pos < 0 THEN -pos ELSE task.max[Axis] - pos
        d == IF task.type = "page" THEN ToPage(pos, v) ELSE back
        along(n) == IF Axis = "x" THEN [x |-> n, y |-> 0] ELSE [x |-> 0, y |-> n]
        flies == IF task.lib = "DUI" THEN [x |-> 0, y |-> -v] ELSE along(-v)
    IN  IF task.type = "page" \/ pos < 0 \/ pos > task.max[Axis]
        THEN StartScroll(task.s, task.pos, along(d), (Abs(d) * 500) \div 320)
        ELSE StartFling(task.s, task.pos, flies, Range)

\* mutant: MUI as DUI, where only a list that was dragged is let go
HearsUpDragged == task.down /\ task.captured
HearsUp == task.down /\ (task.lib = "MUI" \/ task.captured)

PenUp(p, dt) ==
    /\ Event(dt, p) /\ task.pen
    /\ task' = IF HearsUp
               THEN [After(dt, p) EXCEPT !.s = LetGo(Velocity(Sampled(Aged(task.past, dt), p))),
                                         !.timer = TRUE, !.moving = FALSE, !.down = FALSE,
                                         !.captured = FALSE, !.pen = FALSE]
               ELSE [After(dt, p) EXCEPT !.pen = FALSE]

\* The timer handler: it moves the list and is set again, until the scroller
\* was finished when it fired.
Timer(dt) ==
    /\ task.timer
    /\ LET s == [task.s EXCEPT !.elapsed = @ + dt]
           current == Current(s, Range)
           ends == s.elapsed >= s.duration \/ (s.mode = "fling" /\ current = s.final)
       IN  task' = IF task.s.finished THEN [task EXCEPT !.timer = FALSE]
                   ELSE [task EXCEPT !.pos = current, !.past = Aged(@, dt),
                                     !.s = [s EXCEPT !.finished = ends]]

Init ==
    \E lib \in {"MUI", "DUI"}, type \in {"x", "y", "page"}, cycle \in BOOLEAN, mx \in MaxOfs, my \in MaxOfs :
        /\ type = "page" => lib = "DUI" /\ mx % PageW = 0
        /\ cycle => type = "page"
        /\ (lib = "MUI" \/ type # "x") => (IF type = "y" THEN mx = 0 ELSE my = 0)
        /\ task = [lib |-> lib, type |-> type, cycle |-> cycle, max |-> [x |-> mx, y |-> my],
                   pos |-> [x |-> 0, y |-> 0], down |-> FALSE, moving |-> FALSE, captured |-> FALSE,
                   downAt |-> 0, downPos |-> [x |-> 0, y |-> 0], pen |-> FALSE, timer |-> FALSE,
                   s |-> IdleScroller, past |-> <<>>, events |-> 0]

Next ==
    \/ \E p \in Pen, dt \in Delays :
          \/ \E inside \in BOOLEAN : PenDown(p, inside, dt)
          \/ PenMove(p, dt) \/ PenUp(p, dt)
    \/ \E dt \in Ticks : Timer(dt)

-----------------------------------------------------------------------------
(* What must hold *)

InRange(pos) == \A a \in {"x", "y"} : 0 <= pos[a] /\ pos[a] <= task.max[a]

\* However it was dragged, caught in flight and let go, a list whose timer has
\* ended with the pen up is inside its range.  Only one of DUI that was pressed
\* while it sprang back, and not dragged then, stays where it was.
ListRests ==
    ~task.pen /\ ~task.timer /\ (task.lib = "MUI" \/ ~task.down) => InRange(task.pos)

\* A list in flight is between where it was let go and where it will stop,
\* but for two pixels that rounding takes it too far, and never leaves its
\* range.
FlightStaysOnItsWay ==
    task.timer /\ task.s.mode = "fling" =>
        /\ InRange(task.pos)
        /\ \A a \in {"x", "y"} :
               /\ Lesser(task.s.start[a], task.s.final[a]) - 2 <= task.pos[a]
               /\ task.pos[a] <= Greater(task.s.start[a], task.s.final[a]) + 2

\* A fling lasts no longer than it takes to stop from the highest velocity,
\* and the speed in whole pixels is the root of the sum of the squares.
FlightEnds ==
    task.timer /\ task.lib = "MUI" /\ task.s.mode = "fling" =>
        /\ task.s.duration <= 1414
        /\ LET v == task.s.velocity IN MathInt_sqrt(v * v) = v /\ MathInt_sqrt(v * v + v) = v

\* Every way to ease begins at 0 and ends at 1.
EasesFromEndToEnd ==
    \A cof \in {EaseInBack, EaseOutBack, EaseBack} : Ease(cof, 0) = 0 /\ Ease(cof, 65536) = 65536
=============================================================================
