----------------------------- MODULE GameWorld -----------------------------
(***************************************************************************)
(* The objects of a game (AEE++/game): AEEObjectManage keeps them in lists *)
(* by group, calls each one in a step and tells those that collide, and    *)
(* AEEGameWorld passes keys and pens to the ones that asked for them and   *)
(* loads maps, which bring objects of their own.                           *)
(*                                                                         *)
(* All of it calls the objects of the game, which may add and delete       *)
(* objects and ask for another map in the middle of the loops.  What is    *)
(* deleted in a step is freed at its end, and a map waits for the end of   *)
(* the loop.  The variable's field stack holds the handlers that run, the  *)
(* innermost last.                                                         *)
(***************************************************************************)
EXTENDS Integers, Sequences, SequencesExt, FiniteSets

CONSTANTS
    Group,       \* Group[o]: the group of object o, numbered from 1
    Touching,    \* the pairs <<a, b>> for which a detects a collision with b
    MapObjects,  \* MapObjects[map]: what its layers create, in order
    Missing,     \* the maps whose file is not there
    Kinds,       \* "key", "pen"
    Owned,       \* the objects that the game adds itself
    MaxCalls     \* bound: what the game calls

Objects == DOMAIN Group
NULL == 0
None == "none"
Maps == DOMAIN MapObjects \cup Missing
Groups == 1..Max({Group[o] : o \in Objects})

GameAssumption ==
    /\ NULL \notin Objects /\ Owned \subseteq Objects /\ Touching \subseteq Objects \X Objects
    /\ None \notin Maps /\ DOMAIN MapObjects \cap Missing = {} /\ MaxCalls \in Nat
    /\ \A map \in DOMAIN MapObjects : MapObjects[map] \in Seq(Objects) /\ IsInjective(MapObjects[map])

VARIABLE task

-----------------------------------------------------------------------------
(* The lists of objects.  t is the state of the world. *)

\* The object p and those behind it
Chain(t, p) ==
    LET from[o \in Objects \cup {NULL}] == IF o = NULL THEN <<>> ELSE <<o>> \o from[t.next[o]]
    IN  from[p]

AddObject(t, o) ==
    LET g == Group[o]
        last == IF t.head[g] = NULL THEN NULL ELSE t.tail[g]
    IN  [t EXCEPT !.alive = @ \cup {o}, !.born = @ \cup {o},
                  !.active = @ \cup {o}, !.destroyed[o] = 0,
                  !.head[g] = IF last = NULL THEN o ELSE @, !.tail[g] = o, !.prev[o] = last,
                  !.next = [p \in Objects |-> CASE p = o -> NULL [] p = last -> o [] OTHER -> @[p]]]

\* The fields of an object that is gone are not told apart.
Freed(t, gone) ==
    [t EXCEPT !.alive = @ \ gone, !.invalid = @ \ gone, !.active = @ \ gone,
              !.next = [o \in Objects |-> IF o \in gone THEN NULL ELSE @[o]],
              !.prev = [o \in Objects |-> IF o \in gone THEN NULL ELSE @[o]]]

\* mutant: the end of the list stays
ClearObjectKeepsEnd(t, o) ==
    LET p == t.prev[o]
        n == t.next[o]
    IN  Freed([t EXCEPT !.destroyed[o] = IF o \in t.invalid THEN @ ELSE @ + 1,
                        !.prev = [q \in Objects |-> IF q = n THEN p ELSE @[q]],
                        !.next = [q \in Objects |-> IF q = p THEN n ELSE @[q]],
                        !.head[Group[o]] = IF p = NULL THEN n ELSE @], {o})
ClearObject(t, o) ==
    LET p == t.prev[o]
        n == t.next[o]
    IN  Freed([t EXCEPT !.destroyed[o] = IF o \in t.invalid THEN @ ELSE @ + 1,
                        !.prev = [q \in Objects |-> IF q = n THEN p ELSE @[q]],
                        !.tail[Group[o]] = IF n = NULL THEN p ELSE @,
                        !.next = [q \in Objects |-> IF q = p THEN n ELSE @[q]],
                        !.head[Group[o]] = IF p = NULL THEN n ELSE @], {o})

InLists(t) == FlattenSeq([g \in Groups |-> Chain(t, t.head[g])])

\* ClearObject() of all; an OnDestroy() does not call the world here.
ClearObjectList(t) ==
    LET gone == ToSet(InLists(t))
    IN  Freed([t EXCEPT !.colliding = {}, !.head = [g \in Groups |-> NULL],
                        !.destroyed = [o \in Objects |-> @[o] + (IF o \in gone \ t.invalid THEN 1 ELSE 0)]],
              gone)

-----------------------------------------------------------------------------
(* Maps *)

DestroyNow(t) ==
    ClearObjectList([t EXCEPT !.listeners = [k \in Kinds |-> <<>>], !.map = None, !.m_bDestroy = FALSE])

LoadNow(t, map) ==
    LET d == [DestroyNow(t) EXCEPT !.m_mapLoadId = None]
    IN  IF map \in Missing THEN d
        ELSE FoldLeft(AddObject, [d EXCEPT !.map = map], MapObjects[map])

\* The end of a loop over objects.
EndLoop(t) ==
    LET ended == [t EXCEPT !.m_bOnLoop = FALSE]
        loaded == IF t.m_mapLoadId = None THEN ended ELSE LoadNow(ended, t.m_mapLoadId)
    IN  IF loaded.m_bDestroy THEN DestroyNow(loaded) ELSE loaded

\* mutant: only a step looks whether a map was asked for
EndKeyWithoutMap(t) == [t EXCEPT !.m_bOnLoop = FALSE]
EndKey(t) == EndLoop(t)

-----------------------------------------------------------------------------
(* A step *)

Push(t, frame) == [t EXCEPT !.stack = Append(@, frame)]
Popped(t) == [t EXCEPT !.stack = Front(@)]
Valid(t, o) == o \notin t.invalid
Ready(t, o) == Valid(t, o) /\ o \in t.active

\* What was deleted in the step is freed.
EndStep(t) ==
    LET ended == [t EXCEPT !.m_bOnStep = FALSE, !.m_bDelete = FALSE]
        deleted == SelectSeq(InLists(t), LAMBDA o : o \in t.invalid)
    IN  EndLoop(IF t.m_bDelete THEN FoldLeft(ClearObject, ended, deleted) ELSE ended)

\* mutant: in its own group an object meets those before it, too
PartnersAll(t, a, n, m) == SelectSeq(Chain(t, t.head[m]), LAMBDA b : b # a)
\* Whom a may collide with: in its own group those behind it
Partners(t, a, n, m) == IF n = m THEN Chain(t, t.next[a]) ELSE Chain(t, t.head[m])

Meetings(t, objects, n, m) ==
    FlattenSeq([i \in DOMAIN objects |->
                   IF Ready(t, objects[i])
                   THEN LET others == Partners(t, objects[i], n, m)
                        IN  [j \in DOMAIN others |-> [a |-> objects[i], b |-> others[j], n |-> n, m |-> m]]
                   ELSE <<>>])

\* The pairs of groups behind <<n, m>>, in the order of the loops
GroupsAfter(n, m) ==
    LET all == {p \in Groups \X Groups : p[1] <= p[2] /\ (p[1] > n \/ (p[1] = n /\ p[2] > m))}
    IN  SetToSortSeq(all, LAMBDA p, q : p[1] < q[1] \/ (p[1] = q[1] /\ p[2] < q[2]))

MeetingsAfter(t, n, m) ==
    LET pairs == SelectSeq(GroupsAfter(n, m), LAMBDA p : p \in t.colliding)
    IN  FlattenSeq([i \in DOMAIN pairs |-> Meetings(t, Chain(t, t.head[pairs[i][1]]), pairs[i][1], pairs[i][2])])

Told(t, who, of) == [t EXCEPT !.told = @ \cup {<<who, of>>}, !.twice = @ \/ <<who, of>> \in t.told]

\* GroupCollosion goes on to the next two that collide.  Nobody looks whether
\* a is still active.
CollideFrom(t, meetings) ==
    LET hits == SelectSeq(meetings, LAMBDA h :
                    Valid(t, h.a) /\ Ready(t, h.b) /\ (<<h.a, h.b>> \in Touching \/ <<h.b, h.a>> \in Touching))
    IN  IF hits = <<>> THEN EndStep(t)
        ELSE Push(Told(t, hits[1].a, hits[1].b), hits[1] @@ [fn |-> "collide", at |-> "a"])

StepFrom(t, objects) ==
    LET ready == SelectSeq(objects, LAMBDA o : Ready(t, o))
    IN  IF ready = <<>> THEN CollideFrom(t, MeetingsAfter(t, 0, 0))
        ELSE Push([t EXCEPT !.stepped = @ \cup {ready[1]}, !.twice = @ \/ ready[1] \in t.stepped],
                  [fn |-> "step", p |-> ready[1]])

-----------------------------------------------------------------------------
(* The platform *)

AtRest == task.stack = <<>>
Top == Last(task.stack)
Returns(fn) == ~AtRest /\ Top.fn = fn
Fresh == [task EXCEPT !.told = {}, !.stepped = {}, !.quiet = FALSE]

OnStep ==
    /\ AtRest
    /\ LET t == [Fresh EXCEPT !.m_bOnLoop = TRUE, !.m_bOnStep = TRUE, !.quiet = TRUE]
       IN  task' = StepFrom(t, InLists(t))

\* p->OnStep() returns.
StepReturns ==
    /\ Returns("step")
    /\ LET behind == FlattenSeq([g \in Groups |-> IF g > Group[Top.p] THEN Chain(task, task.head[g]) ELSE <<>>])
       IN  task' = StepFrom(Popped(task), Chain(task, task.next[Top.p]) \o behind)

\* a->OnCollision(b) or b->OnCollision(a) returns.
CollisionReturns ==
    /\ Returns("collide")
    /\ LET h == Top
           t == Popped(task)
           others == Chain(t, t.next[h.b])
       IN  task' =
           IF h.at = "a" /\ Valid(t, h.a) /\ Valid(t, h.b)
           THEN Push(Told(t, h.b, h.a), [h EXCEPT !.at = "b"])
           ELSE CollideFrom(t, [j \in DOMAIN others |-> [a |-> h.a, b |-> others[j], n |-> h.n, m |-> h.m]]
                               \o Meetings(t, Chain(t, t.next[h.a]), h.n, h.m)
                               \o MeetingsAfter(t, h.n, h.m))

\* The first of those that registered, and is active, is called.
ListenFrom(t, k, listeners) ==
    LET ready == SelectSeq(listeners, LAMBDA o : o \in t.active)
    IN  IF ready = <<>> THEN EndKey(t) ELSE Push(t, [fn |-> "listen", k |-> k, it |-> ready[1]])

\* OnKey, OnPen
OnKey(k) ==
    /\ AtRest /\ task.listeners[k] # <<>>
    /\ task' = ListenFrom([Fresh EXCEPT !.m_bOnLoop = TRUE], k, task.listeners[k])

\* A handler that took itself out of the list answers TRUE: else the loop would go
\* on from where it no longer is.
KeyReturns(ret) ==
    /\ Returns("listen")
    /\ LET list == task.listeners[Top.k]
           at == SelectInSeq(list, LAMBDA o : o = Top.it)
       IN  /\ at = 0 => ret
           /\ task' = IF ret THEN EndKey(Popped(task))
                      ELSE ListenFrom(Popped(task), Top.k, SubSeq(list, at + 1, Len(list)))

\* The memory of an object that is deleted in a step is freed at its end.
DeleteReturns ==
    /\ Returns("destroy")
    /\ LET t == [Popped(task) EXCEPT !.invalid = @ \cup {Top.p},
                                     !.m_bDelete = @ \/ task.m_bOnStep]
           u == IF t.m_bOnStep THEN t ELSE ClearObject(t, Top.p)
       IN  task' = [u EXCEPT !.listeners = [k \in Kinds |-> SelectSeq(@[k], LAMBDA o : o # Top.p)]]

-----------------------------------------------------------------------------
(* The game: between events, or in a handler of one of its objects *)

Calls(t) == task.calls < MaxCalls /\ task' = [t EXCEPT !.calls = @ + 1, !.quiet = FALSE]

Add(o) == o \in Owned \ task.alive /\ Calls(AddObject(task, o))

\* The game does not delete an object twice.
DeleteObject(o) ==
    /\ o \in task.alive \ task.invalid
    /\ \A i \in DOMAIN task.stack : task.stack[i].fn = "destroy" => task.stack[i].p # o
    /\ Calls(Push([task EXCEPT !.destroyed[o] = @ + 1], [fn |-> "destroy", p |-> o]))

SetActive(o) ==
    /\ o \in task.alive
    /\ Calls([task EXCEPT !.active = IF o \in @ THEN @ \ {o} ELSE @ \cup {o}])

EventRegister(k, o) ==
    /\ o \in task.alive \ task.invalid /\ ~Contains(task.listeners[k], o)
    /\ Calls([task EXCEPT !.listeners[k] = Append(@, o)])

EventCancel(k, o) ==
    /\ Contains(task.listeners[k], o)
    /\ Calls([task EXCEPT !.listeners[k] = SelectSeq(@, LAMBDA p : p # o)])

SetCollisionObjectGroup(a, b) ==
    Calls([task EXCEPT !.colliding = @ \cup {IF a > b THEN <<b, a>> ELSE <<a, b>>}])

\* A handler outside of a loop, an OnDestroy(), asks for no map.
LoadMap(map) ==
    /\ AtRest \/ task.m_bOnLoop
    /\ LET t == [task EXCEPT !.asked = map]
       IN  Calls(IF t.m_bOnLoop THEN [t EXCEPT !.m_mapLoadId = map] ELSE LoadNow(t, map))

\* A map that was asked for in the loop is loaded all the same.
DestroyMap ==
    /\ AtRest \/ task.m_bOnLoop
    /\ LET t == [task EXCEPT !.asked = IF task.m_mapLoadId = None THEN None ELSE @]
       IN  Calls(IF t.m_bOnLoop THEN [t EXCEPT !.m_bDestroy = TRUE] ELSE DestroyNow(t))

Init ==
    /\ \E delete \in BOOLEAN : task =
          [ head |-> [g \in Groups |-> NULL], tail |-> [g \in Groups |-> NULL],
            next |-> [o \in Objects |-> NULL], prev |-> [o \in Objects |-> NULL],
            alive |-> {}, born |-> {}, invalid |-> {}, active |-> {}, destroyed |-> [o \in Objects |-> 0],
            colliding |-> {}, listeners |-> [k \in Kinds |-> <<>>], map |-> None,
            m_bOnLoop |-> FALSE, m_bOnStep |-> FALSE, m_bDelete |-> delete, m_mapLoadId |-> None,
            m_bDestroy |-> FALSE, stack |-> <<>>, calls |-> 0,
            told |-> {}, stepped |-> {}, twice |-> FALSE, quiet |-> FALSE, asked |-> None ]

Next ==
    \/ OnStep \/ StepReturns \/ CollisionReturns \/ DeleteReturns \/ DestroyMap
    \/ \E k \in Kinds : OnKey(k) \/ \E o \in Objects : EventRegister(k, o) \/ EventCancel(k, o)
    \/ \E ret \in BOOLEAN : KeyReturns(ret)
    \/ \E o \in Objects : Add(o) \/ DeleteObject(o) \/ SetActive(o)
    \/ \E a, b \in Groups : SetCollisionObjectGroup(a, b)
    \/ \E map \in Maps : LoadMap(map)

Spec == Init /\ [][Next]_task

-----------------------------------------------------------------------------
(* What must hold *)

\* The lists hold the objects that are there, each once and in the list of its
\* group, and lead back the way they lead on.
ListsWhole ==
    /\ IsInjective(InLists(task)) /\ ToSet(InLists(task)) = task.alive
    /\ \A g \in Groups :
           LET list == Chain(task, task.head[g])
           IN  /\ \A i \in DOMAIN list :
                      Group[list[i]] = g /\ task.prev[list[i]] = (IF i = 1 THEN NULL ELSE list[i - 1])
               /\ list # <<>> => task.tail[g] = Last(list)

\* An object whose handler runs, or that waits for keys, has not been freed; it may
\* free itself in a handler for keys.
NothingFreedIsUsed ==
    /\ \A i \in DOMAIN task.stack :
           LET f == task.stack[i]
           IN  /\ f.fn \in {"step", "destroy"} => f.p \in task.alive
               /\ f.fn = "collide" => {f.a, f.b} \subseteq task.alive
    /\ \A k \in Kinds : ToSet(task.listeners[k]) \subseteq task.alive \ task.invalid

\* OnDestroy() is called once for an object: when it is deleted, or with its map.
DestroyedOnce ==
    \A o \in Objects :
        task.destroyed[o] =
            IF \/ o \in task.alive \ task.invalid /\ ~\E i \in DOMAIN task.stack : task.stack[i] = [fn |-> "destroy", p |-> o]
               \/ o \notin task.born
            THEN 0 ELSE 1

\* In a step an object is called once and told once of each that it collides with;
\* when no handler changes anything, every object is called and every two
\* that are to collide, and do, are told of each other.
ToldOnce ==
    /\ ~task.twice
    /\ AtRest /\ task.quiet =>
           /\ task.stepped = task.active
           /\ task.told = {p \in task.active \X task.active :
                  /\ p[1] # p[2] /\ (p \in Touching \/ <<p[2], p[1]>> \in Touching)
                  /\ \/ <<Group[p[1]], Group[p[2]]>> \in task.colliding
                     \/ <<Group[p[2]], Group[p[1]]>> \in task.colliding}

\* When no loop runs, nothing that was asked for is left to do: the map is there,
\* unless it has no file, and what was deleted is freed.
RequestsDone ==
    AtRest =>
        /\ ~task.m_bOnLoop /\ ~task.m_bOnStep /\ ~task.m_bDestroy
        /\ task.m_mapLoadId = None /\ task.invalid = {}
        /\ task.map = IF task.asked \in Missing THEN None ELSE task.asked
=============================================================================
