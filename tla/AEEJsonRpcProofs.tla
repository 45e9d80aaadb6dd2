-------------------------- MODULE AEEJsonRpcProofs --------------------------
(***************************************************************************)
(* Proofs about AEEJsonRpc for any pool of http objects, any number of     *)
(* methods and any objects that their handlers belong to.                  *)
(***************************************************************************)
EXTENDS AEEJsonRpc, TLAPS

Method == [http : Nat, object : Object]

ErrorsLoop == [kind : {"errors"}, http : Nat, event : {"status", "failure", "complete"},
               pos : Nat, inside : BOOLEAN]
RepliesLoop == [kind : {"replies"}, http : Nat, event : {"complete"},
                todo : SUBSET Nat, inside : BOOLEAN]

\* A process() is under way, and what it uses is not freed.
InLoop == loop \in ErrorsLoop \cup RepliesLoop

\* Types, and that ids are those given out and http objects those of the pool.
RpcType ==
    /\ mHttps \in Seq(Http)
    /\ sent \in Seq(SUBSET Nat) /\ Len(sent) = Len(mHttps)
    /\ mIdSeq \in 0..MaxId
    /\ mMethods \in [Pending -> Method] /\ Pending \subseteq 1..mIdSeq
    /\ \A id \in Pending : mMethods[id].http \in 1..Len(mHttps)
    /\ \A h \in 1..Len(mHttps) : sent[h] \subseteq 1..mIdSeq
    /\ mReSendTimerID \in {0, 1} /\ mNeedResendHttp \in Nat
    /\ loop \in {NoLoop, Freed} \cup ErrorsLoop \cup RepliesLoop
    /\ InLoop => loop.http \in 1..Len(mHttps)
    /\ replies \in [1..MaxId -> Nat] /\ fate \in [1..MaxId -> Fate]

\* An object that listens has a request, also inside handlers.
Listening == \A h \in 1..Len(mHttps) : Listens(mHttps[h]) => IsRequesting(mHttps[h])

-----------------------------------------------------------------------------
(* Http objects and the pool *)

\* What the operations of an object make of it.
LEMMA HttpOps ==
    \A h \in Http :
        /\ Requested(h) \in Http /\ IsRequesting(Requested(h)) /\ Listens(Requested(h))
        /\ NotOpened(h) \in Http /\ ~Listens(NotOpened(h))
        /\ Cancelled(h) \in Http /\ ~Listens(Cancelled(h))
        /\ Ending(h) \in Http /\ ~Listens(Ending(h))
        /\ Failed(h) \in Http /\ ~Listens(Failed(h))
        /\ Completed(h) \in Http /\ ~Listens(Completed(h))
        /\ Answered(h, "eRelease") \in Http /\ ~Listens(Answered(h, "eRelease"))
        /\ BodyAllocated(h) \in Http
<1> SUFFICES ASSUME NEW h \in Http
             PROVE  /\ Requested(h) \in Http /\ IsRequesting(Requested(h)) /\ Listens(Requested(h))
                    /\ NotOpened(h) \in Http /\ ~Listens(NotOpened(h))
                    /\ Cancelled(h) \in Http /\ ~Listens(Cancelled(h))
                    /\ Ending(h) \in Http /\ ~Listens(Ending(h))
                    /\ Failed(h) \in Http /\ ~Listens(Failed(h))
                    /\ Completed(h) \in Http /\ ~Listens(Completed(h))
                    /\ Answered(h, "eRelease") \in Http /\ ~Listens(Answered(h, "eRelease"))
                    /\ BodyAllocated(h) \in Http
  OBVIOUS
<1>1. Requested(h) \in Http /\ IsRequesting(Requested(h)) /\ Listens(Requested(h))
  BY DEF Http, Requested, IsRequesting, Listens
<1>2. NotOpened(h) \in Http /\ ~Listens(NotOpened(h))
  BY DEF Http, NotOpened, Listens
<1>3. Cancelled(h) \in Http /\ ~Listens(Cancelled(h))
  <2>1. h.mRespBody \in {0, 1}
    BY DEF Http
  <2>2. \/ Cancelled(h) = [h EXCEPT !.mHttp = 0, !.mIdle = 1, !.mRespBody = 0]
        \/ Cancelled(h) = [h EXCEPT !.mHttp = 0, !.mIdle = 1, !.mRespBody = h.mRespBody]
    <3>1. CASE h.mHttp = 1
      BY <3>1 DEF Cancelled
    <3>2. CASE h.mHttp # 1
      BY <3>2 DEF Cancelled
    <3> QED
      BY <3>1, <3>2
  <2>3. /\ [h EXCEPT !.mHttp = 0, !.mIdle = 1, !.mRespBody = 0] \in Http
        /\ [h EXCEPT !.mHttp = 0, !.mIdle = 1, !.mRespBody = h.mRespBody] \in Http
    BY <2>1 DEF Http
  <2>4. [h EXCEPT !.mHttp = 0, !.mIdle = 1, !.mRespBody = 0].mHttp = 0
    BY DEF Http
  <2>5. [h EXCEPT !.mHttp = 0, !.mIdle = 1, !.mRespBody = h.mRespBody].mHttp = 0
    BY DEF Http
  <2>6. Cancelled(h) \in Http
    BY <2>2, <2>3
  <2>7. Cancelled(h).mHttp = 0
    BY <2>2, <2>4, <2>5
  <2> QED
    BY <2>6, <2>7 DEF Listens
<1>4. Ending(h) \in Http /\ ~Listens(Ending(h))
  BY DEF Http, Ending, Listens
<1>5. Failed(h) \in Http /\ ~Listens(Failed(h))
  BY DEF Http, Failed, Listens
<1>6. Completed(h) \in Http /\ ~Listens(Completed(h))
  BY DEF Http, Completed, Listens
<1>7. Answered(h, "eRelease") \in Http /\ ~Listens(Answered(h, "eRelease"))
  BY DEF Http, Answered, Listens
<1>8. BodyAllocated(h) \in Http
  BY DEF Http, BodyAllocated
<1> QED
  BY <1>1, <1>2, <1>3, <1>4, <1>5, <1>6, <1>7, <1>8

\* A new object has no request.
LEMMA NewOps == NewHttp \in Http /\ ~Listens(NewHttp)
  BY DEF Http, NewHttp, Listens

\* The pool with an object of it, or with one more.
LEMMA PoolFacts ==
    ASSUME NEW https \in Seq(Http), NEW h \in 1..Len(https)+1
    PROVE  /\ With(https, h) \in Seq(Http)
           /\ Len(With(https, h)) = IF h > Len(https) THEN h ELSE Len(https)
           /\ \A g \in 1..Len(https) : With(https, h)[g] = https[g]
           /\ h > Len(https) => With(https, h)[h] = NewHttp
  BY NewOps DEF With

\* The same of the requests.
LEMMA SentFacts ==
    ASSUME RpcType, NEW h \in 1..Len(sent)+1
    PROVE  /\ WithSent(h) \in Seq(SUBSET Nat)
           /\ Len(WithSent(h)) = IF h > Len(sent) THEN h ELSE Len(sent)
           /\ \A g \in 1..Len(sent) : WithSent(h)[g] = sent[g]
           /\ h > Len(sent) => WithSent(h)[h] = {}
<1>1. {} \in SUBSET Nat /\ sent \in Seq(SUBSET Nat)
  BY DEF RpcType
<1> QED
  BY <1>1 DEF WithSent

\* What is left of the methods.
LEMMA WithoutFacts ==
    ASSUME NEW methods, NEW ids
    PROVE  /\ DOMAIN Without(methods, ids) = DOMAIN methods \ ids
           /\ \A id \in DOMAIN methods \ ids : Without(methods, ids)[id] = methods[id]
           /\ methods \in [DOMAIN methods -> Method] =>
                 Without(methods, ids) \in [DOMAIN methods \ ids -> Method]
  BY DEF Without, Restrict

\* The same of mMethods after a step that takes some methods out.
LEMMA LeftFacts ==
    ASSUME RpcType, NEW ids, mMethods' = Without(mMethods, ids)
    PROVE  /\ Pending' = Pending \ ids /\ mMethods' \in [Pending' -> Method]
           /\ \A id \in Pending' : mMethods'[id] = mMethods[id]
<1>1. mMethods \in [DOMAIN mMethods -> Method]
  BY DEF RpcType, Pending
<1>2. /\ DOMAIN Without(mMethods, ids) = DOMAIN mMethods \ ids
      /\ \A id \in DOMAIN mMethods \ ids : Without(mMethods, ids)[id] = mMethods[id]
      /\ Without(mMethods, ids) \in [DOMAIN mMethods \ ids -> Method]
  BY <1>1, WithoutFacts
<1> QED
  BY <1>2 DEF Pending

\* What has become of the calls is one of the fates again.
LEMMA BecomeFacts ==
    ASSUME RpcType, NEW what, \A id \in DOMAIN what : what[id] \in Fate, Become(what)
    PROVE  /\ fate' \in [1..MaxId -> Fate]
           /\ \A id \in 1..MaxId :
                 fate'[id] = IF id \in DOMAIN what THEN what[id] ELSE fate[id]
  BY DEF Become, RpcType

\* The interrupted process() goes on as it was, or what it uses next is freed, with
\* the method whose handler is running, if that is still to be erased.
Spared ==
    \/ loop' = loop
    \/ loop' = Freed /\ InHandler /\ \A id : BeingTold(id) => id \notin Pending'

\* A process() that is spared is at the event loop, or under way, if it was before.
LEMMA SparedFacts ==
    ASSUME RpcType, Spared
    PROVE  /\ AtLoop' <=> AtLoop
           /\ AtLoop => loop' = loop
           /\ loop' \in {NoLoop, Freed} \cup ErrorsLoop \cup RepliesLoop
           /\ InLoop' => InLoop /\ loop' = loop
  BY DEF RpcType, Spared, AtLoop, InHandler, InLoop, NoLoop, Freed, ErrorsLoop, RepliesLoop

\* What a request of the object h changes.  No other object is touched, and none
\* listens but those that did and, if the request was made, h itself: then its
\* request has all methods with its tag in it.  Only methods with the tag are
\* dropped, and only theirs are the fates that change.
LEMMA SendFacts ==
    ASSUME RpcType,
           NEW https \in Seq(Http), Len(https) = Len(mHttps),
           \A g \in 1..Len(mHttps) : Listens(https[g]) => https[g] = mHttps[g],
           NEW h \in 1..Len(mHttps)+1,
           NEW methods, methods \in [DOMAIN methods -> Method], DOMAIN methods \subseteq Nat,
           SendRpcReq(h, With(https, h), methods)
    PROVE  /\ mHttps' \in Seq(Http)
           /\ Len(mHttps') = IF h > Len(mHttps) THEN h ELSE Len(mHttps)
           /\ sent' \in Seq(SUBSET Nat) /\ Len(sent') = Len(mHttps')
           /\ \A g \in 1..Len(mHttps') \ {h} :
                 /\ g \in 1..Len(mHttps)
                 /\ mHttps'[g] = https[g] /\ sent'[g] = sent[g]
           /\ \/ h \in 1..Len(mHttps) /\ sent'[h] = sent[h]
              \/ sent'[h] \subseteq Tagged(methods, h)
           /\ Listens(mHttps'[h]) =>
                 \/ /\ h \in 1..Len(mHttps) /\ mHttps'[h] = mHttps[h] /\ sent'[h] = sent[h]
                 \/ /\ IsRequesting(mHttps'[h])
                    /\ sent'[h] = Tagged(methods, h) /\ mMethods' = methods
           /\ mMethods' \in [Pending' -> Method] /\ Pending' \subseteq DOMAIN methods
           /\ \A id \in Pending' : mMethods'[id] = methods[id]
           /\ \A id \in Pending' :
                 mMethods'[id].http = h => Listens(mHttps'[h]) /\ id \in sent'[h]
           /\ Spared /\ fate' \in [1..MaxId -> Fate]
           /\ \A id \in Pending' : mMethods'[id].http # h /\ id \in 1..MaxId => fate'[id] = fate[id]
<1> DEFINE pool == With(https, h)
           requests == WithSent(h)
           tagged == Tagged(methods, h)
<1>1. /\ pool \in Seq(Http)
      /\ Len(pool) = IF h > Len(https) THEN h ELSE Len(https)
      /\ \A g \in 1..Len(https) : pool[g] = https[g]
      /\ h > Len(https) => pool[h] = NewHttp
  BY PoolFacts
<1>2. Len(sent) = Len(mHttps) /\ Len(mHttps) \in Nat /\ h \in Nat
  BY DEF RpcType
<1>3. /\ requests \in Seq(SUBSET Nat)
      /\ Len(requests) = Len(pool)
      /\ \A g \in 1..Len(sent) : requests[g] = sent[g]
      /\ h > Len(sent) => requests[h] = {}
  BY <1>1, <1>2, SentFacts
<1>4. tagged \in SUBSET Nat /\ tagged \subseteq DOMAIN methods
  BY DEF Tagged
<1>5. \A id \in DOMAIN methods : id \in tagged <=> methods[id].http = h
  BY DEF Tagged
<1>6. h \in 1..Len(pool) /\ pool[h] \in Http
  BY <1>1, <1>2
<1> DEFINE dropped == [id \in tagged |-> IF id \in Pending THEN "lost" ELSE "refused"]
<1>7. \/ /\ tagged = {} /\ mHttps' = pool /\ mMethods' = methods /\ sent' = requests
         /\ UNCHANGED <<loop, fate>>
      \/ /\ mHttps' = [pool EXCEPT ![h] = Requested(pool[h])] /\ mMethods' = methods
         /\ sent' = [requests EXCEPT ![h] = tagged]
         /\ Become([id \in tagged |-> "kept"]) /\ UNCHANGED loop
      \/ /\ mHttps' = [pool EXCEPT ![h] = NotOpened(pool[h])]
         /\ mMethods' = Without(methods, tagged)
         /\ sent' = [requests EXCEPT ![h] = {}]
         /\ Become(dropped)
         /\ loop' = IF \E id \in tagged : BeingTold(id) THEN Freed ELSE loop
  BY DEF SendRpcReq, Sent
<1>11. /\ \A id \in DOMAIN [i \in tagged |-> "kept"] : [i \in tagged |-> "kept"][id] \in Fate
       /\ \A id \in DOMAIN dropped : dropped[id] \in Fate
       /\ DOMAIN [i \in tagged |-> "kept"] = tagged /\ DOMAIN dropped = tagged
  BY DEF Fate
<1> HIDE DEF pool, requests, tagged, dropped
<1>8. CASE /\ tagged = {} /\ mHttps' = pool /\ mMethods' = methods /\ sent' = requests
           /\ UNCHANGED <<loop, fate>>
  <2>1. Listens(mHttps'[h]) => h \in 1..Len(mHttps) /\ mHttps'[h] = mHttps[h] /\ sent'[h] = sent[h]
    BY <1>1, <1>2, <1>3, <1>8, NewOps
  <2>2. \/ h \in 1..Len(mHttps) /\ sent'[h] = sent[h]
        \/ sent'[h] \subseteq Tagged(methods, h)
    BY <1>1, <1>2, <1>3, <1>8
  <2>3. Spared /\ fate' \in [1..MaxId -> Fate] /\ \A id \in 1..MaxId : fate'[id] = fate[id]
    BY <1>8 DEF Spared, RpcType
  <2> QED
    BY <1>1, <1>2, <1>3, <1>5, <1>8, <2>1, <2>2, <2>3 DEF Pending
<1>9. CASE /\ mHttps' = [pool EXCEPT ![h] = Requested(pool[h])] /\ mMethods' = methods
           /\ sent' = [requests EXCEPT ![h] = tagged]
           /\ Become([id \in tagged |-> "kept"]) /\ UNCHANGED loop
  <2>1. /\ mHttps' \in Seq(Http) /\ Len(mHttps') = Len(pool)
        /\ \A g \in 1..Len(pool) \ {h} : mHttps'[g] = pool[g]
        /\ mHttps'[h] = Requested(pool[h])
    BY <1>1, <1>6, <1>9, HttpOps
  <2>2. /\ sent' \in Seq(SUBSET Nat) /\ Len(sent') = Len(pool)
        /\ \A g \in 1..Len(pool) \ {h} : sent'[g] = requests[g]
        /\ sent'[h] = tagged
    BY <1>3, <1>4, <1>6, <1>9
  <2>3. IsRequesting(mHttps'[h]) /\ Listens(mHttps'[h])
    BY <1>6, <2>1, HttpOps
  <2>4. tagged = Tagged(methods, h)
    BY DEF tagged
  <2>5. /\ fate' \in [1..MaxId -> Fate]
        /\ \A id \in 1..MaxId : id \notin tagged => fate'[id] = fate[id]
    BY <1>9, <1>11, BecomeFacts
  <2>6. Spared
    BY <1>9 DEF Spared
  <2> QED
    BY <1>1, <1>2, <1>3, <1>5, <1>9, <2>1, <2>2, <2>3, <2>4, <2>5, <2>6 DEF Pending
<1>10. CASE /\ mHttps' = [pool EXCEPT ![h] = NotOpened(pool[h])]
            /\ mMethods' = Without(methods, tagged)
            /\ sent' = [requests EXCEPT ![h] = {}]
            /\ Become(dropped)
            /\ loop' = IF \E id \in tagged : BeingTold(id) THEN Freed ELSE loop
  <2>1. /\ mHttps' \in Seq(Http) /\ Len(mHttps') = Len(pool)
        /\ \A g \in 1..Len(pool) \ {h} : mHttps'[g] = pool[g]
        /\ mHttps'[h] = NotOpened(pool[h])
    BY <1>1, <1>6, <1>10, HttpOps
  <2>2. /\ sent' \in Seq(SUBSET Nat) /\ Len(sent') = Len(pool)
        /\ \A g \in 1..Len(pool) \ {h} : sent'[g] = requests[g]
        /\ sent'[h] = {}
    BY <1>3, <1>6, <1>10
  <2>3. ~Listens(mHttps'[h])
    BY <1>6, <2>1, HttpOps
  <2>4. /\ DOMAIN mMethods' = DOMAIN methods \ tagged
        /\ mMethods' \in [DOMAIN methods \ tagged -> Method]
        /\ \A id \in DOMAIN methods \ tagged : mMethods'[id] = methods[id]
    <3>1. /\ DOMAIN Without(methods, tagged) = DOMAIN methods \ tagged
          /\ \A id \in DOMAIN methods \ tagged : Without(methods, tagged)[id] = methods[id]
          /\ Without(methods, tagged) \in [DOMAIN methods \ tagged -> Method]
      BY WithoutFacts
    <3> QED
      BY <1>10, <3>1
  <2>5. /\ fate' \in [1..MaxId -> Fate]
        /\ \A id \in 1..MaxId : id \notin tagged => fate'[id] = fate[id]
    BY <1>10, <1>11, BecomeFacts
  <2>6. Spared
    <3>1. CASE \E id \in tagged : BeingTold(id)
      <4>1. PICK id \in tagged : BeingTold(id)
        BY <3>1
      <4>2. InHandler /\ \A i : BeingTold(i) => i = id
        BY <4>1 DEF BeingTold
      <4>3. id \notin Pending'
        BY <2>4 DEF Pending
      <4> QED
        BY <1>10, <3>1, <4>2, <4>3 DEF Spared
    <3>2. CASE ~ \E id \in tagged : BeingTold(id)
      BY <1>10, <3>2 DEF Spared
    <3> QED
      BY <3>1, <3>2
  <2> QED
    BY <1>1, <1>2, <1>3, <1>5, <1>10, <2>1, <2>2, <2>3, <2>4, <2>5, <2>6 DEF Pending
<1> QED
  BY <1>7, <1>8, <1>9, <1>10
-----------------------------------------------------------------------------
(* What the actions do to the pool *)

\* The object h listens no more, the others are as before.
Quieted(h) ==
    /\ mHttps' \in Seq(Http) /\ Len(mHttps') = Len(mHttps)
    /\ ~Listens(mHttps'[h])
    /\ \A g \in 1..Len(mHttps) \ {h} : mHttps'[g] = mHttps[g]

\* The request of h is over, those of the others are as before.
Emptied(h) ==
    /\ sent' \in Seq(SUBSET Nat) /\ Len(sent') = Len(sent)
    /\ sent'[h] = {}
    /\ \A g \in 1..Len(sent) \ {h} : sent'[g] = sent[g]

\* An object is quieted when a record that does not listen takes its place.
LEMMA QuietedBy ==
    ASSUME RpcType, NEW h \in 1..Len(mHttps), NEW r \in Http, ~Listens(r),
           mHttps' = [mHttps EXCEPT ![h] = r]
    PROVE  Quieted(h)
  BY DEF RpcType, Quieted

\* Its request is over when nothing is in it any more.
LEMMA EmptiedBy ==
    ASSUME RpcType, NEW h \in 1..Len(mHttps), sent' = [sent EXCEPT ![h] = {}]
    PROVE  Emptied(h)
<1>1. {} \in SUBSET Nat /\ sent \in Seq(SUBSET Nat) /\ h \in 1..Len(sent)
  BY DEF RpcType
<1> QED
  BY <1>1 DEF Emptied

\* The object that an event came to is an object of the pool.
LEMMA AtPool ==
    ASSUME RpcType, NEW h \in 1..Len(mHttps)
    PROVE  mHttps[h] \in Http
  BY DEF RpcType

\* A refused event (onHttpEventWapper) leaves an object that does not listen.
LEMMA RefusedQuiet == \A h \in 1..Len(mHttps) : RpcType /\ Refused(h) => Quieted(h) /\ Emptied(h)
  BY AtPool, HttpOps, QuietedBy, EmptiedBy DEF Refused

\* The end of a request (onFailure, onComplete) releases the platform's object before
\* the handlers are called.
LEMMA EndsQuiet == \A h \in 1..Len(mHttps) : RpcType /\ Ends(h) => Quieted(h) /\ Emptied(h)
<1> SUFFICES ASSUME NEW h \in 1..Len(mHttps), RpcType, Ends(h) PROVE Quieted(h) /\ Emptied(h)
  OBVIOUS
<1>1. /\ Ending(mHttps[h]) \in Http /\ ~Listens(Ending(mHttps[h]))
      /\ Ending(BodyAllocated(mHttps[h])) \in Http /\ ~Listens(Ending(BodyAllocated(mHttps[h])))
      /\ Completed(Ending(mHttps[h])) \in Http /\ ~Listens(Completed(Ending(mHttps[h])))
  BY AtPool, HttpOps
<1>2. /\ \E r \in Http : ~Listens(r) /\ mHttps' = [mHttps EXCEPT ![h] = r]
      /\ sent' = [sent EXCEPT ![h] = {}]
  BY <1>1 DEF Ends, Failure, CompleteBody, CompleteOther
<1> QED
  BY <1>2, QuietedBy, EmptiedBy

\* After the handlers the wrapper stores eRelease, so the object does not listen,
\* even if a handler has sent a request on it.
LEMMA EventEndsQuiet ==
    ASSUME RpcType, NEW h \in 1..Len(mHttps), NEW event \in {"status", "failure", "complete"},
           EventEnds(h, event)
    PROVE  Quieted(h)
<1>1. /\ Failed(mHttps[h]) \in Http /\ ~Listens(Failed(mHttps[h]))
      /\ Completed(mHttps[h]) \in Http /\ ~Listens(Completed(mHttps[h]))
      /\ Answered(mHttps[h], "eRelease") \in Http /\ ~Listens(Answered(mHttps[h], "eRelease"))
  BY AtPool, HttpOps
<1>2. \E r \in Http : ~Listens(r) /\ mHttps' = [mHttps EXCEPT ![h] = r]
  BY <1>1 DEF EventEnds
<1> QED
  BY <1>2, QuietedBy

\* Objects whose methods are removed are quieted together.
LEMMA RemovedQuiet ==
    ASSUME RpcType, NEW object, RemoveMethods(object)
    PROVE  LET cancelled == {mMethods[id].http : id \in {i \in Pending : mMethods[i].object = object}}
           IN /\ mHttps' \in Seq(Http) /\ Len(mHttps') = Len(mHttps)
              /\ sent' \in Seq(SUBSET Nat) /\ Len(sent') = Len(sent)
              /\ \A g \in 1..Len(mHttps) :
                    IF g \in cancelled THEN ~Listens(mHttps'[g]) /\ sent'[g] = {}
                                       ELSE mHttps'[g] = mHttps[g] /\ sent'[g] = sent[g]
<1> DEFINE cancelled == {mMethods[id].http : id \in {i \in Pending : mMethods[i].object = object}}
<1>1. /\ mHttps' = [h \in 1..Len(mHttps) |->
                       IF h \in cancelled THEN Cancelled(mHttps[h]) ELSE mHttps[h]]
      /\ sent' = [h \in 1..Len(sent) |-> IF h \in cancelled THEN {} ELSE sent[h]]
  BY DEF RemoveMethods
<1> HIDE DEF cancelled
<1>2. \A h \in 1..Len(mHttps) :
         /\ mHttps[h] \in Http
         /\ Cancelled(mHttps[h]) \in Http /\ ~Listens(Cancelled(mHttps[h]))
  BY AtPool, HttpOps
<1>3. /\ mHttps' \in Seq(Http) /\ Len(mHttps') = Len(mHttps)
      /\ \A g \in 1..Len(mHttps) :
            IF g \in cancelled THEN ~Listens(mHttps'[g]) ELSE mHttps'[g] = mHttps[g]
  BY <1>1, <1>2 DEF RpcType
<1>4. /\ sent' \in Seq(SUBSET Nat) /\ Len(sent') = Len(sent)
      /\ \A g \in 1..Len(sent) :
            IF g \in cancelled THEN sent'[g] = {} ELSE sent'[g] = sent[g]
  <2>1. \A g \in 1..Len(sent) : sent[g] \in SUBSET Nat /\ {} \in SUBSET Nat
    BY DEF RpcType
  <2> QED
    BY <1>1, <2>1 DEF RpcType
<1>5. Len(sent) = Len(mHttps)
  BY DEF RpcType
<1> QED
  BY <1>3, <1>4, <1>5 DEF cancelled

-----------------------------------------------------------------------------
(* The methods that are sent *)

\* The methods with n new ones, and those with the tag old moved to h.
NewIds(n) == mIdSeq+1..mIdSeq+n
Called(n, owner, h) ==
    [id \in Pending \cup NewIds(n) |->
        IF id \in Pending THEN mMethods[id]
                          ELSE [http |-> h, object |-> owner[id - mIdSeq]]]
Moved(old, h) ==
    [id \in Pending |->
        IF mMethods[id].http = old THEN [mMethods[id] EXCEPT !.http = h] ELSE mMethods[id]]

\* What is known of the methods after a call.
IsCalled(n, h, methods) ==
    /\ DOMAIN methods = Pending \cup NewIds(n)
    /\ methods \in [DOMAIN methods -> Method]
    /\ DOMAIN methods \subseteq 1..mIdSeq+n
    /\ \A id \in Pending : id \notin NewIds(n) /\ methods[id] = mMethods[id]
    /\ \A id \in NewIds(n) : methods[id].http = h

\* callMethod() appends methods with new ids and the tag of the object.
LEMMA CalledFacts ==
    ASSUME RpcType, NEW n \in Nat, NEW owner \in [1..n -> Object], NEW h \in Nat
    PROVE  IsCalled(n, h, Called(n, owner, h))
<1>1. mMethods \in [Pending -> Method] /\ Pending \subseteq 1..mIdSeq /\ mIdSeq \in Nat
  BY DEF RpcType
<1>2. \A id \in NewIds(n) : id \notin Pending /\ id \in 1..mIdSeq+n
  BY <1>1 DEF NewIds
<1>3. ASSUME NEW id \in NewIds(n)
      PROVE  [http |-> h, object |-> owner[id - mIdSeq]] \in Method
  <2>1. id - mIdSeq \in 1..n
    BY <1>1, <1>3 DEF NewIds
  <2> QED
    BY <2>1 DEF Method
<1>4. /\ DOMAIN Called(n, owner, h) = Pending \cup NewIds(n)
      /\ \A id \in Pending : Called(n, owner, h)[id] = mMethods[id]
      /\ \A id \in NewIds(n) :
            Called(n, owner, h)[id] = [http |-> h, object |-> owner[id - mIdSeq]]
  BY <1>2 DEF Called
<1>5. Called(n, owner, h) \in [Pending \cup NewIds(n) -> Method]
  BY <1>1, <1>2, <1>3 DEF Called
<1>6. Pending \subseteq 1..mIdSeq+n
  BY <1>1
<1> QED
  BY <1>2, <1>4, <1>5, <1>6 DEF IsCalled

\* reSendRpcReq() changes tags only.
LEMMA MovedFacts ==
    ASSUME RpcType, NEW old, NEW h \in Nat
    PROVE  LET methods == Moved(old, h) IN
           /\ DOMAIN methods = Pending
           /\ methods \in [DOMAIN methods -> Method]
           /\ \A id \in Pending :
                 methods[id].http = IF mMethods[id].http = old THEN h ELSE mMethods[id].http
<1>1. mMethods \in [Pending -> Method]
  BY DEF RpcType
<1>2. \A m \in Method : /\ [m EXCEPT !.http = h] \in Method
                        /\ [m EXCEPT !.http = h].http = h
  BY DEF Method
<1> QED
  BY <1>1, <1>2 DEF Moved

\* The types after a request of the object h.
LEMMA SendType ==
    ASSUME RpcType,
           NEW https \in Seq(Http), Len(https) = Len(mHttps),
           \A g \in 1..Len(mHttps) : Listens(https[g]) => https[g] = mHttps[g],
           NEW h \in 1..Len(mHttps)+1,
           NEW methods, methods \in [DOMAIN methods -> Method],
           DOMAIN methods \subseteq 1..mIdSeq',
           \A id \in DOMAIN methods : methods[id].http \in 1..Len(mHttps) \cup {h},
           SendRpcReq(h, With(https, h), methods),
           mIdSeq' \in 0..MaxId, mIdSeq <= mIdSeq', mReSendTimerID' \in {0, 1},
           UNCHANGED <<mNeedResendHttp, replies>>
    PROVE  RpcType'
<1>1. DOMAIN methods \subseteq Nat
  OBVIOUS
<1>2. /\ mHttps' \in Seq(Http)
      /\ Len(mHttps') = IF h > Len(mHttps) THEN h ELSE Len(mHttps)
      /\ sent' \in Seq(SUBSET Nat) /\ Len(sent') = Len(mHttps')
      /\ \A g \in 1..Len(mHttps') \ {h} : g \in 1..Len(mHttps) /\ sent'[g] = sent[g]
      /\ \/ h \in 1..Len(mHttps) /\ sent'[h] = sent[h]
         \/ sent'[h] \subseteq Tagged(methods, h)
      /\ mMethods' \in [Pending' -> Method] /\ Pending' \subseteq DOMAIN methods
      /\ \A id \in Pending' : mMethods'[id] = methods[id]
      /\ Spared /\ fate' \in [1..MaxId -> Fate]
  BY <1>1, SendFacts
<1>3. Tagged(methods, h) \subseteq 1..mIdSeq'
  BY DEF Tagged
<1>4. \A g \in 1..Len(mHttps) : sent[g] \subseteq 1..mIdSeq'
  <2>1. /\ mIdSeq \in Nat /\ mIdSeq' \in Nat
        /\ \A g \in 1..Len(mHttps) : sent[g] \subseteq 1..mIdSeq
    BY DEF RpcType
  <2> QED
    BY <2>1
<1>5. \A g \in 1..Len(mHttps') : sent'[g] \subseteq 1..mIdSeq'
  BY <1>2, <1>3, <1>4
<1>6. Len(mHttps) \in Nat /\ Len(mHttps) <= Len(mHttps') /\ h \in 1..Len(mHttps')
  BY <1>2 DEF RpcType
<1>7. \A id \in Pending' : mMethods'[id].http \in 1..Len(mHttps')
  BY <1>2, <1>6
<1>8. /\ loop' \in {NoLoop, Freed} \cup ErrorsLoop \cup RepliesLoop
      /\ InLoop' => loop'.http \in 1..Len(mHttps')
  <2>1. InLoop' => InLoop /\ loop' = loop
    BY <1>2, SparedFacts
  <2>2. InLoop => loop.http \in 1..Len(mHttps')
    BY <1>6 DEF RpcType
  <2> QED
    BY <1>2, <2>1, <2>2, SparedFacts
<1>9. mNeedResendHttp' \in Nat /\ replies' \in [1..MaxId -> Nat]
  BY DEF RpcType
<1>10. Pending' \subseteq 1..mIdSeq'
  BY <1>2
<1> QED
  BY <1>2, <1>5, <1>7, <1>8, <1>9, <1>10 DEF RpcType

\* What a call changes, for one object of the pool or a new one.
LEMMA CallFacts ==
    ASSUME RpcType, NEW n \in Nat, NEW owner \in [1..n -> Object], CallMethod(n, owner)
    PROVE  /\ AtLoop \/ (Nested /\ InHandler)
           /\ mIdSeq + n <= MaxId /\ mIdSeq' = mIdSeq + n
           /\ UNCHANGED <<mReSendTimerID, mNeedResendHttp, replies>>
           /\ \E h \in 1..Len(mHttps)+1 :
                 \E methods : /\ IdleHttp(h) /\ SendRpcReq(h, With(mHttps, h), methods)
                              /\ IsCalled(n, h, methods)
<1>1. /\ AtLoop \/ (Nested /\ InHandler)
      /\ mIdSeq + n <= MaxId /\ mIdSeq' = mIdSeq + n
      /\ UNCHANGED <<mReSendTimerID, mNeedResendHttp, replies>>
  BY DEF CallMethod
<1>2. PICK h \in 1..MaxHttp :
          IdleHttp(h) /\ SendRpcReq(h, With(mHttps, h), Called(n, owner, h))
  BY DEF CallMethod, Called, NewIds
<1>3. h \in 1..Len(mHttps)+1 /\ IsCalled(n, h, Called(n, owner, h))
  BY <1>2, CalledFacts DEF IdleHttp
<1> QED
  BY <1>1, <1>2, <1>3

\* What sending again changes, for one object of the pool or a new one.
LEMMA MoveFacts ==
    ASSUME NEW old, NEW https, ReSendRpcReq(old, https)
    PROVE  \E h \in 1..Len(mHttps)+1 :
              IdleHttp(h) /\ SendRpcReq(h, With(https, h), Moved(old, h))
  BY DEF ReSendRpcReq, IdleHttp, Moved

\* The pool that a response from the wrong server leaves.
LEMMA RefusingPool ==
    ASSUME RpcType, NEW h \in 1..Len(mHttps)
    PROVE  LET https == [mHttps EXCEPT ![h] = Answered(@, "eRelease")] IN
           /\ https \in Seq(Http) /\ Len(https) = Len(mHttps)
           /\ ~Listens(https[h])
           /\ \A g \in 1..Len(mHttps) : g # h => https[g] = mHttps[g]
           /\ \A g \in 1..Len(mHttps) : Listens(https[g]) => https[g] = mHttps[g]
<1>1. Answered(mHttps[h], "eRelease") \in Http /\ ~Listens(Answered(mHttps[h], "eRelease"))
  BY AtPool, HttpOps
<1> DEFINE https == [mHttps EXCEPT ![h] = Answered(mHttps[h], "eRelease")]
<1>2. /\ https \in Seq(Http) /\ Len(https) = Len(mHttps)
      /\ https[h] = Answered(mHttps[h], "eRelease")
      /\ \A g \in 1..Len(mHttps) : g # h => https[g] = mHttps[g]
  BY <1>1 DEF RpcType
<1> QED
  BY <1>1, <1>2

\* callMethod() keeps the types.
LEMMA CallType ==
    ASSUME RpcType, NEW n \in Nat, NEW owner \in [1..n -> Object], CallMethod(n, owner)
    PROVE  RpcType'
<1>1. PICK h \in 1..Len(mHttps)+1 :
          \E methods : /\ IdleHttp(h) /\ SendRpcReq(h, With(mHttps, h), methods)
                       /\ IsCalled(n, h, methods)
  BY CallFacts
<1>2. PICK methods : /\ SendRpcReq(h, With(mHttps, h), methods)
                     /\ IsCalled(n, h, methods)
  BY <1>1
<1>3. /\ mIdSeq + n <= MaxId /\ mIdSeq' = mIdSeq + n
      /\ UNCHANGED <<mReSendTimerID, mNeedResendHttp, replies>>
  BY CallFacts
<1>4. /\ mIdSeq \in Nat /\ mIdSeq' \in 0..MaxId /\ mIdSeq <= mIdSeq'
      /\ mHttps \in Seq(Http) /\ mReSendTimerID' \in {0, 1}
  BY <1>3, RpcAssumption DEF RpcType
<1>5. \A id \in DOMAIN methods : methods[id].http \in 1..Len(mHttps) \cup {h}
  BY <1>2 DEF RpcType, IsCalled
<1>6. methods \in [DOMAIN methods -> Method] /\ DOMAIN methods \subseteq 1..mIdSeq'
  BY <1>2, <1>3 DEF IsCalled
<1> QED
  BY <1>2, <1>3, <1>4, <1>5, <1>6, SendType

\* reSendRpcReq() keeps the types.
LEMMA MoveType ==
    ASSUME RpcType, NEW old, NEW https \in Seq(Http), Len(https) = Len(mHttps),
           \A g \in 1..Len(mHttps) : Listens(https[g]) => https[g] = mHttps[g],
           ReSendRpcReq(old, https), mReSendTimerID' \in {0, 1},
           UNCHANGED <<mIdSeq, mNeedResendHttp, replies>>
    PROVE  RpcType'
<1>1. PICK h \in 1..Len(mHttps)+1 : SendRpcReq(h, With(https, h), Moved(old, h))
  BY MoveFacts
<1>2. h \in Nat /\ mIdSeq' \in 0..MaxId /\ mIdSeq <= mIdSeq'
  BY RpcAssumption DEF RpcType
<1> DEFINE methods == Moved(old, h)
<1>3. /\ DOMAIN methods = Pending /\ methods \in [DOMAIN methods -> Method]
      /\ \A id \in Pending :
            methods[id].http = IF mMethods[id].http = old THEN h ELSE mMethods[id].http
  BY <1>2, MovedFacts
<1>4. DOMAIN methods \subseteq 1..mIdSeq' /\ SendRpcReq(h, With(https, h), methods)
  BY <1>1, <1>3 DEF RpcType
<1>5. \A id \in DOMAIN methods : methods[id].http \in 1..Len(mHttps) \cup {h}
  BY <1>3 DEF RpcType
<1> HIDE DEF methods
<1> QED
  BY <1>2, <1>3, <1>4, <1>5, SendType

\* The process() under way, by its kind.
LEMMA LoopKinds ==
    ASSUME RpcType
    PROVE  /\ AtLoop <=> loop.kind = "none"
           /\ loop = Freed <=> loop.kind = "freed"
           /\ loop.kind = "errors" => loop \in ErrorsLoop
           /\ loop.kind = "replies" => loop \in RepliesLoop
           /\ InLoop <=> loop.kind \in {"errors", "replies"}
           /\ InLoop => ~AtLoop
  BY DEF RpcType, AtLoop, InLoop, NoLoop, Freed, ErrorsLoop, RepliesLoop

\* How a process() begins.
LEMMA NewLoops ==
    /\ \A h \in Nat, event \in {"status", "failure", "complete"} :
          /\ ErrorLoop(h, event) \in ErrorsLoop
          /\ ErrorLoop(h, event).http = h /\ ErrorLoop(h, event) # NoLoop
    /\ \A h \in Nat, ids \in SUBSET Nat :
          /\ ReplyLoop(h, ids) \in RepliesLoop
          /\ ReplyLoop(h, ids).http = h /\ ReplyLoop(h, ids) # NoLoop
  BY DEF ErrorLoop, ReplyLoop, ErrorsLoop, RepliesLoop, NoLoop

-----------------------------------------------------------------------------
(* Types *)

\* A new AEEJsonRpc has an empty pool.
LEMMA InitType == Init => RpcType
<1> SUFFICES ASSUME Init PROVE RpcType
  OBVIOUS
<1>1. /\ mHttps = <<>> /\ sent = <<>> /\ mIdSeq = 0 /\ mReSendTimerID = 0 /\ mNeedResendHttp = 0
      /\ loop = NoLoop /\ replies = [id \in 1..MaxId |-> 0]
      /\ Pending = {} /\ mMethods \in [{} -> Method]
      /\ fate = [id \in 1..MaxId |-> "kept"]
  BY DEF Init, NoMethod, Pending
<1>2. ~InLoop
  BY <1>1 DEF InLoop, NoLoop, ErrorsLoop, RepliesLoop
<1> QED
  BY <1>1, <1>2, RpcAssumption DEF RpcType, Fate

\* When a request is over and its object listens no more, the types hold if they
\* hold of the methods that are left and of the new process().
LEMMA QuietType ==
    ASSUME RpcType, NEW h \in 1..Len(mHttps), Quieted(h), Emptied(h) \/ sent' = sent,
           UNCHANGED <<mMethods, mIdSeq>>, UNCHANGED <<replies, fate>>,
           mReSendTimerID' \in {0, 1}, mNeedResendHttp' \in Nat,
           loop' \in {NoLoop} \cup ErrorsLoop \cup RepliesLoop,
           loop' # NoLoop => loop'.http \in 1..Len(mHttps)
    PROVE  RpcType'
<1>1. Pending' = Pending
  BY DEF Pending
<1>2. /\ sent' \in Seq(SUBSET Nat) /\ Len(sent') = Len(mHttps')
      /\ \A g \in 1..Len(mHttps') : sent'[g] \subseteq 1..mIdSeq'
  BY DEF RpcType, Quieted, Emptied
<1>3. mHttps' \in Seq(Http) /\ Len(mHttps') = Len(mHttps)
  BY DEF Quieted
<1> QED
  BY <1>1, <1>2, <1>3 DEF RpcType, InLoop, NoLoop, ErrorsLoop, RepliesLoop

\* What the handlers have been told may change with the methods that are left.
LEMMA ProcessType ==
    ASSUME RpcType, UNCHANGED <<mHttps, mIdSeq, mReSendTimerID, mNeedResendHttp, sent>>,
           mMethods' \in [Pending' -> Method], Pending' \subseteq Pending,
           \A id \in Pending' : mMethods'[id] = mMethods[id],
           loop' \in ErrorsLoop \cup RepliesLoop, loop'.http = loop.http, InLoop,
           replies' \in [1..MaxId -> Nat], UNCHANGED fate
    PROVE  RpcType'
  BY DEF RpcType

\* handleReply() counts for one method.
LEMMA CountType ==
    ASSUME RpcType, NEW id \in Pending, Count(id)
    PROVE  /\ replies' \in [1..MaxId -> Nat]
           /\ replies'[id] > 0 /\ \A i \in 1..MaxId : i # id => replies'[i] = replies[i]
<1>1. replies \in [1..MaxId -> Nat] /\ id \in 1..MaxId
  BY RpcAssumption DEF RpcType
<1> QED
  BY <1>1 DEF Count

\* A removal frees the process() under way only together with the method that it
\* tells of an error.
LEMMA RemoveSpares ==
    ASSUME RpcType, NEW object, RemoveMethods(object)
    PROVE  Spared /\ fate' \in [1..MaxId -> Fate]
<1> DEFINE mine == {id \in Pending : mMethods[id].object = object}
           cancelled == {mMethods[id].http : id \in mine}
           stranded == {id \in Pending \ mine :
                           /\ mMethods[id].http \in cancelled
                           /\ InRequest(id) /\ ~TellsErrors(mMethods[id].http)}
           becomes == [id \in mine \cup stranded |->
                          IF id \in mine THEN "removed" ELSE "stranded"]
<1>1. /\ AtLoop \/ InHandler
      /\ mMethods' = Without(mMethods, mine)
      /\ Become(becomes)
      /\ \/ loop' = loop
         \/ loop' = Freed /\ \E id \in mine : BeingTold(id)
         \/ loop' = Freed /\ loop.kind = "replies"
  BY DEF RemoveMethods
<1>2. \A id \in DOMAIN becomes : becomes[id] \in Fate
  BY DEF Fate
<1> HIDE DEF mine, becomes
<1>3. fate' \in [1..MaxId -> Fate]
  BY <1>1, <1>2, BecomeFacts
<1>4. Pending' = Pending \ mine
  BY <1>1, LeftFacts
<1>5. CASE loop' = Freed /\ \E id \in mine : BeingTold(id)
  <2>1. PICK id \in mine : BeingTold(id)
    BY <1>5
  <2>2. InHandler /\ \A i : BeingTold(i) => i = id
    BY <2>1 DEF BeingTold
  <2>3. \A i : BeingTold(i) => i \notin Pending'
    BY <1>4, <2>2
  <2> QED
    BY <1>3, <1>5, <2>2, <2>3 DEF Spared
<1>6. CASE loop' = Freed /\ loop.kind = "replies"
  <2>1. InHandler
    BY <1>1, <1>6, LoopKinds
  <2>2. \A i : ~BeingTold(i)
    BY <1>6 DEF BeingTold
  <2> QED
    BY <1>3, <1>6, <2>1, <2>2 DEF Spared
<1> QED
  BY <1>1, <1>3, <1>5, <1>6 DEF Spared

\* removeMethodByDelegateObject() keeps the types.
LEMMA RemoveType ==
    ASSUME RpcType, NEW object, RemoveMethods(object)
    PROVE  RpcType'
<1> DEFINE mine == {id \in Pending : mMethods[id].object = object}
<1>1. /\ mHttps' \in Seq(Http) /\ Len(mHttps') = Len(mHttps)
      /\ sent' \in Seq(SUBSET Nat) /\ Len(sent') = Len(sent)
      /\ \A g \in 1..Len(mHttps) : sent'[g] = {} \/ sent'[g] = sent[g]
  BY RemovedQuiet
<1>2. mMethods' = Without(mMethods, mine)
  BY DEF RemoveMethods
<1>3. mMethods \in [Pending -> Method]
  BY DEF RpcType
<1> HIDE DEF mine
<1>4. /\ Pending' = Pending \ mine /\ mMethods' \in [Pending' -> Method]
      /\ \A id \in Pending' : mMethods'[id] = mMethods[id]
  BY <1>2, LeftFacts
<1>5. UNCHANGED <<mIdSeq, mReSendTimerID, mNeedResendHttp, replies>>
  BY DEF RemoveMethods
<1>6. Spared /\ fate' \in [1..MaxId -> Fate]
  BY RemoveSpares
<1>7. /\ loop' \in {NoLoop, Freed} \cup ErrorsLoop \cup RepliesLoop
      /\ InLoop' => loop'.http \in 1..Len(mHttps')
  BY <1>1, <1>6, SparedFacts DEF RpcType
<1> QED
  BY <1>1, <1>4, <1>5, <1>6, <1>7 DEF RpcType

\* cancelMethod() keeps the types.
LEMMA CancelType == RpcType /\ CancelMethod => RpcType'
<1> SUFFICES ASSUME RpcType, CancelMethod PROVE RpcType'
  OBVIOUS
<1>1. /\ Pending' = {} /\ mMethods' \in [{} -> Method]
      /\ mHttps' = <<>> /\ sent' = <<>> /\ mReSendTimerID' = 0 /\ loop' \in {NoLoop, Freed}
      /\ UNCHANGED <<mIdSeq, mNeedResendHttp, replies>>
  BY DEF CancelMethod, NoMethod, Pending
<1>2. fate' \in [1..MaxId -> Fate]
  BY DEF CancelMethod, Become, Fate, RpcType
<1>3. ~InLoop'
  BY <1>1 DEF InLoop, NoLoop, Freed, ErrorsLoop, RepliesLoop
<1> QED
  BY <1>1, <1>2, <1>3 DEF RpcType

\* The events that start a process(), and how the new process() looks.
LEMMA EndsType ==
    ASSUME RpcType, NEW h \in 1..Len(mHttps), Ends(h)
    PROVE  RpcType'
<1>1. Quieted(h) /\ Emptied(h)
  BY EndsQuiet
<1>2. /\ UNCHANGED <<mMethods, mIdSeq, replies, fate>>
      /\ mReSendTimerID' \in {0, 1} /\ mNeedResendHttp' \in Nat
  BY DEF Ends, Failure, CompleteBody, CompleteOther, RpcType
<1>3. /\ h \in Nat /\ sent[h] \in SUBSET Nat
  BY DEF RpcType
<1>4. /\ loop' \in {NoLoop} \cup ErrorsLoop \cup RepliesLoop
      /\ loop' # NoLoop => loop'.http = h
  <2>1. CASE Failure(h)
    BY <2>1, <1>3, NewLoops DEF Failure
  <2>2. CASE CompleteBody(h)
    <3>1. \/ loop' = ErrorLoop(h, "complete")
          \/ \E ids \in SUBSET Nat : loop' = ReplyLoop(h, ids)
      BY <2>2, <1>3 DEF CompleteBody
    <3> QED
      BY <3>1, <1>3, NewLoops
  <2>3. CASE CompleteOther(h)
    BY <2>3 DEF CompleteOther, AtLoop
  <2> QED
    BY <2>1, <2>2, <2>3 DEF Ends
<1> QED
  BY <1>1, <1>2, <1>4, QuietType

\* A step of process() that tells a method of an error, or ends, keeps the types.
LEMMA TellErrorType == RpcType /\ TellError => RpcType'
<1> SUFFICES ASSUME RpcType, TellError PROVE RpcType'
  OBVIOUS
<1>1. loop \in ErrorsLoop /\ InLoop /\ loop.http \in 1..Len(mHttps)
  BY LoopKinds DEF TellError, RpcType
<1>2. /\ UNCHANGED <<mMethods, mIdSeq, mReSendTimerID, mNeedResendHttp, sent, fate>>
      /\ Pending' = Pending
  BY DEF TellError, Pending
<1>3. CASE \E next \in Pending : /\ loop' = [loop EXCEPT !.pos = next, !.inside = TRUE]
                                 /\ Count(next) /\ UNCHANGED mHttps
  <2>1. PICK next \in Pending : /\ loop' = [loop EXCEPT !.pos = next, !.inside = TRUE]
                                /\ Count(next) /\ UNCHANGED mHttps
    BY <1>3
  <2>2. next \in Nat
    BY DEF RpcType
  <2>3. loop' \in ErrorsLoop /\ loop'.http = loop.http
    BY <1>1, <2>1, <2>2 DEF ErrorsLoop
  <2>4. replies' \in [1..MaxId -> Nat]
    BY <2>1, CountType
  <2>5. mMethods' \in [Pending' -> Method] /\ \A id \in Pending' : mMethods'[id] = mMethods[id]
    BY <1>2 DEF RpcType
  <2> QED
    BY <1>1, <1>2, <2>1, <2>3, <2>4, <2>5, ProcessType
<1>4. CASE loop' = NoLoop /\ EventEnds(loop.http, loop.event) /\ UNCHANGED replies
  <2>1. loop.event \in {"status", "failure", "complete"}
    BY <1>1 DEF ErrorsLoop
  <2>2. Quieted(loop.http)
    BY <1>1, <1>4, <2>1, EventEndsQuiet
  <2>3. mReSendTimerID' \in {0, 1} /\ mNeedResendHttp' \in Nat
    BY <1>2 DEF RpcType
  <2> QED
    BY <1>1, <1>2, <1>4, <2>2, <2>3, QuietType
<1> QED
  BY <1>3, <1>4 DEF TellError, Tagged, Pending

\* So does the erasure after the handler has returned,
LEMMA ErrorToldType == RpcType /\ ErrorTold => RpcType'
<1> SUFFICES ASSUME RpcType, ErrorTold PROVE RpcType'
  OBVIOUS
<1>1. loop \in ErrorsLoop /\ InLoop /\ mMethods \in [Pending -> Method]
  BY LoopKinds DEF ErrorTold, RpcType
<1>2. /\ mMethods' = Without(mMethods, {loop.pos}) /\ loop' = [loop EXCEPT !.inside = FALSE]
      /\ UNCHANGED <<mHttps, mIdSeq, mReSendTimerID, mNeedResendHttp, sent, replies, fate>>
  BY DEF ErrorTold
<1>3. /\ Pending' = Pending \ {loop.pos} /\ mMethods' \in [Pending' -> Method]
      /\ \A id \in Pending' : mMethods'[id] = mMethods[id]
  BY <1>2, LeftFacts
<1>4. loop' \in ErrorsLoop /\ loop'.http = loop.http
  BY <1>1, <1>2 DEF ErrorsLoop
<1>5. replies' \in [1..MaxId -> Nat]
  BY <1>2 DEF RpcType
<1> QED
  BY <1>1, <1>2, <1>3, <1>4, <1>5, ProcessType

\* a step that tells a method its reply, or ends,
LEMMA TellReplyType == RpcType /\ TellReply => RpcType'
<1> SUFFICES ASSUME RpcType, TellReply PROVE RpcType'
  OBVIOUS
<1>1. /\ loop \in RepliesLoop /\ InLoop /\ loop.http \in 1..Len(mHttps)
      /\ mMethods \in [Pending -> Method] /\ replies \in [1..MaxId -> Nat]
  BY LoopKinds DEF TellReply, RpcType
<1>2. UNCHANGED <<mIdSeq, mReSendTimerID, mNeedResendHttp, sent, fate>>
  BY DEF TellReply
<1>3. CASE \E id \in loop.todo :
              /\ loop' = [loop EXCEPT !.todo = loop.todo \ {id}, !.inside = id \in Pending]
              /\ mMethods' = Without(mMethods, {id})
              /\ IF id \in Pending THEN Count(id) ELSE UNCHANGED replies
              /\ UNCHANGED mHttps
  <2>1. PICK id \in loop.todo :
              /\ loop' = [loop EXCEPT !.todo = loop.todo \ {id}, !.inside = id \in Pending]
              /\ mMethods' = Without(mMethods, {id})
              /\ IF id \in Pending THEN Count(id) ELSE UNCHANGED replies
              /\ UNCHANGED mHttps
    BY <1>3
  <2>2. /\ Pending' = Pending \ {id} /\ mMethods' \in [Pending' -> Method]
        /\ \A i \in Pending' : mMethods'[i] = mMethods[i]
    BY <2>1, LeftFacts
  <2>3. loop.todo \ {id} \in SUBSET Nat /\ (id \in Pending) \in BOOLEAN
    BY <1>1 DEF RepliesLoop
  <2>4. loop' \in RepliesLoop /\ loop'.http = loop.http
    BY <1>1, <2>1, <2>3 DEF RepliesLoop
  <2>5. replies' \in [1..MaxId -> Nat]
    BY <1>1, <2>1, CountType
  <2> QED
    BY <1>1, <1>2, <2>1, <2>2, <2>4, <2>5, ProcessType
<1>4. CASE loop' = NoLoop /\ EventEnds(loop.http, loop.event) /\ UNCHANGED <<mMethods, replies>>
  <2>1. loop.event \in {"status", "failure", "complete"}
    BY <1>1 DEF RepliesLoop
  <2>2. Quieted(loop.http)
    BY <1>1, <1>4, <2>1, EventEndsQuiet
  <2>3. mReSendTimerID' \in {0, 1} /\ mNeedResendHttp' \in Nat
    BY <1>2 DEF RpcType
  <2> QED
    BY <1>1, <1>2, <1>4, <2>2, <2>3, QuietType
<1> QED
  BY <1>3, <1>4 DEF TellReply

\* and the return of that handler.
LEMMA ReplyToldType == RpcType /\ ReplyTold => RpcType'
<1> SUFFICES ASSUME RpcType, ReplyTold PROVE RpcType'
  OBVIOUS
<1>1. loop \in RepliesLoop /\ InLoop
  BY LoopKinds DEF ReplyTold
<1>2. /\ loop' = [loop EXCEPT !.inside = FALSE]
      /\ UNCHANGED <<mHttps, mMethods, mIdSeq, mReSendTimerID, mNeedResendHttp, sent, replies>>
      /\ UNCHANGED fate
  BY DEF ReplyTold
<1>3. loop' \in RepliesLoop /\ loop'.http = loop.http
  BY <1>1, <1>2 DEF RepliesLoop
<1> QED
  BY <1>1, <1>2, <1>3 DEF RpcType, Pending

\* Every step of AEEJsonRpc keeps the types: ids, tags and positions stay in range.
THEOREM TypeStep == RpcType /\ [Next]_vars => RpcType'
<1> SUFFICES ASSUME RpcType, [Next]_vars PROVE RpcType'
  OBVIOUS
<1>1. ASSUME NEW n \in 1..MaxBatch, NEW owner \in [1..n -> Object], CallMethod(n, owner) PROVE RpcType'
  BY <1>1, CallType, RpcAssumption
<1>2. CASE CancelMethod
  BY <1>2, CancelType
<1>3. ASSUME NEW object \in Object, RemoveMethods(object) PROVE RpcType'
  BY <1>3, RemoveType
<1>4. CASE ReSendTimer
  <2>1. /\ ReSendRpcReq(mNeedResendHttp, mHttps) /\ mReSendTimerID' \in {0, 1}
        /\ UNCHANGED <<mIdSeq, mNeedResendHttp, replies>> /\ mHttps \in Seq(Http)
    BY <1>4 DEF ReSendTimer, RpcType
  <2> QED
    BY <2>1, MoveType
<1>5. ASSUME NEW h \in 1..Len(mHttps), Refused(h) PROVE RpcType'
  <2>1. /\ AtLoop /\ Quieted(h) /\ Emptied(h)
        /\ UNCHANGED <<mMethods, mIdSeq, mReSendTimerID, mNeedResendHttp, loop, replies, fate>>
    BY <1>5, RefusedQuiet DEF Refused
  <2>2. mReSendTimerID' \in {0, 1} /\ mNeedResendHttp' \in Nat /\ loop' = NoLoop
    BY <2>1 DEF RpcType, AtLoop
  <2> QED
    BY <2>1, <2>2, QuietType
<1>6. ASSUME NEW h \in 1..Len(mHttps), StatusError(h) PROVE RpcType'
  <2>1. /\ loop' = ErrorLoop(h, "status") /\ h \in Nat
        /\ UNCHANGED <<mHttps, mMethods, mIdSeq, mReSendTimerID, mNeedResendHttp, sent, replies>>
        /\ UNCHANGED fate
    BY <1>6 DEF StatusError
  <2>2. loop' \in ErrorsLoop /\ loop'.http = h
    BY <2>1, NewLoops
  <2> QED
    BY <2>1, <2>2 DEF RpcType, InLoop, Pending
<1>7. ASSUME NEW h \in 1..Len(mHttps), OtherServer(h) PROVE RpcType'
  <2>1. /\ ReSendRpcReq(h, [mHttps EXCEPT ![h] = Answered(@, "eRelease")])
        /\ UNCHANGED <<mIdSeq, mNeedResendHttp, replies>> /\ mReSendTimerID' \in {0, 1}
    BY <1>7 DEF OtherServer, RpcType
  <2> QED
    BY <2>1, RefusingPool, MoveType
<1>8. ASSUME NEW h \in 1..Len(mHttps), Ends(h) PROVE RpcType'
  BY <1>8, EndsType
<1>9. CASE Process
  BY <1>9, TellErrorType, ErrorToldType, TellReplyType, ReplyToldType DEF Process
<1>10. CASE UNCHANGED vars
  BY <1>10 DEF vars, RpcType, InLoop, Pending
<1> QED
  BY <1>1, <1>2, <1>3, <1>4, <1>5, <1>6, <1>7, <1>8, <1>9, <1>10 DEF Next

\* Ids, tags and positions are in range in every state of AEEJsonRpc.
THEOREM TypeCorrect == Spec => []RpcType
  BY InitType, TypeStep, PTL DEF Spec

-----------------------------------------------------------------------------
(* Busy objects *)

\* An object that listens after a step did so before, for the same request, or
\* has got a request with all methods of its tag.
LEMMA ListenStep ==
    ASSUME RpcType, [Next]_vars, NEW g \in 1..Len(mHttps'), Listens(mHttps'[g])
    PROVE  \/ g \in 1..Len(mHttps) /\ mHttps'[g] = mHttps[g] /\ sent'[g] = sent[g]
           \/ IsRequesting(mHttps'[g]) /\ sent'[g] = Tagged(mMethods', g)
<1> DEFINE Goal == \/ g \in 1..Len(mHttps) /\ mHttps'[g] = mHttps[g] /\ sent'[g] = sent[g]
                   \/ IsRequesting(mHttps'[g]) /\ sent'[g] = Tagged(mMethods', g)
<1>1. ASSUME NEW n \in 1..MaxBatch, NEW owner \in [1..n -> Object], CallMethod(n, owner) PROVE Goal
  <2>1. n \in Nat
    BY RpcAssumption
  <2>2. PICK h \in 1..Len(mHttps)+1 :
            \E methods : /\ IdleHttp(h) /\ SendRpcReq(h, With(mHttps, h), methods)
                         /\ IsCalled(n, h, methods)
    BY <1>1, <2>1, CallFacts
  <2>3. PICK methods : /\ SendRpcReq(h, With(mHttps, h), methods)
                       /\ IsCalled(n, h, methods)
    BY <2>2
  <2>4. /\ methods \in [DOMAIN methods -> Method] /\ DOMAIN methods \subseteq Nat
        /\ mHttps \in Seq(Http)
    BY <2>3 DEF IsCalled, RpcType
  <2>5. /\ \A i \in 1..Len(mHttps') \ {h} :
              /\ i \in 1..Len(mHttps)
              /\ mHttps'[i] = mHttps[i] /\ sent'[i] = sent[i]
        /\ Listens(mHttps'[h]) =>
              \/ /\ h \in 1..Len(mHttps) /\ mHttps'[h] = mHttps[h] /\ sent'[h] = sent[h]
              \/ /\ IsRequesting(mHttps'[h])
                 /\ sent'[h] = Tagged(methods, h) /\ mMethods' = methods
    BY <2>3, <2>4, SendFacts
  <2> QED
    BY <2>5
<1>2. ASSUME NEW old, NEW https \in Seq(Http), Len(https) = Len(mHttps),
             \A i \in 1..Len(mHttps) : Listens(https[i]) => https[i] = mHttps[i],
             ReSendRpcReq(old, https)
      PROVE  Goal
  <2>1. PICK h \in 1..Len(mHttps)+1 : SendRpcReq(h, With(https, h), Moved(old, h))
    BY <1>2, MoveFacts
  <2> DEFINE methods == Moved(old, h)
  <2>2. h \in Nat
    OBVIOUS
  <2>3. DOMAIN methods = Pending /\ methods \in [DOMAIN methods -> Method]
    BY <2>2, MovedFacts
  <2>4. DOMAIN methods \subseteq Nat /\ SendRpcReq(h, With(https, h), methods)
    BY <2>1, <2>3 DEF RpcType
  <2> HIDE DEF methods
  <2>5. /\ \A i \in 1..Len(mHttps') \ {h} :
              /\ i \in 1..Len(mHttps)
              /\ mHttps'[i] = https[i] /\ sent'[i] = sent[i]
        /\ Listens(mHttps'[h]) =>
              \/ /\ h \in 1..Len(mHttps) /\ mHttps'[h] = mHttps[h] /\ sent'[h] = sent[h]
              \/ /\ IsRequesting(mHttps'[h])
                 /\ sent'[h] = Tagged(methods, h) /\ mMethods' = methods
    BY <1>2, <2>3, <2>4, SendFacts
  <2> QED
    BY <1>2, <2>5
<1>3. CASE CancelMethod
  BY <1>3 DEF CancelMethod
<1>4. ASSUME NEW object \in Object, RemoveMethods(object) PROVE Goal
  BY <1>4, RemovedQuiet
<1>5. CASE ReSendTimer
  <2>1. ReSendRpcReq(mNeedResendHttp, mHttps) /\ mHttps \in Seq(Http)
    BY <1>5 DEF ReSendTimer, RpcType
  <2> QED
    BY <1>2, <2>1
<1>6. ASSUME NEW h \in 1..Len(mHttps), Refused(h) \/ Ends(h) PROVE Goal
  <2>1. Quieted(h) /\ Emptied(h)
    BY <1>6, RefusedQuiet, EndsQuiet
  <2> QED
    BY <2>1 DEF Quieted, Emptied, RpcType
<1>7. ASSUME NEW h \in 1..Len(mHttps), OtherServer(h) PROVE Goal
  <2>1. ReSendRpcReq(h, [mHttps EXCEPT ![h] = Answered(@, "eRelease")])
    BY <1>7 DEF OtherServer
  <2> QED
    BY <1>2, <2>1, RefusingPool
<1>8. ASSUME NEW h \in 1..Len(mHttps), StatusError(h) PROVE Goal
  BY <1>8 DEF StatusError
<1>9. CASE UNCHANGED <<mHttps, sent>>
  BY <1>9
<1>10. CASE Process /\ ~UNCHANGED mHttps
  <2>1. /\ loop.kind \in {"errors", "replies"}
        /\ EventEnds(loop.http, loop.event) /\ UNCHANGED sent
    BY <1>10 DEF Process, TellError, ErrorTold, TellReply, ReplyTold
  <2>2. loop.http \in 1..Len(mHttps) /\ loop.event \in {"status", "failure", "complete"}
    BY <2>1, LoopKinds DEF RpcType, ErrorsLoop, RepliesLoop
  <2>3. Quieted(loop.http)
    BY <2>1, <2>2, EventEndsQuiet
  <2> QED
    BY <2>1, <2>3 DEF Quieted
<1>11. Process => UNCHANGED sent
  BY DEF Process, TellError, ErrorTold, TellReply, ReplyTold
<1>12. UNCHANGED vars => UNCHANGED <<mHttps, sent>>
  BY DEF vars
<1> QED
  BY <1>1, <1>3, <1>4, <1>5, <1>6, <1>7, <1>8, <1>9, <1>10, <1>11, <1>12 DEF Next

\* Every step keeps an object that listens busy.
THEOREM ListeningStep == RpcType /\ Listening /\ [Next]_vars => Listening'
<1> SUFFICES ASSUME RpcType, Listening, [Next]_vars,
                    NEW g \in 1..Len(mHttps'), Listens(mHttps'[g])
             PROVE  IsRequesting(mHttps'[g])
  BY DEF Listening
<1>1. \/ g \in 1..Len(mHttps) /\ mHttps'[g] = mHttps[g]
      \/ IsRequesting(mHttps'[g])
  BY ListenStep
<1> QED
  BY <1>1 DEF Listening

\* An object that listens to a request is busy, also while handlers run.
THEOREM ListeningCorrect == Spec => []Listening
<1>1. Init => Listening
  BY DEF Init, Listening
<1> QED
  BY <1>1, TypeCorrect, ListeningStep, PTL DEF Spec

\* For any pool, any server and any calls from handlers, an object that listens to
\* a request counts as busy, so that getIdleHttp() gives it to no other call.
THEOREM BusyCorrect == Spec => []BusyWhileListening
<1>1. Listening => BusyWhileListening
  BY DEF Listening, BusyWhileListening
<1> QED
  BY <1>1, ListeningCorrect, PTL
-----------------------------------------------------------------------------
(* The promise to the caller *)

\* A handler that is still to be told has not been told, nor has one that is still
\* to be given.
CallsInv ==
    /\ \A id \in 1..MaxId : id > mIdSeq => replies[id] = 0
    /\ \A id \in Pending : Waits(id) => replies[id] = 0

\* What becomes of a call, before and after a step.
LEMMA StatusFacts ==
    /\ \A id \in 1..MaxId :
          Status[id] = IF id > mIdSeq THEN "new"
                       ELSE IF Waits(id) THEN "waiting"
                       ELSE IF replies[id] > 0 THEN "replied" ELSE "gone"
    /\ \A id \in 1..MaxId :
          Status'[id] = IF id > mIdSeq' THEN "new"
                        ELSE IF Waits(id)' THEN "waiting"
                        ELSE IF replies'[id] > 0 THEN "replied" ELSE "gone"
  BY DEF Status

\* A step in which no handler is told and no method waits that did not, but new ones.
LEMMA KeepStep ==
    ASSUME RpcType, RpcType', CallsInv, UNCHANGED replies, mIdSeq <= mIdSeq',
           \A id \in 1..mIdSeq : Waits(id)' => Waits(id)
    PROVE  CallsInv' /\ Calls!Call
<1>1. mIdSeq \in Nat /\ mIdSeq' \in Nat /\ mIdSeq <= MaxId /\ mIdSeq' <= MaxId /\ MaxId \in Nat
  BY RpcAssumption DEF RpcType
<1>2. /\ \A id \in 1..MaxId : id > mIdSeq => replies'[id] = 0
      /\ \A id \in 1..mIdSeq : Waits(id) => replies'[id] = 0
  BY DEF CallsInv, Waits
<1>3. Pending' \subseteq 1..mIdSeq'
  BY DEF RpcType
<1>4. CallsInv'
  <2>1. \A id \in 1..MaxId : id > mIdSeq' => replies'[id] = 0
    BY <1>1, <1>2
  <2>2. ASSUME NEW id \in Pending', Waits(id)' PROVE replies'[id] = 0
    <3>1. CASE id > mIdSeq
      BY <1>1, <1>2, <1>3, <3>1
    <3>2. CASE id <= mIdSeq
      <4>1. id \in 1..mIdSeq
        BY <1>1, <1>3, <3>2
      <4> QED
        BY <4>1, <2>2, <1>2
    <3> QED
      BY <1>1, <1>3, <3>1, <3>2
  <2> QED
    BY <2>1, <2>2 DEF CallsInv
<1>5. ASSUME NEW id \in 1..MaxId
      PROVE  \/ Status'[id] = Status[id]
             \/ Status[id] = "new" /\ Status'[id] \in {"waiting", "gone"}
             \/ Status[id] = "waiting" /\ Status'[id] = "gone"
  <2>1. Status[id] = IF id > mIdSeq THEN "new"
                     ELSE IF Waits(id) THEN "waiting"
                     ELSE IF replies[id] > 0 THEN "replied" ELSE "gone"
    BY StatusFacts
  <2>2. Status'[id] = IF id > mIdSeq' THEN "new"
                      ELSE IF Waits(id)' THEN "waiting"
                      ELSE IF replies'[id] > 0 THEN "replied" ELSE "gone"
    BY StatusFacts
  <2>3. replies'[id] = replies[id]
    OBVIOUS
  <2>4. CASE id > mIdSeq
    BY <1>1, <1>2, <2>1, <2>2, <2>4
  <2>5. CASE id <= mIdSeq
    <3>1. id \in 1..mIdSeq /\ id <= mIdSeq'
      BY <1>1, <2>5
    <3>2. CASE Waits(id)
      BY <1>1, <1>2, <2>1, <2>2, <2>5, <3>1, <3>2
    <3>3. CASE ~Waits(id)
      BY <1>1, <2>1, <2>2, <2>3, <2>5, <3>1, <3>3
    <3> QED
      BY <3>2, <3>3
  <2> QED
    BY <1>1, <2>4, <2>5
<1> QED
  BY <1>4, <1>5 DEF Calls!Call

\* A step in which the handler of the method id is told.
LEMMA TellStep ==
    ASSUME RpcType, RpcType', CallsInv, NEW id \in Pending, Count(id), UNCHANGED mIdSeq,
           Waits(id), ~Waits(id)', \A i \in 1..MaxId : i # id => (Waits(i)' <=> Waits(i))
    PROVE  CallsInv' /\ Calls!Reply(id) /\ id \in 1..MaxId
<1>1. mIdSeq \in Nat /\ mIdSeq <= MaxId /\ id \in 1..mIdSeq /\ id \in 1..MaxId /\ MaxId \in Nat
  <2>1. mIdSeq \in 0..MaxId /\ Pending \subseteq 1..mIdSeq /\ MaxId \in Nat
    BY RpcAssumption DEF RpcType
  <2> QED
    BY <2>1
<1>2. replies'[id] > 0 /\ \A i \in 1..MaxId : i # id => replies'[i] = replies[i]
  BY CountType
<1>3. Pending' \subseteq 1..MaxId
  BY <1>1 DEF RpcType
<1>4. CallsInv'
  <2>1. \A i \in 1..MaxId : i > mIdSeq' => replies'[i] = 0
    BY <1>1, <1>2 DEF CallsInv
  <2>2. ASSUME NEW i \in Pending', Waits(i)' PROVE replies'[i] = 0
    <3>1. i \in 1..MaxId /\ i # id
      BY <1>3, <2>2
    <3>2. Waits(i) /\ replies'[i] = replies[i]
      BY <1>2, <2>2, <3>1
    <3> QED
      BY <3>2 DEF CallsInv, Waits
  <2> QED
    BY <2>1, <2>2 DEF CallsInv
<1>5. Status[id] = "waiting" /\ Status'[id] = "replied"
  BY <1>1, <1>2, StatusFacts
<1>6. ASSUME NEW i \in 1..MaxId, i # id PROVE Status'[i] = Status[i]
  <2>1. replies'[i] = replies[i] /\ (Waits(i)' <=> Waits(i))
    BY <1>2, <1>6
  <2> QED
    BY <2>1, StatusFacts
<1>7. Status = [i \in 1..MaxId |-> Status[i]] /\ Status' = [i \in 1..MaxId |-> Status'[i]]
  BY DEF Status
<1> HIDE DEF Status
<1>8. Status' = [Status EXCEPT ![id] = "replied"]
  BY <1>1, <1>5, <1>6, <1>7
<1> QED
  BY <1>1, <1>4, <1>5, <1>8 DEF Calls!Reply

\* A call or a removal lets no method wait that did not.
LEMMA SparedWaits ==
    ASSUME Spared, NEW ids, \A id \in ids : id \in Pending' => id \in Pending
    PROVE  \A id \in ids : Waits(id)' => Waits(id)
  BY DEF Spared, Waits, BeingTold, InHandler

\* Any step: the promise is kept, and it is a step of RpcCalls or none.
LEMMA PromiseStep ==
    ASSUME RpcType, RpcType', CallsInv, [Next]_vars
    PROVE  CallsInv' /\ [Calls!Next]_Status
<1> DEFINE Kept == /\ UNCHANGED replies /\ mIdSeq <= mIdSeq'
                   /\ \A id \in 1..mIdSeq : Waits(id)' => Waits(id)
           Telling(id) == /\ Count(id) /\ UNCHANGED mIdSeq /\ Waits(id) /\ ~Waits(id)'
                          /\ \A i \in 1..MaxId : i # id => (Waits(i)' <=> Waits(i))
<1>0. mIdSeq \in Nat
  BY DEF RpcType
<1>1. ASSUME NEW n \in 1..MaxBatch, NEW owner \in [1..n -> Object], CallMethod(n, owner) PROVE Kept
  <2>1. n \in Nat
    BY RpcAssumption
  <2>2. PICK h \in 1..Len(mHttps)+1 :
            \E methods : /\ IdleHttp(h) /\ SendRpcReq(h, With(mHttps, h), methods)
                         /\ IsCalled(n, h, methods)
    BY <1>1, <2>1, CallFacts
  <2>3. PICK methods : /\ SendRpcReq(h, With(mHttps, h), methods)
                       /\ IsCalled(n, h, methods)
    BY <2>2
  <2>4. /\ methods \in [DOMAIN methods -> Method] /\ DOMAIN methods \subseteq Nat
        /\ mHttps \in Seq(Http)
    BY <2>3 DEF IsCalled, RpcType
  <2>5. Pending' \subseteq DOMAIN methods /\ Spared
    BY <2>3, <2>4, SendFacts
  <2>6. mIdSeq' = mIdSeq + n /\ UNCHANGED replies
    BY <1>1, <2>1, CallFacts
  <2>7. \A id \in 1..mIdSeq : id \in Pending' => id \in Pending
    BY <1>0, <2>3, <2>5 DEF IsCalled, NewIds
  <2>8. \A id \in 1..mIdSeq : Waits(id)' => Waits(id)
    BY <2>5, <2>7, SparedWaits
  <2> QED
    BY <1>0, <2>1, <2>6, <2>8
<1>2. ASSUME NEW old, NEW https \in Seq(Http), Len(https) = Len(mHttps),
             \A i \in 1..Len(mHttps) : Listens(https[i]) => https[i] = mHttps[i],
             ReSendRpcReq(old, https), UNCHANGED <<mIdSeq, replies>>
      PROVE  Kept
  <2>1. PICK h \in 1..Len(mHttps)+1 : SendRpcReq(h, With(https, h), Moved(old, h))
    BY <1>2, MoveFacts
  <2> DEFINE methods == Moved(old, h)
  <2>2. h \in Nat
    OBVIOUS
  <2>3. DOMAIN methods = Pending /\ methods \in [DOMAIN methods -> Method]
    BY <2>2, MovedFacts
  <2>4. DOMAIN methods \subseteq Nat /\ SendRpcReq(h, With(https, h), methods)
    BY <2>1, <2>3 DEF RpcType
  <2> HIDE DEF methods
  <2>5. Pending' \subseteq Pending /\ Spared
    BY <1>2, <2>3, <2>4, SendFacts
  <2>6. \A id \in 1..mIdSeq : Waits(id)' => Waits(id)
    BY <2>5, SparedWaits
  <2> QED
    BY <1>0, <1>2, <2>6
<1>3. ASSUME CancelMethod PROVE Kept
  BY <1>0, <1>3 DEF CancelMethod, NoMethod, Waits, Pending
<1>4. ASSUME NEW object \in Object, RemoveMethods(object) PROVE Kept
  <2>1. Pending' \subseteq Pending /\ UNCHANGED <<mIdSeq, replies>>
    BY <1>4, LeftFacts DEF RemoveMethods
  <2>2. Spared
    BY <1>4, RemoveSpares
  <2>3. \A id \in 1..mIdSeq : Waits(id)' => Waits(id)
    BY <2>1, <2>2, SparedWaits
  <2> QED
    BY <1>0, <2>1, <2>3
<1>5. ASSUME ReSendTimer PROVE Kept
  <2>1. /\ ReSendRpcReq(mNeedResendHttp, mHttps) /\ mHttps \in Seq(Http)
        /\ UNCHANGED <<mIdSeq, replies>>
    BY <1>5 DEF ReSendTimer, RpcType
  <2> QED
    BY <1>2, <2>1
<1>6. ASSUME NEW h \in 1..Len(mHttps), OtherServer(h) PROVE Kept
  <2>1. /\ ReSendRpcReq(h, [mHttps EXCEPT ![h] = Answered(@, "eRelease")])
        /\ UNCHANGED <<mIdSeq, replies>>
    BY <1>6 DEF OtherServer
  <2> QED
    BY <1>2, <2>1, RefusingPool
<1>7. ASSUME NEW h \in 1..Len(mHttps), Refused(h) \/ StatusError(h) \/ Ends(h) PROVE Kept
  <2>1. AtLoop /\ UNCHANGED <<mMethods, mIdSeq, replies>>
    BY <1>7 DEF Refused, StatusError, Ends, Failure, CompleteBody, CompleteOther
  <2> QED
    BY <1>0, <2>1 DEF Waits, BeingTold, InHandler, AtLoop, Pending
<1>8. ASSUME ErrorTold PROVE Kept
  <2>1. Pending' = Pending \ {loop.pos}
    BY <1>8, LeftFacts DEF ErrorTold
  <2> QED
    BY <1>0, <1>8, <2>1 DEF ErrorTold, Waits, BeingTold
<1>9. ASSUME ReplyTold PROVE Kept
  BY <1>0, <1>9 DEF ReplyTold, Waits, BeingTold, Pending
<1>10. ASSUME TellError PROVE Kept \/ \E id \in Pending : Telling(id)
  <2>1. loop \in ErrorsLoop /\ ~loop.inside
    BY <1>10, LoopKinds DEF TellError
  <2>2. ASSUME NEW next \in Pending, loop' = [loop EXCEPT !.pos = next, !.inside = TRUE],
               Count(next), UNCHANGED <<mMethods, mIdSeq>>
        PROVE  Telling(next)
    <3>1. loop'.kind = "errors" /\ loop'.pos = next /\ loop'.inside /\ loop' # NoLoop
      BY <2>1, <2>2 DEF ErrorsLoop, NoLoop
    <3> QED
      BY <2>1, <2>2, <3>1 DEF Waits, BeingTold, InHandler, Pending
  <2>3. ASSUME loop' = NoLoop, UNCHANGED <<mMethods, mIdSeq, replies>> PROVE Kept
    BY <1>0, <2>1, <2>3 DEF Waits, BeingTold, InHandler, Pending
  <2>4. Tagged(mMethods, loop.http) \subseteq Pending
    BY DEF Tagged, Pending
  <2> QED
    <3>1. UNCHANGED <<mMethods, mIdSeq>>
      BY <1>10 DEF TellError
    <3>2. \/ \E next \in Pending :
                loop' = [loop EXCEPT !.pos = next, !.inside = TRUE] /\ Count(next)
          \/ loop' = NoLoop /\ UNCHANGED replies
      BY <1>10, <2>4 DEF TellError
    <3> HIDE DEF Kept, Telling
    <3> QED
      BY <2>2, <2>3, <3>1, <3>2
<1>11. ASSUME TellReply PROVE Kept \/ \E id \in Pending : Telling(id)
  <2>1. loop \in RepliesLoop /\ ~loop.inside /\ loop.kind = "replies"
    BY <1>11, LoopKinds DEF TellReply
  <2>2. ASSUME NEW id, id \in Pending, mMethods' = Without(mMethods, {id}),
               loop'.kind = "replies", Count(id), UNCHANGED mIdSeq
        PROVE  Telling(id)
    <3>1. Pending' = Pending \ {id}
      BY <2>2, LeftFacts
    <3> QED
      BY <2>1, <2>2, <3>1 DEF Waits, BeingTold
  <2>3. ASSUME NEW id, id \notin Pending, mMethods' = Without(mMethods, {id}),
               loop'.kind = "replies", UNCHANGED <<replies, mIdSeq>>
        PROVE  Kept
    <3>1. Pending' = Pending \ {id}
      BY <2>3, LeftFacts
    <3> QED
      BY <1>0, <2>1, <2>3, <3>1 DEF Waits, BeingTold
  <2>4. ASSUME loop' = NoLoop, UNCHANGED <<mMethods, mIdSeq, replies>> PROVE Kept
    BY <1>0, <2>1, <2>4 DEF Waits, BeingTold, InHandler, Pending
  <2>5. UNCHANGED mIdSeq
    BY <1>11 DEF TellReply
  <2>6. \/ \E id \in loop.todo :
              /\ loop' = [loop EXCEPT !.todo = loop.todo \ {id}, !.inside = id \in Pending]
              /\ mMethods' = Without(mMethods, {id})
              /\ IF id \in Pending THEN Count(id) ELSE UNCHANGED replies
        \/ loop' = NoLoop /\ UNCHANGED <<mMethods, replies>>
    BY <1>11 DEF TellReply
  <2>7. ASSUME NEW id, loop' = [loop EXCEPT !.todo = loop.todo \ {id}, !.inside = id \in Pending]
        PROVE  loop'.kind = "replies"
    BY <2>1, <2>7 DEF RepliesLoop
  <2> HIDE DEF Kept, Telling
  <2>8. CASE loop' = NoLoop /\ UNCHANGED <<mMethods, replies>>
    BY <2>4, <2>5, <2>8
  <2>9. ASSUME NEW id \in loop.todo,
               loop' = [loop EXCEPT !.todo = loop.todo \ {id}, !.inside = id \in Pending],
               mMethods' = Without(mMethods, {id}),
               IF id \in Pending THEN Count(id) ELSE UNCHANGED replies
        PROVE  Kept \/ \E i \in Pending : Telling(i)
    BY <2>2, <2>3, <2>5, <2>7, <2>9
  <2> QED
    BY <2>6, <2>8, <2>9
<1>12. ASSUME UNCHANGED vars PROVE Kept
  BY <1>0, <1>12 DEF vars, Waits, BeingTold, InHandler, Pending
<1>13. ASSUME Kept PROVE CallsInv' /\ [Calls!Next]_Status
  BY <1>13, KeepStep DEF Calls!Next
<1>14. ASSUME NEW id \in Pending, Telling(id) PROVE CallsInv' /\ [Calls!Next]_Status
  BY <1>14, TellStep DEF Calls!Next
<1>15. Kept \/ \E id \in Pending : Telling(id)
  <2> HIDE DEF Kept, Telling
  <2> QED
    BY <1>1, <1>3, <1>4, <1>5, <1>6, <1>7, <1>8, <1>9, <1>10, <1>11, <1>12 DEF Next, Process
<1> HIDE DEF Kept, Telling
<1> QED
  BY <1>13, <1>14, <1>15

\* For any pool, any server and any calls, removals and cancellations from the event loop
\* and from handlers, as long as nothing process() uses is freed, in each step a method is
\* given or dropped, or one handler is told: no handler is told twice, or after its
\* method was cancelled or removed.
THEOREM ImplementsCalls == Spec => RpcSpec
<1>1. Init => RpcType /\ CallsInv /\ Calls!Init
  <2>1. Init => CallsInv
    BY RpcAssumption DEF Init, CallsInv, Pending, NoMethod
  <2>2. Init => Calls!Init
    BY RpcAssumption DEF Init, Calls!Init, Status
  <2> QED
    BY <2>1, <2>2, InitType
<1>2. RpcType /\ CallsInv /\ [Next]_vars => RpcType' /\ CallsInv' /\ [Calls!Next]_Status
  BY TypeStep, PromiseStep
<1> QED
  BY <1>1, <1>2, PTL DEF Spec, RpcSpec, Calls!Spec
-----------------------------------------------------------------------------
(* One request for a method *)

\* Without responses of a foreign protocol nothing is sent again by the timer, and
\* a method that is in a request that is listened to has that object's tag.
SentInv ==
    /\ mReSendTimerID = 0
    /\ \A g \in 1..Len(mHttps) : Listens(mHttps[g]) =>
          \A id \in sent[g] : id \in Pending => mMethods[id].http = g
    /\ InOneRequest

\* The steps that send nothing leave the methods that stay pending as they are.
LEMMA LeftStep ==
    ASSUME RpcType, [Next]_vars,
           ~ \E n \in 1..MaxBatch : \E owner \in [1..n -> Object] : CallMethod(n, owner),
           ~ReSendTimer, ~ \E h \in 1..Len(mHttps) : OtherServer(h)
    PROVE  Pending' \subseteq Pending /\ \A id \in Pending' : mMethods'[id] = mMethods[id]
<1> DEFINE Dropped == \E ids : mMethods' = Without(mMethods, ids)
<1>1. CASE UNCHANGED mMethods
  BY <1>1 DEF Pending
<1>2. CASE Dropped
  BY <1>2, LeftFacts
<1>3. CASE mMethods' = NoMethod
  BY <1>3 DEF NoMethod, Pending
<1>4. ASSUME NEW object \in Object, RemoveMethods(object) PROVE Dropped
  BY <1>4 DEF RemoveMethods
<1>5. ErrorTold => Dropped
  BY DEF ErrorTold
<1>6. TellReply => Dropped \/ UNCHANGED mMethods
  BY DEF TellReply
<1>7. ASSUME NEW h \in 1..Len(mHttps), Refused(h) \/ StatusError(h) \/ Ends(h)
      PROVE  UNCHANGED mMethods
  BY <1>7 DEF Refused, StatusError, Ends, Failure, CompleteBody, CompleteOther
<1>8. TellError \/ ReplyTold \/ UNCHANGED vars => UNCHANGED mMethods
  BY DEF TellError, ReplyTold, vars
<1>9. CancelMethod => mMethods' = NoMethod
  BY DEF CancelMethod
<1> HIDE DEF Dropped
<1> QED
  BY <1>1, <1>2, <1>3, <1>4, <1>5, <1>6, <1>7, <1>8, <1>9 DEF Next, Process

\* What a call does to the tags: the methods that were pending keep theirs, and the
\* new ones have the tag of an object that had no request.
TagsOfCall(h) ==
    /\ IdleHttp(h)
    /\ \A id \in Pending' :
          \/ id \in Pending /\ mMethods'[id] = mMethods[id]
          \/ id > mIdSeq /\ mMethods'[id].http = h
    /\ \A g \in 1..Len(mHttps') \ {h} :
          g \in 1..Len(mHttps) /\ mHttps'[g] = mHttps[g] /\ sent'[g] = sent[g]
    /\ \A id \in Pending' :
          IF mMethods'[id].http = h THEN Listens(mHttps'[h]) /\ id \in sent'[h]
                                    ELSE fate'[id] = fate[id]
    /\ Spared

\* callMethod() tags the new methods with an object that had no request.
LEMMA CallTags ==
    ASSUME RpcType, NEW n \in 1..MaxBatch, NEW owner \in [1..n -> Object], CallMethod(n, owner)
    PROVE  \E h \in 1..Len(mHttps)+1 : TagsOfCall(h)
<1>1. n \in Nat
  BY RpcAssumption
<1>2. PICK h \in 1..Len(mHttps)+1 :
          \E methods : /\ IdleHttp(h) /\ SendRpcReq(h, With(mHttps, h), methods)
                       /\ IsCalled(n, h, methods)
  BY <1>1, CallFacts
<1>3. PICK methods : /\ SendRpcReq(h, With(mHttps, h), methods)
                     /\ IsCalled(n, h, methods)
  BY <1>2
<1>4. /\ methods \in [DOMAIN methods -> Method] /\ DOMAIN methods \subseteq Nat
      /\ mHttps \in Seq(Http)
  BY <1>3 DEF IsCalled, RpcType
<1>5. /\ Pending' \subseteq DOMAIN methods
      /\ \A id \in Pending' : mMethods'[id] = methods[id]
      /\ \A g \in 1..Len(mHttps') \ {h} :
            g \in 1..Len(mHttps) /\ mHttps'[g] = mHttps[g] /\ sent'[g] = sent[g]
      /\ \A id \in Pending' : mMethods'[id].http = h => Listens(mHttps'[h]) /\ id \in sent'[h]
      /\ \A id \in Pending' : mMethods'[id].http # h /\ id \in 1..MaxId => fate'[id] = fate[id]
      /\ Spared
  BY <1>3, <1>4, SendFacts
<1>6. mIdSeq \in Nat
  BY DEF RpcType
<1>7. \A id \in NewIds(n) : id > mIdSeq
  BY <1>1, <1>6 DEF NewIds
<1>8. \A id \in Pending' :
          \/ id \in Pending /\ mMethods'[id] = mMethods[id]
          \/ id > mIdSeq /\ mMethods'[id].http = h
  BY <1>3, <1>5, <1>7 DEF IsCalled
<1>9. Pending' \subseteq 1..MaxId
  <2>1. mIdSeq + n <= MaxId
    BY CallFacts, <1>1
  <2> QED
    BY <1>1, <1>3, <1>5, <1>6, <2>1, RpcAssumption DEF IsCalled
<1> QED
  BY <1>2, <1>5, <1>8, <1>9 DEF TagsOfCall

\* A response from the wrong server moves the methods of its object to another,
\* which had no request, and the object listens no more.
LEMMA OtherTags ==
    ASSUME RpcType, Listening, NEW old \in 1..Len(mHttps), OtherServer(old)
    PROVE  \E h \in 1..Len(mHttps)+1 :
              /\ IdleHttp(h) /\ h # old
              /\ Pending' \subseteq Pending
              /\ \A id \in Pending' :
                    mMethods'[id].http = IF mMethods[id].http = old THEN h
                                                                    ELSE mMethods[id].http
              /\ old \in 1..Len(mHttps') /\ ~Listens(mHttps'[old])
              /\ \A g \in 1..Len(mHttps') \ {h, old} :
                    g \in 1..Len(mHttps) /\ mHttps'[g] = mHttps[g] /\ sent'[g] = sent[g]
              /\ \A id \in Pending' :
                    IF mMethods'[id].http = h THEN Listens(mHttps'[h]) /\ id \in sent'[h]
                                              ELSE fate'[id] = fate[id]
              /\ Spared
<1> DEFINE https == [mHttps EXCEPT ![old] = Answered(@, "eRelease")]
<1>1. /\ https \in Seq(Http) /\ Len(https) = Len(mHttps)
      /\ ~Listens(https[old])
      /\ \A g \in 1..Len(mHttps) : g # old => https[g] = mHttps[g]
      /\ \A g \in 1..Len(mHttps) : Listens(https[g]) => https[g] = mHttps[g]
  BY RefusingPool
<1>2. ReSendRpcReq(old, https) /\ Listens(mHttps[old])
  BY DEF OtherServer
<1> HIDE DEF https
<1>3. PICK h \in 1..Len(mHttps)+1 : IdleHttp(h) /\ SendRpcReq(h, With(https, h), Moved(old, h))
  BY <1>2, MoveFacts
<1>4. h # old
  BY <1>2, <1>3 DEF Listening, IdleHttp
<1> DEFINE methods == Moved(old, h)
<1>5. h \in Nat
  OBVIOUS
<1>6. /\ DOMAIN methods = Pending
      /\ methods \in [DOMAIN methods -> Method]
      /\ \A id \in Pending :
            methods[id].http = IF mMethods[id].http = old THEN h ELSE mMethods[id].http
  BY <1>5, MovedFacts
<1>7. DOMAIN methods \subseteq Nat /\ SendRpcReq(h, With(https, h), methods)
  BY <1>3, <1>6 DEF RpcType
<1> HIDE DEF methods
<1>8. /\ Len(mHttps') = IF h > Len(mHttps) THEN h ELSE Len(mHttps)
      /\ Pending' \subseteq DOMAIN methods
      /\ \A id \in Pending' : mMethods'[id] = methods[id]
      /\ \A g \in 1..Len(mHttps') \ {h} :
            g \in 1..Len(mHttps) /\ mHttps'[g] = https[g] /\ sent'[g] = sent[g]
      /\ \A id \in Pending' : mMethods'[id].http = h => Listens(mHttps'[h]) /\ id \in sent'[h]
      /\ \A id \in Pending' : mMethods'[id].http # h /\ id \in 1..MaxId => fate'[id] = fate[id]
      /\ Spared
  BY SMTT(30), <1>1, <1>6, <1>7, SendFacts
<1>9. Len(mHttps) \in Nat
  BY DEF RpcType
<1>10. old \in 1..Len(mHttps') /\ ~Listens(mHttps'[old])
  BY <1>1, <1>4, <1>8, <1>9
<1>11. \A g \in 1..Len(mHttps') \ {h, old} :
          g \in 1..Len(mHttps) /\ mHttps'[g] = mHttps[g] /\ sent'[g] = sent[g]
  BY <1>1, <1>8
<1>12. \A id \in Pending' :
          mMethods'[id].http = IF mMethods[id].http = old THEN h ELSE mMethods[id].http
  BY <1>6, <1>8
<1>13. Pending' \subseteq 1..MaxId
  BY <1>6, <1>8, RpcAssumption DEF RpcType
<1> QED
  BY <1>3, <1>4, <1>6, <1>8, <1>10, <1>11, <1>12, <1>13

\* A method that is pending after a step is new, or keeps its tag, or its object
\* listens no more.
LEMMA TagStep ==
    ASSUME RpcType, Listening, mReSendTimerID = 0, [Next]_vars, NEW id \in Pending'
    PROVE  \/ id > mIdSeq
           \/ id \in Pending /\ mMethods'[id].http = mMethods[id].http
           \/ id \in Pending /\ ~Listens(mHttps'[mMethods[id].http])
<1>1. CASE \E n \in 1..MaxBatch : \E owner \in [1..n -> Object] : CallMethod(n, owner)
  BY <1>1, CallTags DEF TagsOfCall
<1>2. CASE \E h \in 1..Len(mHttps) : OtherServer(h)
  <2>1. PICK old \in 1..Len(mHttps) : OtherServer(old)
    BY <1>2
  <2>2. /\ Pending' \subseteq Pending /\ ~Listens(mHttps'[old])
        /\ mMethods[id].http # old => mMethods'[id].http = mMethods[id].http
    BY <2>1, OtherTags
  <2> QED
    BY <2>2
<1>3. ~ReSendTimer
  BY DEF ReSendTimer
<1> QED
  BY <1>1, <1>2, <1>3, LeftStep

\* Every step keeps a method in one request, if the timer never sends again.
THEOREM SentStep ==
    ASSUME "foreign" \notin Outcomes
    PROVE  RpcType /\ RpcType' /\ Listening /\ SentInv /\ [Next]_vars => SentInv'
<1> SUFFICES ASSUME RpcType, RpcType', Listening, SentInv, [Next]_vars PROVE SentInv'
  OBVIOUS
<1>1. mReSendTimerID' = 0
  BY DEF SentInv, Next, vars, CallMethod, CancelMethod, RemoveMethods, ReSendTimer, Refused,
         StatusError, OtherServer, Ends, Failure, CompleteBody, CompleteOther, Process,
         TellError, ErrorTold, TellReply, ReplyTold
<1>2. ASSUME NEW g \in 1..Len(mHttps'), Listens(mHttps'[g]), NEW id \in sent'[g], id \in Pending'
      PROVE  mMethods'[id].http = g
  <2>1. CASE g \in 1..Len(mHttps) /\ mHttps'[g] = mHttps[g] /\ sent'[g] = sent[g]
    <3>1. id \in 1..mIdSeq /\ mIdSeq \in Nat
      BY <2>1, <1>2 DEF RpcType
    <3>2. id \in Pending => mMethods[id].http = g
      BY <1>2, <2>1 DEF SentInv
    <3>3. \/ id > mIdSeq
          \/ id \in Pending /\ mMethods'[id].http = mMethods[id].http
          \/ id \in Pending /\ ~Listens(mHttps'[mMethods[id].http])
      BY <1>2, TagStep DEF SentInv
    <3> QED
      BY <1>2, <3>1, <3>2, <3>3
  <2>2. CASE sent'[g] = Tagged(mMethods', g)
    BY <1>2, <2>2 DEF Tagged
  <2> QED
    BY <1>2, <2>1, <2>2, ListenStep
<1>3. ASSUME NEW g \in 1..Len(mHttps'), NEW h \in 1..Len(mHttps'), g # h,
             Listens(mHttps'[g]), Listens(mHttps'[h]), NEW id \in sent'[g], id \in sent'[h]
      PROVE  FALSE
  <2>1. CASE id \in Pending'
    BY <1>2, <1>3, <2>1
  <2>2. CASE id \notin Pending'
    <3>1. /\ g \in 1..Len(mHttps) /\ mHttps'[g] = mHttps[g] /\ sent'[g] = sent[g]
          /\ h \in 1..Len(mHttps) /\ mHttps'[h] = mHttps[h] /\ sent'[h] = sent[h]
      BY <1>3, <2>2, ListenStep DEF Tagged, Pending
    <3> QED
      BY <1>3, <3>1 DEF SentInv, InOneRequest
  <2> QED
    BY <2>1, <2>2
<1> QED
  BY <1>1, <1>2, <1>3 DEF SentInv, InOneRequest

\* With any handlers, and any server but one that answers in a foreign protocol, no
\* method is in two requests that are listened to.
THEOREM OneRequestCorrect ==
    ASSUME "foreign" \notin Outcomes
    PROVE  Spec => []InOneRequest
<1>1. Init => SentInv
  BY DEF Init, SentInv, InOneRequest
<1>2. RpcType /\ RpcType' /\ Listening /\ SentInv /\ [Next]_vars => SentInv'
  BY SentStep
<1>3. SentInv => InOneRequest
  BY DEF SentInv
<1> QED
  BY <1>1, <1>2, <1>3, TypeCorrect, ListeningCorrect, PTL DEF Spec

-----------------------------------------------------------------------------
(* No method is forgotten *)

\* While an object listens, all methods with its tag are in its request; a method of
\* an object that does not was left stranded.
Placed(id) ==
    LET h == mMethods[id].http IN
    IF Listens(mHttps[h]) THEN id \in sent[h] ELSE fate[id] = "stranded"

\* Each method is in its place, or is one of those that process() tells: these are
\* all methods of the object, and those behind its position have been told.
AttendedInv ==
    loop # Freed =>
        \A id \in Pending :
            IF InLoop /\ mMethods[id].http = loop.http
            THEN /\ loop.kind = "errors" => id >= loop.pos
                 /\ loop.kind = "replies" => id \in loop.todo
            ELSE Placed(id)

PoliteOutcomes == {"failure", "status", "malformed", "all"}

\* From the event loop each pending method is in its place.
LEMMA AttendedAtLoop ==
    ASSUME AttendedInv, AtLoop, NEW id \in Pending
    PROVE  Placed(id)
  BY DEF AttendedInv, AtLoop, InLoop, NoLoop, Freed, ErrorsLoop, RepliesLoop

\* The invariant holds again at the loop, if every method is in its place.
LEMMA AtLoopAgain ==
    ASSUME AtLoop', \A id \in Pending' : Placed(id)'
    PROVE  AttendedInv'
  BY DEF AttendedInv, AtLoop, InLoop, NoLoop, Freed, ErrorsLoop, RepliesLoop

\* A method stays in its place when its object, its request and its fate do.
LEMMA StaysPlaced ==
    ASSUME NEW id, Placed(id), mMethods'[id].http = mMethods[id].http,
           mHttps'[mMethods[id].http] = mHttps[mMethods[id].http],
           sent'[mMethods[id].http] = sent[mMethods[id].http],
           fate'[id] = fate[id]
    PROVE  Placed(id)'
  BY DEF Placed

\* It is in its place when its object has got a request with it.
LEMMA IsPlaced ==
    ASSUME NEW id, NEW h, mMethods'[id].http = h, Listens(mHttps'[h]), id \in sent'[h]
    PROVE  Placed(id)'
  BY DEF Placed

\* A call from the event loop brings no method out of its request.
LEMMA CallAttended ==
    ASSUME RpcType, RpcType', Listening, AttendedInv, ~Nested,
           NEW n \in 1..MaxBatch, NEW owner \in [1..n -> Object], CallMethod(n, owner)
    PROVE  AttendedInv'
<1>1. PICK h \in 1..Len(mHttps)+1 : TagsOfCall(h)
  BY CallTags
<1>2. AtLoop /\ AtLoop'
  BY <1>1, SparedFacts DEF CallMethod, TagsOfCall
<1>3. \A id \in Pending' : mMethods'[id].http \in 1..Len(mHttps')
  BY DEF RpcType
<1>4. ASSUME NEW id \in Pending' PROVE Placed(id)'
  <2>1. CASE mMethods'[id].http = h
    BY <1>1, <2>1, IsPlaced DEF TagsOfCall
  <2>2. CASE mMethods'[id].http # h
    <3>1. id \in Pending /\ mMethods'[id] = mMethods[id] /\ fate'[id] = fate[id]
      BY <1>1, <2>2 DEF TagsOfCall
    <3>2. Placed(id)
      BY <1>2, <3>1, AttendedAtLoop
    <3>3. mMethods[id].http \in 1..Len(mHttps') \ {h}
      BY <1>3, <2>2, <3>1
    <3>4. /\ mHttps'[mMethods[id].http] = mHttps[mMethods[id].http]
          /\ sent'[mMethods[id].http] = sent[mMethods[id].http]
      BY <1>1, <3>3 DEF TagsOfCall
    <3> QED
      BY <3>1, <3>2, <3>4, StaysPlaced
  <2> QED
    BY <2>1, <2>2
<1> QED
  BY <1>2, <1>4, AtLoopAgain

\* Methods that move to another object are in its request, or are dropped.
LEMMA OtherAttended ==
    ASSUME RpcType, RpcType', Listening, AttendedInv,
           NEW old \in 1..Len(mHttps), OtherServer(old)
    PROVE  AttendedInv'
<1>1. PICK h \in 1..Len(mHttps)+1 :
          /\ IdleHttp(h) /\ h # old
          /\ Pending' \subseteq Pending
          /\ \A id \in Pending' :
                mMethods'[id].http = IF mMethods[id].http = old THEN h
                                                                ELSE mMethods[id].http
          /\ old \in 1..Len(mHttps') /\ ~Listens(mHttps'[old])
          /\ \A g \in 1..Len(mHttps') \ {h, old} :
                g \in 1..Len(mHttps) /\ mHttps'[g] = mHttps[g] /\ sent'[g] = sent[g]
          /\ \A id \in Pending' :
                IF mMethods'[id].http = h THEN Listens(mHttps'[h]) /\ id \in sent'[h]
                                          ELSE fate'[id] = fate[id]
          /\ Spared
  BY OtherTags
<1>2. AtLoop /\ AtLoop'
  BY <1>1, SparedFacts DEF OtherServer
<1>3. \A id \in Pending' : mMethods'[id].http \in 1..Len(mHttps')
  BY DEF RpcType
<1>4. ASSUME NEW id \in Pending' PROVE Placed(id)'
  <2>1. CASE mMethods'[id].http = h
    BY <1>1, <2>1, IsPlaced
  <2>2. CASE mMethods'[id].http # h
    <3>1. /\ id \in Pending /\ mMethods'[id].http = mMethods[id].http
          /\ mMethods[id].http # old /\ fate'[id] = fate[id]
      BY <1>1, <2>2
    <3>2. Placed(id)
      BY <1>2, <3>1, AttendedAtLoop
    <3>3. mMethods[id].http \in 1..Len(mHttps') \ {h, old}
      BY <1>3, <2>2, <3>1
    <3>4. /\ mHttps'[mMethods[id].http] = mHttps[mMethods[id].http]
          /\ sent'[mMethods[id].http] = sent[mMethods[id].http]
      BY <1>1, <3>3
    <3> QED
      BY <3>1, <3>2, <3>4, StaysPlaced
  <2> QED
    BY <2>1, <2>2
<1> QED
  BY <1>2, <1>4, AtLoopAgain

\* The method id has lost its request, if it had one, and counts as stranded then,
\* unless process() will tell it.
Forsaken(id) ==
    /\ ~Listens(mHttps'[mMethods[id].http])
    /\ InRequest(id) /\ ~TellsErrors(mMethods[id].http) => fate'[id] = "stranded"
    /\ fate[id] = "stranded" => fate'[id] = "stranded"

\* The method id has kept its request and its fate.
Untouched(id) ==
    /\ mHttps'[mMethods[id].http] = mHttps[mMethods[id].http]
    /\ sent'[mMethods[id].http] = sent[mMethods[id].http]
    /\ fate'[id] = fate[id]

\* The methods of others whose request is cancelled by a removal are stranded, unless
\* process() tells them; the rest are as before.
LEMMA RemovedFates ==
    ASSUME RpcType, NEW object, RemoveMethods(object), NEW id \in Pending'
    PROVE  /\ id \in Pending /\ mMethods'[id] = mMethods[id]
           /\ Untouched(id) \/ Forsaken(id)
<1> DEFINE mine == {i \in Pending : mMethods[i].object = object}
           cancelled == {mMethods[i].http : i \in mine}
           stranded == {i \in Pending \ mine :
                           /\ mMethods[i].http \in cancelled
                           /\ InRequest(i) /\ ~TellsErrors(mMethods[i].http)}
           becomes == [i \in mine \cup stranded |->
                          IF i \in mine THEN "removed" ELSE "stranded"]
<1>1. mMethods' = Without(mMethods, mine) /\ Become(becomes)
  BY DEF RemoveMethods
<1>2. /\ DOMAIN becomes = mine \cup stranded
      /\ \A i \in DOMAIN becomes : becomes[i] \in Fate
      /\ \A i \in stranded : i \notin mine /\ becomes[i] = "stranded"
  BY DEF Fate
<1>3. \A g \in 1..Len(mHttps) :
          IF g \in cancelled THEN ~Listens(mHttps'[g])
                             ELSE mHttps'[g] = mHttps[g] /\ sent'[g] = sent[g]
  BY RemovedQuiet
<1>4. id \in stranded <=> /\ id \in Pending \ mine /\ mMethods[id].http \in cancelled
                          /\ InRequest(id) /\ ~TellsErrors(mMethods[id].http)
  OBVIOUS
<1> HIDE DEF mine, cancelled, stranded, becomes
<1>5. id \in Pending \ mine /\ mMethods'[id] = mMethods[id]
  BY <1>1, LeftFacts
<1>6. mMethods[id].http \in 1..Len(mHttps) /\ id \in 1..MaxId
  BY <1>5, RpcAssumption DEF RpcType
<1>7. fate'[id] = IF id \in stranded THEN "stranded" ELSE fate[id]
  BY <1>1, <1>2, <1>5, <1>6, BecomeFacts
<1>8. CASE mMethods[id].http \in cancelled
  BY <1>3, <1>4, <1>5, <1>6, <1>7, <1>8 DEF Forsaken
<1>9. CASE mMethods[id].http \notin cancelled
  BY <1>3, <1>4, <1>5, <1>6, <1>7, <1>9 DEF Untouched
<1> QED
  BY <1>5, <1>8, <1>9

\* A removal takes its request from a method of another object only by stranding it,
\* if process() does not tell it.
LEMMA RemoveAttended ==
    ASSUME RpcType, AttendedInv, NEW object \in Object, RemoveMethods(object)
    PROVE  AttendedInv'
<1>1. CASE loop' = Freed
  BY <1>1 DEF AttendedInv
<1>2. CASE loop' # Freed
  <2>1. loop' = loop /\ loop # Freed /\ (InLoop' <=> InLoop)
    BY <1>2, RemoveSpares DEF Spared, InLoop
  <2>2. ASSUME NEW id \in Pending', InLoop, mMethods[id].http = loop.http
        PROVE  /\ loop.kind = "errors" => id >= loop.pos
               /\ loop.kind = "replies" => id \in loop.todo
    BY <2>1, <2>2, RemovedFates DEF AttendedInv
  <2>3. ASSUME NEW id \in Pending', ~(InLoop /\ mMethods[id].http = loop.http)
        PROVE  Placed(id)'
    <3>1. /\ id \in Pending /\ mMethods'[id] = mMethods[id]
          /\ Untouched(id) \/ Forsaken(id)
      BY RemovedFates
    <3>2. Placed(id)
      BY <2>1, <2>3, <3>1 DEF AttendedInv
    <3>3. ~TellsErrors(mMethods[id].http)
      BY <2>3, LoopKinds DEF TellsErrors
    <3>4. CASE Untouched(id)
      BY <3>1, <3>2, <3>4, StaysPlaced DEF Untouched
    <3>5. CASE Forsaken(id)
      <4>1. fate'[id] = "stranded"
        BY <3>2, <3>3, <3>5 DEF Forsaken, Placed, InRequest
      <4> QED
        BY <3>1, <3>5, <4>1 DEF Forsaken, Placed
    <3> QED
      BY <3>1, <3>4, <3>5
  <2>4. \A id \in Pending' : mMethods'[id] = mMethods[id]
    BY RemovedFates
  <2> QED
    BY <2>1, <2>2, <2>3, <2>4 DEF AttendedInv
<1> QED
  BY <1>1, <1>2

\* cancelMethod() leaves no method to forget.
LEMMA CancelAttended == CancelMethod => AttendedInv'
<1> SUFFICES ASSUME CancelMethod PROVE AttendedInv'
  OBVIOUS
<1>1. Pending' = {}
  BY DEF CancelMethod, NoMethod, Pending
<1> QED
  BY <1>1 DEF AttendedInv

\* An object that refuses has no method in its request.
LEMMA RefusedAttended ==
    ASSUME RpcType, AttendedInv, NEW h \in 1..Len(mHttps), Refused(h)
    PROVE  AttendedInv'
<1>1. AtLoop /\ AtLoop' /\ UNCHANGED <<mMethods, fate>> /\ Pending' = Pending
  BY DEF Refused, AtLoop, Pending
<1>2. Quieted(h) /\ Emptied(h) /\ ~Listens(mHttps[h]) /\ ~Listens(mHttps'[h])
  BY RefusedQuiet DEF Refused, Refuses, Listens, Quieted
<1>3. \A g \in 1..Len(mHttps) : g # h => mHttps'[g] = mHttps[g] /\ sent'[g] = sent[g]
  BY <1>2 DEF Quieted, Emptied, RpcType
<1>4. ASSUME NEW id \in Pending PROVE Placed(id)'
  <2>1. Placed(id) /\ mMethods[id].http \in 1..Len(mHttps)
    BY <1>1, AttendedAtLoop DEF RpcType
  <2>2. CASE mMethods[id].http = h
    BY <1>1, <1>2, <2>1, <2>2 DEF Placed
  <2>3. CASE mMethods[id].http # h
    BY <1>1, <1>3, <2>1, <2>3, StaysPlaced
  <2> QED
    BY <2>2, <2>3
<1> QED
  BY <1>1, <1>4, AtLoopAgain

\* A process() begins: all methods of its object are still to be told.
LEMMA BegunAttended ==
    ASSUME RpcType, AttendedInv, AtLoop, InLoop', UNCHANGED <<mMethods, fate>>,
           NEW h \in 1..Len(mHttps), loop'.http = h,
           \A g \in 1..Len(mHttps) \ {h} : mHttps'[g] = mHttps[g] /\ sent'[g] = sent[g],
           \A id \in Pending : mMethods[id].http = h =>
               /\ loop'.kind = "errors" => id >= loop'.pos
               /\ loop'.kind = "replies" => id \in loop'.todo
    PROVE  AttendedInv'
<1>1. Pending' = Pending /\ \A id \in Pending : mMethods[id].http \in 1..Len(mHttps)
  BY DEF Pending, RpcType
<1>2. ASSUME NEW id \in Pending, mMethods[id].http # h PROVE Placed(id)'
  BY <1>1, <1>2, AttendedAtLoop, StaysPlaced
<1> QED
  BY <1>1, <1>2 DEF AttendedInv

\* A status other than 200 starts a process() for all methods of the object.
LEMMA StatusAttended ==
    ASSUME RpcType, AttendedInv, NEW h \in 1..Len(mHttps), StatusError(h)
    PROVE  AttendedInv'
<1>1. /\ AtLoop /\ loop' = ErrorLoop(h, "status") /\ h \in Nat
      /\ UNCHANGED <<mHttps, sent, mMethods, fate>>
  BY DEF StatusError
<1>2. InLoop' /\ loop'.http = h /\ loop'.kind = "errors" /\ loop'.pos = 1
  BY <1>1, NewLoops DEF ErrorLoop, InLoop
<1>3. Pending \subseteq 1..mIdSeq
  BY DEF RpcType
<1>4. \A id \in Pending : id >= 1
  BY <1>3
<1> QED
  BY <1>1, <1>2, <1>4, BegunAttended

\* So does the end of a request, with an error or with replies to all.
LEMMA EndsAttended ==
    ASSUME RpcType, AttendedInv, Outcomes \subseteq PoliteOutcomes,
           NEW h \in 1..Len(mHttps), Ends(h)
    PROVE  AttendedInv'
<1>1. Quieted(h) /\ Emptied(h)
  BY EndsQuiet
<1>2. \A g \in 1..Len(mHttps) \ {h} : mHttps'[g] = mHttps[g] /\ sent'[g] = sent[g]
  BY <1>1 DEF Quieted, Emptied, RpcType
<1>3. /\ AtLoop /\ Listens(mHttps[h]) /\ UNCHANGED <<mMethods, fate>> /\ h \in Nat
      /\ \/ \E event \in {"failure", "complete"} : loop' = ErrorLoop(h, event)
         \/ loop' = ReplyLoop(h, sent[h])
  BY DEF Ends, Failure, CompleteBody, CompleteOther, PoliteOutcomes
<1>4. \A id \in Pending : id >= 1 /\ (mMethods[id].http = h => id \in sent[h])
  BY <1>3, AttendedAtLoop DEF RpcType, Placed
<1>5. CASE \E event \in {"failure", "complete"} : loop' = ErrorLoop(h, event)
  <2>1. InLoop' /\ loop'.http = h /\ loop'.kind = "errors" /\ loop'.pos = 1
    <3>1. PICK event \in {"failure", "complete"} : loop' = ErrorLoop(h, event)
      BY <1>5
    <3>2. loop' \in ErrorsLoop /\ loop'.http = h
      BY <1>3, <3>1, NewLoops
    <3>3. loop'.kind = "errors" /\ loop'.pos = 1
      BY <3>1 DEF ErrorLoop
    <3> QED
      BY <3>2, <3>3 DEF InLoop
  <2> QED
    BY <1>2, <1>3, <1>4, <2>1, BegunAttended
<1>6. CASE loop' = ReplyLoop(h, sent[h])
  <2>1. sent[h] \in SUBSET Nat
    BY DEF RpcType
  <2>2. InLoop' /\ loop'.http = h /\ loop'.kind = "replies" /\ loop'.todo = sent[h]
    BY <1>3, <1>6, <2>1, NewLoops DEF ReplyLoop, InLoop
  <2> QED
    BY <1>2, <1>3, <1>4, <2>2, BegunAttended
<1> QED
  BY <1>3, <1>5, <1>6

\* A process() goes on: the methods that are left keep their tags.
LEMMA TellingAttended ==
    ASSUME RpcType, AttendedInv, InLoop, InLoop', UNCHANGED <<mHttps, sent, fate>>,
           loop'.http = loop.http, loop'.kind = loop.kind,
           Pending' \subseteq Pending, \A id \in Pending' : mMethods'[id] = mMethods[id],
           \A id \in Pending' : mMethods[id].http = loop.http =>
               /\ loop.kind = "errors" => id >= loop'.pos
               /\ loop.kind = "replies" => id \in loop'.todo
    PROVE  AttendedInv'
<1>1. loop # Freed
  BY LoopKinds DEF Freed
<1>2. ASSUME NEW id \in Pending', mMethods[id].http # loop.http PROVE Placed(id)'
  <2>1. Placed(id) /\ mMethods'[id] = mMethods[id]
    BY <1>1, <1>2 DEF AttendedInv
  <2> QED
    BY <2>1, StaysPlaced
<1> QED
  BY <1>2 DEF AttendedInv

\* A process() ends when no method has its object's tag.
LEMMA EndedAttended ==
    ASSUME RpcType, AttendedInv, UNCHANGED <<mMethods, sent, fate>>, InLoop, loop' = NoLoop,
           loop.event \in {"status", "failure", "complete"}, EventEnds(loop.http, loop.event),
           \A id \in Pending : mMethods[id].http # loop.http
    PROVE  AttendedInv'
<1>1. loop.http \in 1..Len(mHttps) /\ loop # Freed
  BY LoopKinds DEF RpcType, Freed
<1>2. Quieted(loop.http)
  BY <1>1, EventEndsQuiet
<1>3. Pending' = Pending /\ AtLoop'
  BY DEF Pending, AtLoop
<1>4. \A id \in Pending : mMethods[id].http \in 1..Len(mHttps) \ {loop.http}
  BY DEF RpcType
<1>5. ASSUME NEW id \in Pending PROVE Placed(id)'
  <2>1. Placed(id)
    BY <1>1 DEF AttendedInv
  <2>2. mHttps'[mMethods[id].http] = mHttps[mMethods[id].http]
    BY <1>2, <1>4 DEF Quieted
  <2> QED
    BY <2>1, <2>2, StaysPlaced
<1> QED
  BY <1>3, <1>5, AtLoopAgain

\* process() comes by every method of its object before it ends.
LEMMA ProcessAttended ==
    ASSUME RpcType, AttendedInv, Process
    PROVE  AttendedInv'
<1>1. CASE TellError
  <2>1. loop \in ErrorsLoop /\ InLoop /\ loop.kind = "errors" /\ loop.pos \in Nat
        /\ loop.event \in {"status", "failure", "complete"}
    BY <1>1, LoopKinds DEF TellError, ErrorsLoop
  <2>2. UNCHANGED <<mMethods, sent, fate>> /\ Pending' = Pending /\ Pending \subseteq Nat
    <3>1. UNCHANGED <<mMethods, sent, fate>>
      BY <1>1 DEF TellError
    <3>2. Pending \subseteq Nat
      BY DEF RpcType
    <3> QED
      BY <3>1, <3>2 DEF Pending
  <2> DEFINE more == {id \in Tagged(mMethods, loop.http) : id >= loop.pos}
  <2>3. \A id \in Pending : mMethods[id].http = loop.http => id \in more
    BY <2>1 DEF AttendedInv, Tagged, Pending, Freed
  <2>4. more \subseteq Pending
    BY DEF Tagged, Pending
  <2>5. \/ \E next \in more : /\ \A id \in more : next <= id
                              /\ loop' = [loop EXCEPT !.pos = next, !.inside = TRUE]
                              /\ UNCHANGED mHttps
        \/ more = {} /\ loop' = NoLoop /\ EventEnds(loop.http, loop.event)
    BY <1>1 DEF TellError
  <2> HIDE DEF more
  <2>6. CASE more = {} /\ loop' = NoLoop /\ EventEnds(loop.http, loop.event)
    BY <2>1, <2>2, <2>3, <2>6, EndedAttended
  <2>7. ASSUME NEW next \in more, \A id \in more : next <= id,
               loop' = [loop EXCEPT !.pos = next, !.inside = TRUE], UNCHANGED mHttps
        PROVE  AttendedInv'
    <3>1. next \in Nat
      BY <2>2, <2>4
    <3>2. /\ InLoop' /\ loop'.http = loop.http /\ loop'.kind = "errors"
          /\ loop'.pos = next
      BY <2>1, <2>7, <3>1 DEF ErrorsLoop, InLoop
    <3>3. \A id \in Pending' : mMethods[id].http = loop.http => id >= loop'.pos
      BY <2>2, <2>3, <2>4, <2>7, <3>1, <3>2
    <3> QED
      BY <2>1, <2>2, <2>7, <3>2, <3>3, TellingAttended
  <2> QED
    BY <2>5, <2>6, <2>7
<1>2. CASE ErrorTold
  <2>1. loop \in ErrorsLoop /\ InLoop /\ loop.kind = "errors"
    BY <1>2, LoopKinds DEF ErrorTold
  <2>2. /\ loop' = [loop EXCEPT !.inside = FALSE] /\ UNCHANGED <<mHttps, sent, fate>>
        /\ mMethods' = Without(mMethods, {loop.pos})
    BY <1>2 DEF ErrorTold
  <2>3. Pending' \subseteq Pending /\ \A id \in Pending' : mMethods'[id] = mMethods[id]
    BY <2>2, LeftFacts
  <2>4. /\ InLoop' /\ loop'.http = loop.http /\ loop'.kind = "errors"
        /\ loop'.pos = loop.pos
    BY <2>1, <2>2 DEF ErrorsLoop, InLoop
  <2>5. \A id \in Pending' : mMethods[id].http = loop.http => id >= loop'.pos
    BY <2>1, <2>3, <2>4 DEF AttendedInv, Freed
  <2> QED
    BY <2>1, <2>2, <2>3, <2>4, <2>5, TellingAttended
<1>3. CASE TellReply
  <2>1. loop \in RepliesLoop /\ InLoop /\ loop.kind = "replies"
        /\ loop.event \in {"status", "failure", "complete"}
    BY <1>3, LoopKinds DEF TellReply, RepliesLoop
  <2>2. UNCHANGED <<sent, fate>>
    BY <1>3 DEF TellReply
  <2>3. \/ \E id \in loop.todo :
              /\ loop' = [loop EXCEPT !.todo = loop.todo \ {id}, !.inside = id \in Pending]
              /\ mMethods' = Without(mMethods, {id}) /\ UNCHANGED mHttps
        \/ /\ loop.todo = {} /\ loop' = NoLoop /\ EventEnds(loop.http, loop.event)
           /\ UNCHANGED mMethods
    BY <1>3 DEF TellReply
  <2>4. CASE /\ loop.todo = {} /\ loop' = NoLoop /\ EventEnds(loop.http, loop.event)
             /\ UNCHANGED mMethods
    <3>1. \A id \in Pending : mMethods[id].http # loop.http
      BY <2>1, <2>4 DEF AttendedInv, Freed
    <3> QED
      BY <2>1, <2>2, <2>4, <3>1, EndedAttended
  <2>5. ASSUME NEW id \in loop.todo,
               loop' = [loop EXCEPT !.todo = loop.todo \ {id}, !.inside = id \in Pending],
               mMethods' = Without(mMethods, {id}), UNCHANGED mHttps
        PROVE  AttendedInv'
    <3>1. /\ Pending' = Pending \ {id}
          /\ \A i \in Pending' : mMethods'[i] = mMethods[i]
      BY <2>5, LeftFacts
    <3>2. /\ InLoop' /\ loop'.http = loop.http /\ loop'.kind = "replies"
          /\ loop'.todo = loop.todo \ {id}
      <4>1. loop.todo \ {id} \in SUBSET Nat /\ (id \in Pending) \in BOOLEAN
        BY <2>1 DEF RepliesLoop
      <4> QED
        BY <2>1, <2>5, <4>1 DEF RepliesLoop, InLoop
    <3>3. \A i \in Pending' : mMethods[i].http = loop.http => i \in loop'.todo
      BY <2>1, <3>1, <3>2 DEF AttendedInv, Freed
    <3> QED
      BY <2>1, <2>2, <2>5, <3>1, <3>2, <3>3, TellingAttended
  <2> QED
    BY <2>3, <2>4, <2>5
<1>4. CASE ReplyTold
  <2>1. loop \in RepliesLoop /\ InLoop /\ loop.kind = "replies"
    BY <1>4, LoopKinds DEF ReplyTold
  <2>2. loop' = [loop EXCEPT !.inside = FALSE] /\ UNCHANGED <<mHttps, mMethods, sent, fate>>
    BY <1>4 DEF ReplyTold
  <2>3. /\ InLoop' /\ loop'.http = loop.http /\ loop'.kind = "replies"
        /\ loop'.todo = loop.todo
    BY <2>1, <2>2 DEF RepliesLoop, InLoop
  <2>4. Pending' = Pending
    BY <2>2 DEF Pending
  <2>5. \A i \in Pending' : mMethods[i].http = loop.http => i \in loop'.todo
    BY <2>1, <2>3, <2>4 DEF AttendedInv, Freed
  <2> QED
    BY <2>1, <2>2, <2>3, <2>4, <2>5, TellingAttended
<1> QED
  BY <1>1, <1>2, <1>3, <1>4 DEF Process

\* Every step keeps each pending method in its request, waiting to be told, or stranded,
\* if no handler calls a method and the server answers or fails every method.
THEOREM AttendedStep ==
    ASSUME ~Nested, Outcomes \subseteq PoliteOutcomes
    PROVE  (/\ RpcType /\ RpcType' /\ Listening /\ mReSendTimerID = 0
            /\ AttendedInv /\ [Next]_vars) => AttendedInv'
<1> SUFFICES ASSUME RpcType, RpcType', Listening, mReSendTimerID = 0,
                    AttendedInv, [Next]_vars
             PROVE  AttendedInv'
  OBVIOUS
<1>1. ASSUME NEW n \in 1..MaxBatch, NEW owner \in [1..n -> Object], CallMethod(n, owner)
      PROVE  AttendedInv'
  BY <1>1, CallAttended
<1>2. ASSUME NEW object \in Object, RemoveMethods(object) PROVE AttendedInv'
  BY <1>2, RemoveAttended
<1>3. ASSUME NEW h \in 1..Len(mHttps), Refused(h) PROVE AttendedInv'
  BY <1>3, RefusedAttended
<1>4. ASSUME NEW h \in 1..Len(mHttps), StatusError(h) PROVE AttendedInv'
  BY <1>4, StatusAttended
<1>5. ASSUME NEW h \in 1..Len(mHttps), OtherServer(h) PROVE AttendedInv'
  BY <1>5, OtherAttended
<1>6. ASSUME NEW h \in 1..Len(mHttps), Ends(h) PROVE AttendedInv'
  BY <1>6, EndsAttended
<1>7. ~ReSendTimer
  BY DEF ReSendTimer
<1>8. CASE UNCHANGED vars
  BY <1>8 DEF vars, AttendedInv, Placed, InLoop, Pending
<1> QED
  BY <1>1, <1>2, <1>3, <1>4, <1>5, <1>6, <1>7, <1>8, CancelAttended, ProcessAttended DEF Next

\* For any pool, any number of methods and any owners of those in a batch, with a server
\* that answers all methods of a request or fails it, wrong servers and failures to open
\* included, and handlers that remove or cancel methods but call none, every pending
\* method has a request that will answer it, unless the removal of another object's
\* methods has cancelled that request (stranded).
THEOREM NoOrphanCorrect ==
    ASSUME ~Nested, Outcomes \subseteq PoliteOutcomes
    PROVE  Spec => []NoOrphan
<1>1. Init => AttendedInv /\ SentInv
  BY DEF Init, AttendedInv, SentInv, InOneRequest, NoMethod, Pending
<1>2. RpcType /\ RpcType' /\ Listening /\ SentInv /\ [Next]_vars => SentInv'
  BY SentStep DEF PoliteOutcomes
<1>3. RpcType /\ RpcType' /\ Listening /\ SentInv /\ AttendedInv /\ [Next]_vars => AttendedInv'
  BY AttendedStep DEF SentInv
<1>4. AttendedInv => NoOrphan
  BY AttendedAtLoop DEF NoOrphan, Attended, InRequest, Placed
<1> QED
  BY <1>1, <1>2, <1>3, <1>4, TypeCorrect, ListeningCorrect, PTL DEF Spec
=============================================================================
