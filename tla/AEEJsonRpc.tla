----------------------------- MODULE AEEJsonRpc -----------------------------
(***************************************************************************)
(* class AEEJsonRpc (AEE++/json/AEEJsonRpc.cpp): remote calls over a pool  *)
(* of AEEHttp objects.  A call is a method with an id; the methods that    *)
(* are sent in one request share the http object they are tagged with, and *)
(* a response finds its methods by id.                                     *)
(*                                                                         *)
(* process() calls the reply handlers one after another, from inside the   *)
(* event of the http object; a handler may call any function of the class. *)
(* The variable loop is the process() that is interrupted by a handler.    *)
(* Some calls free what the interrupted loop uses next: it is Freed then,  *)
(* and what the program does from there is undefined, so nothing follows.  *)
(***************************************************************************)
EXTENDS Naturals, Sequences, Functions, AEEHttp

CONSTANTS
    Object,       \* what the reply handlers belong to
    Outcomes,     \* what the server may do, of the outcomes below
    Nested,       \* reply handlers may call callMethod()
    OpenFails,    \* AEE_INetMgr_OpenHttp may fail
    ServerCheck,  \* setServerCheck() was called
    MaxBatch,     \* the most methods of one callMethod()
    MaxId,        \* bound: methods
    MaxHttp       \* bound: http objects

ASSUME RpcAssumption ==
    /\ Nested \in BOOLEAN /\ OpenFails \in BOOLEAN /\ ServerCheck \in BOOLEAN
    /\ MaxBatch \in Nat /\ MaxId \in Nat /\ MaxHttp \in Nat

(***************************************************************************)
(* How a request may end: FAILURE; a status other than 200; COMPLETE with  *)
(* no body (or none that Content-Length announced), with a body that has no*)
(* "jsonrpc" in it, with one that is no JSON object or array, and with     *)
(* replies to all or to some of its methods.                               *)
(***************************************************************************)
Outcome == {"failure", "status", "empty", "foreign", "malformed", "all", "some"}

NoLoop == [kind |-> "none"]
Freed == [kind |-> "freed", inside |-> FALSE]

\* What became of a call, apart from its replies: it is kept; it was refused, by a
\* callMethod() that returned false; it was dropped with another call or by a second
\* sending that could not be opened, and nobody is told (lost); its owner removed it,
\* or everything was cancelled (removed); or another owner's removal cancelled the
\* request it was in, and it stays in mMethods until its object is used again (stranded).
Fate == {"kept", "refused", "lost", "removed", "stranded"}

VARIABLES
    mHttps,          \* the pool
    mMethods,        \* for each id that is pending, [http, object]
    mIdSeq,
    mReSendTimerID,  \* 1: the timer runs
    mNeedResendHttp, \* an index of mHttps, or 0
    sent,            \* platform: for each http object, the ids in its request
    loop,            \* the process() under way
    replies,         \* history: for each id, how often its handler was called
    fate             \* history: for each id, what became of the call

vars ==
    <<mHttps, mMethods, mIdSeq, mReSendTimerID, mNeedResendHttp, sent, loop, replies, fate>>

\* The list of methods is in the order of their ids: callMethod() appends with
\* ++mIdSeq, sending again changes the tag only, and erasing keeps the order.
NoMethod == [id \in {} |-> 0]

Init ==
    /\ mHttps = <<>> /\ mMethods = NoMethod /\ mIdSeq = 0
    /\ mReSendTimerID = 0 /\ mNeedResendHttp = 0
    /\ sent = <<>> /\ loop = NoLoop
    /\ replies = [id \in 1..MaxId |-> 0]
    /\ fate = [id \in 1..MaxId |-> "kept"]

AtLoop == loop = NoLoop
InHandler == loop # NoLoop /\ loop.inside

Pending == DOMAIN mMethods
Tagged(methods, h) == {id \in DOMAIN methods : methods[id].http = h}
Without(methods, ids) == Restrict(methods, DOMAIN methods \ ids)

\* The method id is in a request that is listened to.
InRequest(id) ==
    LET h == mMethods[id].http IN Listens(mHttps[h]) /\ id \in sent[h]

\* The methods that process() is telling of an error, or will be, all those of its
\* http object; the first of them is told now.
TellsErrors(h) == loop.kind = "errors" /\ loop.http = h
BeingTold(id) == InHandler /\ loop.kind = "errors" /\ loop.pos = id

\* The calls whose fate a step decides.
Become(what) ==
    fate' = [id \in 1..MaxId |-> IF id \in DOMAIN what THEN what[id] ELSE fate[id]]

-----------------------------------------------------------------------------
(* Requests *)

\* getIdleHttp(): the first object with no request, or a new one
IdleHttp(h) ==
    /\ h \in 1..Len(mHttps)+1
    /\ \A g \in 1..h-1 : IsRequesting(mHttps[g])
    /\ h <= Len(mHttps) => ~IsRequesting(mHttps[h])

\* The pool and the requests with the object h in it.
With(https, h) == IF h > Len(https) THEN Append(https, NewHttp) ELSE https
WithSent(h) == IF h > Len(sent) THEN Append(sent, {}) ELSE sent

\* The request is made with all methods tagged with h.
Sent(h, https, methods) ==
    /\ mHttps' = [https EXCEPT ![h] = Requested(@)]
    /\ mMethods' = methods
    /\ sent' = [WithSent(h) EXCEPT ![h] = Tagged(methods, h)]
    /\ Become([id \in Tagged(methods, h) |-> "kept"])
    /\ UNCHANGED loop

\* mutant: the methods are kept when no object can be opened
SendRpcReqKeeps(h, https, methods) ==
    \/ Sent(h, https, methods)
    \/ /\ OpenFails
       /\ mHttps' = [https EXCEPT ![h] = NotOpened(@)]
       /\ mMethods' = methods
       /\ sent' = [WithSent(h) EXCEPT ![h] = {}]
       /\ UNCHANGED <<loop, fate>>

\* sendRpcReq(h): one request with all methods tagged with h, or, when no object can
\* be opened, all of them dropped, also one whose handler makes this very call.
SendRpcReq(h, https, methods) ==
    LET tagged == Tagged(methods, h) IN
    \/ /\ tagged = {}
       /\ mHttps' = https /\ mMethods' = methods /\ sent' = WithSent(h)
       /\ UNCHANGED <<loop, fate>>
    \/ /\ tagged # {}
       /\ Sent(h, https, methods)
    \/ /\ OpenFails
       /\ tagged # {}
       /\ mHttps' = [https EXCEPT ![h] = NotOpened(@)]
       /\ mMethods' = Without(methods, tagged)
       /\ sent' = [WithSent(h) EXCEPT ![h] = {}]
       /\ Become([id \in tagged |-> IF id \in Pending THEN "lost" ELSE "refused"])
       /\ loop' = IF \E id \in tagged : BeingTold(id) THEN Freed ELSE loop

\* callMethod(), n methods, each with the object that its handler belongs to
CallMethod(n, owner) ==
    /\ AtLoop \/ (Nested /\ InHandler)
    /\ mIdSeq + n <= MaxId
    /\ mIdSeq' = mIdSeq + n
    /\ \E h \in 1..MaxHttp :
          /\ IdleHttp(h)
          /\ SendRpcReq(h, With(mHttps, h),
                 [id \in Pending \cup mIdSeq+1..mIdSeq+n |->
                     IF id \in Pending THEN mMethods[id]
                                       ELSE [http |-> h, object |-> owner[id - mIdSeq]]])
    /\ UNCHANGED <<mReSendTimerID, mNeedResendHttp, replies>>

\* reSendRpcReq(old, getIdleHttp())
ReSendRpcReq(old, https) ==
    \E h \in 1..MaxHttp :
        /\ IdleHttp(h)
        /\ SendRpcReq(h, With(https, h),
               [id \in Pending |->
                   IF mMethods[id].http = old THEN [mMethods[id] EXCEPT !.http = h]
                                              ELSE mMethods[id]])

\* _reSendRpcCb
ReSendTimer ==
    /\ AtLoop
    /\ mReSendTimerID = 1
    /\ mReSendTimerID' = 0
    /\ ReSendRpcReq(mNeedResendHttp, mHttps)
    /\ UNCHANGED <<mIdSeq, mNeedResendHttp, replies>>

\* cancelMethod().  mNeedResendHttp is left alone.  A handler that calls it returns
\* to an http object that is deleted.
CancelMethod ==
    /\ AtLoop \/ InHandler
    /\ mHttps' = <<>> /\ sent' = <<>> /\ mMethods' = NoMethod
    /\ mReSendTimerID' = 0
    /\ loop' = IF AtLoop THEN NoLoop ELSE Freed
    /\ Become([id \in Pending |-> "removed"])
    /\ UNCHANGED <<mIdSeq, mNeedResendHttp, replies>>

\* removeMethodByDelegateObject() cancels the requests that its methods are in, with
\* the methods of others.  From a handler it may free the method that is being told
\* of an error, or the response whose replies are still to be told: CancelRequest()
\* frees it if a call of a handler has made a request on that object.
RemoveMethods(object) ==
    LET mine == {id \in Pending : mMethods[id].object = object}
        cancelled == {mMethods[id].http : id \in mine}
        stranded == {id \in Pending \ mine :
                        /\ mMethods[id].http \in cancelled
                        /\ InRequest(id) /\ ~TellsErrors(mMethods[id].http)}
        freed == \/ \E id \in mine : BeingTold(id)
                 \/ /\ loop.kind = "replies" /\ loop.todo # {}
                    /\ loop.http \in cancelled /\ mHttps[loop.http].mHttp = 1
    IN
    /\ AtLoop \/ InHandler
    /\ mine # {}
    /\ mMethods' = Without(mMethods, mine)
    /\ mHttps' = [h \in 1..Len(mHttps) |->
                     IF h \in cancelled THEN Cancelled(mHttps[h]) ELSE mHttps[h]]
    /\ sent' = [h \in 1..Len(sent) |-> IF h \in cancelled THEN {} ELSE sent[h]]
    /\ loop' = IF freed THEN Freed ELSE loop
    /\ Become([id \in mine \cup stranded |-> IF id \in mine THEN "removed" ELSE "stranded"])
    /\ UNCHANGED <<mIdSeq, mReSendTimerID, mNeedResendHttp, replies>>
-----------------------------------------------------------------------------
(* Events of an http object *)

ErrorLoop(h, event) ==
    [kind |-> "errors", http |-> h, event |-> event, pos |-> 1, inside |-> FALSE]
ReplyLoop(h, ids) ==
    [kind |-> "replies", http |-> h, event |-> "complete", todo |-> ids, inside |-> FALSE]

\* An event after eRelease was returned: the request is cancelled.
Refused(h) ==
    /\ AtLoop
    /\ Refuses(mHttps[h])
    /\ mHttps' = [mHttps EXCEPT ![h] = Cancelled(@)]
    /\ sent' = [sent EXCEPT ![h] = {}]
    /\ UNCHANGED <<mMethods, mIdSeq, mReSendTimerID, mNeedResendHttp, loop, replies, fate>>

\* onStatusCode, other than 200
StatusError(h) ==
    /\ AtLoop /\ "status" \in Outcomes
    /\ Listens(mHttps[h])
    /\ loop' = ErrorLoop(h, "status")
    /\ UNCHANGED <<mHttps, mMethods, mIdSeq, mReSendTimerID, mNeedResendHttp, sent, replies, fate>>

\* mutant: the response is listened to
OtherServerListens(h) ==
    /\ AtLoop /\ ServerCheck
    /\ Listens(mHttps[h])
    /\ ReSendRpcReq(h, mHttps)
    /\ UNCHANGED <<mIdSeq, mReSendTimerID, mNeedResendHttp, replies>>

\* onHeader, the server's name is not the one expected: the methods go to
\* another object, and the response is refused.
OtherServer(h) ==
    /\ AtLoop /\ ServerCheck
    /\ Listens(mHttps[h])
    /\ ReSendRpcReq(h, [mHttps EXCEPT ![h] = Answered(@, "eRelease")])
    /\ UNCHANGED <<mIdSeq, mReSendTimerID, mNeedResendHttp, replies>>

\* onFailure
Failure(h) ==
    /\ AtLoop /\ "failure" \in Outcomes
    /\ Listens(mHttps[h])
    /\ mHttps' = [mHttps EXCEPT ![h] = Ending(@)]
    /\ sent' = [sent EXCEPT ![h] = {}]
    /\ loop' = ErrorLoop(h, "failure")
    /\ UNCHANGED <<mMethods, mIdSeq, mReSendTimerID, mNeedResendHttp, replies, fate>>

\* onComplete with a body to process
CompleteBody(h) ==
    /\ AtLoop
    /\ Listens(mHttps[h])
    /\ mHttps' = [mHttps EXCEPT ![h] = Ending(BodyAllocated(@))]
    /\ sent' = [sent EXCEPT ![h] = {}]
    /\ \/ /\ "malformed" \in Outcomes
          /\ loop' = ErrorLoop(h, "complete")
       \/ /\ "all" \in Outcomes
          /\ loop' = ReplyLoop(h, sent[h])
       \/ /\ "some" \in Outcomes
          /\ \E some \in SUBSET sent[h] : loop' = ReplyLoop(h, some)
    /\ UNCHANGED <<mMethods, mIdSeq, mReSendTimerID, mNeedResendHttp, replies, fate>>

\* onComplete with no body, and doReSend() for a body that is not of this protocol
CompleteOther(h) ==
    /\ AtLoop
    /\ Listens(mHttps[h])
    /\ mHttps' = [mHttps EXCEPT ![h] = Completed(Ending(@))]
    /\ sent' = [sent EXCEPT ![h] = {}]
    /\ \/ /\ "empty" \in Outcomes
          /\ UNCHANGED <<mReSendTimerID, mNeedResendHttp>>
       \/ /\ "foreign" \in Outcomes
          /\ mReSendTimerID' = 1 /\ mNeedResendHttp' = h
    /\ UNCHANGED <<mMethods, mIdSeq, loop, replies, fate>>

-----------------------------------------------------------------------------
(* process() *)

\* The rest of onHttpEv and its wrapper.
EventEnds(h, event) ==
    mHttps' = [mHttps EXCEPT ![h] =
        CASE event = "failure"  -> Failed(@)
          [] event = "complete" -> Completed(@)
          [] event = "status"   -> Answered(@, "eRelease")]

Count(id) == replies' = [replies EXCEPT ![id] = @ + 1]

\* The loop over mMethods that tells each method of the object of the error.
TellError ==
    LET more == {id \in Tagged(mMethods, loop.http) : id >= loop.pos} IN
    /\ loop.kind = "errors" /\ ~loop.inside
    /\ \/ \E next \in more :
             /\ \A id \in more : next <= id
             /\ loop' = [loop EXCEPT !.pos = next, !.inside = TRUE]
             /\ Count(next)
             /\ UNCHANGED mHttps
       \/ /\ more = {}
          /\ loop' = NoLoop
          /\ EventEnds(loop.http, loop.event)
          /\ UNCHANGED replies
    /\ UNCHANGED <<mMethods, mIdSeq, mReSendTimerID, mNeedResendHttp, sent, fate>>

\* mutant: the next one in the list is passed over
ErrorToldSkips ==
    /\ loop.kind = "errors" /\ loop.inside
    /\ mMethods' = Without(mMethods, {loop.pos})
    /\ loop' = [loop EXCEPT !.inside = FALSE, !.pos = @ + 2]
    /\ UNCHANGED <<mHttps, mIdSeq, mReSendTimerID, mNeedResendHttp, sent, replies, fate>>

\* mutant: the method stays in the list
ErrorToldKept ==
    /\ loop.kind = "errors" /\ loop.inside
    /\ loop' = [loop EXCEPT !.inside = FALSE, !.pos = @ + 1]
    /\ UNCHANGED <<mHttps, mMethods, mIdSeq, mReSendTimerID, mNeedResendHttp, sent, replies, fate>>

\* The handler returns; the method is erased only now.
ErrorTold ==
    /\ loop.kind = "errors" /\ loop.inside
    /\ mMethods' = Without(mMethods, {loop.pos})
    /\ loop' = [loop EXCEPT !.inside = FALSE]
    /\ UNCHANGED <<mHttps, mIdSeq, mReSendTimerID, mNeedResendHttp, sent, replies, fate>>

\* The replies of the response, one after another, in the server's order;
\* getMethod() takes the method out of the list.
TellReply ==
    /\ loop.kind = "replies" /\ ~loop.inside
    /\ \/ \E id \in loop.todo :
             /\ loop' = [loop EXCEPT !.todo = @ \ {id}, !.inside = id \in Pending]
             /\ mMethods' = Without(mMethods, {id})
             /\ IF id \in Pending THEN Count(id) ELSE UNCHANGED replies
             /\ UNCHANGED mHttps
       \/ /\ loop.todo = {}
          /\ loop' = NoLoop
          /\ EventEnds(loop.http, loop.event)
          /\ UNCHANGED <<mMethods, replies>>
    /\ UNCHANGED <<mIdSeq, mReSendTimerID, mNeedResendHttp, sent, fate>>

ReplyTold ==
    /\ loop.kind = "replies" /\ loop.inside
    /\ loop' = [loop EXCEPT !.inside = FALSE]
    /\ UNCHANGED <<mHttps, mMethods, mIdSeq, mReSendTimerID, mNeedResendHttp, sent, replies, fate>>

Ends(h) == Failure(h) \/ CompleteBody(h) \/ CompleteOther(h)

Process == TellError \/ ErrorTold \/ TellReply \/ ReplyTold

Next ==
    \/ \E n \in 1..MaxBatch : \E owner \in [1..n -> Object] : CallMethod(n, owner)
    \/ CancelMethod
    \/ \E object \in Object : RemoveMethods(object)
    \/ ReSendTimer
    \/ \E h \in 1..Len(mHttps) : Refused(h) \/ StatusError(h) \/ OtherServer(h) \/ Ends(h)
    \/ Process

Spec == Init /\ [][Next]_vars

\* The functions of the program run on, the timer fires, and the platform ends
\* every request, at the latest with a failure of its own; a request that is
\* made again and again, because the wrong server answers, ends at last.
FairSpec ==
    /\ Spec
    /\ WF_vars(Process) /\ WF_vars(ReSendTimer)
    /\ \A h \in 1..MaxHttp : SF_vars(h <= Len(mHttps) /\ Ends(h))

-----------------------------------------------------------------------------
(* Properties *)

\* An object that listens to a request counts as busy, so no other call takes
\* it: a request is never replaced by another before its end.
BusyWhileListening ==
    AtLoop => \A h \in 1..Len(mHttps) : Listens(mHttps[h]) => IsRequesting(mHttps[h])

\* Somebody will answer: the object of the method's tag listens to a request
\* with the method in it, or is the one that the timer will send again.
Attended(id) ==
    \/ InRequest(id)
    \/ mReSendTimerID = 1 /\ mNeedResendHttp = mMethods[id].http

\* No method waits for an answer that nobody will give, but those that were left
\* stranded: removeMethodByDelegateObject() of another object has cancelled the
\* request they share with its methods (AEEJsonRpc.cpp:402).
NoOrphan == AtLoop => \A id \in Pending : Attended(id) \/ fate[id] = "stranded"

\* No method is in two requests that are listened to.
InOneRequest ==
    \A g, h \in 1..Len(mHttps) :
        g # h /\ Listens(mHttps[g]) /\ Listens(mHttps[h]) => sent[g] \cap sent[h] = {}

\* What becomes of a call, for the abstract specification: it waits while it is
\* in mMethods, except that its handler may be running already.
Waits(id) == id \in Pending /\ ~BeingTold(id)
Status ==
    [id \in 1..MaxId |->
        IF id > mIdSeq THEN "new"
        ELSE IF Waits(id) THEN "waiting"
        ELSE IF replies[id] > 0 THEN "replied" ELSE "gone"]

\* The calls implement RpcCalls: in particular a method that was replied to, or
\* was removed with the object its handler belongs to, is never replied to.
Calls == INSTANCE RpcCalls WITH Id <- 1..MaxId, status <- Status
RpcSpec == Calls!Spec

\* Every call is answered at last, unless its callMethod() returned false, its owner
\* removed it or everything was cancelled, another owner's removal cancelled its
\* request, or it was dropped, with nobody told, when the object that it was sent with
\* could not be opened (AEEJsonRpc.cpp:178-186); or a handler made a call that frees
\* what process() uses next.
EveryCallAnswered ==
    \A id \in 1..MaxId :
        (mIdSeq >= id) ~> (replies[id] > 0 \/ fate[id] # "kept" \/ loop = Freed)
=============================================================================
