------------------------------- MODULE AEEHttp -------------------------------
(***************************************************************************)
(* class AEEHttp (AEE++/AEEHttp.cpp): one HTTP request at a time on the    *)
(* platform's IHttp.  An object is a record of its fields; the operators   *)
(* give the record after each of its functions, and before and after the   *)
(* handler's callback for those that make one.                             *)
(***************************************************************************)

Http == [mHttp : {0, 1},      \* 1: a platform object, which may raise events
         mIdle : {0, 1},
         mReturnType : {"eContinue", "eRelease"},
         mRespBody : {0, 1}]  \* 1: allocated

NewHttp == [mHttp |-> 0, mIdle |-> 1, mReturnType |-> "eContinue", mRespBody |-> 0]

IsRequesting(h) == h.mHttp = 1 /\ h.mIdle = 0

\* SendRequest(): an old platform object is released, whatever it is doing.
RequestedIdle(h) == [h EXCEPT !.mHttp = 1, !.mReturnType = "eContinue"]  \* mutant
Requested(h) == [h EXCEPT !.mHttp = 1, !.mIdle = 0, !.mReturnType = "eContinue"]

\* SendRequest() when AEE_INetMgr_OpenHttp fails: the rest is as before.
NotOpened(h) == [h EXCEPT !.mHttp = 0]

\* CancelRequest()
Cancelled(h) == [h EXCEPT !.mHttp = 0, !.mIdle = 1,
                          !.mRespBody = IF h.mHttp = 1 THEN 0 ELSE @]

\* onHttpEventWapper: while mReturnType is eContinue an event goes to onHttpEv,
\* otherwise it cancels the request.
Listens(h) == h.mHttp = 1 /\ h.mReturnType = "eContinue"
Refuses(h) == h.mHttp = 1 /\ h.mReturnType = "eRelease"

\* onHttpEv for FAILURE and COMPLETE up to the handler's callback.
Ending(h) == [h EXCEPT !.mHttp = 0]

\* The rest of it, after the callback, on the record that the callback left:
\* mIdle is set, and the wrapper stores eRelease.
Failed(h) == [h EXCEPT !.mIdle = 1, !.mReturnType = "eRelease"]
Completed(h) == [h EXCEPT !.mIdle = 1, !.mReturnType = "eRelease", !.mRespBody = 0]

\* The other events: the wrapper stores what the callback returned.
Answered(h, ret) == [h EXCEPT !.mReturnType = ret]

\* AllocRespBody()
BodyAllocated(h) == [h EXCEPT !.mRespBody = 1]
=============================================================================
