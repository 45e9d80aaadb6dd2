--------------------------- MODULE AEEHttpDownload ---------------------------
(***************************************************************************)
(* AEEHttpDownload and its file handler (AEE++/AEEHttpDownload.cpp): a     *)
(* resource is fetched into a file "..._tep", which becomes the target     *)
(* file when the response is complete.  A download may fail, be stopped or *)
(* be killed with the program, and be resumed later by a Range request     *)
(* that starts where the file ends.                                        *)
(*                                                                         *)
(* The server answers 200 with the whole resource, 206 with the rest of it,*)
(* a redirection without a body, or 502.  Any other status is taken for    *)
(* 200 by the code, which then writes the error page to the file: only a   *)
(* server of the world "errors" answers so, and the properties about the   *)
(* files are about the other worlds.  A Content-Range has the size of the  *)
(* resource, which does not change between two requests.  Writes succeed:  *)
(* onHeader refuses a resource that does not fit.                          *)
(***************************************************************************)
EXTENDS Naturals, Sequences, SequencesExt, AEEHttp

CONSTANT Size            \* of the resource

ASSUME SizeAssumption == Size \in Nat \ {0}

Resource == [i \in 1..Size |-> i]
Old == <<0>>             \* what an earlier version left in the target file
ErrorPage == <<Size + 1>>

VARIABLES
    mHttp,    \* the AEEHttp object, NewHttp when there is none
    handler,  \* the AEEHttpDownloadHandlerInternal and what it points to
    temp,     \* content of the file "..._tep"; <<>> when there is none
    target,   \* content of the target file; <<>> when there is none
    renaming, \* onComplete is between Remove and Rename
    request,  \* platform: where the range starts
    reply,    \* platform: the response under way
    world     \* "resume": a server that honours ranges, a user who resumes;
              \* "errors": a server that may answer with an error page

vars == <<mHttp, handler, temp, target, renaming, request, reply, world>>

NoHandler == [exists |-> FALSE, hasFile |-> FALSE]

\* AEEHttpDownloadHandlerInternal, with the fields of its file handler, if any
NewHandler(hasFile) ==
    [exists |-> TRUE, hasFile |-> hasFile,
     mState |-> "none", mContentRangeBegin |-> 0, mFileSize |-> 0, mContentLength |-> 0,
     mbOpened |-> hasFile, mUrlBuf |-> "null"]

NoReply == [status |-> 0, headers |-> {}, todo |-> <<>>]

Init ==
    /\ mHttp = NewHttp /\ handler = NoHandler
    /\ temp = <<>> /\ target = Old /\ renaming = FALSE
    /\ request = 0 /\ reply = NoReply
    /\ world \in {"resume", "any", "errors"}

-----------------------------------------------------------------------------
(* The user *)

\* DownloadStart(new AEEHttpDownloadHandlerFile(path), ..., start), or with no
\* file handler, DonwloadReport().  DownloadStop() comes first.
Start(start, hasFile) ==
    /\ ~renaming
    /\ mHttp' \in {Requested(NewHttp), NotOpened(NewHttp)}
    /\ handler' = NewHandler(hasFile)
    /\ request' = start /\ reply' = NoReply
    /\ UNCHANGED <<temp, target, renaming, world>>

\* A download is begun again or resumed.
Download ==
    \/ Start(Len(temp), TRUE)
    \/ world # "resume" /\ Start(0, TRUE)

DonwloadReport == Start(0, FALSE)

\* mutant: the http object is not deleted
DownloadStopHandler ==
    /\ ~renaming
    /\ handler' = NoHandler
    /\ UNCHANGED <<mHttp, temp, target, renaming, request, reply, world>>

DownloadStop ==
    /\ ~renaming
    /\ mHttp' = NewHttp /\ handler' = NoHandler
    /\ UNCHANGED <<temp, target, renaming, request, reply, world>>

\* The program is killed, at any point; the files stay.
Kill ==
    /\ mHttp' = NewHttp /\ handler' = NoHandler /\ renaming' = FALSE
    /\ UNCHANGED <<temp, target, request, reply, world>>

-----------------------------------------------------------------------------
(* Events of the request *)

Event == Listens(mHttp) /\ ~renaming

Status(status, headers, todo) ==
    /\ Event
    /\ reply.status = 0
    /\ reply' = [status |-> status, headers |-> headers, todo |-> todo]
    /\ \/ status = 502 /\ mHttp' = Answered(mHttp, "eRelease") /\ UNCHANGED handler
       \/ status # 502 /\ handler' = [handler EXCEPT !.mState = "status"] /\ UNCHANGED mHttp
    /\ UNCHANGED <<temp, target, renaming, request, world>>

\* The server need not honour the range, and cannot at the resource's end.
OnStatusCode ==
    \/ \E length \in SUBSET {"content-length"} :
          \/ /\ request = 0 \/ request = Size \/ world # "resume"
             /\ Status(200, length, Resource)
          \/ /\ request \in 1..(Size - 1)
             /\ Status(206, length \cup {"content-range"}, SubSeq(Resource, request + 1, Size))
    \/ Status(302, {"location"}, <<>>)
    \/ Status(502, {}, <<>>)
    \/ world = "errors" /\ Status(404, {"content-length"}, ErrorPage)

Header(name, fields) ==
    /\ Event
    /\ name \in reply.headers
    /\ reply' = [reply EXCEPT !.headers = @ \ {name}]
    /\ handler' = [fields EXCEPT !.mState = "header"]
    /\ UNCHANGED <<temp, target, renaming, request, world>>

\* The free space is asked for and compared; without enough of it, eRelease.
ContentLength ==
    /\ Header("content-length", [handler EXCEPT !.mContentLength = Len(reply.todo)])
    /\ mHttp' \in {mHttp, Answered(mHttp, "eRelease")}

ContentRange ==
    /\ Header("content-range", [handler EXCEPT !.mContentRangeBegin = request,
                                               !.mFileSize = Size])
    /\ UNCHANGED mHttp

\* mutant: the redirection is not remembered
LocationIgnored ==
    /\ Header("location", handler)
    /\ UNCHANGED mHttp

Location ==
    /\ Header("location", [handler EXCEPT !.mUrlBuf = IF handler.hasFile THEN "url" ELSE @])
    /\ UNCHANGED mHttp

OnHeader == ContentLength \/ ContentRange \/ Location

\* The fields that the first onBody sets: without a Content-Range, the whole
\* resource is to come.
BodyRange ==
    IF handler.mState # "body" /\ handler.mFileSize = 0
      THEN [handler EXCEPT !.mContentRangeBegin = 0, !.mFileSize = handler.mContentLength]
      ELSE handler

OnStartKeeps(begin) == temp                                      \* mutant
OnStartTruncates(begin) == <<>>                                  \* mutant

\* onStart(): the file is truncated unless the response goes on where it ends.
OnStart(begin) == IF begin = 0 THEN <<>> ELSE temp

\* onBody() with the next n bytes
OnBody(n) ==
    LET before == IF handler.mState # "body" THEN OnStart(BodyRange.mContentRangeBegin)
                                             ELSE temp
    IN
    /\ Event
    /\ reply.status # 0 /\ reply.headers = {}
    /\ n <= Len(reply.todo)
    /\ handler' = [BodyRange EXCEPT !.mState = "body"]
    /\ temp' = IF handler.hasFile THEN before \o SubSeq(reply.todo, 1, n) ELSE temp
    /\ reply' = [reply EXCEPT !.todo = SubSeq(@, n + 1, Len(@))]
    /\ UNCHANGED <<mHttp, target, renaming, request, world>>

\* onComplete() up to Remove of the target; the file stays "..._tep" after a
\* redirection, for the user to go on with the new address.
OnComplete ==
    LET renames == handler.mbOpened /\ handler.mUrlBuf = "null" IN
    /\ Event
    /\ reply.status # 0 /\ reply.headers = {} /\ reply.todo = <<>>
    /\ renaming' = renames
    /\ target' = IF renames THEN <<>> ELSE target
    /\ mHttp' = IF renames THEN Ending(mHttp) ELSE Completed(Ending(mHttp))
    /\ handler' = [handler EXCEPT !.mState = "complete", !.mbOpened = FALSE]
    /\ UNCHANGED <<temp, request, reply, world>>

Rename ==
    /\ renaming
    /\ renaming' = FALSE
    /\ target' = temp /\ temp' = <<>>
    /\ mHttp' = Completed(mHttp)
    /\ UNCHANGED <<handler, request, reply, world>>

OnFailure ==
    /\ Event
    /\ mHttp' = Failed(Ending(mHttp))
    /\ UNCHANGED <<handler, temp, target, renaming, request, reply, world>>

\* The event after eRelease
Refused ==
    /\ Refuses(mHttp) /\ ~renaming
    /\ mHttp' = Cancelled(mHttp)
    /\ UNCHANGED <<handler, temp, target, renaming, request, reply, world>>

Next ==
    \/ Download \/ DonwloadReport \/ DownloadStop \/ Kill
    \/ OnStatusCode \/ OnHeader \/ OnComplete \/ Rename \/ OnFailure \/ Refused
    \/ \E n \in 1..Size : OnBody(n)

Spec == Init /\ [][Next]_vars

(***************************************************************************)
(* Fairness: however often requests fail and the program is killed, the    *)
(* user tries again, and each stage of a request is reached and left now   *)
(* and then: a good status, a header, the last header, some bytes, the end.*)
(***************************************************************************)
Good(r) == r.status \in {200, 206}

FairSpec ==
    /\ Spec
    /\ SF_vars(Download /\ mHttp'.mHttp = 1)
    /\ SF_vars(handler.hasFile /\ OnStatusCode /\ Good(reply'))
    /\ SF_vars(handler.hasFile /\ Good(reply) /\ OnHeader /\ Listens(mHttp'))
    /\ SF_vars(handler.hasFile /\ Good(reply) /\ OnHeader /\ Listens(mHttp') /\ reply'.headers = {})
    /\ SF_vars(handler.hasFile /\ \E n \in 1..Size : OnBody(n))
    /\ SF_vars(handler.hasFile /\ handler.mUrlBuf = "null" /\ OnComplete)
    /\ SF_vars(Rename)

-----------------------------------------------------------------------------
(* Properties *)

\* What waits in the file "..._tep", over failures, stops, kills and
\* resumptions, is a first part of the resource, with nothing missing and
\* nothing twice.
PrefixKept == world # "errors" => IsPrefix(temp, Resource)

\* The target file is never a part of the resource: it is the old version,
\* missing, or the whole of the new one.
TargetWhole == world # "errors" => target \in {Old, <<>>, Resource}

\* The platform never calls a handler that DownloadStop() has deleted.
EventsHaveHandler == mHttp.mHttp = 1 => handler.exists

\* A download that is resumed again and again gets done, however often it fails.
ResumedGetsDone == world = "resume" => <>(target = Resource)
=============================================================================
