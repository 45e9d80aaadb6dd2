----------------------- MODULE AEEHttpDownloadProofs -----------------------
(***************************************************************************)
(* Proofs about AEEHttpDownload for a resource of any size.                *)
(***************************************************************************)
EXTENDS AEEHttpDownload, SequenceTheorems, TLAPS

HandlerType == [exists : {TRUE}, hasFile : BOOLEAN,
                mState : {"none", "status", "header", "body", "complete"},
                mContentRangeBegin : Nat, mFileSize : Nat, mContentLength : Nat,
                mbOpened : BOOLEAN, mUrlBuf : {"null", "url"}]

ReplyType == [status : {0, 200, 206, 302, 404, 502},
              headers : SUBSET {"content-length", "content-range", "location"},
              todo : Seq(Nat)]

DownloadType ==
    /\ mHttp \in Http
    /\ handler \in HandlerType \cup {NoHandler}
    /\ handler.exists => (handler.mbOpened => handler.hasFile)
    /\ EventsHaveHandler
    /\ temp \in Seq(Nat) /\ target \in Seq(Nat) /\ renaming \in BOOLEAN
    /\ request \in Nat /\ reply \in ReplyType
    /\ renaming => mHttp.mHttp = 0

\* Before the first byte of a response that a file waits for: what is to come is
\* the whole resource, or the rest of it behind what the file has; the position
\* that decides whether the file is truncated is 0 in the first case only, or
\* will be set by the header that is still to come.
Begun ==
    /\ handler.mState # "body"
    /\ \/ /\ reply.status = 0 /\ reply.headers = {} /\ request \in {0, Len(temp)}
          /\ handler.mContentRangeBegin = 0
       \/ /\ reply.status = 200 /\ reply.todo = Resource
          /\ handler.mContentRangeBegin = 0 /\ "content-range" \notin reply.headers
       \/ /\ reply.status = 206 /\ request # 0
          /\ reply.todo # <<>> /\ temp \o reply.todo = Resource
          /\ \/ "content-range" \in reply.headers
             \/ handler.mContentRangeBegin = request /\ handler.mFileSize = Size
       \/ /\ reply.status = 302 /\ reply.todo = <<>>
          /\ "location" \in reply.headers \/ handler.mUrlBuf = "url"

\* After it: the file and what is to come make the resource.
Flowing ==
    /\ handler.mState = "body"
    /\ reply.status # 0 /\ reply.headers = {}
    /\ temp \o reply.todo = Resource

FilesKept ==
    /\ IsPrefix(temp, Resource)
    /\ target \in {Old, <<>>, Resource}
    /\ renaming => temp = Resource
    /\ Listens(mHttp) /\ handler.hasFile => Begun \/ Flowing

\* The inductive invariant.
DownloadInv == DownloadType /\ (world # "errors" => FilesKept)

-----------------------------------------------------------------------------
(* Sequences *)

\* The resource is a sequence of Size bytes.
LEMMA ResourceSeq == Resource \in Seq(Nat) /\ Len(Resource) = Size /\ Resource # <<>>
<1>1. Resource \in [1..Size -> Nat]
  BY SizeAssumption DEF Resource
<1>2. Resource \in Seq(Nat) /\ Len(Resource) = Size
  BY <1>1, SizeAssumption
<1> QED
  BY <1>2, EmptySeq, SizeAssumption

\* What can be completed to the resource is a first part of it.
LEMMA PartIsPrefix ==
    ASSUME NEW s \in Seq(Nat), NEW t \in Seq(Nat), s \o t = Resource
    PROVE  IsPrefix(s, Resource)
<1>1. Len(s) \in Nat /\ Len(t) \in Nat
  BY LenProperties
<1>2. Len(s) <= Len(Resource)
  BY ONLY ConcatProperties, <1>1, s \o t = Resource, s \in Seq(Nat), t \in Seq(Nat)
<1>3. SubSeq(s, 1, Len(s)) = SubSeq(Resource, 1, Len(s))
  <2>1. CASE Len(s) = 0
    BY <2>1, SubSeqEmpty
  <2>2. CASE Len(s) # 0
    <3>1. Len(s) \in 1..Len(s)
      BY <1>1, <2>2
    <3>2. 1 \in 1..Len(s)
      BY <1>1, <2>2
    <3> QED
      BY <3>1, <3>2, SubSeqOfConcat1
  <2> QED
    BY <2>1, <2>2
<1> QED
  BY <1>2, <1>3 DEF IsPrefix

\* A first part of the resource is completed by the rest of it.
LEMMA PrefixAndRest ==
    ASSUME NEW s \in Seq(Nat), IsPrefix(s, Resource)
    PROVE  s \o SubSeq(Resource, Len(s) + 1, Size) = Resource
<1>1. Len(s) \in Nat /\ Len(s) <= Size
  BY ResourceSeq, LenProperties DEF IsPrefix
<1>2. s = SubSeq(Resource, 1, Len(s))
  BY SubSeqFull DEF IsPrefix
<1>3. SubSeq(Resource, 1, Len(s)) \o SubSeq(Resource, Len(s) + 1, Size) = SubSeq(Resource, 1, Size)
  <2>1. /\ 1 \in 1..Len(Resource) + 1
        /\ Len(s) \in 1 - 1..Len(Resource)
        /\ Size \in Len(s)..Len(Resource)
    BY <1>1, ResourceSeq, SizeAssumption
  <2> QED
    BY <2>1, ResourceSeq, ConcatAdjacentSubSeq
<1>4. SubSeq(Resource, 1, Size) = Resource
  BY ResourceSeq, SubSeqFull
<1> QED
  BY <1>2, <1>3, <1>4

\* The empty file is a first part, and so is the resource.
LEMMA EmptyIsPrefix == IsPrefix(<<>>, Resource)
<1>1. <<>> \in Seq(Nat) /\ <<>> \o Resource = Resource
  BY ResourceSeq, EmptySeq, ConcatEmptySeq
<1> QED
  BY <1>1, ResourceSeq, PartIsPrefix

\* The bytes of one call of onBody() and those after it.
LEMMA TakeBytes ==
    ASSUME NEW s \in Seq(Nat), NEW n \in 1..Size, n <= Len(s)
    PROVE  /\ SubSeq(s, 1, n) \in Seq(Nat) /\ SubSeq(s, n + 1, Len(s)) \in Seq(Nat)
           /\ SubSeq(s, 1, n) \o SubSeq(s, n + 1, Len(s)) = s
<1>1. Len(s) \in Nat /\ n \in Nat /\ n >= 1
  BY SizeAssumption, LenProperties
<1>2. \A i \in 1..Len(s) : s[i] \in Nat
  BY ElementOfSeq
<1>3. SubSeq(s, 1, n) \in Seq(Nat)
  <2>1. \A i \in 1..n : s[i] \in Nat
    BY <1>1, <1>2
  <2> QED
    BY <2>1, <1>1, SubSeqProperties
<1>4. SubSeq(s, n + 1, Len(s)) \in Seq(Nat)
  <2>1. \A i \in n + 1..Len(s) : s[i] \in Nat
    BY <1>1, <1>2
  <2> QED
    BY <2>1, <1>1, SubSeqProperties
<1>5. SubSeq(s, 1, n) \o SubSeq(s, n + 1, Len(s)) = SubSeq(s, 1, Len(s))
  <2>1. /\ 1 \in 1..Len(s) + 1 /\ n \in 1 - 1..Len(s) /\ Len(s) \in n..Len(s)
    BY <1>1
  <2> QED
    BY <2>1, ConcatAdjacentSubSeq
<1> QED
  BY <1>3, <1>4, <1>5, SubSeqFull

-----------------------------------------------------------------------------
(* Steps *)

\* The states in which the program may start.
LEMMA InitInv == Init => DownloadInv
<1> SUFFICES ASSUME Init PROVE DownloadInv
  OBVIOUS
<1>1. <<>> \in Seq(Nat) /\ Old \in Seq(Nat)
  BY DEF Old
<1>2. reply \in ReplyType
  BY <1>1 DEF Init, NoReply, ReplyType
<1>3. DownloadType
  <2>1. mHttp \in Http /\ mHttp.mHttp = 0
    BY DEF Init, NewHttp, Http
  <2>2. handler = NoHandler /\ handler.exists = FALSE
    BY DEF Init, NoHandler
  <2>3. temp \in Seq(Nat) /\ target \in Seq(Nat)
    BY <1>1 DEF Init
  <2>4. renaming \in BOOLEAN /\ request \in Nat
    BY DEF Init
  <2> QED
    BY <1>2, <2>4, <2>1, <2>2, <2>3 DEF DownloadType, EventsHaveHandler
<1>4. FilesKept
  BY EmptyIsPrefix DEF Init, FilesKept, Listens, NewHttp
<1> QED
  BY <1>3, <1>4 DEF DownloadInv

\* A step after which no event comes keeps the invariant when it changes no file.
LEMMA SilentStep ==
    ASSUME DownloadInv, DownloadType', ~Listens(mHttp)', UNCHANGED <<temp, target, world>>,
           renaming' => renaming
    PROVE  DownloadInv'
BY DEF DownloadInv, FilesKept

\* A download, or a report without a file, that starts from scratch or where the
\* file ends.
LEMMA StartStep ==
    ASSUME DownloadInv, NEW start \in {0, Len(temp)}, NEW hasFile \in BOOLEAN, Start(start, hasFile)
    PROVE  DownloadInv'
<1>1. temp \in Seq(Nat) /\ start \in Nat
  BY LenProperties DEF DownloadInv, DownloadType
<1>2. NewHandler(hasFile) \in HandlerType
  BY DEF NewHandler, HandlerType
<1>3. NoReply \in ReplyType
  BY EmptySeq DEF NoReply, ReplyType
<1>4. mHttp' \in Http
  BY DEF Start, Requested, NotOpened, NewHttp, Http
<1>5. handler'.exists /\ (handler'.mbOpened => handler'.hasFile)
  BY DEF Start, NewHandler
<1>6. DownloadType'
  BY <1>1, <1>2, <1>3, <1>4, <1>5 DEF DownloadInv, DownloadType, EventsHaveHandler, Start
<1>7. Begun'
  BY DEF Begun, Start, NewHandler, NoReply
<1>8. world # "errors" => FilesKept'
  BY <1>7 DEF DownloadInv, FilesKept, Start
<1> QED
  BY <1>6, <1>8 DEF DownloadInv, Start

\* DownloadStop() and the death of the program
LEMMA StopStep == DownloadInv /\ (DownloadStop \/ Kill) => DownloadInv'
<1> SUFFICES ASSUME DownloadInv, DownloadStop \/ Kill PROVE DownloadInv'
  OBVIOUS
<1>1. mHttp' = NewHttp /\ handler' = NoHandler /\ renaming' = FALSE
  BY DEF DownloadStop, Kill, DownloadInv, DownloadType
<1>2. UNCHANGED <<temp, target, request, reply, world>>
  BY DEF DownloadStop, Kill
<1>3. DownloadType'
  <2>1. mHttp' \in Http /\ mHttp'.mHttp = 0
    BY <1>1 DEF NewHttp, Http
  <2>2. handler' = NoHandler /\ handler'.exists = FALSE
    BY <1>1 DEF NoHandler
  <2>3. renaming' \in BOOLEAN
    BY <1>1
  <2> QED
    BY <1>2, <2>1, <2>2, <2>3 DEF DownloadInv, DownloadType, EventsHaveHandler
<1>4. ~Listens(mHttp)'
  BY <1>1 DEF Listens, NewHttp
<1> QED
  BY <1>1, <1>2, <1>3, <1>4, SilentStep

\* What OnStatusCode says of a status, its headers and what is to come.
Fits(status, headers, todo) ==
    /\ status \in {200, 206, 302, 404, 502}
    /\ headers \subseteq {"content-length", "content-range", "location"}
    /\ todo \in Seq(Nat)
    /\ status = 404 => world = "errors"
    /\ status = 200 => todo = Resource /\ "content-range" \notin headers
    /\ status = 206 => /\ request \in 1..(Size - 1) /\ "content-range" \in headers
                       /\ todo = SubSeq(Resource, request + 1, Size)
    /\ status = 302 => todo = <<>> /\ "location" \in headers

\* A response begins: after a good status what is to come fits the request.
LEMMA FittingStatus ==
    ASSUME DownloadInv, NEW status, NEW headers, NEW todo,
           Fits(status, headers, todo), Status(status, headers, todo)
    PROVE  DownloadInv'
<1>1. reply' = [status |-> status, headers |-> headers, todo |-> todo]
  BY DEF Status
<1>2. reply' \in ReplyType
  BY <1>1 DEF ReplyType, Fits
<1>3. /\ Listens(mHttp) /\ ~renaming /\ reply.status = 0
      /\ UNCHANGED <<temp, target, renaming, request, world>>
  BY DEF Status, Event
<1>4. handler.exists /\ handler \in HandlerType
  BY <1>3 DEF DownloadInv, DownloadType, EventsHaveHandler, Listens, NoHandler
<1>5. CASE status = 502
  <2>1. mHttp' = Answered(mHttp, "eRelease") /\ handler' = handler
    BY <1>5 DEF Status
  <2>2. mHttp' \in Http /\ mHttp'.mHttp = mHttp.mHttp /\ mHttp'.mReturnType = "eRelease"
    BY <2>1 DEF DownloadInv, DownloadType, Answered, Http
  <2>3. DownloadType'
    BY <1>2, <1>3, <1>4, <2>1, <2>2 DEF DownloadInv, DownloadType, EventsHaveHandler
  <2>4. ~Listens(mHttp)'
    BY <2>2 DEF Listens
  <2> QED
    BY <1>3, <2>3, <2>4, SilentStep
<1>6. CASE status # 502
  <2>1. mHttp' = mHttp /\ handler' = [handler EXCEPT !.mState = "status"]
    BY <1>6 DEF Status
  <2>2. handler' \in HandlerType
    BY <1>4, <2>1 DEF HandlerType
  <2>3. /\ handler'.exists /\ handler'.mbOpened = handler.mbOpened
        /\ handler'.hasFile = handler.hasFile /\ handler'.mState = "status"
        /\ handler'.mContentRangeBegin = handler.mContentRangeBegin
    BY <1>4, <2>1 DEF HandlerType
  <2>4. DownloadType'
    BY <1>2, <1>3, <1>4, <2>1, <2>2, <2>3 DEF DownloadInv, DownloadType, EventsHaveHandler
  <2>5. ASSUME world # "errors", handler.hasFile PROVE Begun'
    <3>1. request \in {0, Len(temp)} /\ handler.mContentRangeBegin = 0
      BY <2>5, <1>3 DEF DownloadInv, FilesKept, Begun, Flowing
    <3>2. CASE status = 200
      BY <3>1, <3>2, <1>1, <2>3 DEF Begun, Fits
    <3>3. CASE status = 206
      <4>1. /\ request \in 1..(Size - 1) /\ "content-range" \in headers
            /\ todo = SubSeq(Resource, request + 1, Size) /\ todo \in Seq(Nat)
        BY <3>3 DEF Fits
      <4>2. request = Len(temp) /\ request # 0 /\ request \in Nat /\ request < Size
        BY <3>1, <4>1, SizeAssumption
      <4>3. temp \o todo = Resource
        <5>1. temp \in Seq(Nat) /\ IsPrefix(temp, Resource)
          BY <2>5 DEF DownloadInv, DownloadType, FilesKept
        <5>2. temp \o SubSeq(Resource, Len(temp) + 1, Size) = Resource
          BY <5>1, PrefixAndRest
        <5> QED
          BY <5>2, <4>1, <4>2
      <4>4. todo # <<>>
        <5>1. todo = <<>> => temp = Resource
          BY <4>3, ConcatEmptySeq DEF DownloadInv, DownloadType
        <5> QED
          BY <5>1, <4>2, ResourceSeq
      <4> QED
        BY <4>1, <4>2, <4>3, <4>4, <3>3, <1>1, <1>3, <2>3 DEF Begun
    <3>4. CASE status = 302
      BY <3>4, <1>1, <2>3 DEF Begun, Fits
    <3> QED
      BY <3>2, <3>3, <3>4, <2>5, <1>6 DEF Fits
  <2>6. world # "errors" => FilesKept'
    BY <1>3, <2>1, <2>3, <2>5 DEF DownloadInv, FilesKept
  <2> QED
    BY <2>4, <2>6, <1>3 DEF DownloadInv
<1> QED
  BY <1>5, <1>6

\* Every answer of the server fits.
LEMMA StatusStep == DownloadInv /\ OnStatusCode => DownloadInv'
<1> SUFFICES ASSUME DownloadInv, OnStatusCode PROVE DownloadInv'
  OBVIOUS
<1>1. CASE \E length \in SUBSET {"content-length"} : Status(200, length, Resource)
  <2>1. PICK length \in SUBSET {"content-length"} : Status(200, length, Resource)
    BY <1>1
  <2>2. Fits(200, length, Resource)
    BY ResourceSeq DEF Fits
  <2> QED
    BY <2>1, <2>2, FittingStatus
<1>2. CASE \E length \in SUBSET {"content-length"} :
             /\ request \in 1..(Size - 1)
             /\ Status(206, length \cup {"content-range"}, SubSeq(Resource, request + 1, Size))
  <2>1. PICK length \in SUBSET {"content-length"} :
             /\ request \in 1..(Size - 1)
             /\ Status(206, length \cup {"content-range"}, SubSeq(Resource, request + 1, Size))
    BY <1>2
  <2>2. \A i \in request + 1..Size : Resource[i] \in Nat
    BY <2>1, SizeAssumption DEF Resource
  <2>3. SubSeq(Resource, request + 1, Size) \in Seq(Nat)
    <3>1. request + 1 \in Int /\ Size \in Int
      BY <2>1, SizeAssumption
    <3> QED
      BY <3>1, <2>2, SubSeqProperties
  <2>4. Fits(206, length \cup {"content-range"}, SubSeq(Resource, request + 1, Size))
    BY <2>1, <2>3 DEF Fits
  <2> QED
    BY <2>1, <2>4, FittingStatus
<1>3. CASE Status(302, {"location"}, <<>>)
  <2>1. Fits(302, {"location"}, <<>>)
    BY EmptySeq DEF Fits
  <2> QED
    BY <1>3, <2>1, FittingStatus
<1>4. CASE Status(502, {}, <<>>)
  <2>1. Fits(502, {}, <<>>)
    BY EmptySeq DEF Fits
  <2> QED
    BY <1>4, <2>1, FittingStatus
<1>5. CASE world = "errors" /\ Status(404, {"content-length"}, ErrorPage)
  <2>1. ErrorPage \in Seq(Nat)
    <3>1. Size + 1 \in Nat
      BY SizeAssumption
    <3> QED
      BY <3>1 DEF ErrorPage
  <2>2. Fits(404, {"content-length"}, ErrorPage)
    BY <1>5, <2>1 DEF Fits
  <2> QED
    BY <1>5, <2>2, FittingStatus
<1> QED
  BY <1>1, <1>2, <1>3, <1>4, <1>5 DEF OnStatusCode

\* A header is read.
LEMMA HeaderStep == DownloadInv /\ OnHeader => DownloadInv'
<1> SUFFICES ASSUME DownloadInv, OnHeader PROVE DownloadInv'
  OBVIOUS
<1>1. PICK name \in {"content-length", "content-range", "location"} :
        /\ name \in reply.headers
        /\ reply' = [reply EXCEPT !.headers = @ \ {name}]
        /\ name = "content-range" => handler'.mContentRangeBegin = request /\ handler'.mFileSize = Size
        /\ name # "content-range" => /\ handler'.mContentRangeBegin = handler.mContentRangeBegin
                                     /\ handler'.mFileSize = handler.mFileSize
        /\ name = "location" => handler'.mUrlBuf = IF handler.hasFile THEN "url" ELSE handler.mUrlBuf
        /\ name # "location" => handler'.mUrlBuf = handler.mUrlBuf
        /\ handler' \in HandlerType /\ handler'.mState = "header"
        /\ handler'.hasFile = handler.hasFile /\ handler'.mbOpened = handler.mbOpened
        /\ Listens(mHttp) /\ ~renaming
        /\ UNCHANGED <<temp, target, renaming, request, world>>
        /\ mHttp' \in {mHttp, Answered(mHttp, "eRelease")}
  <2>1. ASSUME Event PROVE handler \in HandlerType
    BY <2>1 DEF DownloadInv, DownloadType, EventsHaveHandler, Event, Listens, NoHandler
  <2>2. reply.todo \in Seq(Nat) /\ Len(reply.todo) \in Nat /\ request \in Nat /\ Size \in Nat
    BY SizeAssumption, LenProperties DEF DownloadInv, DownloadType, ReplyType
  <2>3. CASE ContentLength
    <3>1. handler \in HandlerType
      BY <2>1, <2>3 DEF ContentLength, Header
    <3>2. handler' = [handler EXCEPT !.mContentLength = Len(reply.todo), !.mState = "header"]
      BY <3>1, <2>3 DEF ContentLength, Header, HandlerType
    <3> QED
      BY <3>1, <3>2, <2>2, <2>3 DEF ContentLength, Header, HandlerType, Event
  <2>4. CASE ContentRange
    <3>1. handler \in HandlerType
      BY <2>1, <2>4 DEF ContentRange, Header
    <3>2. handler' = [handler EXCEPT !.mContentRangeBegin = request, !.mFileSize = Size,
                                     !.mState = "header"]
      BY <3>1, <2>4 DEF ContentRange, Header, HandlerType
    <3> QED
      BY <3>1, <3>2, <2>2, <2>4 DEF ContentRange, Header, HandlerType, Event
  <2>5. CASE Location
    <3>1. handler \in HandlerType
      BY <2>1, <2>5 DEF Location, Header
    <3>2. handler' = [handler EXCEPT !.mUrlBuf = IF handler.hasFile THEN "url" ELSE @,
                                     !.mState = "header"]
      BY <3>1, <2>5 DEF Location, Header, HandlerType
    <3> QED
      BY <3>1, <3>2, <2>5 DEF Location, Header, HandlerType, Event
  <2> QED
    BY <2>3, <2>4, <2>5 DEF OnHeader
<1>2. /\ reply \in ReplyType /\ reply' \in ReplyType
      /\ reply'.status = reply.status /\ reply'.todo = reply.todo
      /\ reply'.headers = reply.headers \ {name}
  BY SMTT(30), <1>1 DEF DownloadInv, DownloadType, ReplyType
<1>3. mHttp' \in Http /\ mHttp'.mHttp = mHttp.mHttp
  BY <1>1 DEF DownloadInv, DownloadType, Answered, Http
<1>4. handler'.exists /\ handler.exists
  BY <1>1 DEF HandlerType, DownloadInv, DownloadType, EventsHaveHandler, Listens
<1>5. DownloadType'
  BY <1>1, <1>2, <1>3, <1>4 DEF DownloadInv, DownloadType, EventsHaveHandler
<1>6. ASSUME world # "errors", handler.hasFile PROVE Begun'
  <2>1. Begun
    BY <1>1, <1>6 DEF DownloadInv, FilesKept, Flowing
  <2>2. handler'.mState # "body"
    BY <1>1
  <2>3. CASE reply.status = 0
    BY <1>1, <1>2, <2>1, <2>2, <2>3 DEF Begun
  <2>4. CASE reply.status = 200
    BY <1>1, <1>2, <2>1, <2>2, <2>4 DEF Begun
  <2>5. CASE reply.status = 206
    BY <1>1, <1>2, <2>1, <2>2, <2>5 DEF Begun
  <2>6. CASE reply.status = 302
    BY <1>1, <1>2, <1>6, <2>1, <2>2, <2>6 DEF Begun
  <2> QED
    BY <2>1, <2>3, <2>4, <2>5, <2>6 DEF Begun
<1>7. world # "errors" => FilesKept'
  BY <1>1, <1>6 DEF DownloadInv, FilesKept
<1> QED
  BY <1>1, <1>5, <1>7 DEF DownloadInv

\* onBody(): the bytes are put where they belong.
LEMMA BodyStep == \A n \in 1..Size : DownloadInv /\ OnBody(n) => DownloadInv'
<1> SUFFICES ASSUME NEW n \in 1..Size, DownloadInv, OnBody(n) PROVE DownloadInv'
  OBVIOUS
<1> DEFINE taken == SubSeq(reply.todo, 1, n)
           left  == SubSeq(reply.todo, n + 1, Len(reply.todo))
           begin == BodyRange.mContentRangeBegin
           before == IF handler.mState # "body" THEN OnStart(begin) ELSE temp
<1>1. /\ Listens(mHttp) /\ ~renaming /\ reply.status # 0 /\ reply.headers = {}
      /\ n <= Len(reply.todo)
      /\ UNCHANGED <<mHttp, target, renaming, request, world>>
  BY DEF OnBody, Event
<1>2. handler \in HandlerType /\ handler.exists
  BY <1>1 DEF DownloadInv, DownloadType, EventsHaveHandler, Listens, NoHandler
<1>3. reply.todo \in Seq(Nat) /\ temp \in Seq(Nat) /\ <<>> \in Seq(Nat)
  BY EmptySeq DEF DownloadInv, DownloadType, ReplyType
<1>4. taken \in Seq(Nat) /\ left \in Seq(Nat) /\ taken \o left = reply.todo
  BY <1>1, <1>3, TakeBytes
<1>5. /\ handler' = [BodyRange EXCEPT !.mState = "body"]
      /\ temp' = IF handler.hasFile THEN before \o taken ELSE temp
      /\ reply' = [reply EXCEPT !.todo = left]
  BY DEF OnBody
<1>6. /\ BodyRange \in HandlerType
      /\ BodyRange.hasFile = handler.hasFile /\ BodyRange.mbOpened = handler.mbOpened
  BY <1>2 DEF BodyRange, HandlerType
<1>7. /\ handler' \in HandlerType /\ handler'.mState = "body" /\ handler'.exists
      /\ handler'.hasFile = handler.hasFile /\ handler'.mbOpened = handler.mbOpened
  BY <1>5, <1>6 DEF HandlerType
<1>8. /\ reply' \in ReplyType /\ reply'.todo = left
      /\ reply'.status = reply.status /\ reply'.headers = reply.headers
  BY ZenonT(30), <1>4, <1>5 DEF DownloadInv, DownloadType, ReplyType
<1>9. before \in Seq(Nat)
  BY <1>3 DEF OnStart
<1> HIDE DEF taken, left, begin, before
<1>10. before \o taken \in Seq(Nat)
  BY <1>4, <1>9, ConcatProperties
<1>11. DownloadType'
  BY <1>1, <1>2, <1>3, <1>5, <1>7, <1>8, <1>10 DEF DownloadInv, DownloadType, EventsHaveHandler
<1>12. ASSUME world # "errors", handler.hasFile PROVE before \o reply.todo = Resource
  <2>1. Begun \/ Flowing
    BY <1>1, <1>12 DEF DownloadInv, FilesKept
  <2>2. CASE Flowing
    BY <2>2 DEF Flowing, before
  <2>3. CASE Begun /\ reply.status = 200
    <3>1. begin = 0 /\ handler.mState # "body" /\ reply.todo = Resource
      BY <2>3, <1>2 DEF Begun, BodyRange, begin, HandlerType
    <3>2. before = <<>>
      BY <3>1 DEF OnStart, before
    <3> QED
      BY <3>1, <3>2, ResourceSeq, ConcatEmptySeq
  <2>4. CASE Begun /\ reply.status = 206
    <3>1. /\ request # 0 /\ temp \o reply.todo = Resource /\ handler.mState # "body"
          /\ handler.mContentRangeBegin = request /\ handler.mFileSize = Size
      BY <2>4, <1>1 DEF Begun
    <3>2. begin = request
      BY <3>1, SizeAssumption DEF BodyRange, begin
    <3>3. before = temp
      BY <3>1, <3>2 DEF OnStart, before
    <3> QED
      BY <3>1, <3>3
  <2>5. ~(Begun /\ reply.status = 302)
    <3>1. Len(reply.todo) # 0
      BY <1>1, SizeAssumption
    <3> QED
      BY <3>1, EmptySeq DEF Begun
  <2> QED
    BY <2>1, <2>2, <2>3, <2>4, <2>5, <1>1 DEF Begun
<1>13. ASSUME world # "errors", handler.hasFile PROVE temp' \o reply'.todo = Resource
  <2>1. temp' = before \o taken
    BY <1>5, <1>13
  <2>2. (before \o taken) \o left = before \o (taken \o left)
    <3>1. taken \in Seq(Nat) /\ left \in Seq(Nat) /\ before \in Seq(Nat)
      BY <1>4, <1>9
    <3> QED
      BY ONLY SMTT(30), <3>1, ConcatAssociative
  <2> QED
    BY <2>1, <2>2, <1>4, <1>8, <1>12, <1>13
<1>14. world # "errors" => FilesKept'
  <2> SUFFICES ASSUME world # "errors" PROVE FilesKept'
    OBVIOUS
  <2>1. IsPrefix(temp, Resource)'
    <3>1. CASE handler.hasFile
      <4>1. temp' \in Seq(Nat) /\ reply'.todo \in Seq(Nat)
        BY <1>11, <1>8, <1>4 DEF DownloadType
      <4>2. IsPrefix(temp', Resource)
        BY <4>1, <3>1, <1>13, PartIsPrefix
      <4> QED
        BY <4>2 DEF Resource
    <3>2. CASE ~handler.hasFile
      BY <3>2, <1>5 DEF DownloadInv, FilesKept, Resource
    <3> QED
      BY <3>1, <3>2
  <2>2. Listens(mHttp)' /\ handler'.hasFile => Flowing'
    BY <1>1, <1>7, <1>8, <1>13 DEF Flowing, Resource
  <2> QED
    BY <1>1, <2>1, <2>2 DEF DownloadInv, FilesKept, Resource
<1> QED
  BY <1>1, <1>11, <1>14 DEF DownloadInv

\* onComplete(): a file that is to be renamed is whole.
LEMMA CompleteStep == DownloadInv /\ OnComplete => DownloadInv'
<1> SUFFICES ASSUME DownloadInv, OnComplete PROVE DownloadInv'
  OBVIOUS
<1> DEFINE renames == handler.mbOpened /\ handler.mUrlBuf = "null"
<1>1. /\ Listens(mHttp) /\ ~renaming
      /\ reply.status # 0 /\ reply.headers = {} /\ reply.todo = <<>>
      /\ renaming' = renames /\ target' = IF renames THEN <<>> ELSE target
      /\ UNCHANGED <<temp, request, reply, world>>
  BY DEF OnComplete, Event
<1>2. handler \in HandlerType /\ handler.exists
  BY <1>1 DEF DownloadInv, DownloadType, EventsHaveHandler, Listens, NoHandler
<1>3. mHttp' \in Http /\ mHttp'.mHttp = 0
  BY DEF OnComplete, DownloadInv, DownloadType, Ending, Completed, Http
<1>4. /\ handler' \in HandlerType /\ handler'.mbOpened = FALSE
  BY <1>2 DEF OnComplete, HandlerType
<1>5. renaming' \in BOOLEAN
  BY <1>1, <1>2 DEF HandlerType
<1>6. target' \in Seq(Nat)
  BY <1>1, EmptySeq DEF DownloadInv, DownloadType
<1>7. DownloadType'
  BY <1>1, <1>3, <1>4, <1>5, <1>6 DEF DownloadInv, DownloadType, EventsHaveHandler
<1>8. ASSUME world # "errors", renames PROVE temp = Resource
  <2>1. handler.hasFile /\ handler.mUrlBuf # "url"
    BY <1>2, <1>8 DEF DownloadInv, DownloadType
  <2>2. Flowing
    BY <2>1, <1>1, <1>8, ResourceSeq DEF DownloadInv, FilesKept, Begun
  <2>3. temp \in Seq(Nat)
    BY DEF DownloadInv, DownloadType
  <2> QED
    BY <2>2, <2>3, <1>1, ConcatEmptySeq DEF Flowing
<1>9. world # "errors" => FilesKept'
  <2>1. ~Listens(mHttp)'
    BY <1>3 DEF Listens
  <2> QED
    BY <2>1, <1>1, <1>8 DEF DownloadInv, FilesKept, Resource
<1> QED
  BY <1>1, <1>7, <1>9 DEF DownloadInv

\* Rename: the target is what the temporary file was.
LEMMA RenameStep == DownloadInv /\ Rename => DownloadInv'
<1> SUFFICES ASSUME DownloadInv, Rename PROVE DownloadInv'
  OBVIOUS
<1>1. /\ renaming /\ renaming' = FALSE /\ target' = temp /\ temp' = <<>>
      /\ mHttp' = Completed(mHttp) /\ UNCHANGED <<handler, request, reply, world>>
  BY DEF Rename
<1>2. mHttp' \in Http /\ mHttp'.mHttp = 0
  BY <1>1 DEF DownloadInv, DownloadType, Completed, Http
<1>3. temp' \in Seq(Nat)
  BY <1>1, EmptySeq
<1>4. DownloadType'
  BY <1>1, <1>2, <1>3 DEF DownloadInv, DownloadType, EventsHaveHandler
<1>5. ~Listens(mHttp)'
  BY <1>2 DEF Listens
<1>6. world # "errors" => FilesKept'
  BY <1>1, <1>5, EmptyIsPrefix DEF DownloadInv, FilesKept, Resource
<1> QED
  BY <1>1, <1>4, <1>6 DEF DownloadInv

\* A failure, and the event after eRelease, end the request.
LEMMA EndStep == DownloadInv /\ (OnFailure \/ Refused) => DownloadInv'
<1> SUFFICES ASSUME DownloadInv, OnFailure \/ Refused PROVE DownloadInv'
  OBVIOUS
<1>1. UNCHANGED <<handler, temp, target, renaming, request, reply, world>>
  BY DEF OnFailure, Refused
<1>2. mHttp' \in Http /\ mHttp'.mHttp = 0
  BY DEF OnFailure, Refused, Failed, Ending, Cancelled, Http, DownloadInv, DownloadType
<1>3. DownloadType'
  BY <1>1, <1>2 DEF DownloadInv, DownloadType, EventsHaveHandler
<1>4. ~Listens(mHttp)'
  BY <1>2 DEF Listens
<1> QED
  BY <1>1, <1>3, <1>4, SilentStep

-----------------------------------------------------------------------------
(* Theorems *)

\* Every step keeps the invariant.
THEOREM NextInv == DownloadInv /\ [Next]_vars => DownloadInv'
<1> SUFFICES ASSUME DownloadInv, [Next]_vars PROVE DownloadInv'
  OBVIOUS
<1>1. CASE Download
  <2>1. Len(temp) \in {0, Len(temp)} /\ 0 \in {0, Len(temp)} /\ TRUE \in BOOLEAN
    OBVIOUS
  <2> QED
    BY <1>1, <2>1, StartStep DEF Download
<1>2. CASE DonwloadReport
  <2>1. 0 \in {0, Len(temp)} /\ FALSE \in BOOLEAN
    OBVIOUS
  <2> QED
    BY <1>2, <2>1, StartStep DEF DonwloadReport
<1>3. CASE DownloadStop \/ Kill
  BY <1>3, StopStep
<1>4. CASE OnStatusCode
  BY <1>4, StatusStep
<1>5. CASE OnHeader
  BY <1>5, HeaderStep
<1>6. CASE OnComplete
  BY <1>6, CompleteStep
<1>7. CASE Rename
  BY <1>7, RenameStep
<1>8. CASE OnFailure \/ Refused
  BY <1>8, EndStep
<1>9. CASE \E n \in 1..Size : OnBody(n)
  BY <1>9, BodyStep
<1>10. CASE UNCHANGED vars
  BY ZenonT(30), <1>10 DEF vars, DownloadInv, DownloadType, EventsHaveHandler, FilesKept, Begun, Flowing,
               Resource, Listens
<1> QED
  BY <1>1, <1>2, <1>3, <1>4, <1>5, <1>6, <1>7, <1>8, <1>9, <1>10 DEF Next

\* The invariant holds in every reachable state.
THEOREM InvCorrect == Spec => []DownloadInv
<1> QED
  BY InitInv, NextInv, PTL DEF Spec

\* For a resource of any size, from a server that sends no error pages, and over
\* any number of failures, stops, kills and resumptions, the temporary file is a
\* first part of the resource.
THEOREM PrefixCorrect == Spec => []PrefixKept
<1>1. DownloadInv => PrefixKept
  BY DEF DownloadInv, FilesKept, PrefixKept
<1> QED
  BY <1>1, InvCorrect, PTL

\* For a resource of any size, from a server that sends no error pages, the target
\* file is the old version, missing, or the whole of the new one, wherever the
\* program is killed.
THEOREM TargetCorrect == Spec => []TargetWhole
<1>1. DownloadInv => TargetWhole
  BY DEF DownloadInv, FilesKept, TargetWhole
<1> QED
  BY <1>1, InvCorrect, PTL

\* No event reaches a handler that was deleted.
THEOREM HandlerCorrect == Spec => []EventsHaveHandler
<1>1. DownloadInv => EventsHaveHandler
  BY DEF DownloadInv, DownloadType
<1> QED
  BY <1>1, InvCorrect, PTL
=============================================================================
