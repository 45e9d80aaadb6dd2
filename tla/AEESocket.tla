------------------------------ MODULE AEESocket ------------------------------
(***************************************************************************)
(* class AEESocket (AEE++/AEESocket.cpp): a client TCP socket on a         *)
(* single-threaded event loop.  The object is driven by its user, who      *)
(* calls connect(), send() and close(), and by the platform, which calls   *)
(* onDnsCallback, onConnectEvent, onConnectTimeout, onReadEv and onWriteEv.*)
(*                                                                         *)
(* Nothing runs concurrently, yet the calls nest: the handler's onHandler  *)
(* and onClose are called in the middle of onRecv(), send() and close(),   *)
(* and may call the object again before the interrupted function goes on.  *)
(* The variable stack holds the interrupted functions, innermost last.     *)
(* onConnect, onError and onTimeout are the last thing their callers do,   *)
(* so a call made inside one is a call made just after it.                 *)
(***************************************************************************)
EXTENDS Naturals, Sequences, SequencesExt, AEEFixedBuffer

CONSTANTS
    Byte,        \* what the user sends
    SendMax,     \* nMaxSendBuf
    RecvMax,     \* nMaxRecvBuf
    MaxFrame,    \* the longest frame the peer sends
    MaxAttempts, \* bound: connect() calls that open a socket
    StreamBound, \* bound: bytes accepted by send() on one connection
    MaxDepth     \* bound: nesting of interrupted functions

ASSUME SocketAssumption ==
    /\ SendMax \in Nat \ {0}
    /\ RecvMax \in Nat \ {0}
    /\ MaxFrame \in Nat \ {0}
    /\ MaxAttempts \in Nat
    /\ StreamBound \in Nat
    /\ MaxDepth \in Nat

\* The events a socket is registered for; each registration is for one event.
Event == {"read", "write", "connect"}

\* The peer's bytes: all the decoder asks of one is whether it ends a frame.
Mid == 0
End == 1
InByte == {Mid, End}

NoTimer == 0           \* mTimeId = -1; timer k is the one of the k-th attempt

State == {"IDLE", "DNS", "CONNECTING", "CONNECTED", "DISCONNECT"}

(***************************************************************************)
(* Interrupted functions.  In "recv" the loop of onRecv() is running, in   *)
(* "failed" a read or write error has called close() and will call onClose *)
(* itself when close() returns; in the next three the user's code runs:    *)
(* inside onHandler, inside the onClose of close(), inside the onClose that*)
(* follows a read or write error.  "deleted" stays for ever: the object is *)
(* gone and calls to it are at an end.                                     *)
(***************************************************************************)
UserFrame == {"handler", "closing", "closed"}
Frame == {"recv", "failed", "deleted"} \cup UserFrame

Callback == {"none", "onError", "onTimeout", "onConnect", "onHandler", "onClose"}

VARIABLES
    mStat, mSending, mTimeId, mSendBuf, mRecvBuf,
    mSocket,     \* "null", or the socket it points to: "open", then "up" once connected
    stack,       \* interrupted functions
    armed,       \* platform: events the socket is registered for
    resolving,   \* platform: attempts whose onDnsCallback is to come
    timers,      \* platform: timers that run
    attempt,     \* connect() calls that opened a socket
    accepted,    \* history: bytes send() took on the current socket
    wire,        \* history: bytes written to the current socket
    resolved,    \* history: "stale" when an abandoned attempt's answer was used
    user,        \* history: "careless" after a connect() with the old socket open
    note         \* the handler's callback that the last step made

objVars == <<mStat, mSocket, mSending, mTimeId, mSendBuf, mRecvBuf>>
historyVars == <<attempt, accepted, wire, resolved, user>>
vars == <<objVars, stack, armed, resolving, timers, historyVars, note>>

Init ==
    /\ mStat = "IDLE" /\ mSocket = "null" /\ mSending = 0 /\ mTimeId = NoTimer
    /\ mSendBuf = <<>> /\ mRecvBuf = <<>> /\ stack = <<>>
    /\ armed = {} /\ resolving = {} /\ timers = {}
    /\ attempt = 0 /\ accepted = <<>> /\ wire = <<>> /\ resolved = "own"
    /\ user = "careful" /\ note = "none"

-----------------------------------------------------------------------------
(* Who runs *)

Running(frame) == stack # <<>> /\ Last(stack) = frame
Below(frame) == Len(stack) > 1 /\ Last(Front(stack)) = frame
AtLoop == stack = <<>>                  \* the event loop
AtUser == AtLoop \/ \E f \in UserFrame : Running(f)

HasSocket == mSocket # "null"
Connected == HasSocket /\ mStat = "CONNECTED"

\* mutant: the timer's id is forgotten and the timer runs on
CancelTimerForgets ==
    /\ timers' = timers
    /\ mTimeId' = NoTimer

\* AEE_IShell_CancelTimer, when a timer is remembered
CancelTimer ==
    /\ timers' = timers \ {mTimeId}
    /\ mTimeId' = NoTimer

\* AEE_ISocket_Release: the platform calls back no more for this socket
DropSocket ==
    /\ mSocket' = "null"
    /\ armed' = {}

\* onError()
OnError ==
    /\ CancelTimer
    /\ note' = "onError"

-----------------------------------------------------------------------------
(* close() *)

\* mutant: close() does not cancel the connect timer
BeginCloseKeepsTimer(base) ==
    /\ HasSocket
    /\ DropSocket
    /\ note' = "onClose"
    /\ stack' = Append(base, "closing")
    /\ UNCHANGED <<mTimeId, timers, mStat, mRecvBuf>>

\* Up to the handler's onClose, on top of the frames base.
BeginClose(base) ==
    /\ HasSocket
    /\ DropSocket
    /\ CancelTimer
    /\ note' = "onClose"
    /\ stack' = Append(base, "closing")
    /\ UNCHANGED <<mStat, mRecvBuf>>

\* mutant: mSendBuf is not reset
ResetKeepsSendBuf ==
    /\ mSendBuf' = mSendBuf /\ mRecvBuf' = <<>>
    /\ mStat' = "IDLE"

Reset ==
    /\ mSendBuf' = <<>> /\ mRecvBuf' = <<>>
    /\ mStat' = "IDLE"

Close ==
    /\ AtUser
    /\ \/ /\ Len(stack) < MaxDepth
          /\ BeginClose(stack)
          /\ UNCHANGED <<mSending, mSendBuf>>
       \/ /\ ~HasSocket
          /\ Reset
          /\ note' = "none"
          /\ UNCHANGED <<mSocket, mSending, mTimeId, timers, stack, armed>>
    /\ UNCHANGED <<resolving, historyVars>>

\* onClose returns to close(), and close() to a send() or onRecv() that
\* failed, which calls onClose once more.
CloseReturns ==
    /\ Running("closing")
    /\ Reset
    /\ \/ /\ ~Below("failed")
          /\ stack' = Front(stack)
          /\ note' = "none"
       \/ /\ Below("failed")
          /\ stack' = Append(Front(Front(stack)), "closed")
          /\ note' = "onClose"
    /\ UNCHANGED <<mSocket, mSending, mTimeId, armed, resolving, timers,
                   historyVars>>

\* The second onClose returns; nothing follows it in send(), and in onRecv()
\* the break that follows does what the loop would.
ClosedReturns ==
    /\ Running("closed")
    /\ stack' = Front(stack)
    /\ note' = "none"
    /\ UNCHANGED <<objVars, armed, resolving, timers, historyVars>>

-----------------------------------------------------------------------------
(* connect() *)

\* mutant: the timer is cancelled as soon as the host is resolved
ConnectAddrCancels(hasSocket, before, id, live) ==
    /\ mStat' = "CONNECTING"
    /\ mTimeId' = NoTimer /\ timers' = live \ {id}
    /\ \/ hasSocket /\ armed' = before \cup {"connect"} /\ note' = "none"
       \/ armed' = before \ {"connect"} /\ note' = "onError"

\* connect(dwAddr, port): AEE_ISocket_Connect accepts, or fails at once, as it
\* does on a null socket.  The failure goes through onError, which cancels the
\* timer mTimeId.  By then the socket is registered for the events before, id
\* is mTimeId and live are the timers that run.
ConnectAddr(hasSocket, before, id, live) ==
    /\ mStat' = "CONNECTING"
    /\ \/ /\ hasSocket
          /\ armed' = before \cup {"connect"}
          /\ mTimeId' = id /\ timers' = live
          /\ note' = "none"
       \/ /\ armed' = before \ {"connect"}
          /\ mTimeId' = NoTimer /\ timers' = live \ {id}
          /\ note' = "onError"

\* connect() is refused (E_STATE) in the other states.  With a socket still
\* there, after an attempt that failed at once, a careful user closes first.
MayConnect ==
    /\ AtUser
    /\ mStat \in {"IDLE", "DISCONNECT"}
    /\ user' = IF HasSocket THEN "careless" ELSE user

\* AEE_INetMgr_OpenSocket fails: E_SOCKET, and an old socket is gone
ConnectNoSocket ==
    /\ MayConnect
    /\ mSending' = 0
    /\ DropSocket
    /\ note' = "none"
    /\ UNCHANGED <<mStat, mTimeId, mSendBuf, mRecvBuf, stack, resolving, timers,
                   attempt, accepted, wire, resolved>>

\* connect(host, port, timeout), hasTimeout for timeout > 0
Connect(hasTimeout) ==
    LET n    == attempt + 1
        id   == IF hasTimeout THEN n ELSE mTimeId
        live == IF hasTimeout THEN timers \cup {n} ELSE timers
    IN
    /\ MayConnect
    /\ attempt < MaxAttempts
    /\ mSending' = 0
    /\ mSocket' = "open"
    /\ attempt' = n /\ accepted' = <<>> /\ wire' = <<>> /\ resolved' = "own"
    /\ \/ \* GetHostByName answers at once
          /\ ConnectAddr(TRUE, {"read"}, id, live)
          /\ UNCHANGED resolving
       \/ \* GetHostByName fails: E_DNS
          /\ armed' = {"read"}
          /\ mTimeId' = id /\ timers' = live
          /\ note' = "none"
          /\ UNCHANGED <<mStat, resolving>>
       \/ \* the answer will come through onDnsCallback
          /\ mStat' = "DNS"
          /\ armed' = {"read"}
          /\ resolving' = resolving \cup {n}
          /\ mTimeId' = id /\ timers' = live
          /\ note' = "none"
    /\ UNCHANGED <<mSendBuf, mRecvBuf, stack>>

\* onDnsCallback for attempt n.  No call cancels a resolver request, so the
\* answer may find the object closed, or in a later attempt.
DnsAnswer(n) ==
    /\ AtLoop
    /\ n \in resolving
    /\ resolving' = resolving \ {n}
    /\ \/ /\ ConnectAddr(HasSocket, armed, mTimeId, timers)
          /\ resolved' = IF n = attempt /\ mStat = "DNS" THEN resolved ELSE "stale"
       \/ /\ OnError
          /\ UNCHANGED <<mStat, armed, resolved>>
    /\ UNCHANGED <<mSocket, mSending, mSendBuf, mRecvBuf, stack, attempt, accepted, wire, user>>

ConnectEvent ==
    /\ AtLoop
    /\ "connect" \in armed
    /\ armed' = armed \ {"connect"}
    /\ CancelTimer
    /\ \/ /\ mStat' = "CONNECTED" /\ mSocket' = "up"
          /\ note' = "onConnect"
       \/ /\ note' = "onError"
          /\ UNCHANGED <<mStat, mSocket>>
    /\ UNCHANGED <<mSending, mSendBuf, mRecvBuf, stack, resolving, historyVars>>

\* onConnectTimeout: forgets whatever timer is remembered and tells the handler
ConnectTimeout(n) ==
    /\ AtLoop
    /\ n \in timers
    /\ timers' = timers \ {n}
    /\ mTimeId' = NoTimer
    /\ note' = "onTimeout"
    /\ UNCHANGED <<mStat, mSocket, mSending, mSendBuf, mRecvBuf, stack, armed,
                   resolving, historyVars>>

-----------------------------------------------------------------------------
(* send() and onWrite() *)

\* The write loop of send() on the buffer buf: k bytes go out, until the
\* buffer is empty, the platform would block, or the write fails.  The socket
\* is registered for the events before when the loop starts.
WriteLoop(buf, before) ==
    \E k \in 0..Len(buf) :
        /\ wire' = wire \o SubSeq(buf, 1, k)
        /\ mSendBuf' = Taken(buf, k)
        /\ \/ /\ k = Len(buf)
              /\ mSending' = 0 /\ armed' = before
              /\ note' = "none"
              /\ UNCHANGED <<mStat, mSocket, mTimeId, mRecvBuf, timers, stack>>
           \/ /\ k < Len(buf)
              /\ mSending' = 1 /\ armed' = before \cup {"write"}
              /\ note' = "none"
              /\ UNCHANGED <<mStat, mSocket, mTimeId, mRecvBuf, timers, stack>>
           \/ /\ k < Len(buf)
              /\ mSending' = 0
              /\ BeginClose(Append(stack, "failed"))

\* send(buf, len); without a connection it returns -1
Send(data) ==
    LET buf == Appended(mSendBuf, data, SendMax) IN
    /\ AtUser
    /\ Len(stack) + 1 < MaxDepth
    /\ Connected
    /\ Len(accepted) + Len(data) <= StreamBound
    /\ accepted' = IF Fits(mSendBuf, data, SendMax) THEN accepted \o data ELSE accepted
    /\ \/ /\ mSending = 0
          /\ WriteLoop(buf, armed)
       \/ /\ mSending = 1
          /\ mSendBuf' = buf
          /\ note' = "none"
          /\ UNCHANGED <<mStat, mSocket, mSending, mTimeId, mRecvBuf, timers, stack,
                         armed, wire>>
    /\ UNCHANGED <<resolving, attempt, resolved, user>>

\* mutant: onWrite() does not clear mSending
WriteEventStillSending ==
    /\ AtLoop
    /\ "write" \in armed
    /\ armed' = armed \ {"write"}
    /\ note' = "none"
    /\ UNCHANGED <<objVars, timers, stack, resolving, historyVars>>

\* onWriteEv, then onWrite()
WriteEvent ==
    /\ AtLoop
    /\ "write" \in armed
    /\ \/ /\ Connected
          /\ WriteLoop(mSendBuf, armed \ {"write"})
       \/ /\ ~Connected
          /\ mSending' = 0 /\ armed' = armed \ {"write"}
          /\ note' = "none"
          /\ UNCHANGED <<mStat, mSocket, mTimeId, mSendBuf, mRecvBuf, timers, stack, wire>>
    /\ UNCHANGED <<resolving, attempt, accepted, resolved, user>>

-----------------------------------------------------------------------------
(* onRecv() *)

\* The decoder (AEESocketMsgDecoder, the user's): eOK when the buffer starts
\* with a complete frame, which it takes; eMoreData otherwise.
Complete(buf) == \E i \in 1..Len(buf) : buf[i] = End
FrameLength(buf) ==
    CHOOSE i \in 1..Len(buf) : buf[i] = End /\ \A j \in 1..(i - 1) : buf[j] = Mid

\* What the peer sends: no frame is longer than MaxFrame.
FramesFit(buf) ==
    \A i \in 1..Len(buf) :
        i + MaxFrame - 1 <= Len(buf) => \E j \in i..(i + MaxFrame - 1) : buf[j] = End

\* mutant: the frame stays in the buffer
DecodeLoopNoTake(buf, base) ==
    /\ mRecvBuf' = buf
    /\ stack' = IF Complete(buf) THEN Append(base, "handler") ELSE base
    /\ note' = IF Complete(buf) THEN "onHandler" ELSE "none"

\* The decode loop on the buffer buf, up to the call of onHandler or to
\* eMoreData, on top of the frames base.
DecodeLoop(buf, base) ==
    IF Complete(buf)
      THEN /\ mRecvBuf' = Taken(buf, FrameLength(buf))
           /\ stack' = Append(base, "handler")
           /\ note' = "onHandler"
      ELSE /\ mRecvBuf' = buf
           /\ stack' = base
           /\ note' = "none"

\* onReadEv; the platform raises it for a connected socket only
ReadEvent ==
    /\ AtLoop
    /\ "read" \in armed /\ mSocket = "up"
    /\ armed' = armed \ {"read"}
    /\ stack' = IF Connected THEN <<"recv">> ELSE <<>>
    /\ note' = "none"
    /\ UNCHANGED <<objVars, resolving, timers, historyVars>>

CanRead == FreeLength(mRecvBuf, RecvMax) > 0 /\ Connected

\* AEE_ISocket_Read returns data
ReadData(data) ==
    /\ Running("recv")
    /\ CanRead
    /\ FramesFit(mRecvBuf \o data)
    /\ DecodeLoop(mRecvBuf \o data, stack)
    /\ UNCHANGED <<mStat, mSocket, mSending, mTimeId, mSendBuf, armed, resolving,
                   timers, historyVars>>

\* mutant: one decode() for each read
HandlerReturnsOnce ==
    /\ Running("handler")
    /\ stack' = Front(stack)
    /\ note' = "none"
    /\ UNCHANGED <<objVars, armed, resolving, timers, historyVars>>

\* onHandler returns, and decode() is tried again
HandlerReturns ==
    /\ Running("handler")
    /\ DecodeLoop(mRecvBuf, Front(stack))
    /\ UNCHANGED <<mStat, mSocket, mSending, mTimeId, mSendBuf, armed, resolving,
                   timers, historyVars>>

\* mutant: the event is not registered again
ReadBlocksUnarmed ==
    /\ Running("recv")
    /\ CanRead
    /\ stack' = Front(stack)
    /\ note' = "none"
    /\ UNCHANGED <<objVars, armed, resolving, timers, historyVars>>

\* AEE_ISocket_Read would block: the event is registered again
ReadWouldBlock ==
    /\ Running("recv")
    /\ CanRead
    /\ armed' = armed \cup {"read"}
    /\ stack' = Front(stack)
    /\ note' = "none"
    /\ UNCHANGED <<objVars, resolving, timers, historyVars>>

\* AEE_ISocket_Read fails, or the peer has closed
ReadFails ==
    /\ Running("recv")
    /\ CanRead
    /\ BeginClose(Append(stack, "failed"))
    /\ UNCHANGED <<mSending, mSendBuf, resolving, historyVars>>

\* The loop ends because the buffer is full or the connection is gone; a full
\* buffer is reported, and onReadEv stays unregistered.
RecvEnds ==
    /\ Running("recv")
    /\ ~CanRead
    /\ stack' = Front(stack)
    /\ \/ /\ FreeLength(mRecvBuf, RecvMax) = 0
          /\ OnError
       \/ /\ FreeLength(mRecvBuf, RecvMax) > 0
          /\ note' = "none"
          /\ UNCHANGED <<mTimeId, timers>>
    /\ UNCHANGED <<mStat, mSocket, mSending, mSendBuf, mRecvBuf, armed, resolving,
                   historyVars>>

-----------------------------------------------------------------------------
\* ~AEESocket(), called from the event loop: no onClose
Destroy ==
    /\ AtLoop
    /\ DropSocket
    /\ CancelTimer
    /\ mSendBuf' = <<>> /\ mRecvBuf' = <<>>
    /\ stack' = <<"deleted">>
    /\ note' = "none"
    /\ UNCHANGED <<mStat, mSending, resolving, historyVars>>

Messages == UNION {[1..n -> Byte] : n \in 1..(SendMax + 1)}
Chunks == UNION {[1..n -> InByte] : n \in 1..FreeLength(mRecvBuf, RecvMax)}

User ==
    \/ ConnectNoSocket
    \/ \E hasTimeout \in BOOLEAN : Connect(hasTimeout)
    \/ \E data \in Messages : Send(data)
    \/ Close
    \/ Destroy

Platform ==
    \/ \E n \in resolving : DnsAnswer(n)
    \/ \E n \in timers : ConnectTimeout(n)
    \/ ConnectEvent
    \/ WriteEvent
    \/ ReadEvent

Loops ==
    \/ \E data \in Chunks : ReadData(data)
    \/ ReadWouldBlock
    \/ ReadFails
    \/ RecvEnds
    \/ HandlerReturns
    \/ CloseReturns
    \/ ClosedReturns

Next == User \/ Platform \/ Loops

Spec == Init /\ [][Next]_vars

(***************************************************************************)
(* Fairness.  The user's callbacks return and the loops of the library run *)
(* on; the peer pauses now and then, so a read blocks at last; a timer     *)
(* that was set expires; a socket whose buffer was full becomes writable   *)
(* and takes some bytes.  Nothing is assumed of the resolver and of the    *)
(* connection, which may stay silent for ever, nor of the user.            *)
(***************************************************************************)
Fairness ==
    /\ WF_vars(HandlerReturns) /\ WF_vars(CloseReturns) /\ WF_vars(ClosedReturns)
    /\ WF_vars(RecvEnds) /\ SF_vars(ReadWouldBlock)
    /\ WF_vars(\E n \in timers : ConnectTimeout(n))
    /\ SF_vars(WriteEvent /\ wire' # wire)

FairSpec == Spec /\ Fairness

-----------------------------------------------------------------------------
(* Properties *)

\* Every variable has its type: the object's fields, the platform's
\* registrations, and buffers that never hold more than their capacity.
TypeOK ==
    /\ mStat \in State /\ mSocket \in {"null", "open", "up"} /\ mSending \in {0, 1}
    /\ mTimeId \in 0..MaxAttempts
    /\ mSendBuf \in Seq(Byte) /\ Len(mSendBuf) <= SendMax
    /\ mRecvBuf \in Seq(InByte) /\ Len(mRecvBuf) <= RecvMax
    /\ stack \in Seq(Frame) /\ armed \subseteq Event
    /\ resolving \subseteq 1..MaxAttempts /\ timers \subseteq 1..MaxAttempts
    /\ attempt \in 0..MaxAttempts
    /\ accepted \in Seq(Byte) /\ wire \in Seq(Byte)
    /\ resolved \in {"own", "stale"} /\ user \in {"careful", "careless"}
    /\ note \in Callback

\* While a socket is open, what send() took is what went out followed by what
\* waits in mSendBuf, whatever calls were nested in callbacks and whatever
\* an earlier connection left behind.
StreamIntegrity == HasSocket => accepted = wire \o mSendBuf

\* Bytes never wait with nobody to send them: a connected object whose
\* mSendBuf is not empty has onWriteEv registered, unless the answer of an
\* abandoned connect() has upset the connection.
NoLostWakeup ==
    Connected /\ resolved = "own" /\ mSendBuf # <<>>
        => mSending = 1 /\ "write" \in armed

\* Connected, with its own resolver's answer, and back in the event loop.
Listening == AtLoop /\ Connected /\ resolved = "own"

\* A connected object hears the peer, unless its receive buffer is full (which
\* onRecv() reports as ERR_RECV_OVERFLOW); by NoFrameLeft that takes a frame
\* longer than the buffer.
DeafOnlyIfFull == Listening /\ "read" \notin armed => Len(mRecvBuf) = RecvMax

\* onRecv() never goes back to the event loop with a complete frame undelivered.
NoFrameLeft == AtLoop => ~Complete(mRecvBuf)

\* A careful user has no connect timer left once the connection is up.
ConnectedNoTimer == Connected /\ user = "careful" => timers = {}

\* Without a socket, closed or deleted, nothing but a resolver's answer can
\* call the object: no event and, for a careful user, no timer is left.
ReleasedQuiet ==
    ~HasSocket => armed = {} /\ (user = "careful" => timers = {})

\* No registration and no connect timer outlives what it was made for, through
\* any order of answers, reconnects and closes.
NothingStray == ConnectedNoTimer /\ ReleasedQuiet

\* Every callback after a close is a resolver's answer or belongs to a later
\* connect(): with none of the two, the handler is left in peace.
QuietAfterClose ==
    [][AtLoop /\ ~HasSocket /\ resolving = {} /\ user = "careful" /\ ~HasSocket'
         => note' = "none"]_vars

\* An attempt that has a timer ends in a callback, or is closed, however
\* silent the network is.
AttemptAnswered ==
    (mStat \in {"DNS", "CONNECTING"} /\ mTimeId # NoTimer)
        ~> (note \notin {"none", "onHandler"} \/ mStat = "IDLE" \/ stack = <<"deleted">>)

\* Every byte that send() took is written at last, or the connection ends.
BytesGoOut ==
    \A i \in 1..StreamBound :
        (Connected /\ resolved = "own" /\ Len(accepted) >= i)
            ~> (Len(wire) >= i \/ ~Connected \/ resolved = "stale")

\* onRecv() and every callback come to an end.
CallsReturn == (stack # <<>>) ~> (stack \in {<<>>, <<"deleted">>})

\* The stream of a connection implements the abstract pipe.
Pipe == INSTANCE SendPipe
PipeSpec == Pipe!Spec
=============================================================================
