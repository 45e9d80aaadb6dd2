--------------------------- MODULE AEESocketProofs ---------------------------
(***************************************************************************)
(* Proofs about AEESocket for every value of its constants: types, the     *)
(* safety invariants and the refinement of SendPipe.  None of the          *)
(* invariants is inductive: a callback may reconnect or send while close() *)
(* or onRecv() is interrupted, and what makes that harmless is stated by   *)
(* the invariants of the first section, each about what the stack of       *)
(* interrupted functions says of the object's fields.                      *)
(*                                                                         *)
(* The last sections are about PhoneCall for any number of letters, any    *)
(* bytes from the server and any number of sinks.  PhoneCall is not a      *)
(* special case of AEESocket's Spec: its decoder takes nothing from the    *)
(* buffer, and its frames may be longer than Messages.  What carries over  *)
(* is the lemmas on buffers and on the stack.                              *)
(***************************************************************************)
EXTENDS PhoneCall, SequenceTheorems, WellFoundedInduction, TLAPS

-----------------------------------------------------------------------------
(* Inductive invariants *)

\* A function of the kind frame is interrupted.
Holds(s, frame) == \E i \in 1..Len(s) : s[i] = frame

\* The buffer is empty in the states that let connect() open a new socket.
IdleEmpty == mStat \in {"IDLE", "DISCONNECT"} => mSendBuf = <<>>

\* Without a socket nothing is registered.
NullUnarmed == ~HasSocket => armed = {}

\* A socket opened inside the onClose of a close() that is still to reset the
\* buffers has not been connected, and nothing was sent on it.
ReopenedFresh ==
    Holds(stack, "closing") /\ HasSocket
        => /\ mSocket = "open" /\ mStat # "CONNECTED"
           /\ mSendBuf = <<>> /\ "read" \in armed

\* The inductive invariant for the stream.
StreamInv == IdleEmpty /\ NullUnarmed /\ ReopenedFresh /\ StreamIntegrity

\* mSending says that onWriteEv is registered, and is set while bytes wait.
\* Before its connection is up, a socket has no bytes that wait.
WakeInv ==
    /\ HasSocket /\ mSending = 1 => "write" \in armed
    /\ Connected /\ resolved = "own" /\ mSendBuf # <<>> => mSending = 1
    /\ HasSocket /\ resolved = "own" /\ mStat # "CONNECTED" => mSendBuf = <<>>

\* The only timer of a careful user is the one that mTimeId remembers.
TimerInv ==
    user = "careful" =>
        /\ timers \subseteq {mTimeId}
        /\ Connected \/ ~HasSocket => timers = {}

\* onRecv() is called by the event loop only, and calls onHandler itself.
Shaped(s) ==
    \A i \in 1..Len(s) :
        /\ s[i] = "recv" => i = 1
        /\ s[i] = "handler" => i = 2 /\ s[1] = "recv"

\* Where decode() is not under way no complete frame waits, and a function
\* that is to return from the second onClose finds the buffer reset.
FrameInv ==
    /\ Shaped(stack)
    /\ stack = <<>> \/ Running("recv") => ~Complete(mRecvBuf)
    /\ Holds(stack, "closed") => mRecvBuf = <<>>

\* onReadEv is registered until the connection is up, and then unless onRecv()
\* is running or has found the buffer full.
HearInv ==
    /\ HasSocket /\ resolved = "own" /\ mStat # "CONNECTED"
         => mSocket = "open" /\ "read" \in armed
    /\ Connected /\ resolved = "own" /\ "read" \notin armed
         => Len(mRecvBuf) = RecvMax \/ (stack # <<>> /\ stack[1] = "recv")

USE SocketAssumption DEF SocketAssumption, NoTimer

-----------------------------------------------------------------------------
(* Facts about buffers *)

\* append() gives a sequence of the buffer's bytes, within the capacity.
LEMMA AppendedFacts ==
    ASSUME NEW S, NEW buf \in Seq(S), NEW data \in Seq(S), NEW max \in Nat,
           Len(buf) <= max
    PROVE  /\ Appended(buf, data, max) \in Seq(S)
           /\ Len(Appended(buf, data, max)) <= max
BY DEF Appended, Fits

\* take() gives a sequence of the buffer's bytes, and no longer one.
LEMMA TakenFacts ==
    ASSUME NEW S, NEW buf \in Seq(S), NEW k \in Nat
    PROVE  /\ Taken(buf, k) \in Seq(S)
           /\ Len(Taken(buf, k)) <= Len(buf)
<1>1. CASE k >= Len(buf)
  BY <1>1 DEF Taken
<1>2. CASE ~(k >= Len(buf))
  <2>1. Taken(buf, k) = SubSeq(buf, k + 1, Len(buf))
    BY <1>2 DEF Taken
  <2>2. SubSeq(buf, k + 1, Len(buf)) \in Seq(S)
        /\ Len(SubSeq(buf, k + 1, Len(buf))) = Len(buf) - k
    BY <1>2
  <2> QED BY <2>1, <2>2
<1> QED BY <1>1, <1>2

\* Writing k bytes and taking them from the buffer cuts the buffer in two.
LEMMA CutBuffer ==
    ASSUME NEW S, NEW buf \in Seq(S), NEW k \in 0..Len(buf)
    PROVE  /\ SubSeq(buf, 1, k) \in Seq(S)
           /\ SubSeq(buf, 1, k) \o Taken(buf, k) = buf
<1>1. SubSeq(buf, 1, k) \in Seq(S)
  OBVIOUS
<1>2. CASE k = Len(buf)
  <2>1. Taken(buf, k) = <<>> /\ SubSeq(buf, 1, k) = buf
    BY <1>2, SubSeqFull DEF Taken
  <2> QED BY <1>1, <2>1, ConcatEmptySeq
<1>3. CASE k < Len(buf)
  <2>1. Taken(buf, k) = SubSeq(buf, k + 1, Len(buf))
    BY <1>3 DEF Taken
  <2>2. SubSeq(buf, 1, k) \o SubSeq(buf, k + 1, Len(buf)) = SubSeq(buf, 1, Len(buf))
    <3>1. 1 \in 1..(Len(buf) + 1) /\ k \in (1 - 1)..Len(buf) /\ Len(buf) \in k..Len(buf)
      BY <1>3
    <3> QED BY <3>1, ConcatAdjacentSubSeq
  <2> QED BY <1>1, <2>1, <2>2, SubSeqFull
<1> QED BY <1>2, <1>3

\* A buffer with a complete frame has a first one, within its bytes.
LEMMA FrameLengthType ==
    ASSUME NEW buf \in Seq(InByte), Complete(buf)
    PROVE  FrameLength(buf) \in 1..Len(buf)
<1> DEFINE Ends == {i \in 1..Len(buf) : buf[i] = End}
<1>1. Ends # {} /\ Ends \subseteq Nat
  BY DEF Complete
<1>2. PICK i \in Ends : \A j \in Ends : ~(<<j, i>> \in OpToRel(<, Nat))
  <2> HIDE DEF Ends
  <2> QED BY <1>1, NatLessThanWellFounded, WFMin
<1>3. \A j \in Ends : ~(j < i)
  <2> SUFFICES ASSUME NEW j \in Ends, j < i PROVE FALSE
    OBVIOUS
  <2>1. i \in Nat /\ j \in Nat
    BY <1>1
  <2>2. <<j, i>> \in OpToRel(<, Nat)
    BY <2>1 DEF OpToRel
  <2> QED BY <1>2, <2>2
<1>4. \A j \in 1..(i - 1) : buf[j] = Mid
  BY <1>3 DEF InByte, Mid, End
<1>5. \E l \in 1..Len(buf) : buf[l] = End /\ \A j \in 1..(l - 1) : buf[j] = Mid
  BY <1>4
<1> QED BY <1>5 DEF FrameLength

\* What send() is given and what a read returns are sequences, and a read
\* fills at most the free part of the buffer.
LEMMA DataTypes ==
    /\ \A data \in Messages : data \in Seq(Byte)
    /\ TypeOK => \A data \in Chunks :
         /\ mRecvBuf \o data \in Seq(InByte)
         /\ Len(mRecvBuf \o data) <= RecvMax
<1>1. \A data \in Messages : data \in Seq(Byte)
  BY DEF Messages
<1>2. ASSUME TypeOK, NEW data \in Chunks
      PROVE  mRecvBuf \o data \in Seq(InByte) /\ Len(mRecvBuf \o data) <= RecvMax
  <2>1. PICK n \in 1..(RecvMax - Len(mRecvBuf)) : data \in [1..n -> InByte]
    BY <1>2 DEF Chunks, FreeLength
  <2>2. data \in Seq(InByte) /\ Len(data) = n
    BY <1>2, <2>1 DEF TypeOK
  <2> QED BY <1>2, <2>1, <2>2 DEF TypeOK
<1> QED BY <1>1, <1>2

\* The stack without its last frame.
LEMMA FrontFacts ==
    ASSUME NEW s \in Seq(Frame), s # <<>>
    PROVE  /\ Front(s) \in Seq(Frame)
           /\ Len(Front(s)) = Len(s) - 1
           /\ \A i \in 1..(Len(s) - 1) : Front(s)[i] = s[i]
           /\ Last(s) = s[Len(s)] /\ Last(s) \in Frame
<1>1. Last(s) = s[Len(s)] /\ Last(s) \in Frame /\ Len(s) \in Nat \ {0}
  BY DEF Last
<1>2. \A i \in 1..(Len(s) - 1) : s[i] \in Frame
  BY <1>1
<1>3. /\ SubSeq(s, 1, Len(s) - 1) \in Seq(Frame)
      /\ Len(SubSeq(s, 1, Len(s) - 1)) = Len(s) - 1
      /\ \A i \in 1..(Len(s) - 1) : SubSeq(s, 1, Len(s) - 1)[i] = s[i]
  <2> DEFINE m == Len(s) - 1
  <2>1. m \in Nat /\ m \in Int /\ 1 \in Int
    BY <1>1
  <2>2. \A i \in 1..m : s[i] \in Frame
    BY <1>2
  <2>3. /\ SubSeq(s, 1, m) \in Seq(Frame)
        /\ Len(SubSeq(s, 1, m)) = (IF 1 <= m THEN m - 1 + 1 ELSE 0)
        /\ \A i \in 1..(m - 1 + 1) : SubSeq(s, 1, m)[i] = s[1 + i - 1]
    <3> HIDE DEF m
    <3> QED BY <2>1, <2>2, SubSeqProperties
  <2> HIDE DEF m
  <2>4. m - 1 + 1 = m /\ (IF 1 <= m THEN m - 1 + 1 ELSE 0) = m
    BY <2>1
  <2>6. \A i \in 1..m : 1 + i - 1 = i
    BY <2>1
  <2>5. /\ SubSeq(s, 1, m) \in Seq(Frame)
        /\ Len(SubSeq(s, 1, m)) = m
        /\ \A i \in 1..m : SubSeq(s, 1, m)[i] = s[i]
    BY <2>3, <2>4, <2>6
  <2> QED BY <2>5 DEF m
<1> QED BY <1>1, <1>3 DEF Front

-----------------------------------------------------------------------------
(* Type correctness *)

\* Cancelling the connect timer leaves fewer timers.
LEMMA CancelTimerType ==
    ASSUME TypeOK, CancelTimer
    PROVE  timers' \subseteq timers /\ mTimeId' = 0
BY DEF CancelTimer

\* What the first half of close() leaves of the variables' types.
LEMMA BeginCloseType ==
    ASSUME TypeOK, NEW base \in Seq(Frame), BeginClose(base)
    PROVE  /\ stack' \in Seq(Frame) /\ mSocket' = "null" /\ armed' = {}
           /\ timers' \subseteq timers /\ mTimeId' = 0
           /\ mStat' = mStat /\ mRecvBuf' = mRecvBuf /\ note' = "onClose"
<1>1. Append(base, "closing") \in Seq(Frame)
  BY DEF Frame, UserFrame
<1> QED BY <1>1, CancelTimerType DEF BeginClose, DropSocket

\* What connect(dwAddr, port) leaves of the variables' types.
LEMMA ConnectAddrType ==
    ASSUME NEW hasSocket \in BOOLEAN, NEW before \in SUBSET Event,
           NEW id \in 0..MaxAttempts, NEW live \in SUBSET (1..MaxAttempts),
           ConnectAddr(hasSocket, before, id, live)
    PROVE  /\ mStat' = "CONNECTING" /\ armed' \subseteq Event
           /\ mTimeId' \in 0..MaxAttempts /\ timers' \subseteq live
           /\ note' \in Callback
<1>1. 0 \in 0..MaxAttempts
  OBVIOUS
<1>2. live \ {id} \subseteq live /\ before \ {"connect"} \subseteq Event
      /\ before \cup {"connect"} \subseteq Event
  BY DEF Event
<1>3. "none" \in Callback /\ "onError" \in Callback
  BY DEF Callback
<1> QED BY <1>1, <1>2, <1>3, Zenon DEF ConnectAddr, NoTimer

\* What WriteLoop leaves of the variables' types.
LEMMA WriteLoopType ==
    ASSUME TypeOK, NEW buf \in Seq(Byte), Len(buf) <= SendMax,
           NEW before \in SUBSET Event, WriteLoop(buf, before)
    PROVE  /\ mSendBuf' \in Seq(Byte) /\ Len(mSendBuf') <= SendMax
           /\ wire' \in Seq(Byte) /\ mSending' \in {0, 1}
           /\ mStat' = mStat /\ mRecvBuf' = mRecvBuf
           /\ mSocket' \in {"null", "open", "up"} /\ mTimeId' \in 0..MaxAttempts
           /\ timers' \subseteq timers /\ note' \in Callback
           /\ armed' \subseteq Event /\ stack' \in Seq(Frame)
<1>1. PICK k \in 0..Len(buf) :
        /\ wire' = wire \o SubSeq(buf, 1, k)
        /\ mSendBuf' = Taken(buf, k)
        /\ \/ /\ k = Len(buf)
              /\ mSending' = 0 /\ armed' = before
              /\ note' = "none"
              /\ UNCHANGED <<mStat, mSocket, mTimeId, mRecvBuf, timers, stack>>
           \/ /\ k < Len(buf)
              /\ mSending' = 1 /\ armed' = before \cup {"write"}
              /\ note' = "none"
              /\ UNCHANGED <<mStat, mSocket, mTimeId, mRecvBuf, timers, stack>>
           \/ /\ k < Len(buf)
              /\ mSending' = 0
              /\ BeginClose(Append(stack, "failed"))
  BY DEF WriteLoop
<1>2. mSendBuf' \in Seq(Byte) /\ Len(mSendBuf') <= SendMax /\ wire' \in Seq(Byte)
  BY <1>1, TakenFacts, CutBuffer DEF TypeOK
<1>3. CASE /\ armed' \in {before, before \cup {"write"}} /\ mSending' \in {0, 1}
           /\ note' = "none"
           /\ UNCHANGED <<mStat, mSocket, mTimeId, mRecvBuf, timers, stack>>
  <2>1. armed' \subseteq Event
    BY <1>3 DEF Event
  <2> QED BY <1>2, <1>3, <2>1 DEF TypeOK, Callback
<1>4. CASE BeginClose(Append(stack, "failed")) /\ mSending' = 0
  <2>1. Append(stack, "failed") \in Seq(Frame)
    BY DEF TypeOK, Frame
  <2>2. /\ stack' \in Seq(Frame) /\ mSocket' = "null" /\ armed' = {}
        /\ timers' \subseteq timers /\ mTimeId' = 0
        /\ mStat' = mStat /\ mRecvBuf' = mRecvBuf /\ note' = "onClose"
    BY <1>4, <2>1, BeginCloseType
  <2> QED BY <1>2, <1>4, <2>2 DEF Callback
<1> QED BY <1>1, <1>3, <1>4

\* What DecodeLoop leaves of the variables' types.
LEMMA DecodeLoopType ==
    ASSUME NEW buf \in Seq(InByte), Len(buf) <= RecvMax, NEW base \in Seq(Frame),
           DecodeLoop(buf, base)
    PROVE  /\ mRecvBuf' \in Seq(InByte) /\ Len(mRecvBuf') <= RecvMax
           /\ stack' \in Seq(Frame) /\ note' \in Callback
<1>1. CASE Complete(buf)
  <2>1. FrameLength(buf) \in Nat
    BY <1>1, FrameLengthType
  <2>2. Taken(buf, FrameLength(buf)) \in Seq(InByte)
        /\ Len(Taken(buf, FrameLength(buf))) <= RecvMax
    BY <2>1, TakenFacts
  <2>3. Append(base, "handler") \in Seq(Frame)
    BY DEF Frame, UserFrame
  <2> QED BY <1>1, <2>2, <2>3 DEF DecodeLoop, Callback
<1>2. CASE ~Complete(buf)
  BY <1>2 DEF DecodeLoop, Callback
<1> QED BY <1>1, <1>2

LEMMA TypeStep == TypeOK /\ [Next]_vars => TypeOK'
<1> SUFFICES ASSUME TypeOK, [Next]_vars PROVE TypeOK'
  OBVIOUS
<1> USE DEF TypeOK, State, Callback, Event, historyVars, objVars
<1>1. CASE ConnectNoSocket
  BY <1>1 DEF ConnectNoSocket, DropSocket, MayConnect
<1>2. ASSUME NEW hasTimeout \in BOOLEAN, Connect(hasTimeout) PROVE TypeOK'
  <2>1. attempt + 1 \in 1..MaxAttempts
    BY <1>2 DEF Connect
  <2>2. (IF hasTimeout THEN attempt + 1 ELSE mTimeId) \in 0..MaxAttempts
    BY <2>1
  <2>3. (IF hasTimeout THEN timers \cup {attempt + 1} ELSE timers) \subseteq 1..MaxAttempts
    BY <2>1
  <2> DEFINE id   == IF hasTimeout THEN attempt + 1 ELSE mTimeId
             live == IF hasTimeout THEN timers \cup {attempt + 1} ELSE timers
  <2>4. {"read"} \subseteq Event /\ TRUE \in BOOLEAN
    OBVIOUS
  <2>5. CASE ConnectAddr(TRUE, {"read"}, id, live) /\ UNCHANGED resolving
    <3>1. /\ mStat' = "CONNECTING" /\ armed' \subseteq Event
          /\ mTimeId' \in 0..MaxAttempts /\ timers' \subseteq live
          /\ note' \in Callback
      <4> HIDE DEF id, live
      <4> QED BY <2>2, <2>3, <2>4, <2>5, ConnectAddrType DEF id, live
    <3> QED BY <1>2, <2>1, <2>3, <2>5, <3>1 DEF Connect, MayConnect
  <2>6. CASE /\ armed' = {"read"} /\ mTimeId' = id /\ timers' = live /\ note' = "none"
             /\ mStat' \in {mStat, "DNS"}
             /\ resolving' \in {resolving, resolving \cup {attempt + 1}}
    <3>1. mTimeId' \in 0..MaxAttempts /\ timers' \subseteq 1..MaxAttempts
      BY <2>2, <2>3, <2>6
    <3>2. resolving' \subseteq 1..MaxAttempts /\ mStat' \in State
      BY <2>1, <2>6
    <3> HIDE DEF id, live
    <3> QED BY <1>2, <2>1, <2>6, <3>1, <3>2 DEF Connect, MayConnect
  <2> QED BY <1>2, <2>5, <2>6 DEF Connect
<1>3. ASSUME NEW data \in Messages, Send(data) PROVE TypeOK'
  <2>1. data \in Seq(Byte)
    BY DataTypes
  <2>2. /\ Appended(mSendBuf, data, SendMax) \in Seq(Byte)
        /\ Len(Appended(mSendBuf, data, SendMax)) <= SendMax
    BY <2>1, AppendedFacts
  <2>3. accepted' \in Seq(Byte)
    BY <1>3, <2>1 DEF Send
  <2>4. CASE WriteLoop(Appended(mSendBuf, data, SendMax), armed)
    BY <1>3, <2>2, <2>3, <2>4, WriteLoopType DEF Send
  <2>5. CASE /\ mSendBuf' = Appended(mSendBuf, data, SendMax) /\ note' = "none"
             /\ UNCHANGED <<mStat, mSocket, mSending, mTimeId, mRecvBuf, timers, stack,
                            armed, wire>>
    BY <1>3, <2>2, <2>3, <2>5 DEF Send
  <2> QED BY <1>3, <2>4, <2>5 DEF Send
<1>4. CASE Close
  <2>1. CASE BeginClose(stack) /\ UNCHANGED <<mSending, mSendBuf>>
    <3>1. /\ stack' \in Seq(Frame) /\ mSocket' = "null" /\ armed' = {}
          /\ timers' \subseteq timers /\ mTimeId' = 0
          /\ mStat' = mStat /\ mRecvBuf' = mRecvBuf /\ note' = "onClose"
      BY <2>1, BeginCloseType
    <3> QED BY <1>4, <2>1, <3>1 DEF Close
  <2>2. CASE /\ Reset /\ note' = "none"
             /\ UNCHANGED <<mSocket, mSending, mTimeId, timers, stack, armed>>
    BY <1>4, <2>2 DEF Close, Reset
  <2> QED BY <1>4, <2>1, <2>2 DEF Close
<1>5. CASE Destroy
  <2>1. <<"deleted">> \in Seq(Frame)
    BY DEF Frame
  <2> QED BY <1>5, <2>1 DEF Destroy, DropSocket, CancelTimer
<1>6. ASSUME NEW n \in resolving, DnsAnswer(n) PROVE TypeOK'
  <2>1. resolving' \subseteq 1..MaxAttempts
    BY <1>6 DEF DnsAnswer
  <2>2. CASE /\ ConnectAddr(HasSocket, armed, mTimeId, timers)
             /\ resolved' = IF n = attempt /\ mStat = "DNS" THEN resolved ELSE "stale"
    <3>1. /\ mStat' = "CONNECTING" /\ armed' \subseteq Event
          /\ mTimeId' \in 0..MaxAttempts /\ timers' \subseteq timers
          /\ note' \in Callback
      BY <2>2, ConnectAddrType DEF HasSocket
    <3> QED BY <1>6, <2>1, <2>2, <3>1 DEF DnsAnswer
  <2>3. CASE OnError /\ UNCHANGED <<mStat, armed, resolved>>
    <3>1. timers' \subseteq timers /\ mTimeId' = 0 /\ note' = "onError"
      BY <2>3 DEF OnError, CancelTimer
    <3> QED BY <1>6, <2>1, <2>3, <3>1 DEF DnsAnswer
  <2> QED BY <1>6, <2>2, <2>3 DEF DnsAnswer
<1>7. ASSUME NEW n \in timers, ConnectTimeout(n) PROVE TypeOK'
  BY <1>7 DEF ConnectTimeout
<1>8. CASE ConnectEvent
  BY <1>8 DEF ConnectEvent, CancelTimer
<1>9. CASE WriteEvent
  <2>1. CASE WriteLoop(mSendBuf, armed \ {"write"})
    BY <1>9, <2>1, WriteLoopType DEF WriteEvent
  <2>2. CASE ~Connected
    BY <1>9, <2>2 DEF WriteEvent
  <2> QED BY <1>9, <2>1, <2>2 DEF WriteEvent
<1>10. CASE ReadEvent
  <2>1. <<"recv">> \in Seq(Frame) /\ <<>> \in Seq(Frame)
    BY DEF Frame
  <2> QED BY <1>10, <2>1 DEF ReadEvent
<1>11. ASSUME NEW data \in Chunks, ReadData(data) PROVE TypeOK'
  BY <1>11, DataTypes, DecodeLoopType DEF ReadData
<1>12. CASE ReadWouldBlock
  BY <1>12, FrontFacts DEF ReadWouldBlock, Running
<1>13. CASE ReadFails
  <2>1. Append(Append(stack, "failed"), "closing") \in Seq(Frame)
    BY DEF Frame, UserFrame
  <2> QED BY <1>13, <2>1 DEF ReadFails, BeginClose, DropSocket, CancelTimer
<1>14. CASE RecvEnds
  <2>1. Front(stack) \in Seq(Frame)
    BY <1>14, FrontFacts DEF RecvEnds, Running
  <2>2. CASE OnError
    <3>1. timers' \subseteq timers /\ mTimeId' = 0 /\ note' = "onError"
      BY <2>2 DEF OnError, CancelTimer
    <3> QED BY <1>14, <2>1, <3>1 DEF RecvEnds
  <2>3. CASE note' = "none" /\ UNCHANGED <<mTimeId, timers>>
    BY <1>14, <2>1, <2>3 DEF RecvEnds
  <2> QED BY <1>14, <2>2, <2>3 DEF RecvEnds
<1>15. CASE HandlerReturns
  BY <1>15, FrontFacts, DecodeLoopType DEF HandlerReturns, Running
<1>16. CASE CloseReturns
  <2>1. Front(stack) \in Seq(Frame)
    BY <1>16, FrontFacts DEF CloseReturns, Running
  <2>2. ASSUME Below("failed")
        PROVE  Append(Front(Front(stack)), "closed") \in Seq(Frame)
    <3>1. Front(stack) # <<>>
      BY <1>16, <2>2, FrontFacts DEF CloseReturns, Running, Below
    <3>2. Front(Front(stack)) \in Seq(Frame)
      BY <2>1, <3>1, FrontFacts
    <3> QED BY <3>2 DEF Frame, UserFrame
  <2>3. stack' \in Seq(Frame) /\ note' \in Callback
    BY <1>16, <2>1, <2>2 DEF CloseReturns
  <2> QED BY <1>16, <2>3 DEF CloseReturns, Reset
<1>17. CASE ClosedReturns
  BY <1>17, FrontFacts DEF ClosedReturns, Running
<1>18. CASE UNCHANGED vars
  BY <1>18 DEF vars
<1> QED
  BY <1>1, <1>2, <1>3, <1>4, <1>5, <1>6, <1>7, <1>8, <1>9, <1>10, <1>11, <1>12,
     <1>13, <1>14, <1>15, <1>16, <1>17, <1>18
  DEF Next, User, Platform, Loops

\* Every variable of AEESocket keeps its type; in particular neither buffer
\* ever holds more than its capacity.
THEOREM TypeCorrect == Spec => []TypeOK
<1>1. Init => TypeOK
  BY DEF Init, TypeOK, State, Callback
<1>2. QED BY <1>1, TypeStep, PTL DEF Spec
-----------------------------------------------------------------------------
(* Interrupted functions, and the write loop *)

\* What is interrupted after a call and after a return.
LEMMA HoldsAppend ==
    ASSUME NEW s \in Seq(Frame), NEW f \in Frame, NEW g, Holds(Append(s, f), g)
    PROVE  Holds(s, g) \/ f = g
<1>1. PICK i \in 1..(Len(s) + 1) : Append(s, f)[i] = g
  BY DEF Holds
<1>2. CASE i = Len(s) + 1
  BY <1>1, <1>2
<1>3. CASE i \in 1..Len(s)
  BY <1>1, <1>3 DEF Holds
<1> QED BY <1>1, <1>2, <1>3

LEMMA HoldsFront ==
    ASSUME NEW s \in Seq(Frame), s # <<>>, NEW g, Holds(Front(s), g)
    PROVE  Holds(s, g)
<1>1. PICK i \in 1..Len(Front(s)) : Front(s)[i] = g
  BY DEF Holds
<1>2. i \in 1..(Len(s) - 1) /\ s[i] = g
  BY <1>1, FrontFacts
<1> QED BY <1>2 DEF Holds

\* The running function is on the stack.
LEMMA HoldsRunning ==
    ASSUME TypeOK, NEW f, Running(f)
    PROVE  Holds(stack, f) /\ stack # <<>>
<1>1. stack \in Seq(Frame) /\ stack # <<>> /\ Last(stack) = f
  BY DEF TypeOK, Running
<1>2. Last(stack) = stack[Len(stack)] /\ Len(stack) \in 1..Len(stack)
  BY <1>1, FrontFacts
<1> QED BY <1>1, <1>2 DEF Holds

\* The write loop moves bytes from the buffer to the wire, and ends with the
\* buffer empty, with onWriteEv registered, or with the connection closed.
LEMMA WriteLoopStep ==
    ASSUME TypeOK, NEW buf \in Seq(Byte), NEW before, WriteLoop(buf, before)
    PROVE  /\ wire' \o mSendBuf' = wire \o buf
           /\ mStat' = mStat /\ mRecvBuf' = mRecvBuf
           /\ \/ /\ UNCHANGED <<mSocket, mTimeId, timers, stack>>
                 /\ \/ mSending' = 0 /\ mSendBuf' = <<>> /\ armed' = before
                    \/ mSending' = 1 /\ armed' = before \cup {"write"}
              \/ BeginClose(Append(stack, "failed"))
<1>1. PICK k \in 0..Len(buf) :
        /\ wire' = wire \o SubSeq(buf, 1, k)
        /\ mSendBuf' = Taken(buf, k)
        /\ \/ /\ k = Len(buf)
              /\ mSending' = 0 /\ armed' = before
              /\ note' = "none"
              /\ UNCHANGED <<mStat, mSocket, mTimeId, mRecvBuf, timers, stack>>
           \/ /\ k < Len(buf)
              /\ mSending' = 1 /\ armed' = before \cup {"write"}
              /\ note' = "none"
              /\ UNCHANGED <<mStat, mSocket, mTimeId, mRecvBuf, timers, stack>>
           \/ /\ k < Len(buf)
              /\ mSending' = 0
              /\ BeginClose(Append(stack, "failed"))
  BY DEF WriteLoop
<1>2. wire' \o mSendBuf' = wire \o buf
  <2> DEFINE head == SubSeq(buf, 1, k)
             rest == Taken(buf, k)
  <2>1. head \in Seq(Byte) /\ rest \in Seq(Byte) /\ wire \in Seq(Byte)
    BY CutBuffer, TakenFacts DEF TypeOK
  <2>2. head \o rest = buf
    BY CutBuffer
  <2>3. (wire \o head) \o rest = wire \o (head \o rest)
    <3> HIDE DEF head, rest
    <3> QED BY ONLY <2>1, ConcatAssociative, SMTT(60)
  <2> QED BY <1>1, <2>2, <2>3
<1>3. k = Len(buf) => mSendBuf' = <<>>
  BY <1>1 DEF Taken
<1>4. mStat' = mStat /\ mRecvBuf' = mRecvBuf
  BY <1>1 DEF BeginClose
<1> QED BY <1>1, <1>2, <1>3, <1>4
-----------------------------------------------------------------------------
(* The stream *)

\* A close() drops the socket and keeps the buffer for its second half.
LEMMA BeginCloseStream ==
    ASSUME StreamInv, NEW base, BeginClose(base)
    PROVE  NullUnarmed' /\ ReopenedFresh' /\ StreamIntegrity' /\ mStat' = mStat
BY DEF BeginClose, DropSocket, NullUnarmed, ReopenedFresh, StreamIntegrity, HasSocket

\* The write loop keeps the stream, wherever it is called.
LEMMA WriteLoopStream ==
    ASSUME TypeOK, StreamInv, Connected, NEW buf \in Seq(Byte), NEW before,
           WriteLoop(buf, before), accepted' = wire \o buf
    PROVE  StreamInv'
<1>1. wire' \o mSendBuf' = wire \o buf /\ mStat' = mStat
  BY WriteLoopStep
<1>2. IdleEmpty'
  BY <1>1 DEF IdleEmpty, Connected
<1>3. CASE BeginClose(Append(stack, "failed"))
  BY <1>2, <1>3, BeginCloseStream DEF StreamInv
<1>4. CASE UNCHANGED <<mSocket, stack>>
  <2>1. ~Holds(stack, "closing")
    BY DEF StreamInv, ReopenedFresh, Connected
  <2> QED BY <1>1, <1>2, <1>4, <2>1
          DEF StreamInv, NullUnarmed, ReopenedFresh, StreamIntegrity, Connected, HasSocket
<1> QED BY <1>3, <1>4, WriteLoopStep

LEMMA StreamStep == TypeOK /\ StreamInv /\ [Next]_vars => StreamInv'
<1> SUFFICES ASSUME TypeOK, StreamInv, [Next]_vars PROVE StreamInv'
  OBVIOUS
<1> USE DEF StreamInv, historyVars, objVars
<1>a. IdleEmpty /\ NullUnarmed /\ ReopenedFresh /\ StreamIntegrity
  OBVIOUS
<1>1. CASE ConnectNoSocket
  BY <1>1 DEF ConnectNoSocket, DropSocket, IdleEmpty, NullUnarmed, ReopenedFresh,
              StreamIntegrity, HasSocket
<1>2. ASSUME NEW hasTimeout \in BOOLEAN, Connect(hasTimeout) PROVE StreamInv'
  <2>1. /\ mSendBuf = <<>> /\ mSendBuf' = <<>> /\ mStat \in {"IDLE", "DISCONNECT"}
        /\ mSocket' = "open" /\ wire' = <<>> /\ accepted' = <<>> /\ stack' = stack
    BY <1>2 DEF Connect, MayConnect, IdleEmpty
  <2>2. "read" \in armed' /\ mStat' \in {mStat, "DNS", "CONNECTING"}
    BY <1>2 DEF Connect, ConnectAddr
  <2> QED BY <2>1, <2>2 DEF IdleEmpty, NullUnarmed, ReopenedFresh, StreamIntegrity, HasSocket
<1>3. ASSUME NEW data \in Messages, Send(data) PROVE StreamInv'
  <2> DEFINE buf == Appended(mSendBuf, data, SendMax)
  <2>1. data \in Seq(Byte)
    BY DataTypes
  <2>2. buf \in Seq(Byte)
    <3>1. mSendBuf \in Seq(Byte) /\ Len(mSendBuf) <= SendMax /\ SendMax \in Nat
      BY SocketAssumption DEF TypeOK, SocketAssumption
    <3> QED BY ONLY <2>1, <3>1, AppendedFacts
  <2>3. Connected /\ accepted = wire \o mSendBuf
    BY <1>3 DEF Send, StreamIntegrity, Connected
  <2>4. (wire \o mSendBuf) \o data = wire \o (mSendBuf \o data)
    <3>1. wire \in Seq(Byte) /\ mSendBuf \in Seq(Byte)
      BY DEF TypeOK
    <3> QED BY ONLY <2>1, <3>1, ConcatAssociative, SMTT(60)
  <2>5. accepted' = wire \o buf
    BY <1>3, <2>3, <2>4 DEF Send, Appended
  <2>6. CASE WriteLoop(buf, armed)
    <3> HIDE DEF buf, StreamInv
    <3> QED BY <2>2, <2>3, <2>5, <2>6, WriteLoopStream
  <2>7. CASE /\ mSendBuf' = buf
             /\ UNCHANGED <<mStat, mSocket, stack, armed, wire>>
    <3> HIDE DEF buf
    <3> QED BY <2>3, <2>5, <2>7, <1>a
            DEF IdleEmpty, NullUnarmed, ReopenedFresh, StreamIntegrity, Connected, HasSocket
  <2> QED BY <1>3, <2>6, <2>7 DEF Send
<1>4. CASE Close
  <2>1. CASE BeginClose(stack) /\ UNCHANGED mSendBuf
    BY <2>1, BeginCloseStream DEF IdleEmpty
  <2>2. CASE ~HasSocket /\ Reset /\ UNCHANGED <<mSocket, armed>>
    BY <2>2 DEF Reset, IdleEmpty, NullUnarmed, ReopenedFresh, StreamIntegrity, HasSocket
  <2> QED BY <1>4, <2>1, <2>2 DEF Close
<1>5. CASE Destroy
  BY <1>5 DEF Destroy, DropSocket, IdleEmpty, NullUnarmed, ReopenedFresh,
              StreamIntegrity, HasSocket
<1>6. ASSUME NEW n \in resolving, DnsAnswer(n) PROVE StreamInv'
  <2>1. /\ UNCHANGED <<mSocket, mSendBuf, stack, accepted, wire>> /\ stack = <<>>
        /\ mStat' \in {mStat, "CONNECTING"}
    BY <1>6 DEF DnsAnswer, AtLoop, ConnectAddr
  <2>2. ~HasSocket => armed' = {}
    BY <1>6, <1>a DEF DnsAnswer, ConnectAddr, NullUnarmed
  <2>3. ~Holds(stack, "closing")
    BY <2>1 DEF Holds
  <2> QED BY <2>1, <2>2, <2>3, <1>a
          DEF IdleEmpty, NullUnarmed, ReopenedFresh, StreamIntegrity, HasSocket
<1>7. ASSUME NEW n \in timers, ConnectTimeout(n) PROVE StreamInv'
  BY <1>7 DEF ConnectTimeout, IdleEmpty, NullUnarmed, ReopenedFresh, StreamIntegrity, HasSocket
<1>8. CASE ConnectEvent
  <2>1. /\ UNCHANGED <<mSendBuf, stack, accepted, wire>> /\ stack = <<>>
        /\ HasSocket /\ mSocket' \in {mSocket, "up"} /\ mStat' \in {mStat, "CONNECTED"}
    BY <1>8, <1>a DEF ConnectEvent, AtLoop, NullUnarmed
  <2>2. ~Holds(stack, "closing")
    BY <2>1 DEF Holds
  <2> QED BY <2>1, <2>2, <1>a
          DEF IdleEmpty, NullUnarmed, ReopenedFresh, StreamIntegrity, HasSocket
<1>9. CASE WriteEvent
  <2>1. CASE Connected /\ WriteLoop(mSendBuf, armed \ {"write"}) /\ UNCHANGED accepted
    <3>1. accepted' = wire \o mSendBuf /\ mSendBuf \in Seq(Byte)
      BY <2>1 DEF StreamIntegrity, Connected, TypeOK
    <3> HIDE DEF StreamInv
    <3> QED BY <2>1, <3>1, WriteLoopStream
  <2>2. CASE UNCHANGED <<mStat, mSocket, mSendBuf, stack, accepted, wire>>
    <3>1. stack = <<>> /\ HasSocket
      BY <1>9, <1>a DEF WriteEvent, AtLoop, NullUnarmed
    <3>2. ~Holds(stack, "closing")
      BY <3>1 DEF Holds
    <3> QED BY <2>2, <3>1, <3>2
            DEF IdleEmpty, NullUnarmed, ReopenedFresh, StreamIntegrity, HasSocket
  <2> QED BY <1>9, <2>1, <2>2 DEF WriteEvent
<1>10. CASE ReadEvent
  <2>1. ~Holds(stack', "closing")
    BY <1>10 DEF ReadEvent, Holds
  <2> QED BY <1>10, <2>1 DEF ReadEvent, IdleEmpty, NullUnarmed, ReopenedFresh,
                             StreamIntegrity, HasSocket
<1>11. ASSUME /\ stack # <<>>
              /\ stack' \in {Front(stack), stack, Append(stack, "handler"),
                            Append(Front(stack), "handler")}
              /\ armed' \in {armed, armed \cup {"read"}}
              /\ UNCHANGED <<mStat, mSocket, mSendBuf, accepted, wire>>
              /\ ~HasSocket => armed' = armed
       PROVE  StreamInv'
  <2>1. stack \in Seq(Frame) /\ Front(stack) \in Seq(Frame) /\ "handler" \in Frame
    BY <1>11, FrontFacts DEF TypeOK, Frame, UserFrame
  <2>2. Holds(stack', "closing") => Holds(stack, "closing")
    BY <1>11, <2>1, HoldsFront, HoldsAppend
  <2> QED BY <1>11, <2>2, <1>a
          DEF IdleEmpty, NullUnarmed, ReopenedFresh, StreamIntegrity, HasSocket
<1>12. ASSUME NEW data \in Chunks, ReadData(data) PROVE StreamInv'
  BY <1>12, <1>11 DEF ReadData, DecodeLoop, Running
<1>13. CASE ReadWouldBlock
  BY <1>13, <1>11 DEF ReadWouldBlock, Running, CanRead, Connected
<1>14. CASE ReadFails
  BY <1>14, BeginCloseStream DEF ReadFails, IdleEmpty
<1>15. CASE RecvEnds
  BY <1>15, <1>11 DEF RecvEnds, Running
<1>16. CASE HandlerReturns
  BY <1>16, <1>11 DEF HandlerReturns, DecodeLoop, Running
<1>17. CASE CloseReturns
  <2>1. Holds(stack, "closing") /\ stack # <<>>
    BY <1>17, HoldsRunning DEF CloseReturns
  <2>2. /\ mSendBuf' = <<>> /\ mStat' = "IDLE"
        /\ UNCHANGED <<mSocket, armed, accepted, wire>>
    BY <1>17 DEF CloseReturns, Reset
  <2>3. HasSocket => mSendBuf = <<>> /\ mSocket = "open" /\ "read" \in armed
    BY <2>1, <1>a DEF ReopenedFresh
  <2> QED BY <2>2, <2>3, <1>a
          DEF IdleEmpty, NullUnarmed, ReopenedFresh, StreamIntegrity, HasSocket
<1>18. CASE ClosedReturns
  BY <1>18, <1>11 DEF ClosedReturns, Running
<1>19. CASE UNCHANGED vars
  BY <1>19 DEF vars, IdleEmpty, NullUnarmed, ReopenedFresh, StreamIntegrity, HasSocket
<1> QED
  BY <1>1, <1>2, <1>3, <1>4, <1>5, <1>6, <1>7, <1>8, <1>9, <1>10, <1>12,
     <1>13, <1>14, <1>15, <1>16, <1>17, <1>18, <1>19
  DEF Next, User, Platform, Loops

\* On every connection, what send() took is what was written followed by what
\* waits in the send buffer.
THEOREM StreamCorrect == Spec => []StreamIntegrity
<1>1. Init => StreamInv
  BY DEF Init, StreamInv, IdleEmpty, NullUnarmed, ReopenedFresh, StreamIntegrity,
         HasSocket
<1>2. StreamInv => StreamIntegrity
  BY DEF StreamInv
<1>3. QED BY <1>1, <1>2, StreamStep, TypeCorrect, PTL DEF Spec
-----------------------------------------------------------------------------
(* Wakeups *)

\* The write loop leaves mSending in step with the registration.
LEMMA WriteLoopWake ==
    ASSUME TypeOK, Connected, NEW buf \in Seq(Byte), NEW before,
           WriteLoop(buf, before), UNCHANGED resolved
    PROVE  WakeInv'
<1>1. mStat' = mStat
  BY WriteLoopStep
<1>2. CASE BeginClose(Append(stack, "failed"))
  BY <1>2 DEF BeginClose, DropSocket, WakeInv, HasSocket, Connected
<1>3. CASE mSending' = 0 /\ mSendBuf' = <<>>
  BY <1>1, <1>3 DEF WakeInv, HasSocket, Connected
<1>4. CASE mSending' = 1 /\ armed' = before \cup {"write"}
  BY <1>1, <1>4 DEF WakeInv, HasSocket, Connected
<1> QED BY <1>2, <1>3, <1>4, WriteLoopStep

LEMMA WakeStep == TypeOK /\ StreamInv /\ WakeInv /\ [Next]_vars => WakeInv'
<1> SUFFICES ASSUME TypeOK, StreamInv, WakeInv, [Next]_vars PROVE WakeInv'
  OBVIOUS
<1> USE DEF historyVars, objVars
<1>a. /\ HasSocket /\ mSending = 1 => "write" \in armed
      /\ Connected /\ resolved = "own" /\ mSendBuf # <<>> => mSending = 1
      /\ HasSocket /\ resolved = "own" /\ mStat # "CONNECTED" => mSendBuf = <<>>
  BY DEF WakeInv
<1>1. CASE ConnectNoSocket
  BY <1>1 DEF ConnectNoSocket, DropSocket, WakeInv, HasSocket, Connected
<1>2. ASSUME NEW hasTimeout \in BOOLEAN, Connect(hasTimeout) PROVE WakeInv'
  <2>1. mSendBuf' = <<>> /\ mSending' = 0
    BY <1>2 DEF Connect, MayConnect, StreamInv, IdleEmpty
  <2> QED BY <2>1 DEF WakeInv
<1>3. ASSUME NEW data \in Messages, Send(data) PROVE WakeInv'
  <2> DEFINE buf == Appended(mSendBuf, data, SendMax)
  <2>1. Connected /\ UNCHANGED resolved
    BY <1>3 DEF Send
  <2>2. CASE WriteLoop(buf, armed)
    <3>1. data \in Seq(Byte)
      BY DataTypes
    <3>2. mSendBuf \in Seq(Byte) /\ Len(mSendBuf) <= SendMax /\ SendMax \in Nat
      BY SocketAssumption DEF TypeOK, SocketAssumption
    <3>3. buf \in Seq(Byte)
      BY ONLY <3>1, <3>2, AppendedFacts
    <3> HIDE DEF buf
    <3> QED BY <2>1, <2>2, <3>3, WriteLoopWake
  <2>3. CASE mSending = 1 /\ UNCHANGED <<mStat, mSocket, mSending, armed>>
    BY <2>1, <2>3, <1>a DEF WakeInv, HasSocket, Connected
  <2> QED BY <1>3, <2>2, <2>3 DEF Send
<1>4. CASE Close
  BY <1>4 DEF Close, BeginClose, DropSocket, WakeInv, HasSocket, Connected
<1>5. CASE Destroy
  BY <1>5 DEF Destroy, DropSocket, WakeInv, HasSocket, Connected
<1>6. ASSUME NEW n \in resolving, DnsAnswer(n) PROVE WakeInv'
  <2>1. UNCHANGED <<mSocket, mSending, mSendBuf>> /\ ("write" \in armed => "write" \in armed')
    BY <1>6 DEF DnsAnswer, ConnectAddr
  <2>2. CASE UNCHANGED <<mStat, resolved>>
    BY <2>1, <2>2, <1>a DEF WakeInv, HasSocket, Connected
  <2>3. CASE /\ mStat' = "CONNECTING"
             /\ resolved' = IF n = attempt /\ mStat = "DNS" THEN resolved ELSE "stale"
    BY <2>1, <2>3, <1>a DEF WakeInv, HasSocket, Connected
  <2> QED BY <1>6, <2>2, <2>3 DEF DnsAnswer, ConnectAddr
<1>7. ASSUME NEW n \in timers, ConnectTimeout(n) PROVE WakeInv'
  BY <1>7, <1>a DEF ConnectTimeout, WakeInv, HasSocket, Connected
<1>8. CASE ConnectEvent
  <2>1. HasSocket
    BY <1>8 DEF ConnectEvent, StreamInv, NullUnarmed
  <2> QED BY <1>8, <2>1, <1>a DEF ConnectEvent, WakeInv, HasSocket, Connected
<1>9. CASE WriteEvent
  <2>1. CASE Connected /\ WriteLoop(mSendBuf, armed \ {"write"})
    <3>1. UNCHANGED resolved /\ mSendBuf \in Seq(Byte)
      BY <1>9 DEF WriteEvent, TypeOK
    <3> QED BY <2>1, <3>1, WriteLoopWake
  <2>2. CASE /\ ~Connected /\ mSending' = 0
             /\ UNCHANGED <<mStat, mSocket, mSendBuf, resolved>>
    BY <2>2, <1>a DEF WakeInv, HasSocket, Connected
  <2> QED BY <1>9, <2>1, <2>2 DEF WriteEvent
<1>10. CASE ReadEvent
  BY <1>10, <1>a DEF ReadEvent, WakeInv, HasSocket, Connected
<1>11. ASSUME /\ armed' \in {armed, armed \cup {"read"}}
              /\ UNCHANGED <<mStat, mSocket, mSending, mSendBuf, resolved>>
       PROVE  WakeInv'
  BY <1>11, <1>a DEF WakeInv, HasSocket, Connected
<1>12. ASSUME NEW data \in Chunks, ReadData(data) PROVE WakeInv'
  BY <1>12, <1>11 DEF ReadData
<1>13. CASE ReadWouldBlock
  BY <1>13, <1>11 DEF ReadWouldBlock
<1>14. CASE ReadFails
  BY <1>14 DEF ReadFails, BeginClose, DropSocket, WakeInv, HasSocket, Connected
<1>15. CASE RecvEnds
  BY <1>15, <1>11 DEF RecvEnds
<1>16. CASE HandlerReturns
  BY <1>16, <1>11 DEF HandlerReturns
<1>17. CASE CloseReturns
  <2>1. mSendBuf' = <<>> /\ UNCHANGED <<mSocket, mSending, armed>>
    BY <1>17 DEF CloseReturns, Reset
  <2> QED BY <2>1, <1>a DEF WakeInv, HasSocket
<1>18. CASE ClosedReturns
  BY <1>18, <1>11 DEF ClosedReturns
<1>19. CASE UNCHANGED vars
  BY <1>19, <1>11 DEF vars
<1> QED
  BY <1>1, <1>2, <1>3, <1>4, <1>5, <1>6, <1>7, <1>8, <1>9, <1>10, <1>12,
     <1>13, <1>14, <1>15, <1>16, <1>17, <1>18, <1>19
  DEF Next, User, Platform, Loops

\* Bytes never wait on a live connection with nobody to send them.
THEOREM WakeupCorrect == Spec => []NoLostWakeup
<1>1. Init => StreamInv /\ WakeInv
  BY DEF Init, StreamInv, IdleEmpty, NullUnarmed, ReopenedFresh, StreamIntegrity,
         WakeInv, HasSocket, Connected
<1>2. WakeInv => NoLostWakeup
  BY DEF WakeInv, NoLostWakeup, Connected
<1>3. QED BY <1>1, <1>2, StreamStep, WakeStep, TypeCorrect, PTL DEF Spec

-----------------------------------------------------------------------------
(* Timers *)

LEMMA TimerStep == TypeOK /\ StreamInv /\ TimerInv /\ [Next]_vars => TimerInv'
<1> SUFFICES ASSUME TypeOK, StreamInv, TimerInv, [Next]_vars PROVE TimerInv'
  OBVIOUS
<1> USE DEF historyVars, objVars
<1>a. user = "careful" => /\ timers \subseteq {mTimeId}
                          /\ Connected \/ ~HasSocket => timers = {}
  BY DEF TimerInv
<1>b. ASSUME CancelTimer, UNCHANGED user PROVE TimerInv'
  BY <1>b, <1>a DEF CancelTimer, TimerInv
<1>c. ASSUME UNCHANGED <<timers, mTimeId, user, mStat, mSocket>> PROVE TimerInv'
  BY <1>c, <1>a DEF TimerInv, HasSocket, Connected
<1>1. CASE ConnectNoSocket
  BY <1>1, <1>a DEF ConnectNoSocket, MayConnect, DropSocket, TimerInv, HasSocket, Connected
<1>2. ASSUME NEW hasTimeout \in BOOLEAN, Connect(hasTimeout) PROVE TimerInv'
  <2> DEFINE id   == IF hasTimeout THEN attempt + 1 ELSE mTimeId
             live == IF hasTimeout THEN timers \cup {attempt + 1} ELSE timers
  <2> SUFFICES ASSUME user' = "careful" PROVE TimerInv'
    BY DEF TimerInv
  <2>1. timers = {}
    BY <1>2, <1>a DEF Connect, MayConnect
  <2>2. live \subseteq {id} /\ live \ {id} = {}
    BY <2>1
  <2>3. /\ mSocket' = "open" /\ mStat' # "CONNECTED"
        /\ (timers' = live /\ mTimeId' = id) \/ timers' = live \ {id}
    BY <1>2 DEF Connect, ConnectAddr, MayConnect
  <2> HIDE DEF id, live
  <2> QED BY <2>2, <2>3 DEF TimerInv, HasSocket, Connected
<1>3. ASSUME NEW data \in Messages, Send(data) PROVE TimerInv'
  <2>1. UNCHANGED user
    BY <1>3 DEF Send
  <2>2. CASE WriteLoop(Appended(mSendBuf, data, SendMax), armed)
    BY <2>1, <2>2, <1>b, <1>c DEF WriteLoop, BeginClose
  <2>3. CASE UNCHANGED <<timers, mTimeId, mStat, mSocket>>
    BY <2>1, <2>3, <1>c
  <2> QED BY <1>3, <2>2, <2>3 DEF Send
<1>4. CASE Close
  <2>1. CASE BeginClose(stack)
    BY <1>4, <2>1, <1>b DEF Close, BeginClose
  <2>2. CASE ~HasSocket /\ UNCHANGED <<mSocket, mTimeId, timers>>
    BY <1>4, <2>2, <1>a DEF Close, TimerInv, HasSocket, Connected
  <2> QED BY <1>4, <2>1, <2>2 DEF Close
<1>5. CASE Destroy
  BY <1>5, <1>b DEF Destroy
<1>6. ASSUME NEW n \in resolving, DnsAnswer(n) PROVE TimerInv'
  <2>1. /\ UNCHANGED <<user, mSocket>>
        /\ mStat' \in {mStat, "CONNECTING"}
        /\ \/ UNCHANGED <<timers, mTimeId>>
           \/ timers' = timers \ {mTimeId}
    BY <1>6 DEF DnsAnswer, ConnectAddr, OnError, CancelTimer
  <2> QED BY <2>1, <1>a DEF TimerInv, HasSocket, Connected
<1>7. ASSUME NEW n \in timers, ConnectTimeout(n) PROVE TimerInv'
  BY <1>7, <1>a DEF ConnectTimeout, TimerInv, HasSocket, Connected
<1>8. CASE ConnectEvent
  BY <1>8, <1>b DEF ConnectEvent
<1>9. CASE WriteEvent
  <2>1. CASE WriteLoop(mSendBuf, armed \ {"write"})
    BY <1>9, <2>1, <1>b, <1>c DEF WriteEvent, WriteLoop, BeginClose
  <2>2. CASE UNCHANGED <<timers, mTimeId, mStat, mSocket>>
    BY <1>9, <2>2, <1>c DEF WriteEvent
  <2> QED BY <1>9, <2>1, <2>2 DEF WriteEvent
<1>10. CASE ReadEvent
  BY <1>10, <1>c DEF ReadEvent
<1>11. ASSUME NEW data \in Chunks, ReadData(data) PROVE TimerInv'
  BY <1>11, <1>c DEF ReadData
<1>12. CASE ReadWouldBlock
  BY <1>12, <1>c DEF ReadWouldBlock
<1>13. CASE ReadFails
  BY <1>13, <1>b DEF ReadFails, BeginClose
<1>14. CASE RecvEnds
  BY <1>14, <1>b, <1>c DEF RecvEnds, OnError
<1>15. CASE HandlerReturns
  BY <1>15, <1>c DEF HandlerReturns
<1>16. CASE CloseReturns
  BY <1>16, <1>a DEF CloseReturns, Reset, TimerInv, HasSocket, Connected
<1>17. CASE ClosedReturns
  BY <1>17, <1>c DEF ClosedReturns
<1>18. CASE UNCHANGED vars
  BY <1>18, <1>c DEF vars
<1> QED
  BY <1>1, <1>2, <1>3, <1>4, <1>5, <1>6, <1>7, <1>8, <1>9, <1>10, <1>11, <1>12,
     <1>13, <1>14, <1>15, <1>16, <1>17, <1>18
  DEF Next, User, Platform, Loops

\* A user who closes before connecting again has no connect timer left once
\* the connection is up; without a socket no event and no timer is left.
THEOREM TimersCorrect == Spec => []NothingStray
<1>1. Init => StreamInv /\ TimerInv
  BY DEF Init, StreamInv, IdleEmpty, NullUnarmed, ReopenedFresh, StreamIntegrity,
         TimerInv, HasSocket, Connected
<1>2. StreamInv /\ TimerInv => NothingStray
  BY DEF StreamInv, NullUnarmed, TimerInv, NothingStray, ConnectedNoTimer, ReleasedQuiet
<1>3. QED BY <1>1, <1>2, StreamStep, TimerStep, TypeCorrect, PTL DEF Spec
-----------------------------------------------------------------------------
(* Frames *)

LEMMA NoFrameInNothing == ~Complete(<<>>)
BY DEF Complete

\* A frame on the stack and its return keep the shape of the stack.
LEMMA ShapedAppend ==
    ASSUME NEW s \in Seq(Frame), Shaped(s), NEW f \in Frame,
           f \notin {"recv", "handler"} \/ (f = "handler" /\ Len(s) = 1 /\ s[1] = "recv")
    PROVE  Shaped(Append(s, f))
<1>1. ASSUME NEW i \in 1..Len(s) PROVE Append(s, f)[i] = s[i]
  OBVIOUS
<1>2. Append(s, f)[Len(s) + 1] = f /\ Len(Append(s, f)) = Len(s) + 1
  OBVIOUS
<1>3. ASSUME NEW i \in 1..Len(Append(s, f))
      PROVE  /\ Append(s, f)[i] = "recv" => i = 1
             /\ Append(s, f)[i] = "handler" => i = 2 /\ Append(s, f)[1] = "recv"
  <2>1. CASE i \in 1..Len(s)
    <3>1. 1 \in 1..Len(s)
      BY <2>1
    <3> QED BY <2>1, <3>1, <1>1 DEF Shaped
  <2>2. CASE i = Len(s) + 1
    <3>1. Append(s, f)[i] = f /\ f # "recv"
      BY <2>2, <1>2
    <3>2. ASSUME f = "handler" PROVE i = 2 /\ Append(s, f)[1] = "recv"
      <4>1. Len(s) = 1 /\ s[1] = "recv" /\ 1 \in 1..Len(s)
        BY <3>2
      <4>2. Append(s, f)[1] = s[1]
        BY <4>1, <1>1
      <4> QED BY <4>1, <4>2, <2>2
    <3> QED BY <3>1, <3>2
  <2> QED BY <1>2, <1>3, <2>1, <2>2
<1> QED BY <1>3 DEF Shaped

LEMMA ShapedFront ==
    ASSUME NEW s \in Seq(Frame), s # <<>>, Shaped(s)
    PROVE  Shaped(Front(s))
<1>1. ASSUME NEW i \in 1..Len(Front(s))
      PROVE  /\ Front(s)[i] = "recv" => i = 1
             /\ Front(s)[i] = "handler" => i = 2 /\ Front(s)[1] = "recv"
  <2>1. i \in 1..(Len(s) - 1) /\ 1 \in 1..(Len(s) - 1)
    BY <1>1, FrontFacts
  <2>2. Front(s)[i] = s[i] /\ Front(s)[1] = s[1]
    BY <2>1, FrontFacts
  <2> QED BY <2>1, <2>2 DEF Shaped
<1> QED BY <1>1 DEF Shaped

\* What is below onRecv() and onHandler.
LEMMA ShapedRunning ==
    ASSUME TypeOK, Shaped(stack)
    PROVE  /\ Running("recv") => Len(stack) = 1 /\ stack[1] = "recv"
           /\ Running("handler") => /\ Front(stack) \in Seq(Frame)
                                    /\ Len(Front(stack)) = 1 /\ Front(stack)[1] = "recv"
<1>1. ASSUME stack # <<>>
      PROVE  /\ Last(stack) = stack[Len(stack)] /\ Len(stack) \in 1..Len(stack)
             /\ Front(stack) \in Seq(Frame) /\ Len(Front(stack)) = Len(stack) - 1
             /\ \A i \in 1..(Len(stack) - 1) : Front(stack)[i] = stack[i]
  BY <1>1, FrontFacts DEF TypeOK
<1>2. ASSUME Running("recv") PROVE Len(stack) = 1 /\ stack[1] = "recv"
  <2>1. stack[Len(stack)] = "recv" /\ Len(stack) \in 1..Len(stack)
    BY <1>1, <1>2 DEF Running
  <2> QED BY <2>1 DEF Shaped
<1>3. ASSUME Running("handler")
      PROVE  /\ Front(stack) \in Seq(Frame)
             /\ Len(Front(stack)) = 1 /\ Front(stack)[1] = "recv"
  <2>1. /\ stack[Len(stack)] = "handler" /\ Len(stack) \in 1..Len(stack)
        /\ stack # <<>>
    BY <1>1, <1>3 DEF Running
  <2>2. Len(stack) = 2 /\ stack[1] = "recv"
    BY <2>1 DEF Shaped
  <2> QED BY <1>1, <2>1, <2>2
<1> QED BY <1>2, <1>3

\* The decode loop ends in onHandler or with no complete frame.
LEMMA DecodeLoopFrames ==
    ASSUME NEW buf, NEW base \in Seq(Frame), DecodeLoop(buf, base),
           Len(base) = 1, base[1] = "recv"
    PROVE  FrameInv'
<1>0. Shaped(base) /\ ~Holds(base, "closed")
  BY DEF Shaped, Holds
<1>1. CASE Complete(buf)
  <2>1. stack' = Append(base, "handler") /\ "handler" \in Frame /\ stack' # <<>>
    BY <1>1 DEF DecodeLoop, Frame, UserFrame
  <2>2. Last(stack') = "handler"
    BY <2>1 DEF Last
  <2>3. ~Holds(stack', "closed") /\ Shaped(stack')
    BY <1>0, <2>1, HoldsAppend, ShapedAppend
  <2> QED BY <2>1, <2>2, <2>3 DEF FrameInv, Running
<1>2. CASE ~Complete(buf)
  BY <1>0, <1>2 DEF DecodeLoop, FrameInv
<1> QED BY <1>1, <1>2

\* After the first half of close() the clauses have nothing to say, but for
\* what was on the stack before.
LEMMA BeginCloseFrames ==
    ASSUME TypeOK, FrameInv, NEW base \in Seq(Frame), BeginClose(base), Shaped(base),
           Holds(base, "closed") => Holds(stack, "closed")
    PROVE  FrameInv'
<1>1. stack' = Append(base, "closing") /\ "closing" \in Frame /\ mRecvBuf' = mRecvBuf
  BY DEF BeginClose, Frame, UserFrame
<1>2. stack' # <<>> /\ Last(stack') = "closing"
  BY <1>1 DEF Last
<1>3. Holds(stack', "closed") => Holds(stack, "closed")
  BY <1>1, HoldsAppend
<1>4. Shaped(stack')
  BY <1>1, ShapedAppend
<1> QED BY <1>1, <1>2, <1>3, <1>4 DEF FrameInv, Running

\* The first half of close(), called after a read or a write that failed.
LEMMA FailedFrames ==
    ASSUME TypeOK, FrameInv, BeginClose(Append(stack, "failed"))
    PROVE  FrameInv'
<1>1. stack \in Seq(Frame) /\ "failed" \in Frame /\ Shaped(stack)
  BY DEF TypeOK, Frame, FrameInv
<1>2. Append(stack, "failed") \in Seq(Frame) /\ Shaped(Append(stack, "failed"))
  BY <1>1, ShapedAppend
<1>3. Holds(Append(stack, "failed"), "closed") => Holds(stack, "closed")
  BY <1>1, HoldsAppend
<1> QED BY <1>2, <1>3, BeginCloseFrames

LEMMA FrameStep == TypeOK /\ FrameInv /\ [Next]_vars => FrameInv'
<1> SUFFICES ASSUME TypeOK, FrameInv, [Next]_vars PROVE FrameInv'
  OBVIOUS
<1> USE DEF historyVars, objVars
<1>a. /\ stack = <<>> \/ Running("recv") => ~Complete(mRecvBuf)
      /\ Holds(stack, "closed") => mRecvBuf = <<>>
      /\ stack \in Seq(Frame) /\ Shaped(stack)
  BY DEF FrameInv, TypeOK
<1>b. ASSUME UNCHANGED <<stack, mRecvBuf>> PROVE FrameInv'
  BY <1>b, <1>a DEF FrameInv, Running
<1>c. ASSUME mRecvBuf' = <<>>, Shaped(stack') PROVE FrameInv'
  BY <1>c, NoFrameInNothing DEF FrameInv
<1>d. ASSUME Running("recv"), stack' = Front(stack), UNCHANGED mRecvBuf PROVE FrameInv'
  <2>1. ~Complete(mRecvBuf) /\ stack # <<>>
    BY <1>d, <1>a DEF Running
  <2>2. Holds(stack', "closed") => Holds(stack, "closed")
    BY <1>d, <1>a, <2>1, HoldsFront
  <2>3. Shaped(stack')
    BY <1>d, <1>a, <2>1, ShapedFront
  <2> QED BY <1>d, <1>a, <2>1, <2>2, <2>3 DEF FrameInv
<1>1. CASE ConnectNoSocket
  BY <1>1, <1>b DEF ConnectNoSocket
<1>2. ASSUME NEW hasTimeout \in BOOLEAN, Connect(hasTimeout) PROVE FrameInv'
  BY <1>2, <1>b DEF Connect
<1>3. ASSUME NEW data \in Messages, Send(data) PROVE FrameInv'
  <2>1. CASE WriteLoop(Appended(mSendBuf, data, SendMax), armed)
    BY <2>1, <1>b, FailedFrames DEF WriteLoop
  <2>2. CASE UNCHANGED <<stack, mRecvBuf>>
    BY <2>2, <1>b
  <2> QED BY <1>3, <2>1, <2>2 DEF Send
<1>4. CASE Close
  <2>1. CASE BeginClose(stack)
    BY <2>1, <1>a, BeginCloseFrames
  <2>2. CASE Reset /\ UNCHANGED stack
    BY <2>2, <1>a, <1>c DEF Reset
  <2> QED BY <1>4, <2>1, <2>2 DEF Close
<1>5. CASE Destroy
  <2>1. Shaped(<<"deleted">>)
    BY DEF Shaped
  <2> QED BY <1>5, <2>1, <1>c DEF Destroy
<1>6. ASSUME NEW n \in resolving, DnsAnswer(n) PROVE FrameInv'
  BY <1>6, <1>b DEF DnsAnswer
<1>7. ASSUME NEW n \in timers, ConnectTimeout(n) PROVE FrameInv'
  BY <1>7, <1>b DEF ConnectTimeout
<1>8. CASE ConnectEvent
  BY <1>8, <1>b DEF ConnectEvent
<1>9. CASE WriteEvent
  <2>1. CASE WriteLoop(mSendBuf, armed \ {"write"})
    BY <2>1, <1>b, FailedFrames DEF WriteLoop
  <2>2. CASE UNCHANGED <<stack, mRecvBuf>>
    BY <2>2, <1>b
  <2> QED BY <1>9, <2>1, <2>2 DEF WriteEvent
<1>10. CASE ReadEvent
  <2>1. Shaped(<<"recv">>) /\ Shaped(<<>>) /\ ~Holds(<<"recv">>, "closed")
        /\ ~Holds(<<>>, "closed")
    BY DEF Shaped, Holds
  <2>2. stack' \in {<<"recv">>, <<>>} /\ mRecvBuf' = mRecvBuf /\ stack = <<>>
    BY <1>10 DEF ReadEvent, AtLoop
  <2> QED BY <2>1, <2>2, <1>a DEF FrameInv
<1>11. ASSUME NEW data \in Chunks, ReadData(data) PROVE FrameInv'
  BY <1>11, <1>a, ShapedRunning, DecodeLoopFrames DEF ReadData
<1>12. CASE ReadWouldBlock
  BY <1>12, <1>d DEF ReadWouldBlock
<1>13. CASE ReadFails
  BY <1>13, FailedFrames DEF ReadFails
<1>14. CASE RecvEnds
  BY <1>14, <1>d DEF RecvEnds
<1>15. CASE HandlerReturns
  BY <1>15, <1>a, ShapedRunning, DecodeLoopFrames DEF HandlerReturns
<1>16. CASE CloseReturns
  <2>1. stack # <<>> /\ mRecvBuf' = <<>>
    BY <1>16 DEF CloseReturns, Running, Reset
  <2>2. Front(stack) \in Seq(Frame) /\ Shaped(Front(stack))
    BY <2>1, <1>a, ShapedFront, FrontFacts
  <2>3. ASSUME Below("failed")
        PROVE  Shaped(Append(Front(Front(stack)), "closed"))
    <3>1. Front(stack) # <<>>
      BY <2>1, <2>3, <1>a, FrontFacts DEF Below
    <3>2. Front(Front(stack)) \in Seq(Frame) /\ Shaped(Front(Front(stack)))
      BY <2>2, <3>1, ShapedFront, FrontFacts
    <3>3. "closed" \in Frame
      BY DEF Frame, UserFrame
    <3> QED BY <3>2, <3>3, ShapedAppend
  <2>4. Shaped(stack')
    BY <1>16, <2>2, <2>3 DEF CloseReturns
  <2> QED BY <2>1, <2>4, <1>c
<1>17. CASE ClosedReturns
  <2>1. stack # <<>> /\ Holds(stack, "closed")
    BY <1>17, HoldsRunning DEF ClosedReturns
  <2>2. mRecvBuf' = <<>>
    BY <1>17, <2>1, <1>a DEF ClosedReturns
  <2>3. Shaped(stack')
    BY <1>17, <2>1, <1>a, ShapedFront DEF ClosedReturns
  <2> QED BY <2>2, <2>3, <1>c
<1>18. CASE UNCHANGED vars
  BY <1>18, <1>b DEF vars
<1> QED
  BY <1>1, <1>2, <1>3, <1>4, <1>5, <1>6, <1>7, <1>8, <1>9, <1>10, <1>11, <1>12,
     <1>13, <1>14, <1>15, <1>16, <1>17, <1>18
  DEF Next, User, Platform, Loops

\* onRecv() never goes back to the event loop with a complete frame in the
\* buffer that onHandler was not told of.
THEOREM FramesCorrect == Spec => []NoFrameLeft
<1>1. Init => FrameInv
  BY NoFrameInNothing DEF Init, FrameInv, Shaped, Holds
<1>2. FrameInv => NoFrameLeft
  BY DEF FrameInv, NoFrameLeft, AtLoop
<1>3. QED BY <1>1, <1>2, FrameStep, TypeCorrect, PTL DEF Spec
-----------------------------------------------------------------------------
(* Hearing the peer *)

InRecv(s) == s # <<>> /\ s[1] = "recv"

\* onRecv() stays at the bottom of the stack until it returns.
LEMMA InRecvKept ==
    ASSUME NEW s \in Seq(Frame), InRecv(s)
    PROVE  /\ \A f \in Frame : InRecv(Append(s, f))
           /\ Len(s) > 1 => InRecv(Front(s))
<1>1. Len(s) \in Nat \ {0} /\ 1 \in 1..Len(s) /\ s[1] = "recv"
  BY DEF InRecv
<1>2. ASSUME NEW f \in Frame PROVE InRecv(Append(s, f))
  <2>1. Append(s, f)[1] = s[1] /\ Append(s, f) # <<>>
    BY <1>1
  <2> QED BY <1>1, <2>1 DEF InRecv
<1>3. ASSUME Len(s) > 1 PROVE InRecv(Front(s))
  <2>1. /\ Front(s) \in Seq(Frame) /\ Len(Front(s)) = Len(s) - 1
        /\ \A i \in 1..(Len(s) - 1) : Front(s)[i] = s[i]
    BY <1>1, FrontFacts
  <2>2. 1 \in 1..(Len(s) - 1) /\ Front(s) # <<>>
    BY <1>1, <1>3, <2>1
  <2> QED BY <1>1, <2>1, <2>2 DEF InRecv
<1> QED BY <1>2, <1>3

LEMMA HearStep ==
    TypeOK /\ StreamInv /\ FrameInv /\ HearInv /\ [Next]_vars => HearInv'
<1> SUFFICES ASSUME TypeOK, StreamInv, FrameInv, HearInv, [Next]_vars PROVE HearInv'
  OBVIOUS
<1> USE DEF historyVars, objVars
<1>a. /\ HasSocket /\ resolved = "own" /\ mStat # "CONNECTED"
            => mSocket = "open" /\ "read" \in armed
      /\ Connected /\ resolved = "own" /\ "read" \notin armed
            => Len(mRecvBuf) = RecvMax \/ InRecv(stack)
      /\ stack \in Seq(Frame) /\ Shaped(stack)
  BY DEF HearInv, TypeOK, FrameInv, InRecv
<1>b. ASSUME mSocket' = "null" PROVE HearInv'
  BY <1>b DEF HearInv, HasSocket, Connected
<1>c. ASSUME /\ UNCHANGED <<mStat, mSocket, resolved>>
             /\ "read" \in armed => "read" \in armed'
             /\ mRecvBuf' = mRecvBuf \/ InRecv(stack')
             /\ InRecv(stack) => InRecv(stack')
      PROVE  HearInv'
  BY <1>c, <1>a DEF HearInv, HasSocket, Connected, InRecv
<1>1. CASE ConnectNoSocket
  BY <1>1, <1>b DEF ConnectNoSocket, DropSocket
<1>2. ASSUME NEW hasTimeout \in BOOLEAN, Connect(hasTimeout) PROVE HearInv'
  BY <1>2 DEF Connect, ConnectAddr, MayConnect, HearInv, HasSocket, Connected
<1>3. ASSUME NEW data \in Messages, Send(data) PROVE HearInv'
  <2>1. UNCHANGED resolved
    BY <1>3 DEF Send
  <2>2. CASE WriteLoop(Appended(mSendBuf, data, SendMax), armed)
    BY <2>1, <2>2, <1>b, <1>c DEF WriteLoop, BeginClose, DropSocket
  <2>3. CASE UNCHANGED <<mStat, mSocket, mRecvBuf, stack, armed>>
    BY <2>1, <2>3, <1>c
  <2> QED BY <1>3, <2>2, <2>3 DEF Send
<1>4. CASE Close
  BY <1>4, <1>b DEF Close, BeginClose, DropSocket, HasSocket
<1>5. CASE Destroy
  BY <1>5, <1>b DEF Destroy, DropSocket
<1>6. ASSUME NEW n \in resolving, DnsAnswer(n) PROVE HearInv'
  <2>1. /\ UNCHANGED <<mSocket, mRecvBuf, stack>>
        /\ "read" \in armed => "read" \in armed'
    BY <1>6 DEF DnsAnswer, ConnectAddr
  <2>2. CASE UNCHANGED <<mStat, resolved>>
    BY <2>1, <2>2, <1>c
  <2>3. CASE /\ mStat' = "CONNECTING"
             /\ resolved' = IF n = attempt /\ mStat = "DNS" THEN resolved ELSE "stale"
    BY <2>1, <2>3, <1>a DEF HearInv, HasSocket, Connected
  <2> QED BY <1>6, <2>2, <2>3 DEF DnsAnswer, ConnectAddr
<1>7. ASSUME NEW n \in timers, ConnectTimeout(n) PROVE HearInv'
  BY <1>7, <1>c DEF ConnectTimeout
<1>8. CASE ConnectEvent
  <2>1. HasSocket /\ UNCHANGED <<stack, mRecvBuf, resolved>>
        /\ armed' = armed \ {"connect"}
    BY <1>8 DEF ConnectEvent, StreamInv, NullUnarmed
  <2>2. CASE UNCHANGED <<mStat, mSocket>>
    BY <2>1, <2>2, <1>c
  <2>3. CASE mStat' = "CONNECTED"
    BY <2>1, <2>3, <1>a DEF HearInv, HasSocket, Connected, InRecv
  <2> QED BY <1>8, <2>2, <2>3 DEF ConnectEvent
<1>9. CASE WriteEvent
  <2>1. UNCHANGED resolved
    BY <1>9 DEF WriteEvent
  <2>2. CASE WriteLoop(mSendBuf, armed \ {"write"})
    BY <2>1, <2>2, <1>b, <1>c DEF WriteLoop, BeginClose, DropSocket
  <2>3. CASE armed' = armed \ {"write"} /\ UNCHANGED <<mStat, mSocket, mRecvBuf, stack>>
    BY <2>1, <2>3, <1>c
  <2> QED BY <1>9, <2>2, <2>3 DEF WriteEvent
<1>10. CASE ReadEvent
  <2>1. mSocket = "up" /\ UNCHANGED <<mStat, mSocket, resolved>>
        /\ (Connected => stack' = <<"recv">>)
    BY <1>10 DEF ReadEvent
  <2>2. resolved = "own" => Connected
    BY <2>1, <1>a DEF HasSocket, Connected
  <2>3. InRecv(<<"recv">>)
    BY DEF InRecv
  <2> QED BY <2>1, <2>2, <2>3 DEF HearInv, HasSocket, Connected, InRecv
<1>11. ASSUME NEW data \in Chunks, ReadData(data) PROVE HearInv'
  <2>1. Len(stack) = 1 /\ stack[1] = "recv" /\ stack # <<>>
    BY <1>11, <1>a, ShapedRunning DEF ReadData, Running
  <2>2. stack' = stack \/ stack' = Append(stack, "handler")
    BY <1>11 DEF ReadData, DecodeLoop
  <2>3. InRecv(stack')
    BY <2>1, <2>2, <1>a, InRecvKept DEF InRecv, Frame, UserFrame
  <2> QED BY <1>11, <2>3, <1>c DEF ReadData
<1>12. CASE ReadWouldBlock
  <2>1. "read" \in armed' /\ UNCHANGED <<mStat, mSocket, resolved>> /\ Connected
    BY <1>12 DEF ReadWouldBlock, CanRead
  <2> QED BY <2>1 DEF HearInv, Connected
<1>13. CASE ReadFails
  BY <1>13, <1>b DEF ReadFails, BeginClose, DropSocket
<1>14. CASE RecvEnds
  <2>1. ~Connected \/ FreeLength(mRecvBuf, RecvMax) = 0
    BY <1>14 DEF RecvEnds, CanRead, FreeLength, TypeOK
  <2>2. Connected => Len(mRecvBuf) = RecvMax
    BY <2>1, SocketAssumption DEF FreeLength, TypeOK, SocketAssumption
  <2> QED BY <1>14, <2>2, <1>a DEF RecvEnds, HearInv, HasSocket, Connected
<1>15. CASE HandlerReturns
  <2>1. /\ Front(stack) \in Seq(Frame)
        /\ Len(Front(stack)) = 1 /\ Front(stack)[1] = "recv"
    BY <1>15, <1>a, ShapedRunning DEF HandlerReturns
  <2>2. stack' = Front(stack) \/ stack' = Append(Front(stack), "handler")
    BY <1>15 DEF HandlerReturns, DecodeLoop
  <2>3. InRecv(stack')
    BY <2>1, <2>2, InRecvKept DEF InRecv, Frame, UserFrame
  <2> QED BY <1>15, <2>3, <1>c DEF HandlerReturns
<1>16. CASE CloseReturns
  <2>1. Holds(stack, "closing")
    BY <1>16, HoldsRunning DEF CloseReturns
  <2>2. mStat' = "IDLE" /\ UNCHANGED <<mSocket, armed, resolved>>
    BY <1>16 DEF CloseReturns, Reset
  <2> QED BY <2>1, <2>2 DEF StreamInv, ReopenedFresh, HearInv, HasSocket, Connected
<1>17. CASE ClosedReturns
  <2>1. stack # <<>> /\ Last(stack) = "closed" /\ Last(stack) = stack[Len(stack)]
    BY <1>17, <1>a, FrontFacts DEF ClosedReturns, Running
  <2>2. InRecv(stack) => Len(stack) > 1
    BY <2>1, <1>a DEF InRecv
  <2>3. InRecv(stack) => InRecv(stack')
    BY <1>17, <2>2, <1>a, InRecvKept DEF ClosedReturns
  <2> QED BY <1>17, <2>3, <1>c DEF ClosedReturns
<1>18. CASE UNCHANGED vars
  BY <1>18, <1>c DEF vars
<1> QED
  BY <1>1, <1>2, <1>3, <1>4, <1>5, <1>6, <1>7, <1>8, <1>9, <1>10, <1>11, <1>12,
     <1>13, <1>14, <1>15, <1>16, <1>17, <1>18
  DEF Next, User, Platform, Loops

\* A connected object that waits in the event loop hears the peer, unless its
\* receive buffer is full.
THEOREM HearingCorrect == Spec => []DeafOnlyIfFull
<1>1. Init => StreamInv /\ FrameInv /\ HearInv
  BY NoFrameInNothing
     DEF Init, StreamInv, IdleEmpty, NullUnarmed, ReopenedFresh, StreamIntegrity,
         FrameInv, Shaped, Holds, HearInv, HasSocket, Connected
<1>2. HearInv => DeafOnlyIfFull
  BY DEF HearInv, DeafOnlyIfFull, Listening, AtLoop
<1>3. QED BY <1>1, <1>2, StreamStep, FrameStep, HearStep, TypeCorrect, PTL DEF Spec
-----------------------------------------------------------------------------
(* Steps *)

\* Once closed, the handler hears nothing until the next connect() but the
\* answer of a resolver request that is still on its way.
THEOREM QuietCorrect == Spec => QuietAfterClose
<1>1. Init => StreamInv /\ TimerInv
  BY DEF Init, StreamInv, IdleEmpty, NullUnarmed, ReopenedFresh, StreamIntegrity,
         TimerInv, HasSocket, Connected
<1>2. ASSUME StreamInv, TimerInv, [Next]_vars, vars' # vars, AtLoop, ~HasSocket,
             resolving = {}, user = "careful", ~HasSocket'
      PROVE  note' = "none"
  <2>1. armed = {} /\ timers = {} /\ stack = <<>> /\ ~Connected
    BY <1>2 DEF StreamInv, NullUnarmed, TimerInv, AtLoop, Connected
  <2>2. Next
    BY <1>2
  <2>3. CASE User
    <3>1. CASE \E hasTimeout \in BOOLEAN : Connect(hasTimeout)
      BY <1>2, <3>1 DEF Connect, HasSocket
    <3>2. CASE \E data \in Messages : Send(data)
      BY <2>1, <3>2 DEF Send
    <3>3. CASE ConnectNoSocket \/ Close \/ Destroy
      BY <1>2, <3>3 DEF ConnectNoSocket, Close, BeginClose, Destroy
    <3> QED BY <2>3, <3>1, <3>2, <3>3 DEF User
  <2>4. ~Platform
    BY <1>2, <2>1 DEF Platform, ConnectEvent, WriteEvent, ReadEvent
  <2>5. ~Loops
    BY <2>1 DEF Loops, ReadData, ReadWouldBlock, ReadFails, RecvEnds, HandlerReturns,
                CloseReturns, ClosedReturns, Running
  <2> QED BY <2>2, <2>3, <2>4, <2>5 DEF Next
<1>3. StreamInv /\ TimerInv /\ [Next]_vars
        => [AtLoop /\ ~HasSocket /\ resolving = {} /\ user = "careful" /\ ~HasSocket'
             => note' = "none"]_vars
  BY <1>2
<1>4. QED BY <1>1, <1>3, StreamStep, TimerStep, TypeCorrect, PTL DEF Spec, QuietAfterClose
-----------------------------------------------------------------------------
(* The stream implements SendPipe *)

LEMMA PrefixOfConcat ==
    ASSUME NEW S, NEW s \in Seq(S), NEW t \in Seq(S)
    PROVE  IsPrefix(s, s \o t)
<1>1. Len(s) <= Len(s \o t)
  OBVIOUS
<1>2. SubSeq(s, 1, Len(s)) = s
  BY SubSeqFull
<1>3. SubSeq(s \o t, 1, Len(s)) = s
  <2>1. SubSeq(s \o t, 1, Len(s)) = SubSeq(s, 1, Len(s))
    BY SubSeqOfConcat1
  <2> QED BY <1>2, <2>1
<1> QED BY <1>1, <1>2, <1>3 DEF IsPrefix

\* Bytes that are taken and written are a transfer of the pipe.
LEMMA TransferStep ==
    ASSUME TypeOK, TypeOK', NEW data \in Seq(Byte), NEW sent \in Seq(Byte),
           accepted' = accepted \o data, wire' = wire \o sent,
           accepted' = wire' \o mSendBuf'
    PROVE  Pipe!Transfer
<1>1. /\ accepted \in Seq(Byte) /\ wire \in Seq(Byte)
      /\ wire' \in Seq(Byte) /\ mSendBuf' \in Seq(Byte) /\ Len(mSendBuf') <= SendMax
  BY DEF TypeOK
<1>2. IsPrefix(accepted, accepted') /\ IsPrefix(wire, wire') /\ IsPrefix(wire', accepted')
  BY <1>1, PrefixOfConcat
<1>3. Len(accepted') - Len(wire') <= SendMax
  <2>1. Len(accepted') = Len(wire') + Len(mSendBuf')
    BY <1>1
  <2> QED BY <1>1, <2>1, SocketAssumption DEF SocketAssumption
<1> QED BY <1>2, <1>3 DEF Pipe!Transfer, Pipe!IsPrefix, IsPrefix

LEMMA PipeStep ==
    TypeOK /\ TypeOK' /\ StreamInv /\ [Next]_vars => [Pipe!Next]_(Pipe!pipeVars)
<1> SUFFICES ASSUME TypeOK, TypeOK', StreamInv, [Next]_vars, vars' # vars,
                    ~UNCHANGED <<accepted, wire>>
             PROVE  Pipe!Next
  BY DEF Pipe!pipeVars, vars, historyVars
<1> USE DEF historyVars, objVars
<1>1. ASSUME NEW hasTimeout \in BOOLEAN, Connect(hasTimeout) PROVE Pipe!Next
  BY <1>1 DEF Connect, Pipe!Next, Pipe!NewConnection
<1>2. ASSUME NEW buf \in Seq(Byte), NEW before, WriteLoop(buf, before)
      PROVE  /\ wire' \o mSendBuf' = wire \o buf
             /\ \E sent \in Seq(Byte) : wire' = wire \o sent
  <2>1. PICK k \in 0..Len(buf) : wire' = wire \o SubSeq(buf, 1, k)
    BY <1>2 DEF WriteLoop
  <2>2. SubSeq(buf, 1, k) \in Seq(Byte)
    BY CutBuffer
  <2> QED BY <1>2, <2>1, <2>2, WriteLoopStep
<1>3. ASSUME NEW data \in Messages, Send(data) PROVE Pipe!Next
  <2> DEFINE buf == Appended(mSendBuf, data, SendMax)
  <2>1. data \in Seq(Byte) /\ <<>> \in Seq(Byte)
    BY DataTypes
  <2>2. /\ mSendBuf \in Seq(Byte) /\ Len(mSendBuf) <= SendMax /\ SendMax \in Nat
        /\ wire \in Seq(Byte) /\ accepted \in Seq(Byte)
    BY SocketAssumption DEF TypeOK, SocketAssumption
  <2>3. buf \in Seq(Byte)
    BY ONLY <2>1, <2>2, AppendedFacts
  <2>4. accepted = wire \o mSendBuf
    BY <1>3 DEF Send, Connected, StreamInv, StreamIntegrity
  <2>5. PICK more \in Seq(Byte) : accepted' = accepted \o more /\ accepted' = wire \o buf
    <3>1. CASE Fits(mSendBuf, data, SendMax)
      <4>1. (wire \o mSendBuf) \o data = wire \o (mSendBuf \o data)
        BY ONLY <2>1, <2>2, ConcatAssociative, SMTT(60)
      <4> QED BY <1>3, <2>1, <2>4, <3>1, <4>1 DEF Send, Appended
    <3>2. CASE ~Fits(mSendBuf, data, SendMax)
      <4>1. accepted \o <<>> = accepted
        BY <2>2, ConcatEmptySeq
      <4>2. accepted' = accepted /\ buf = mSendBuf
        BY <1>3, <3>2 DEF Send, Appended
      <4> HIDE DEF buf
      <4> QED BY <2>1, <2>4, <4>1, <4>2
    <3> QED BY <3>1, <3>2
  <2> HIDE DEF buf
  <2>6. CASE WriteLoop(buf, armed)
    <3>1. PICK sent \in Seq(Byte) : wire' = wire \o sent
      BY <1>2, <2>3, <2>6
    <3>2. accepted' = wire' \o mSendBuf'
      BY <1>2, <2>3, <2>5, <2>6
    <3>3. Pipe!Transfer
      BY <2>5, <3>1, <3>2, TransferStep
    <3> QED BY <3>3 DEF Pipe!Next
  <2>7. CASE mSendBuf' = buf /\ UNCHANGED wire
    <3>1. wire' = wire \o <<>>
      BY <2>2, <2>7, ConcatEmptySeq
    <3>2. accepted' = wire' \o mSendBuf'
      BY <2>5, <2>7
    <3>3. Pipe!Transfer
      BY <2>1, <2>5, <3>1, <3>2, TransferStep
    <3> QED BY <3>3 DEF Pipe!Next
  <2> QED BY <1>3, <2>6, <2>7 DEF Send, buf
<1>4. CASE WriteEvent
  <2>1. Connected /\ WriteLoop(mSendBuf, armed \ {"write"}) /\ UNCHANGED accepted
    BY <1>4 DEF WriteEvent
  <2>2. mSendBuf \in Seq(Byte) /\ accepted \in Seq(Byte) /\ <<>> \in Seq(Byte)
    BY DEF TypeOK
  <2>3. PICK sent \in Seq(Byte) : wire' = wire \o sent
    BY <1>2, <2>1, <2>2
  <2>4. accepted' = wire' \o mSendBuf'
    BY <1>2, <2>1, <2>2 DEF Connected, StreamInv, StreamIntegrity
  <2>5. accepted' = accepted \o <<>>
    BY <2>1, <2>2, ConcatEmptySeq
  <2>6. Pipe!Transfer
    BY <2>2, <2>3, <2>4, <2>5, TransferStep
  <2> QED BY <2>6 DEF Pipe!Next
<1>5. CASE \/ ConnectNoSocket \/ Close \/ Destroy \/ ConnectEvent \/ ReadEvent
           \/ \E n \in resolving : DnsAnswer(n)
           \/ \E n \in timers : ConnectTimeout(n)
  BY <1>5 DEF ConnectNoSocket, Close, Destroy, ConnectEvent, ReadEvent, DnsAnswer,
              ConnectTimeout
<1>6. CASE Loops
  BY <1>6 DEF Loops, ReadData, ReadWouldBlock, ReadFails, RecvEnds, HandlerReturns,
              CloseReturns, ClosedReturns
<1>7. Next
  BY DEF vars
<1> QED BY <1>1, <1>3, <1>4, <1>5, <1>6, <1>7 DEF Next, User, Platform

\* What AEESocket writes to a connection is what SendPipe promises.
THEOREM ImplementsSendPipe == Spec => PipeSpec
<1>1. Init => StreamInv /\ Pipe!Init
  BY DEF Init, StreamInv, IdleEmpty, NullUnarmed, ReopenedFresh, StreamIntegrity,
         HasSocket, Pipe!Init
<1>2. QED
  BY <1>1, StreamStep, PipeStep, TypeCorrect, PTL DEF Spec, PipeSpec, Pipe!Spec

-----------------------------------------------------------------------------
(* PhoneCall: inductive invariants *)

\* The timer runs or not, and what is left to produce and the sinks are counted.
CaptureInv ==
    /\ captureTimer \in {0, 1} /\ producing \in Nat /\ sinks \in Nat
    /\ CaptureHasBuffer

\* A sequence of units that is made of n frames, and of some number of them.
FrameAt(s, k) ==
    /\ s[5*k + 1] = Magic1 /\ s[5*k + 2] = Magic2 /\ s[5*k + 3] = Video
    /\ s[5*k + 4] = 32 /\ s[5*k + 5] \in 1..Letters
FramesOf(s, n) == Len(s) = 5*n /\ \A k \in 0..(n - 1) : FrameAt(s, k)
Whole(s) == \E n \in Nat : FramesOf(s, n)

\* What the socket's functions do to the stream needs no more than these types.
StreamType ==
    /\ wire \in Seq(Byte) /\ mSendBuf \in Seq(Byte) /\ stack \in Seq(Frame)
    /\ ch \in 1..Letters

\* Nothing is registered without a socket, a close() under way has dropped it,
\* and before initialize() the object is as it was made.
ClosedForGood ==
    /\ NullUnarmed
    /\ Holds(stack, "closing") => ~HasSocket
    /\ channel = "none" => ~HasSocket /\ stack = <<>> /\ mSendBuf = <<>>

\* The stream of a connection is made of whole frames.
StreamWhole == HasSocket => Whole(wire \o mSendBuf)

PhoneInv == StreamType /\ ClosedForGood /\ StreamWhole

-----------------------------------------------------------------------------
(* The capture timer and its buffer *)

\* The timer, the buffer and produce() between two steps of the program.
LEMMA CaptureStep == CaptureInv /\ [PhoneNext]_allVars => CaptureInv'
<1> SUFFICES ASSUME CaptureInv, [PhoneNext]_allVars PROVE CaptureInv'
  OBVIOUS
<1> USE DEF CaptureInv, CaptureHasBuffer
<1>1. CASE Initialize
  BY <1>1 DEF Initialize, Idle
<1>2. CASE Call
  BY <1>2 DEF Call
<1>3. CASE Terminate
  BY <1>3 DEF Terminate, Idle
<1>4. CASE CaptureFrame
  BY <1>4 DEF CaptureFrame
<1>5. CASE Produce
  BY <1>5 DEF Produce
<1>6. CASE FrameDone
  BY <1>6 DEF FrameDone
<1>7. CASE TransportRead
  BY <1>7 DEF TransportRead, phoneVars
<1>8. CASE SocketStep
  BY <1>8 DEF SocketStep, phoneVars
<1>9. ASSUME NEW message \in Signals, ProcessMessage(message) PROVE CaptureInv'
  BY <1>9 DEF ProcessMessage
<1>10. CASE UNCHANGED allVars
  BY <1>10 DEF allVars, phoneVars
<1> QED
  BY <1>1, <1>2, <1>3, <1>4, <1>5, <1>6, <1>7, <1>8, <1>9, <1>10 DEF PhoneNext

\* However often call() adds the transport as a sink, and whatever becomes of
\* the connection while produce() is under way, VideoCapture's timer runs, and a
\* frame is made, only while the frame buffer is there.
THEOREM CaptureCorrect == PhoneSpec => []CaptureHasBuffer
<1>1. PhoneInit => CaptureInv
  BY DEF PhoneInit, CaptureInv, CaptureHasBuffer
<1>2. CaptureInv => CaptureHasBuffer
  BY DEF CaptureInv
<1> QED BY <1>1, <1>2, CaptureStep, PTL DEF PhoneSpec

-----------------------------------------------------------------------------
(* Frames *)

\* A frame as onFrameHandler() makes it.
LEMMA NewFrameFacts ==
    ASSUME ch \in 1..Letters
    PROVE  /\ NewFrame \in Seq(Byte) /\ Len(NewFrame) = 5
           /\ NewFrame[1] = Magic1 /\ NewFrame[2] = Magic2 /\ NewFrame[3] = Video
           /\ NewFrame[4] = 32 /\ NewFrame[5] \in 1..Letters
<1>1. ch \in Byte /\ Magic1 \in Byte /\ Magic2 \in Byte /\ Video \in Byte
      /\ 32 \in Byte
  BY PhoneAssumption DEF PhoneAssumption
<1> QED BY <1>1 DEF NewFrame

\* A whole stream stays whole when a frame is appended.
LEMMA WholeAppend ==
    ASSUME NEW s \in Seq(Byte), Whole(s), ch \in 1..Letters
    PROVE  Whole(s \o NewFrame)
<1> DEFINE f == NewFrame
<1>1. /\ f \in Seq(Byte) /\ Len(f) = 5 /\ f[1] = Magic1 /\ f[2] = Magic2
      /\ f[3] = Video /\ f[4] = 32 /\ f[5] \in 1..Letters
  BY NewFrameFacts
<1> HIDE DEF f
<1>2. PICK n \in Nat : FramesOf(s, n)
  BY DEF Whole
<1>3. Len(s) = 5*n /\ Len(s \o f) = 5*(n + 1)
  <2>1. Len(s \o f) = Len(s) + Len(f)
    BY <1>1, ConcatProperties, Zenon
  <2> QED BY <1>1, <1>2, <2>1 DEF FramesOf
<1>4. ASSUME NEW k \in 0..n PROVE FrameAt(s \o f, k)
  <2>1. CASE k < n
    <3>1. FrameAt(s, k)
      BY <1>2, <2>1 DEF FramesOf
    <3>2. \A i \in 1..Len(s) : (s \o f)[i] = s[i]
      BY <1>1
    <3>3. 5*k + 1 \in 1..Len(s) /\ 5*k + 2 \in 1..Len(s)
          /\ 5*k + 3 \in 1..Len(s) /\ 5*k + 4 \in 1..Len(s) /\ 5*k + 5 \in 1..Len(s)
      BY <1>3, <2>1
    <3> QED BY <3>1, <3>2, <3>3 DEF FrameAt
  <2>2. CASE k = n
    <3> DEFINE l == Len(s)
    <3>1. l = 5*k
      BY <1>3, <2>2
    <3>2. /\ l \in Nat
          /\ \A i \in 1..(l + Len(f)) : (s \o f)[i] = IF i <= l THEN s[i] ELSE f[i - l]
      BY <1>1, ConcatProperties, LenProperties, Zenon
    <3> HIDE DEF l
    <3>3. (s \o f)[l + 1] = f[1] /\ (s \o f)[l + 2] = f[2]
          /\ (s \o f)[l + 3] = f[3] /\ (s \o f)[l + 4] = f[4] /\ (s \o f)[l + 5] = f[5]
      <4> DEFINE Unit(i) == (s \o f)[i]
      <4>1. \A i \in 1..(l + Len(f)) : Unit(i) = IF i <= l THEN s[i] ELSE f[i - l]
        BY <3>2, Zenon
      <4> HIDE DEF Unit
      <4>2. \A j \in 1..5 : Unit(l + j) = f[j]
        <5> TAKE j \in 1..5
        <5>1. l + j \in 1..(l + Len(f)) /\ ~(l + j <= l) /\ (l + j) - l = j
          BY <1>1, <3>2
        <5> QED BY <4>1, <5>1
      <4>3. Unit(l + 1) = f[1] /\ Unit(l + 2) = f[2] /\ Unit(l + 3) = f[3]
            /\ Unit(l + 4) = f[4] /\ Unit(l + 5) = f[5]
        BY <4>2
      <4> QED BY <4>3, Zenon DEF Unit
    <3> QED BY <1>1, <3>1, <3>3 DEF FrameAt
  <2> QED BY <2>1, <2>2
<1>5. n + 1 \in Nat /\ FramesOf(s \o f, n + 1)
  BY <1>3, <1>4 DEF FramesOf
<1> QED BY <1>5 DEF Whole, f

\* Nothing at all is whole.
LEMMA WholeEmpty == Whole(<<>> \o <<>>)
<1>1. Len(<<>> \o <<>>) = 0
  OBVIOUS
<1>2. FramesOf(<<>> \o <<>>, 0)
  BY <1>1 DEF FramesOf
<1> QED BY <1>2 DEF Whole

\* The units of a whole stream, in the words of WholeFrames.
LEMMA WholeMeans ==
    ASSUME NEW s \in Seq(Byte), Whole(s)
    PROVE  /\ Len(s) % 5 = 0
           /\ \A k \in 0..(Len(s) \div 5 - 1) :
                 /\ SubSeq(s, 5*k + 1, 5*k + 3) = <<Magic1, Magic2, Video>>
                 /\ s[5*k + 4] = 32 /\ s[5*k + 5] \in 1..Letters
<1>1. PICK n \in Nat : FramesOf(s, n)
  BY DEF Whole
<1>2. Len(s) = 5*n /\ Len(s) % 5 = 0 /\ Len(s) \div 5 = n
  BY <1>1 DEF FramesOf
<1>3. ASSUME NEW k \in 0..(n - 1)
      PROVE  /\ SubSeq(s, 5*k + 1, 5*k + 3) = <<Magic1, Magic2, Video>>
             /\ s[5*k + 4] = 32 /\ s[5*k + 5] \in 1..Letters
  <2>1. FrameAt(s, k)
    BY <1>1 DEF FramesOf
  <2> DEFINE a == 5*k + 1
  <2>2. a \in 1..Len(s) /\ a + 2 \in 1..Len(s)
    BY <1>2
  <2>3. s[a] = Magic1 /\ s[a + 1] = Magic2 /\ s[a + 2] = Video
    BY <2>1 DEF FrameAt
  <2> HIDE DEF a
  <2>4. SubSeq(s, a, a + 2) = <<s[a], s[a + 1], s[a + 2]>>
    <3> DEFINE t == SubSeq(s, a, a + 2)
    <3>1. t \in Seq(Byte) /\ Len(t) = 3
      BY <2>2
    <3>2. t[1] = s[a] /\ t[2] = s[a + 1] /\ t[3] = s[a + 2]
      BY <2>2
    <3> HIDE DEF t
    <3>3. t = <<s[a], s[a + 1], s[a + 2]>>
      BY <3>1, <3>2
    <3> QED BY <3>3 DEF t
  <2>5. SubSeq(s, a, a + 2) = <<Magic1, Magic2, Video>>
    BY <2>3, <2>4
  <2>6. a + 2 = 5*k + 3
    BY DEF a
  <2> QED BY <2>1, <2>5, <2>6 DEF FrameAt, a
<1> QED BY <1>2, <1>3

-----------------------------------------------------------------------------
(* The stream *)

\* The write loop moves units from the buffer to the wire, and leaves the stack
\* and the socket alone or goes on in close().
LEMMA WriteLoopMoves ==
    ASSUME StreamType, NEW buf \in Seq(Byte), NEW before, WriteLoop(buf, before)
    PROVE  /\ wire' \o mSendBuf' = wire \o buf
           /\ wire' \in Seq(Byte) /\ mSendBuf' \in Seq(Byte)
           /\ \/ UNCHANGED <<mSocket, stack>>
              \/ BeginClose(Append(stack, "failed"))
<1>1. PICK k \in 0..Len(buf) :
        /\ wire' = wire \o SubSeq(buf, 1, k) /\ mSendBuf' = Taken(buf, k)
        /\ UNCHANGED <<mSocket, stack>> \/ BeginClose(Append(stack, "failed"))
  BY DEF WriteLoop
<1> DEFINE head == SubSeq(buf, 1, k)
           rest == Taken(buf, k)
<1>2. head \in Seq(Byte) /\ rest \in Seq(Byte) /\ head \o rest = buf
  BY CutBuffer, TakenFacts
<1>3. wire \in Seq(Byte)
  BY DEF StreamType
<1>4. wire' = wire \o head /\ mSendBuf' = rest
  BY <1>1
<1> HIDE DEF head, rest
<1>5. (wire \o head) \o rest = wire \o (head \o rest) /\ wire \o head \in Seq(Byte)
  <2>1. wire \o head \in Seq(Byte)
    BY <1>2, <1>3, ConcatProperties, Zenon
  <2>2. (wire \o head) \o rest = wire \o (head \o rest)
    <3>1. wire \in Seq(Byte) /\ head \in Seq(Byte) /\ rest \in Seq(Byte)
      BY <1>2, <1>3
    <3> QED BY ONLY <3>1, ConcatAssociative, SMTT(60)
  <2> QED BY <2>1, <2>2
<1> QED BY <1>1, <1>2, <1>4, <1>5

\* A close() that starts drops the socket: no stream is left to keep whole.
LEMMA BeginClosePhone ==
    ASSUME StreamType, ClosedForGood, NEW base \in Seq(Frame), BeginClose(base),
           wire' \in Seq(Byte), mSendBuf' \in Seq(Byte), UNCHANGED <<channel, ch>>
    PROVE  PhoneInv'
<1>1. mSocket' = "null" /\ armed' = {} /\ stack' = Append(base, "closing")
  BY DEF BeginClose, DropSocket
<1>2. stack' \in Seq(Frame)
  BY <1>1 DEF Frame, UserFrame
<1>3. channel' # "none"
  BY DEF BeginClose, ClosedForGood
<1> QED BY <1>1, <1>2, <1>3
        DEF PhoneInv, StreamType, ClosedForGood, StreamWhole, HasSocket, NullUnarmed

\* The write loop keeps the stream whole, if it was with the bytes of buf.
LEMMA WriteLoopPhone ==
    ASSUME StreamType, ClosedForGood, Connected, NEW buf \in Seq(Byte), NEW before,
           WriteLoop(buf, before), Whole(wire \o buf), UNCHANGED <<channel, ch>>
    PROVE  PhoneInv'
<1>1. /\ wire' \o mSendBuf' = wire \o buf
      /\ wire' \in Seq(Byte) /\ mSendBuf' \in Seq(Byte)
  BY WriteLoopMoves
<1>2. CASE BeginClose(Append(stack, "failed"))
  <2>1. Append(stack, "failed") \in Seq(Frame)
    BY DEF StreamType, Frame
  <2> QED BY <1>1, <1>2, <2>1, BeginClosePhone
<1>3. CASE UNCHANGED <<mSocket, stack>>
  <2>1. StreamType'
    BY <1>1, <1>3 DEF StreamType
  <2>2. ClosedForGood'
    BY <1>3 DEF ClosedForGood, NullUnarmed, Connected, HasSocket
  <2>3. StreamWhole'
    BY <1>1 DEF StreamWhole
  <2> QED BY <2>1, <2>2, <2>3 DEF PhoneInv
<1> QED BY <1>2, <1>3, WriteLoopMoves

\* send() takes the frame or drops it, whatever it does next.
LEMMA ProducePhone == PhoneInv /\ Produce => PhoneInv'
<1> SUFFICES ASSUME PhoneInv, Produce PROVE PhoneInv'
  OBVIOUS
<1> DEFINE buf == Appended(mSendBuf, NewFrame, SendMax)
<1>1. StreamType /\ ClosedForGood /\ StreamWhole
  BY DEF PhoneInv
<1>2. CASE ~Connected /\ UNCHANGED vars
  BY <1>2 DEF Produce, PhoneInv, StreamType, ClosedForGood, StreamWhole, NullUnarmed,
              HasSocket, vars, objVars, historyVars
<1>3. ASSUME Send(NewFrame) PROVE PhoneInv'
  <2>1. NewFrame \in Seq(Byte) /\ mSendBuf \in Seq(Byte) /\ wire \in Seq(Byte)
    BY <1>1, NewFrameFacts DEF StreamType
  <2>2. Whole(wire \o mSendBuf)
    BY <1>1, <1>3 DEF Send, Connected, StreamWhole
  <2>3. buf \in Seq(Byte) /\ Whole(wire \o buf)
    <3>1. CASE buf = mSendBuf
      BY <2>1, <2>2, <3>1
    <3>2. CASE buf = mSendBuf \o NewFrame
      <4>1. buf \in Seq(Byte) /\ wire \o mSendBuf \in Seq(Byte)
        BY <2>1, <3>2, ConcatProperties, Zenon
      <4>2. ch \in 1..Letters
        BY <1>1 DEF StreamType
      <4>3. Whole((wire \o mSendBuf) \o NewFrame)
        BY <2>2, <4>1, <4>2, WholeAppend, Zenon
      <4>4. (wire \o mSendBuf) \o NewFrame = wire \o (mSendBuf \o NewFrame)
        BY ONLY <2>1, ConcatAssociative, SMTT(60)
      <4> QED BY <3>2, <4>1, <4>3, <4>4
    <3> QED BY <3>1, <3>2 DEF Appended
  <2>4. UNCHANGED <<channel, ch>> /\ Connected
    BY <1>3 DEF Produce, Send
  <2> HIDE DEF buf
  <2>5. CASE WriteLoop(buf, armed)
    BY <1>1, <2>3, <2>4, <2>5, WriteLoopPhone
  <2>6. CASE mSendBuf' = buf /\ UNCHANGED <<mSocket, stack, armed, wire>>
    <3>1. StreamType'
      BY <1>1, <2>3, <2>4, <2>6 DEF StreamType
    <3>2. ClosedForGood'
      BY <1>1, <2>4, <2>6 DEF ClosedForGood, NullUnarmed, Connected, HasSocket
    <3>3. StreamWhole'
      BY <2>3, <2>6 DEF StreamWhole
    <3> QED BY <3>1, <3>2, <3>3 DEF PhoneInv
  <2> QED BY <1>3, <2>5, <2>6 DEF Send, buf
<1> QED BY <1>2, <1>3 DEF Produce

\* The functions that are interrupted when one of them returns.
LEMMA RunningFacts ==
    ASSUME StreamType, NEW f, Running(f)
    PROVE  /\ Holds(stack, f) /\ stack # <<>>
           /\ Front(stack) \in Seq(Frame)
           /\ \A g : Holds(Front(stack), g) => Holds(stack, g)
<1>1. stack \in Seq(Frame) /\ stack # <<>> /\ Last(stack) = f
  BY DEF StreamType, Running
<1>2. Last(stack) = stack[Len(stack)] /\ Len(stack) \in 1..Len(stack)
  BY <1>1, FrontFacts
<1>3. Holds(stack, f)
  BY <1>1, <1>2 DEF Holds
<1>4. Front(stack) \in Seq(Frame)
  BY <1>1, FrontFacts
<1> QED BY <1>1, <1>3, <1>4, HoldsFront

\* connect(), called once and with nothing of an earlier connection left,
\* starts an empty stream.
LEMMA InitializePhone == PhoneInv /\ Initialize => PhoneInv'
<1> SUFFICES ASSUME PhoneInv, Initialize PROVE PhoneInv'
  OBVIOUS
<1>1. StreamType /\ ClosedForGood
  BY DEF PhoneInv
<1>2. /\ channel = "none" /\ channel' = "up" /\ ch' = ch
      /\ stack = <<>> /\ mSendBuf = <<>> /\ wire \in Seq(Byte)
  BY <1>1 DEF Initialize, ClosedForGood, StreamType
<1>3. CASE ConnectNoSocket
  <2>1. /\ mSocket' = "null" /\ armed' = {}
        /\ mSendBuf' = mSendBuf /\ wire' = wire /\ stack' = stack
    BY <1>3 DEF ConnectNoSocket, DropSocket
  <2> QED BY <1>1, <1>2, <2>1
      DEF PhoneInv, StreamType, ClosedForGood, StreamWhole, NullUnarmed, HasSocket
<1>4. CASE Connect(TRUE)
  <2>1. /\ mSocket' = "open" /\ wire' = <<>>
        /\ mSendBuf' = <<>> /\ stack' = <<>>
    BY <1>2, <1>4 DEF Connect
  <2>2. ~Holds(<<>>, "closing")
    BY DEF Holds
  <2> QED BY <1>1, <1>2, <2>1, <2>2, WholeEmpty
      DEF PhoneInv, StreamType, ClosedForGood, StreamWhole, NullUnarmed, HasSocket
<1> QED BY <1>3, <1>4 DEF Initialize

\* A step that leaves the stream, and the socket if there is none, alone, and
\* interrupts no function by a close().
Apart ==
    /\ wire' = wire
    /\ mSendBuf' = mSendBuf \/ (~HasSocket' /\ mSendBuf' = <<>>)
    /\ HasSocket' => HasSocket
    /\ ~HasSocket' => armed' = {}
    /\ stack' \in Seq(Frame)
    /\ Holds(stack', "closing") => Holds(stack, "closing")
    /\ ch' \in 1..Letters
    /\ channel' = "none" => channel = "none" /\ stack' = <<>>

\* Such a step keeps what is proved of the stream.
LEMMA StreamApart ==
    ASSUME PhoneInv, Apart
    PROVE  PhoneInv'
<1>1. mSendBuf' \in Seq(Byte) /\ wire' \in Seq(Byte)
  <2>1. mSendBuf \in Seq(Byte) /\ wire \in Seq(Byte) /\ <<>> \in Seq(Byte)
    BY DEF PhoneInv, StreamType
  <2>2. (mSendBuf' = mSendBuf \/ mSendBuf' = <<>>) /\ wire' = wire
    BY DEF Apart
  <2> QED BY ONLY <2>1, <2>2, Zenon
<1>2. StreamType'
  BY <1>1 DEF StreamType, Apart
<1>3. ClosedForGood'
  BY DEF PhoneInv, ClosedForGood, NullUnarmed, Apart
<1>4. StreamWhole'
  BY DEF PhoneInv, StreamWhole, Apart
<1> QED BY <1>2, <1>3, <1>4 DEF PhoneInv

\* What the event loop calls before initialize() has nothing to work on, and
\* later finds the stream or moves it.
LEMMA PlatformPhone ==
    PhoneInv /\ Platform /\ UNCHANGED phoneVars => PhoneInv'
<1> SUFFICES ASSUME PhoneInv, Platform, UNCHANGED phoneVars PROVE PhoneInv'
  OBVIOUS
<1> USE DEF historyVars, objVars
<1>a. StreamType /\ ClosedForGood /\ ch' \in 1..Letters /\ channel' = channel
  BY DEF PhoneInv, StreamType, phoneVars
<1>b. /\ stack \in Seq(Frame) /\ (~HasSocket => armed = {})
      /\ channel = "none" => ~HasSocket /\ stack = <<>>
  BY <1>a DEF StreamType, ClosedForGood, NullUnarmed
<1>1. ASSUME NEW n \in resolving, DnsAnswer(n) PROVE PhoneInv'
  <2>1. UNCHANGED <<mSocket, mSendBuf, wire, stack>>
    BY <1>1 DEF DnsAnswer
  <2>2. ~HasSocket => armed' = {}
    BY <1>1, <1>b DEF DnsAnswer, ConnectAddr
  <2>3. Apart
    BY <1>a, <1>b, <2>1, <2>2 DEF HasSocket, Apart
  <2> QED BY <2>3, StreamApart
<1>2. ASSUME NEW n \in timers, ConnectTimeout(n) PROVE PhoneInv'
  <2>1. Apart
    BY <1>2, <1>a, <1>b DEF ConnectTimeout, HasSocket, Apart
  <2> QED BY <2>1, StreamApart
<1>3. CASE ConnectEvent
  <2>1. HasSocket
    BY <1>3, <1>b DEF ConnectEvent
  <2>2. UNCHANGED <<mSendBuf, wire, stack>> /\ HasSocket'
    BY <1>3, <2>1 DEF ConnectEvent, HasSocket
  <2>3. Apart
    BY <1>a, <1>b, <2>1, <2>2 DEF Apart
  <2> QED BY <2>3, StreamApart
<1>4. CASE WriteEvent
  <2>1. CASE ~Connected
    <3>1. UNCHANGED <<mSocket, mSendBuf, wire, stack>> /\ armed' \subseteq armed
      BY <1>4, <2>1 DEF WriteEvent
    <3>2. Apart
      BY <1>a, <1>b, <3>1 DEF HasSocket, Apart
    <3> QED BY <3>2, StreamApart
  <2>2. CASE Connected
    <3>1. WriteLoop(mSendBuf, armed \ {"write"})
      BY <1>4, <2>2 DEF WriteEvent
    <3>2. mSendBuf \in Seq(Byte) /\ Whole(wire \o mSendBuf)
      BY <2>2 DEF PhoneInv, StreamType, StreamWhole, Connected
    <3>3. UNCHANGED <<channel, ch>>
      BY DEF phoneVars
    <3> QED BY <1>a, <2>2, <3>1, <3>2, <3>3, WriteLoopPhone
  <2> QED BY <2>1, <2>2
<1>5. CASE ReadEvent
  <2>1. UNCHANGED <<mSocket, mSendBuf, wire>> /\ armed' \subseteq armed /\ HasSocket
    BY <1>5 DEF ReadEvent, HasSocket
  <2>2. stack' = <<"recv">> \/ stack' = <<>>
    BY <1>5 DEF ReadEvent
  <2>3. stack' \in Seq(Frame) /\ ~Holds(stack', "closing")
    <3>1. "recv" \in Frame /\ "recv" # "closing"
      BY DEF Frame
    <3>2. CASE stack' = <<"recv">>
      BY <3>1, <3>2 DEF Holds
    <3>3. CASE stack' = <<>>
      BY <3>3 DEF Holds
    <3> QED BY <2>2, <3>2, <3>3
  <2>4. Apart
    BY <1>a, <1>b, <2>1, <2>3 DEF HasSocket, Apart
  <2> QED BY <2>4, StreamApart
<1> QED BY <1>1, <1>2, <1>3, <1>4, <1>5 DEF Platform

\* onRecv(), and close() under way: they write nothing, and what close() clears
\* belongs to a socket that is gone for good.
LEMMA LoopsPhone ==
    ASSUME PhoneInv, UNCHANGED phoneVars,
           CloseReturns \/ ClosedReturns \/ ReadWouldBlock \/ ReadFails \/ RecvEnds
    PROVE  PhoneInv'
<1> USE DEF historyVars, objVars
<1>a. StreamType /\ ClosedForGood /\ ch' \in 1..Letters /\ channel' = channel
  BY DEF PhoneInv, StreamType, phoneVars
<1>b. /\ stack \in Seq(Frame) /\ (~HasSocket => armed = {})
      /\ stack # <<>> => channel # "none"
      /\ wire \in Seq(Byte) /\ mSendBuf \in Seq(Byte)
  BY <1>a DEF StreamType, ClosedForGood, NullUnarmed
<1>1. CASE CloseReturns
  <2>1. /\ Running("closing") /\ UNCHANGED <<mSocket, wire, armed>> /\ mSendBuf' = <<>>
        /\ \/ stack' = Front(stack)
           \/ Below("failed") /\ stack' = Append(Front(Front(stack)), "closed")
    BY <1>1 DEF CloseReturns, Reset
  <2>2. /\ Holds(stack, "closing") /\ stack # <<>> /\ Front(stack) \in Seq(Frame)
        /\ \A g : Holds(Front(stack), g) => Holds(stack, g)
    BY <1>a, <2>1, RunningFacts
  <2>3. ~HasSocket /\ ~HasSocket'
    BY <1>a, <2>1, <2>2 DEF ClosedForGood, HasSocket
  <2>4. stack' \in Seq(Frame)
    <3>1. CASE stack' = Front(stack)
      BY <2>2, <3>1
    <3>2. CASE Below("failed") /\ stack' = Append(Front(Front(stack)), "closed")
      <4>1. Front(stack) # <<>>
        BY <1>b, <3>2, FrontFacts DEF Below
      <4>2. Front(Front(stack)) \in Seq(Frame)
        BY <2>2, <4>1, FrontFacts
      <4> QED BY <3>2, <4>2 DEF Frame, UserFrame
    <3> QED BY <2>1, <3>1, <3>2
  <2>5. Apart
    BY <1>a, <1>b, <2>1, <2>2, <2>3, <2>4 DEF Apart
  <2> QED BY <2>5, StreamApart
<1>2. CASE ClosedReturns
  <2>1. /\ Running("closed") /\ UNCHANGED <<mSocket, wire, mSendBuf, armed>>
        /\ stack' = Front(stack)
    BY <1>2 DEF ClosedReturns
  <2>2. Apart
    BY <1>a, <1>b, <2>1, RunningFacts DEF HasSocket, Apart
  <2> QED BY <2>2, StreamApart
<1>3. CASE ReadWouldBlock
  <2>1. /\ Running("recv") /\ UNCHANGED <<mSocket, wire, mSendBuf>> /\ HasSocket
        /\ stack' = Front(stack)
    BY <1>3 DEF ReadWouldBlock, CanRead, Connected
  <2>2. Apart
    BY <1>a, <1>b, <2>1, RunningFacts DEF HasSocket, Apart
  <2> QED BY <2>2, StreamApart
<1>4. CASE ReadFails
  <2>1. /\ BeginClose(Append(stack, "failed")) /\ UNCHANGED <<mSendBuf, wire>>
        /\ UNCHANGED <<channel, ch>>
    BY <1>4 DEF ReadFails, phoneVars
  <2>2. Append(stack, "failed") \in Seq(Frame)
    BY <1>b DEF Frame
  <2> QED BY <1>a, <1>b, <2>1, <2>2, BeginClosePhone
<1>5. CASE RecvEnds
  <2>1. /\ Running("recv") /\ UNCHANGED <<mSocket, wire, mSendBuf, armed>>
        /\ stack' = Front(stack)
    BY <1>5 DEF RecvEnds
  <2>2. Apart
    BY <1>a, <1>b, <2>1, RunningFacts DEF HasSocket, Apart
  <2> QED BY <2>2, StreamApart
<1> QED BY <1>1, <1>2, <1>3, <1>4, <1>5

\* Reading, the transport's decoder changes the receive buffer and the stack only.
LEMMA TransportReadPhone == PhoneInv /\ TransportRead => PhoneInv'
<1> SUFFICES ASSUME PhoneInv, TransportRead PROVE PhoneInv'
  OBVIOUS
<1>a. /\ StreamType /\ stack \in Seq(Frame) /\ (~HasSocket => armed = {})
      /\ stack # <<>> => channel # "none"
  BY DEF PhoneInv, StreamType, ClosedForGood, NullUnarmed
<1>1. /\ UNCHANGED <<mSocket, wire, mSendBuf, armed, channel, ch>> /\ ch' \in 1..Letters
      /\ stack # <<>>
  BY <1>a DEF TransportRead, historyVars, phoneVars, Running, StreamType
<1>2. PICK base \in {stack, Front(stack)} :
        /\ stack' \in {base, Append(base, "handler")}
        /\ base \in Seq(Frame) /\ (Holds(base, "closing") => Holds(stack, "closing"))
  <2>1. CASE Running("recv")
    <3>1. stack' = stack \/ stack' = Append(stack, "handler")
          \/ stack' = Front(stack) \/ stack' = Append(Front(stack), "handler")
      BY DEF TransportRead, TransportDecode
    <3> QED BY <1>a, <2>1, <3>1, RunningFacts
  <2>2. CASE Running("handler")
    <3>1. stack' = stack \/ stack' = Append(stack, "handler")
          \/ stack' = Front(stack) \/ stack' = Append(Front(stack), "handler")
      BY DEF TransportRead, TransportDecode
    <3> QED BY <1>a, <2>2, <3>1, RunningFacts
  <2> QED BY <2>1, <2>2 DEF TransportRead
<1>3. "handler" \in Frame
  BY DEF Frame, UserFrame
<1>4. stack' \in Seq(Frame) /\ (Holds(stack', "closing") => Holds(stack, "closing"))
  <2>1. CASE stack' = base
    BY <1>2, <2>1
  <2>2. CASE stack' = Append(base, "handler")
    <3>1. stack' \in Seq(Frame)
      BY <1>2, <1>3, <2>2
    <3>2. Holds(stack', "closing") => Holds(base, "closing")
      BY <1>2, <1>3, <2>2, HoldsAppend
    <3> QED BY <1>2, <3>1, <3>2
  <2> QED BY <1>2, <2>1, <2>2
<1>5. Apart
  BY <1>a, <1>1, <1>4 DEF HasSocket, Apart
<1> QED BY <1>5, StreamApart

\* Every step of the program keeps the stream whole.
LEMMA PhoneStep == PhoneInv /\ [PhoneNext]_allVars => PhoneInv'
<1> SUFFICES ASSUME PhoneInv, [PhoneNext]_allVars PROVE PhoneInv'
  OBVIOUS
<1>a. /\ ch \in 1..Letters /\ stack \in Seq(Frame) /\ (~HasSocket => armed = {})
      /\ channel = "none" => stack = <<>>
  BY DEF PhoneInv, StreamType, ClosedForGood, NullUnarmed
<1>b. ASSUME UNCHANGED <<mSocket, wire, mSendBuf, armed, stack>>, ch' \in 1..Letters,
             channel' = channel \/ channel' # "none"
      PROVE  PhoneInv'
  <2>1. Apart
    BY <1>a, <1>b DEF HasSocket, Apart
  <2> QED BY <2>1, StreamApart
<1> USE DEF vars, objVars, historyVars
<1>1. CASE Call
  BY <1>a, <1>b, <1>1 DEF Call
<1>2. CASE Terminate
  BY <1>a, <1>b, <1>2 DEF Terminate
<1>3. CASE CaptureFrame
  BY <1>a, <1>b, <1>3 DEF CaptureFrame
<1>4. CASE FrameDone
  <2>1. ch' \in 1..Letters
    BY <1>a, <1>4, PhoneAssumption DEF FrameDone, PhoneAssumption
  <2> QED BY <1>b, <1>4, <2>1 DEF FrameDone
<1>5. CASE SocketStep
  BY <1>5, PlatformPhone, LoopsPhone DEF SocketStep
<1>6. ASSUME NEW message \in Signals, ProcessMessage(message) PROVE PhoneInv'
  BY <1>a, <1>b, <1>6 DEF ProcessMessage
<1>7. CASE UNCHANGED allVars
  BY <1>a, <1>b, <1>7 DEF allVars, phoneVars
<1> QED
  BY <1>1, <1>2, <1>3, <1>4, <1>5, <1>6, <1>7,
     InitializePhone, ProducePhone, TransportReadPhone DEF PhoneNext

\* With dropped frames, writes in part, a failed connection, a sink that was added
\* any number of times and whatever the server sends, the server receives a
\* sequence of whole frames, for any capacity of the send buffer: each with its
\* magic number, its type, a frame_lenth of 32 (which is not what follows) and one
\* payload of 1000 letters.
THEOREM FramesWhole == PhoneSpec => []WholeFrames
<1>1. PhoneInit => PhoneInv
  <2> SUFFICES ASSUME PhoneInit PROVE PhoneInv
    OBVIOUS
  <2>1. ~Holds(<<>>, "closing")
    BY DEF Holds
  <2>2. 1 \in 1..Letters
    BY PhoneAssumption DEF PhoneAssumption
  <2> QED BY <2>1, <2>2
      DEF PhoneInit, Init, PhoneInv, StreamType, ClosedForGood, NullUnarmed, StreamWhole,
          HasSocket
<1>2. PhoneInv => WholeFrames
  <2> SUFFICES ASSUME PhoneInv, HasSocket PROVE WholeFrames
    BY DEF WholeFrames
  <2> DEFINE stream == wire \o mSendBuf
  <2>1. stream \in Seq(Byte) /\ Whole(stream)
    BY DEF PhoneInv, StreamType, StreamWhole
  <2> HIDE DEF stream
  <2>2. /\ Len(stream) % 5 = 0
        /\ \A k \in 0..(Len(stream) \div 5 - 1) :
              /\ SubSeq(stream, 5*k + 1, 5*k + 3) = <<Magic1, Magic2, Video>>
              /\ stream[5*k + 4] = 32 /\ stream[5*k + 5] \in 1..Letters
    BY <2>1, WholeMeans, Zenon
  <2> QED BY <2>2, Zenon DEF WholeFrames, stream
<1> QED BY <1>1, <1>2, PhoneStep, PTL DEF PhoneSpec
=============================================================================
