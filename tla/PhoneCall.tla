------------------------------ MODULE PhoneCall ------------------------------
(***************************************************************************)
(* The telephone application: PhoneChannel, VideoCapture, TcpTransport and *)
(* SignalClient on top of one AEESocket.  A timer captures a frame every   *)
(* second and hands it to each sink of VideoCapture's list; the sink is    *)
(* the transport, which passes it to AEESocket::send().  All callbacks of  *)
(* the transport are empty, so the socket is connected once and never      *)
(* closed by the application.                                              *)
(*                                                                         *)
(* A frame is five units: the two halves of its magic number, its type,    *)
(* the field frame_lenth, and the payload, which is one letter 1000 times  *)
(* and counts as one unit.  The field does not say so: the code sets it    *)
(* to 32.                                                                  *)
(***************************************************************************)
EXTENDS AEESocket

CONSTANTS
    Letters,               \* ch runs over 1..Letters ('A'..'Z')
    Magic1, Magic2, Video, \* units of a frame
    Server,                \* the units that the server sends
    Signals,               \* the server's signalling messages
    MaxCalls               \* bound: calls of PhoneChannel::call()

ASSUME PhoneAssumption ==
    /\ Letters \in Nat \ {0} /\ MaxCalls \in Nat
    /\ (1..Letters) \cup {Magic1, Magic2, Video, 32} \subseteq Byte

VARIABLES
    channel,      \* "none", then "up" from initialize() to terminate(), then "down"
    captureTimer, \* VideoCapture's timer: 1 while it runs
    sendBuffer,   \* m_mSendBuffer: 0 when it is freed
    sinks,        \* how often m_mSinkList holds the transport
    producing,    \* 0, or 1 + the sinks that produce() has still to serve
    ch,           \* the letter of the next frame
    signal        \* history: the handler that the server's last message called

phoneVars == <<channel, captureTimer, sendBuffer, sinks, producing, ch, signal>>
allVars == <<vars, phoneVars>>

PhoneInit ==
    /\ Init
    /\ channel = "none" /\ captureTimer = 0 /\ sendBuffer = 0 /\ sinks = 0
    /\ producing = 0 /\ ch = 1 /\ signal = "none"

\* The event loop runs: the program is in no function.
Idle == AtLoop /\ producing = 0

\* The header, whose frame_lenth is 32 though 1000 bytes follow it, and the payload.
NewFrame == <<Magic1, Magic2, Video, 32, ch>>

-----------------------------------------------------------------------------
(* PhoneChannel and VideoCapture *)

\* initialize(): the capture timer starts, then the transport is created; its
\* constructor connects, with a timeout, and nobody looks at the result.
Initialize ==
    /\ Idle
    /\ channel = "none"
    /\ channel' = "up" /\ captureTimer' = 1 /\ sendBuffer' = 1 /\ sinks' = 1
    /\ ConnectNoSocket \/ Connect(TRUE)
    /\ UNCHANGED <<producing, ch, signal>>

\* call(): the transport becomes a sink once more
Call ==
    /\ Idle
    /\ channel # "none" /\ sinks <= MaxCalls
    /\ sinks' = sinks + 1
    /\ UNCHANGED <<vars, channel, captureTimer, sendBuffer, producing, ch, signal>>

\* mutant: the timer is not cancelled
TerminateKeepsTimer ==
    /\ Idle
    /\ channel # "none"
    /\ channel' = "down" /\ sendBuffer' = 0
    /\ UNCHANGED <<vars, captureTimer, sinks, producing, ch, signal>>

\* terminate(): the capture timer is cancelled and the frame buffer freed.  The
\* transport stays; and no object is deleted, since Release() takes the count
\* of each from 0 to -1.
Terminate ==
    /\ Idle
    /\ channel # "none"
    /\ channel' = "down" /\ captureTimer' = 0 /\ sendBuffer' = 0
    /\ UNCHANGED <<vars, sinks, producing, ch, signal>>

\* onFrameHandler() up to produce(): the timer has fired, the frame is made.
CaptureFrame ==
    /\ Idle
    /\ captureTimer = 1
    /\ Len(accepted) + 5 * sinks <= StreamBound
    /\ captureTimer' = 0
    /\ producing' = 1 + sinks
    /\ UNCHANGED <<vars, channel, sendBuffer, sinks, ch, signal>>

\* One turn of produce(): the transport sends the frame, and the result is
\* thrown away whether there is no connection (-1) or no room (0).
Produce ==
    /\ AtLoop
    /\ producing > 1
    /\ producing' = producing - 1
    /\ \/ Send(NewFrame)
       \/ ~Connected /\ UNCHANGED vars
    /\ UNCHANGED <<channel, captureTimer, sendBuffer, sinks, ch, signal>>

\* mutant: the timer is set in initialize() only
FrameDoneOnce ==
    /\ AtLoop
    /\ producing = 1
    /\ producing' = 0
    /\ ch' = IF ch < Letters THEN ch + 1 ELSE 1
    /\ UNCHANGED <<vars, channel, captureTimer, sendBuffer, sinks, signal>>

\* The end of onFrameHandler(): the next letter, and the timer is set again.
\* (The code steps ch before produce(), where nothing reads it.)
FrameDone ==
    /\ AtLoop
    /\ producing = 1
    /\ producing' = 0
    /\ ch' = IF ch < Letters THEN ch + 1 ELSE 1
    /\ captureTimer' = 1
    /\ UNCHANGED <<vars, channel, sendBuffer, sinks, signal>>

-----------------------------------------------------------------------------
(* TcpTransport as the decoder of its socket *)

\* decode(): eOK is TRUE.  The magic number is compared and nothing else; a
\* buffer that holds half of it is compared with what memory holds behind.
DecodeOK(buf) ==
    IF buf = <<Magic1>> THEN BOOLEAN ELSE {IsPrefix(<<Magic1, Magic2>>, buf)}

\* The decode loop of onRecv() on top of the frames base: decode() hands the
\* buffer to a sink, which does nothing, and takes nothing from it.
TransportDecode(buf, base) ==
    \E ok \in DecodeOK(buf) :
        /\ mRecvBuf' = buf
        /\ stack' = IF ok THEN Append(base, "handler") ELSE base
        /\ note' = IF ok THEN "onHandler" ELSE "none"

\* onRecv() on the server's bytes, and back from the empty onHandler().
TransportRead ==
    /\ \/ /\ Running("recv") /\ CanRead
          /\ \E n \in 1..FreeLength(mRecvBuf, RecvMax) : \E data \in [1..n -> Server] :
                TransportDecode(mRecvBuf \o data, stack)
       \/ /\ Running("handler")
          /\ TransportDecode(mRecvBuf, Front(stack))
    /\ UNCHANGED <<mStat, mSocket, mSending, mTimeId, mSendBuf, armed, resolving,
                   timers, historyVars, phoneVars>>

-----------------------------------------------------------------------------
(* SignalClient *)

\* processmessage(): which handler a message calls; PhoneChannel's are all empty.
Handler(message) ==
    CASE message = "incoming"    -> "onInComingCall"
      [] message = "established" -> "onCallEstablished"
      [] message = "ringing"     -> "onPeerRinging"
      [] message = "hangup"      -> "onCallClosed"
      [] OTHER                   -> "none"

ProcessMessage(message) ==
    /\ Idle
    /\ channel # "none"
    /\ signal' = Handler(message)
    /\ UNCHANGED <<vars, channel, captureTimer, sendBuffer, sinks, producing, ch>>

-----------------------------------------------------------------------------
\* The socket's callbacks come from the event loop; a close() that is under way
\* goes on inside produce().
SocketStep ==
    /\ UNCHANGED phoneVars
    /\ \/ CloseReturns \/ ClosedReturns \/ ReadWouldBlock \/ ReadFails \/ RecvEnds
       \/ producing = 0 /\ Platform

PhoneNext ==
    \/ Initialize \/ Call \/ Terminate
    \/ CaptureFrame \/ Produce \/ FrameDone
    \/ TransportRead \/ SocketStep
    \/ \E message \in Signals : ProcessMessage(message)

PhoneSpec == PhoneInit /\ [][PhoneNext]_allVars

\* The timer fires, the functions of the program run on, and reads block.
PhoneFairSpec ==
    /\ PhoneSpec
    /\ WF_allVars(Produce) /\ WF_allVars(FrameDone) /\ SF_allVars(CaptureFrame)
    /\ WF_allVars(CloseReturns /\ UNCHANGED phoneVars)
    /\ WF_allVars(ClosedReturns /\ UNCHANGED phoneVars)
    /\ WF_allVars(RecvEnds /\ UNCHANGED phoneVars)
    /\ SF_allVars(ReadWouldBlock /\ UNCHANGED phoneVars)

-----------------------------------------------------------------------------
(* Properties *)

\* The stream, what is written and what waits, is a sequence of whole frames and
\* nothing else: a frame that does not fit the socket's buffer, or finds no
\* connection, is dropped as a whole.  So a receiver that knows the fixed size of
\* these frames is never out of step with them.  One that goes by the header is,
\* after the first frame: every header announces 32 bytes (VideoCapture.cpp:46)
\* and is followed by 1000 (lines 49 and 54).
WholeFrames ==
    LET stream == wire \o mSendBuf IN
    HasSocket =>
        /\ Len(stream) % 5 = 0
        /\ \A k \in 0..(Len(stream) \div 5 - 1) :
              /\ SubSeq(stream, 5*k + 1, 5*k + 3) = <<Magic1, Magic2, Video>>
              /\ stream[5*k + 4] = 32
              /\ stream[5*k + 5] \in 1..Letters

\* The frame buffer is not used once terminate() has freed it: no timer is left
\* to call onFrameHandler(), and none is set again.
CaptureHasBuffer == captureTimer = 1 \/ producing > 0 => sendBuffer = 1

\* Frames are captured for as long as the channel is up, whatever becomes of
\* the connection, unless the program hangs in the decode loop (which
\* DecodeOkIsComplete is about).
CaptureGoesOn == []<>(captureTimer = 1 \/ channel # "up" \/ Running("handler"))

\* eOK means that a complete packet was found (AEESocket.h:16).
DecodeOkIsComplete == Running("handler") => Len(mRecvBuf) >= 5
=============================================================================
