--------------------------- MODULE AEEMultiMedia ---------------------------
(***************************************************************************)
(* class AEEMultiMedia (AEE++/AEEMultiMedia.cpp): sounds, background music,*)
(* voice messages and recording, on one player and one recorder of the     *)
(* platform.  The two builds differ: only the one for Android plays voice  *)
(* messages with a callback, and only the other one stops the sound for a  *)
(* recording.  One thread; the platform calls back when no call runs.      *)
(* The handlers are called inside these calls, and may make others.  What  *)
(* they call when nothing is left to do but to return is as if it came     *)
(* after; the rest is in the actions.  The platform takes every block of a *)
(* message, and a file that is open can be read to its end.                *)
(***************************************************************************)
EXTENDS Integers, FiniteSets

CONSTANTS MaxMessages  \* bound: voice messages that are played

ASSUME MultiMediaAssumption == MaxMessages \in Nat

VARIABLES
    android,       \* the build
    mStatus,       \* the bits of mStatus that are read: back, record
    mMusicFile,    \* a background music was named
    mIsBackMusic, mBackMusicProgress,
    mRecordCB,     \* there is a handler for what is recorded
    mPlayCbMap,    \* the messages whose handler is waiting (Android)
    player,        \* what the platform plays: none, sound, music
    paused,        \* the platform holds the music for the messages
    recorder,      \* the platform records
    messages,      \* how many messages were played
    answered,      \* how often the handler of each was called
    freed,         \* a handler has stopped the sounds: it is deleted while it runs
    \* histories of what the code does not see to
    forsaken,      \* the music was held for a message that has no entry in the map
    stray,         \* a recording was started by the handler that was told of the end
                   \* of another
    unheard        \* messages cleared before they were told

mediaVars == <<android, mStatus, mMusicFile, mIsBackMusic, mBackMusicProgress, mRecordCB,
               mPlayCbMap, player, paused, recorder, messages, answered, freed, forsaken,
               stray, unheard>>

\* The whole state as one record: the calls nest.
Fields == [mStatus |-> mStatus, mMusicFile |-> mMusicFile, mIsBackMusic |-> mIsBackMusic,
           mBackMusicProgress |-> mBackMusicProgress, mRecordCB |-> mRecordCB,
           mPlayCbMap |-> mPlayCbMap, player |-> player, paused |-> paused,
           recorder |-> recorder, messages |-> messages, answered |-> answered,
           freed |-> freed, forsaken |-> forsaken, stray |-> stray, unheard |-> unheard]

FieldsBecome(m) ==
    /\ mStatus' = m.mStatus /\ mMusicFile' = m.mMusicFile /\ mIsBackMusic' = m.mIsBackMusic
    /\ mBackMusicProgress' = m.mBackMusicProgress /\ mRecordCB' = m.mRecordCB
    /\ mPlayCbMap' = m.mPlayCbMap /\ player' = m.player /\ paused' = m.paused
    /\ recorder' = m.recorder /\ messages' = m.messages /\ answered' = m.answered
    /\ freed' = m.freed /\ forsaken' = m.forsaken /\ stray' = m.stray /\ unheard' = m.unheard
    /\ UNCHANGED android

\* mStatus is not set by the constructor.
MediaInit ==
    /\ android \in BOOLEAN /\ mStatus \in SUBSET {"back", "record"}
    /\ mMusicFile = FALSE /\ mIsBackMusic = FALSE /\ mBackMusicProgress = FALSE
    /\ mRecordCB = FALSE /\ mPlayCbMap = {} /\ player = "none" /\ paused = FALSE
    /\ recorder = FALSE /\ messages = 0 /\ unheard = {}
    /\ freed = FALSE /\ forsaken = FALSE /\ stray = FALSE
    /\ answered = [i \in 1..MaxMessages |-> 0]

IsRecording(m) == "record" \in m.mStatus

-----------------------------------------------------------------------------
(* Stopping *)

Told(m, ids) == [i \in 1..MaxMessages |-> m.answered[i] + (IF i \in ids THEN 1 ELSE 0)]

\* The messages that handlers play while StopSound tells them: n of them.
Fresh(m, n) == (m.messages + 1)..(m.messages + n)

\* mutant: the messages keep their handlers
StoppedKeepsMap(m, n, missed) ==
    [m EXCEPT !.mBackMusicProgress = @ \/ (m.mIsBackMusic /\ ~android), !.mIsBackMusic = FALSE,
              !.player = "none", !.paused = FALSE, !.forsaken = FALSE,
              !.answered = Told(m, m.mPlayCbMap \cup (Fresh(m, n) \ missed)),
              !.unheard = @ \cup missed, !.messages = @ + n, !.mStatus = @ \cup {"record"}]

\* StopSound: every waiting handler is told that it failed, and so are those of the
\* messages played on the way, as far as the loop still comes to them; the rest are
\* `missed' by it and cleared.  Of mStatus all bits but background music are set,
\* where it was meant to be cleared.
Stopped(m, n, missed) ==
    [m EXCEPT !.mBackMusicProgress = @ \/ (m.mIsBackMusic /\ ~android), !.mIsBackMusic = FALSE,
              !.player = "none", !.paused = FALSE, !.forsaken = FALSE,
              !.answered = Told(m, m.mPlayCbMap \cup (Fresh(m, n) \ missed)),
              !.unheard = @ \cup missed, !.messages = @ + n,
              !.mPlayCbMap = {}, !.mStatus = @ \cup {"record"}]

\* Outside of Android no handler waits.
Silenced(m) == Stopped(m, 0, {})

\* mutant: the music is played whatever is recorded
PlayedAlways(m) ==
    [Silenced(m) EXCEPT !.mStatus = @ \cup {"back"}, !.mMusicFile = TRUE, !.player = "music",
                        !.mBackMusicProgress = FALSE, !.mIsBackMusic = TRUE]

\* PlayBackMusic: the music goes on where it was stopped.
Played(m) ==
    IF android THEN [m EXCEPT !.player = "music"]
    ELSE IF IsRecording(m) THEN [m EXCEPT !.mMusicFile = TRUE]
    ELSE [Silenced(m) EXCEPT !.mStatus = @ \cup {"back"}, !.mMusicFile = TRUE,
                             !.player = "music", !.mBackMusicProgress = FALSE,
                             !.mIsBackMusic = TRUE]

\* StartRecordMem
Recorded(m) ==
    [(IF android THEN m ELSE Silenced(m)) EXCEPT
        !.mStatus = @ \cup {"record"}, !.mRecordCB = TRUE, !.recorder = TRUE, !.stray = FALSE]

MusicAgain(m) == IF m.mMusicFile /\ "back" \in m.mStatus THEN Played(m) ELSE m

\* StopRecord: the handler is told of the end while mStatus still says that
\* there is a recording; the one it may start is forgotten.
RecordStopped(m, again) ==
    LET off == [m EXCEPT !.recorder = FALSE, !.stray = FALSE]
        another == again /\ IsRecording(m) /\ m.mRecordCB
        told == IF another THEN Recorded(off) ELSE off
    IN  MusicAgain([told EXCEPT !.mStatus = @ \ {"record"}, !.mRecordCB = FALSE,
                                !.stray = another])

\* A message has its entry in the map.
Entered(m) ==
    [m EXCEPT !.messages = @ + 1, !.mPlayCbMap = @ \cup {m.messages + 1}, !.forsaken = FALSE]

\* Its handler is told and it has it no more; after the last one the music goes on.
Ended(m, id) ==
    LET rest == m.mPlayCbMap \ {id}
    IN  [m EXCEPT !.answered = Told(m, {id}), !.mPlayCbMap = rest,
                  !.paused = @ /\ rest # {}, !.forsaken = @ /\ rest # {}]

-----------------------------------------------------------------------------
(* The calls of the application and of the platform *)

PlayBackMusic == FieldsBecome(Played(Fields))

\* PlaySound, which on Android goes to a pool of its own.
PlaySound ==
    /\ ~android /\ ~IsRecording(Fields)
    /\ FieldsBecome([Silenced(Fields) EXCEPT !.player = "sound"])

\* What the handlers play while they are told: nothing, where none is.
Meanwhile(n, missed) ==
    /\ messages + n <= MaxMessages /\ missed \subseteq Fresh(Fields, n)
    /\ mPlayCbMap = {} => n = 0

StopSound(n, missed) ==
    /\ Meanwhile(n, missed)
    /\ FieldsBecome(Stopped(Fields, n, missed))

\* PlayRealAmr, on Android.  The music is held before the file is opened.  A file
\* that is missing or empty, or a message without a delegate, has no entry, and
\* what the platform tells of the end of it is not heard.
PlayRealAmr(outcome) ==
    LET held == IF mPlayCbMap = {} THEN [Fields EXCEPT !.paused = TRUE, !.forsaken = TRUE]
                ELSE Fields
    IN  /\ android /\ messages < MaxMessages
        /\ FieldsBecome(IF outcome = "entered" THEN Entered(held) ELSE held)

\* _SoundCB: a message is over; its handler may play another one, for which the
\* music is not held again.  Without an entry nothing happens, which is every call
\* in the build without Android.
SoundCB(id, plays) ==
    /\ id \in mPlayCbMap
    /\ FieldsBecome(Ended(IF plays /\ messages < MaxMessages THEN Entered(Fields) ELSE Fields, id))

\* A handler, told by _SoundCB or StopSound, calls StopSound (or Suspend), which tells
\* it again and deletes it, and the caller deletes it once more: nothing is said of
\* what comes after.
StopInHandler ==
    /\ mPlayCbMap # {}
    /\ FieldsBecome([Fields EXCEPT !.freed = TRUE])

\* A sound is over, and the player of the platform is free.
SoundEnds ==
    /\ player = "sound"
    /\ FieldsBecome([Fields EXCEPT !.player = "none"])

StartRecordMem == FieldsBecome(Recorded(Fields))

StopRecord(again) == FieldsBecome(RecordStopped(Fields, again))

\* _RecordCB: a buffer is full; the recording ends when its time is over.
RecordCB(again) ==
    /\ recorder /\ IsRecording(Fields)
    /\ FieldsBecome(RecordStopped(Fields, again))

\* Suspend, after which the music may be playing again.
MediaSuspend(n, missed, again) ==
    /\ Meanwhile(n, missed)
    /\ FieldsBecome(RecordStopped(Stopped(Fields, n, missed), again))

MediaResume == FieldsBecome(MusicAgain(Fields))

Stopping ==
    \E n \in 0..MaxMessages, missed \in SUBSET (1..MaxMessages) :
        StopSound(n, missed) \/ \E b \in BOOLEAN : MediaSuspend(n, missed, b)

MediaNext ==
    /\ ~freed
    /\ \/ PlayBackMusic \/ PlaySound \/ SoundEnds \/ StartRecordMem \/ MediaResume
       \/ Stopping \/ StopInHandler
       \/ \E b \in BOOLEAN : StopRecord(b) \/ RecordCB(b)
       \/ \E o \in {"missing", "empty", "no delegate", "entered"} : PlayRealAmr(o)
       \/ \E id \in 1..MaxMessages, b \in BOOLEAN : SoundCB(id, b)

MediaSpec == MediaInit /\ [][MediaNext]_mediaVars

-----------------------------------------------------------------------------
(* What must hold *)

\* The microphone and the loudspeaker are not used at the same time (outside
\* of Android, where the platform sees to it): no sound or music starts while
\* the platform records, and none goes on when a recording starts.  A recording
\* that was started by the handler told of the end of another is the exception:
\* StopRecord clears the bit of it (AEEMultiMedia.cpp:276), and nothing stops for it.
SoundOrRecord == (~android /\ ~stray) => ~(recorder /\ player # "none")

\* The music that is held for voice messages goes on after the last one, also if
\* handlers play messages, unless it was held for a message without an entry: no
\* file, an empty one or no delegate (AEEMultiMedia.cpp:156, 161, 165), where it waits for
\* the end of a later message.  The handler of a message is called once: at its end,
\* or when the sound is stopped; only one that a handler played inside StopSound may
\* be cleared unheard (line 201).  All this until a handler stops the sounds itself.
MusicGoesOn ==
    /\ paused => mPlayCbMap # {} \/ forsaken
    /\ \A i \in 1..MaxMessages :
           answered[i] = IF i > messages \/ i \in mPlayCbMap \cup unheard THEN 0 ELSE 1

\* Both: the one player and the one recorder are shared as they should be.
MediaTakesTurns == SoundOrRecord /\ MusicGoesOn
=============================================================================
