--------------------------- MODULE AEEFixedBuffer ---------------------------
(***************************************************************************)
(* struct AEEFixedBuffer (AEE++/AEEFixedBuffer.h): a byte queue in one     *)
(* block of nMaxSize bytes.  A buffer is the sequence of the bytes it      *)
(* holds, from m_ptr on; the memmove of take() is the removal of a prefix. *)
(* The capacity m_maxSize never changes and is a parameter here.           *)
(***************************************************************************)
LOCAL INSTANCE Naturals
LOCAL INSTANCE Sequences

\* freeLength()
FreeLength(buf, maxSize) == maxSize - Len(buf)

\* append(): all of the data, or nothing when it does not fit
Fits(buf, data, maxSize) == Len(buf) + Len(data) <= maxSize
AppendedUnchecked(buf, data, maxSize) == buf \o data          \* mutant
AppendedInPart(buf, data, maxSize) ==                         \* mutant
    IF Fits(buf, data, maxSize) THEN buf \o data
    ELSE buf \o SubSeq(data, 1, maxSize - Len(buf))
Appended(buf, data, maxSize) ==
    IF Fits(buf, data, maxSize) THEN buf \o data ELSE buf

\* take(n): drop the first n bytes, or all of them when there are fewer
TakenOneMore(buf, n) ==                                       \* mutant
    IF n + 1 >= Len(buf) THEN <<>> ELSE SubSeq(buf, n + 2, Len(buf))
Taken(buf, n) == IF n >= Len(buf) THEN <<>> ELSE SubSeq(buf, n + 1, Len(buf))
=============================================================================
