------------------------------ MODULE AEEBase64 ------------------------------
(***************************************************************************)
(* class Base64 (AEE++/util/AEEBase64.cpp).  A character is its place in   *)
(* base64_chars: 0 to 63, 64 for the padding, or Other for any character   *)
(* that is not in the table.                                               *)
(***************************************************************************)
EXTENDS Integers, Sequences, SequencesExt

CONSTANTS
    Bytes,   \* the bytes of the messages
    MaxLen,  \* bound: bytes of a message
    Room     \* the sizes of the buffers for the result

Base64Assumption == Bytes \subseteq 0..255 /\ MaxLen \in Nat /\ Room \subseteq Nat

VARIABLES
    phase,   \* start, encoded, damaged, decoded, or salvaged: decoded after damage
    message, \* the bytes that were encoded
    room,    \* the size of the buffer of the last call
    text,    \* the characters, perhaps damaged
    bytes    \* what they decode to

vars == <<phase, message, room, text, bytes>>

PAD == 64
Other == 65

At(s, i) == IF i \in DOMAIN s THEN s[i] ELSE 0

\* The four indices made of the three bytes from the i-th on; missing bytes
\* are zero.
Four(s, i) ==
    << At(s, i) \div 4,
       ((At(s, i) % 4) * 16) + (At(s, i + 1) \div 16),
       ((At(s, i + 1) % 16) * 4) + (At(s, i + 2) \div 64),
       At(s, i + 2) % 64 >>

\* The character at place i of the text of s: its group has `more` characters
\* than bytes, and padding behind them.
Character(s, i, more) ==
    LET first == 3 * ((i - 1) \div 4) + 1
        k == ((i - 1) % 4) + 1
        bytesIn == IF first + 2 <= Len(s) THEN 3 ELSE Len(s) % 3
    IN  IF k <= bytesIn + more THEN Four(s, first)[k] ELSE PAD

\* mutant: a group gets only as many characters as it has bytes
EncodeShort(s, max) ==
    LET n == ((Len(s) + 2) \div 3) * 4
    IN  IF n > max THEN <<>> ELSE [i \in 1..n |-> Character(s, i, 0)]

Encode(s, max) ==
    LET n == ((Len(s) + 2) \div 3) * 4
    IN  IF n > max THEN <<>> ELSE [i \in 1..n |-> Character(s, i, 1)]

\* The three bytes made of four indices.
Three(c) ==
    << ((c[1] * 4) + (c[2] \div 16)) % 256,
       (((c[2] % 16) * 16) + (c[3] \div 4)) % 256,
       (((c[3] % 4) * 64) + c[4]) % 256 >>

\* How many characters the loop of Decode takes, and how many there are
\* before the padding at the end.
Taken(c) ==
    CHOOSE n \in 0..Len(c) : /\ \A i \in 1..n : c[i] < PAD
                             /\ n < Len(c) => c[n + 1] >= PAD
Unpadded(c) ==
    CHOOSE n \in 0..Len(c) : /\ \A i \in (n + 1)..Len(c) : c[i] = PAD
                             /\ n > 0 => c[n] # PAD

\* The bytes of a group of two or three characters come out as zero: all four
\* indices are read from the place behind the last character.
Decode(c, max) ==
    LET whole == Taken(c) \div 4
        left == Taken(c) % 4
        n == Unpadded(c)
    IN  IF (n \div 4) * 3 + (((n % 4) + 1) \div 2) > max THEN <<>>
        ELSE [i \in 1..(3 * whole + (IF left = 0 THEN 0 ELSE left - 1)) |->
                 LET before == 4 * ((i - 1) \div 3)
                 IN  IF i <= 3 * whole
                     THEN Three([k \in 1..4 |-> c[before + k]])[((i - 1) % 3) + 1] ELSE 0]

-----------------------------------------------------------------------------

Init ==
    /\ phase = "start"
    /\ message \in UNION {[1..n -> Bytes] : n \in 0..MaxLen}
    /\ room = 0 /\ text = <<>> /\ bytes = <<>>

DoEncode(max) ==
    /\ phase = "start" /\ phase' = "encoded"
    /\ text' = Encode(message, max) /\ room' = max
    /\ UNCHANGED <<message, bytes>>

\* A character of the text is lost or changed before it is decoded.
Damage ==
    /\ phase = "encoded" /\ text # <<>> /\ phase' = "damaged"
    /\ \E i \in DOMAIN text : text' \in {RemoveAt(text, i), [text EXCEPT ![i] = Other],
                                         [text EXCEPT ![i] = PAD]}
    /\ UNCHANGED <<message, room, bytes>>

DoDecode(max) ==
    /\ phase \in {"encoded", "damaged"} /\ text # <<>>
    /\ phase' = IF phase = "damaged" THEN "salvaged" ELSE "decoded"
    /\ bytes' = Decode(text, max) /\ room' = max
    /\ UNCHANGED <<message, text>>

Next == Damage \/ \E m \in Room : DoEncode(m) \/ DoDecode(m)

Spec == Init /\ [][Next]_vars

-----------------------------------------------------------------------------
(* What must hold *)

\* The bits of the message, and of the text, the highest first.
Powers == <<1, 2, 4, 8, 16, 32, 64, 128>>
Bit(x, width, b) == (x \div Powers[width - b + 1]) % 2

\* The text has the bits of the message, six to a character, and padding to a
\* multiple of four behind them; decoding gives as many bytes as the
\* message has and the bytes of its whole groups; and neither writes beyond
\* the buffer, whatever happened to the text.
CodecKeepsBytes ==
    /\ (phase = "encoded" /\ text # <<>>) =>
          /\ Len(text) % 4 = 0 /\ Len(text) <= room
          /\ \A i \in DOMAIN text : text[i] = PAD <=> 6 * (i - 1) >= 8 * Len(message)
          /\ \A b \in 1..(8 * Len(message)) :
                 Bit(message[((b - 1) \div 8) + 1], 8, ((b - 1) % 8) + 1)
                     = Bit(text[((b - 1) \div 6) + 1], 6, ((b - 1) % 6) + 1)
    /\ phase \in {"decoded", "salvaged"} => Len(bytes) <= room
    /\ (phase = "decoded" /\ bytes # <<>>) =>
          /\ Len(bytes) = Len(message)
          /\ \A i \in 1..(Len(message) - (Len(message) % 3)) : bytes[i] = message[i]
=============================================================================
