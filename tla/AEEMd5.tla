------------------------------- MODULE AEEMd5 -------------------------------
(***************************************************************************)
(* class AEEMD5 (AEE++/util/AEEMd5.cpp): how a message that comes in pieces*)
(* is cut into blocks, padded and counted.  The mixing of a block          *)
(* (MD5Transform) is taken as it is: the digest stands for the blocks that *)
(* went into it, in order.                                                 *)
(***************************************************************************)
EXTENDS Integers, Sequences

CONSTANTS
    Block,    \* cells of a block, 64 in the code; each count takes one, of 4
    Word,     \* how many values an unsigned int has
    MaxLen    \* bound: bytes of a message

Md5Assumption ==
    /\ Block \in Nat /\ Block > 3 /\ MaxLen \in Nat
    /\ Word \in Nat \ {0} /\ Word % (8 * Block) = 0

VARIABLES
    len,    \* the bytes of the message; byte i is i
    fed,    \* how many of them MD5Update was given
    bits,   \* ctx->bits: the count of bits in two words
    in,     \* ctx->in
    blocks, \* the blocks that went into ctx->buf
    done

vars == <<len, fed, bits, in, blocks, done>>

MARK == -1   \* the byte 0x80 behind the message
Zero == 0
Counts == 2  \* the cells at the end of the last block

\* zmaee_memcpy of the bytes of the message behind `from' to a place in a block
Copied(block, to, from, n) ==
    [c \in 0..(Block - 1) |-> IF c \in to..(to + n - 1) THEN from + 1 + (c - to) ELSE block[c]]

\* n more bytes: as many blocks as they fill are used, what is left stays.
Whole(held, used, from, n) ==
    LET turns == n \div Block
        w[k \in 0..turns] ==
            IF k = 0 THEN [in |-> held, blocks |-> used]
            ELSE LET b == Copied(w[k - 1].in, 0, from + Block * (k - 1), Block)
                 IN  [in |-> b, blocks |-> Append(w[k - 1].blocks, b)]
    IN  [in |-> Copied(w[turns].in, 0, from + Block * turns, n % Block), blocks |-> w[turns].blocks]

\* The count of bits after n more bytes.
Counted(n) ==
    LET low == (bits[1] + 8 * n) % Word
        carry == IF low < bits[1] THEN 1 ELSE 0
    IN  <<low, (bits[2] + carry + n \div (Word \div 8)) % Word>>

Buffered == (bits[1] \div 8) % Block

\* mutant: a piece that just fills the buffer is kept there
MD5UpdateKeeps(n) ==
    LET t == Buffered
        filled == Copied(in, t, fed, Block - t)
    IN  IF t = 0 THEN Whole(in, blocks, fed, n)
        ELSE IF n <= Block - t THEN [in |-> Copied(in, t, fed, n), blocks |-> blocks]
        ELSE Whole(filled, Append(blocks, filled), fed + (Block - t), n - (Block - t))

\* MD5Update of the next n bytes
MD5Update(n) ==
    LET t == Buffered
        filled == Copied(in, t, fed, Block - t)
    IN  IF t = 0 THEN Whole(in, blocks, fed, n)
        ELSE IF n < Block - t THEN [in |-> Copied(in, t, fed, n), blocks |-> blocks]
        ELSE Whole(filled, Append(blocks, filled), fed + (Block - t), n - (Block - t))

\* MD5Final: the blocks that are added.  If the counts do not fit behind the
\* mark, a block of padding goes first.
MD5Final ==
    LET t == Buffered
        marked == [c \in 0..(Block - 1) |-> IF c < t THEN in[c] ELSE IF c = t THEN MARK ELSE Zero]
        zeros == [c \in 0..(Block - 1) |-> Zero]
        WithCounts(b) == [b EXCEPT ![Block - 2] = bits[1], ![Block - 1] = bits[2]]
    IN  IF Block - 1 - t < Counts THEN <<marked, WithCounts(zeros)>> ELSE <<WithCounts(marked)>>

Init ==
    /\ len \in 0..MaxLen /\ fed = 0 /\ bits = <<0, 0>> /\ blocks = <<>> /\ done = FALSE
    /\ in = [c \in 0..(Block - 1) |-> MARK]

\* The member functions would take a message in pieces, though DigestMd5
\* gives it in one.
Update(n) ==
    /\ ~done /\ fed + n <= len
    /\ in' = MD5Update(n).in /\ blocks' = MD5Update(n).blocks
    /\ bits' = Counted(n) /\ fed' = fed + n
    /\ UNCHANGED <<len, done>>

Final ==
    /\ ~done /\ fed = len
    /\ blocks' = blocks \o MD5Final
    /\ done' = TRUE
    /\ UNCHANGED <<len, fed, bits, in>>

Next == Final \/ \E n \in 0..MaxLen : Update(n)

Spec == Init /\ [][Next]_vars

-----------------------------------------------------------------------------
(* What must hold *)

\* A padded message, as the definition of MD5 has it: the counts are the low
\* part of the number of bits, in two words.
PaddedLen(n) == ((n + 1 + Counts + Block - 1) \div Block) * Block
Padded(n) ==
    [c \in 0..(PaddedLen(n) - 1) |->
        IF c < n THEN c + 1
        ELSE IF c = n THEN MARK
        ELSE IF c = PaddedLen(n) - 2 THEN (8 * n) % Word
        ELSE IF c = PaddedLen(n) - 1 THEN ((8 * n) \div Word) % Word
        ELSE Zero]

\* However a message is cut into pieces, the digest is made of the blocks of
\* the padded message, and nothing that was in the buffer before gets in:
\* MD5Update takes account of "the concatenation of another buffer".
DigestOfWhole ==
    done => /\ Len(blocks) * Block = PaddedLen(len)
            /\ \A i \in DOMAIN blocks, c \in 0..(Block - 1) :
                   blocks[i][c] = Padded(len)[Block * (i - 1) + c]
=============================================================================
