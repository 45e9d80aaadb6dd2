------------------------------- MODULE AEEDes -------------------------------
(***************************************************************************)
(* class AEEDes (AEE++/util/AEEDes.cpp): one block of DES, sixteen rounds  *)
(* of the key and sixteen of the block, a step each.  Bits are numbered    *)
(* from 1, the highest of the first byte, as GetBit and the tables number  *)
(* them.                                                                   *)
(***************************************************************************)
EXTENDS Integers, Sequences, SequencesExt

CONSTANTS
    Block,    \* the blocks that are encrypted, sequences of 64 bits
    Password, \* the passwords, too
    Known     \* triples of a block, a password and what DES makes of them

DesAssumption ==
    /\ \A b \in Block \cup Password : b \in [1..64 -> {0, 1}]
    /\ \A k \in Known : k[1] \in [1..64 -> {0, 1}] /\ k[2] \in [1..64 -> {0, 1}]

VARIABLES
    phase,     \* keys, encrypt, decrypt or done
    i,         \* the rounds that are done in it
    str, password,
    CD, K,     \* the key as it is turned, and the keys of the rounds
    L, R,      \* the halves of the block
    out        \* what DES made of the block

vars == <<phase, i, str, password, CD, K, L, R, out>>

IP == <<
    58, 50, 42, 34, 26, 18, 10, 2, 60, 52, 44, 36, 28, 20, 12, 4, 62, 54, 46, 38, 30, 22, 14, 6, 64, 56, 48, 40, 32, 24, 16, 8,
    57, 49, 41, 33, 25, 17, 9, 1, 59, 51, 43, 35, 27, 19, 11, 3, 61, 53, 45, 37, 29, 21, 13, 5, 63, 55, 47, 39, 31, 23, 15, 7 >>
IP_1 == <<
    40, 8, 48, 16, 56, 24, 64, 32, 39, 7, 47, 15, 55, 23, 63, 31, 38, 6, 46, 14, 54, 22, 62, 30, 37, 5, 45, 13, 53, 21, 61, 29,
    36, 4, 44, 12, 52, 20, 60, 28, 35, 3, 43, 11, 51, 19, 59, 27, 34, 2, 42, 10, 50, 18, 58, 26, 33, 1, 41, 9, 49, 17, 57, 25 >>
PC_1 == <<
    57, 49, 41, 33, 25, 17, 9, 1, 58, 50, 42, 34, 26, 18, 10, 2, 59, 51, 43, 35, 27, 19, 11, 3, 60, 52, 44, 36,
    63, 55, 47, 39, 31, 23, 15, 7, 62, 54, 46, 38, 30, 22, 14, 6, 61, 53, 45, 37, 29, 21, 13, 5, 28, 20, 12, 4 >>
PC_2 == <<
    14, 17, 11, 24, 1, 5, 3, 28, 15, 6, 21, 10, 23, 19, 12, 4, 26, 8, 16, 7, 27, 20, 13, 2,
    41, 52, 31, 37, 47, 55, 30, 40, 51, 45, 33, 48, 44, 49, 39, 56, 34, 53, 46, 42, 50, 36, 29, 32 >>
Expansion == <<
    32, 1, 2, 3, 4, 5, 4, 5, 6, 7, 8, 9, 8, 9, 10, 11, 12, 13, 12, 13, 14, 15, 16, 17,
    16, 17, 18, 19, 20, 21, 20, 21, 22, 23, 24, 25, 24, 25, 26, 27, 28, 29, 28, 29, 30, 31, 32, 1 >>
PBox == <<
    16, 7, 20, 21, 29, 12, 28, 17, 1, 15, 23, 26, 5, 18, 31, 10, 2, 8, 24, 14, 32, 27, 3, 9, 19, 13, 30, 6, 22, 11, 4, 25 >>

\* A row of the table is the 64 entries of a box.
SBox == <<
    <<14, 4, 13, 1, 2, 15, 11, 8, 3, 10, 6, 12, 5, 9, 0, 7, 0, 15, 7, 4, 14, 2, 13, 1, 10, 6, 12, 11, 9, 5, 3, 8,
      4, 1, 14, 8, 13, 6, 2, 11, 15, 12, 9, 7, 3, 10, 5, 0, 15, 12, 8, 2, 4, 9, 1, 7, 5, 11, 3, 14, 10, 0, 6, 13>>,
    <<15, 1, 8, 14, 6, 11, 3, 4, 9, 7, 2, 13, 12, 0, 5, 10, 3, 13, 4, 7, 15, 2, 8, 14, 12, 0, 1, 10, 6, 9, 11, 5,
      0, 14, 7, 11, 10, 4, 13, 1, 5, 8, 12, 6, 9, 3, 2, 15, 13, 8, 10, 1, 3, 15, 4, 2, 11, 6, 7, 12, 0, 5, 14, 9>>,
    <<10, 0, 9, 14, 6, 3, 15, 5, 1, 13, 12, 7, 11, 4, 2, 8, 13, 7, 0, 9, 3, 4, 6, 10, 2, 8, 5, 14, 12, 11, 15, 1,
      13, 6, 4, 9, 8, 15, 3, 0, 11, 1, 2, 12, 5, 10, 14, 7, 1, 10, 13, 0, 6, 9, 8, 7, 4, 15, 14, 3, 11, 5, 2, 12>>,
    <<7, 13, 14, 3, 0, 6, 9, 10, 1, 2, 8, 5, 11, 12, 4, 15, 13, 8, 11, 5, 6, 15, 0, 3, 4, 7, 2, 12, 1, 10, 14, 9,
      10, 6, 9, 0, 12, 11, 7, 13, 15, 1, 3, 14, 5, 2, 8, 4, 3, 15, 0, 6, 10, 1, 13, 8, 9, 4, 5, 11, 12, 7, 2, 14>>,
    <<2, 12, 4, 1, 7, 10, 11, 6, 8, 5, 3, 15, 13, 0, 14, 9, 14, 11, 2, 12, 4, 7, 13, 1, 5, 0, 15, 10, 3, 9, 8, 6,
      4, 2, 1, 11, 10, 13, 7, 8, 15, 9, 12, 5, 6, 3, 0, 14, 11, 8, 12, 7, 1, 14, 2, 13, 6, 15, 0, 9, 10, 4, 5, 3>>,
    <<12, 1, 10, 15, 9, 2, 6, 8, 0, 13, 3, 4, 14, 7, 5, 11, 10, 15, 4, 2, 7, 12, 9, 5, 6, 1, 13, 14, 0, 11, 3, 8,
      9, 14, 15, 5, 2, 8, 12, 3, 7, 0, 4, 10, 1, 13, 11, 6, 4, 3, 2, 12, 9, 5, 15, 10, 11, 14, 1, 7, 6, 0, 8, 13>>,
    <<4, 11, 2, 14, 15, 0, 8, 13, 3, 12, 9, 7, 5, 10, 6, 1, 13, 0, 11, 7, 4, 9, 1, 10, 14, 3, 5, 12, 2, 15, 8, 6,
      1, 4, 11, 13, 12, 3, 7, 14, 10, 15, 6, 8, 0, 5, 9, 2, 6, 11, 13, 8, 1, 4, 10, 7, 9, 5, 0, 15, 14, 2, 3, 12>>,
    <<13, 2, 8, 4, 6, 15, 11, 1, 10, 9, 3, 14, 5, 0, 12, 7, 1, 15, 13, 8, 10, 3, 7, 4, 12, 5, 6, 11, 0, 14, 9, 2,
      7, 11, 4, 1, 9, 12, 14, 2, 0, 6, 10, 13, 15, 3, 5, 8, 2, 1, 14, 7, 4, 10, 8, 13, 15, 12, 9, 0, 3, 5, 6, 11>> >>

LM == <<1, 1, 2, 2, 2, 2, 2, 2, 1, 2, 2, 2, 2, 2, 2, 1>>

-----------------------------------------------------------------------------
(* Operations on bits *)

Selected(bits, table) == [b \in 1..Len(table) |-> bits[table[b]]]
XOR(a, b) == [k \in 1..Len(a) |-> (a[k] + b[k]) % 2]

LeftMoveOf28Bit(half, n) == [k \in 1..28 |-> half[((k - 1 + n) % 28) + 1]]
lm(cd, n) == LeftMoveOf28Bit(SubSeq(cd, 1, 28), n) \o LeftMoveOf28Bit(SubSeq(cd, 29, 56), n)

\* The four bits of box s for its six bits: the outer two are the row.
Boxed(s, six) ==
    LET t == SBox[s][(six[1] * 2 + six[6]) * 16
                     + six[2] * 8 + six[3] * 4 + six[4] * 2 + six[5] + 1]
    IN  <<t \div 8, (t \div 4) % 2, (t \div 2) % 2, t % 2>>

\* Bit b of the result is one of box s.
sbox(a) ==
    [b \in 1..32 |-> LET s == (b + 3) \div 4
                     IN  Boxed(s, SubSeq(a, 6 * s - 5, 6 * s))[b + 4 - 4 * s]]

\* What a round adds to the other half: sbox(expansion(R) xor the key).
Mixed(half, key) == Selected(sbox(XOR(key, Selected(half, Expansion))), PBox)

-----------------------------------------------------------------------------
(* Rounds *)

Halves(block) ==
    /\ L' = SubSeq(Selected(block, IP), 1, 32)
    /\ R' = SubSeq(Selected(block, IP), 33, 64)

\* The halves are exchanged behind the last round.
Joined == Selected(R \o L, IP_1)

Init ==
    /\ phase = "keys" /\ i = 0
    /\ \/ str \in Block /\ password \in Password
       \/ \E k \in Known : str = k[1] /\ password = k[2]
    /\ CD = Selected(password, PC_1) /\ K = <<>>
    /\ L = <<>> /\ R = <<>> /\ out = <<>>

KeyRound ==
    /\ phase = "keys" /\ i < 16
    /\ CD' = lm(CD, LM[i + 1])
    /\ K' = Append(K, Selected(CD', PC_2))
    /\ i' = i + 1
    /\ UNCHANGED <<phase, str, password, L, R, out>>

Start ==
    /\ i = 16
    /\ \/ phase = "keys" /\ phase' = "encrypt" /\ Halves(str) /\ UNCHANGED out
       \/ /\ phase = "encrypt" /\ phase' = "decrypt"
          /\ out' = Joined /\ Halves(Joined)
    /\ i' = 0
    /\ UNCHANGED <<str, password, CD, K>>

\* mutant: decrypting takes the keys in the order of encrypting
KeyOfAny == K[i + 1]

\* DES takes the keys in order, DES_1 in reverse.
KeyOf == IF phase = "encrypt" THEN K[i + 1] ELSE K[16 - i]

Round ==
    /\ phase \in {"encrypt", "decrypt"} /\ i < 16
    /\ L' = R
    /\ R' = XOR(Mixed(R, KeyOf), L)
    /\ i' = i + 1
    /\ UNCHANGED <<phase, str, password, CD, K, out>>

Next == KeyRound \/ Start \/ Round

Spec == Init /\ [][Next]_vars

-----------------------------------------------------------------------------
(* What must hold *)

\* What was encrypted with a password decrypts to the same block.
DecryptsBack == (phase = "decrypt" /\ i = 16) => Joined = str

\* Blocks of which the result is known give it: the tables are those of DES.
DecryptsWhatItEncrypted ==
    /\ DecryptsBack
    /\ (phase = "decrypt" /\ i = 16) =>
          \A k \in Known : (k[1] = str /\ k[2] = password) => out = k[3]
=============================================================================
