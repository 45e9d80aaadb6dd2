---------------------------- MODULE LibraryProofs ----------------------------
(***************************************************************************)
(* Proofs about the parts of util/ that MCLibrary puts together, for every *)
(* value of their constants.  Each is an instance, with variables of its   *)
(* own.                                                                    *)
(***************************************************************************)
EXTENDS Integers, Sequences, SequenceTheorems, FiniteSetTheorems, WellFoundedInduction, TLAPS

CONSTANTS
    Block, Password, Known,                           \* AEEDes
    m_stackSize, m_maxEntryCount, Size, MaxAllocs,    \* AEEStackAlloc
    Cells, UInts, MaxLen,                             \* AEEMd5
    Element, Capacity, MaxSize,                       \* AEESequences
    Bytes, Room                                       \* AEEBase64, with MaxLen

VARIABLES
    desPhase, turn, str, password, CD, roundKeys, left, right, out,
    m_entries, m_index, m_allocation, m_maxAllocation, stackHeld, allocs, lifo,
    len, fed, bits, in, md5Blocks, done,
    kind, value, vec, list,
    b64Phase, message, room, text, decoded

Des == INSTANCE AEEDes WITH
    phase <- desPhase, i <- turn, K <- roundKeys, L <- left, R <- right
Stack == INSTANCE AEEStackAlloc WITH held <- stackHeld
Md5 == INSTANCE AEEMd5 WITH Block <- Cells, Word <- UInts, blocks <- md5Blocks
Seqs == INSTANCE AEESequences WITH Value <- Element
Base64 == INSTANCE AEEBase64 WITH phase <- b64Phase, bytes <- decoded

-----------------------------------------------------------------------------
(* Recursive functions *)

\* Induction over the natural numbers, with a set in place of a property.
LEMMA NatSetInduction ==
    ASSUME NEW S, 0 \in S, \A n \in Nat : n \in S => n + 1 \in S
    PROVE  Nat \subseteq S
<1> DEFINE T == Nat \ S
           R == OpToRel(<, Nat)
<1>1. SUFFICES ASSUME T # {} PROVE FALSE
  OBVIOUS
<1>2. \E x \in T : \A y \in T : ~ (<<y, x>> \in R)
  <2>1. IsWellFoundedOn(R, Nat)
    BY NatLessThanWellFounded
  <2> HIDE DEF R
  <2> QED BY <1>1, <2>1, WFMin
<1>3. PICK x \in T : \A y \in T : ~ (<<y, x>> \in R)
  BY <1>2
<1>4. x \in Nat /\ x # 0 /\ x - 1 \in Nat /\ x - 1 \notin S
  BY SMT
<1>5. <<x - 1, x>> \in R
  BY <1>4 DEF OpToRel
<1> QED BY <1>3, <1>4, <1>5

\* f is a before the first value, and G[k] makes f[k] of f[k - 1].
Recurs(a, G, n, f) == f = [k \in 0..n |-> IF k = 0 THEN a ELSE G[k][f[k - 1]]]

\* Such a function exists, for any number of values.
LEMMA RecursionDefined ==
    ASSUME NEW X, NEW a \in X, NEW G, \A k \in Nat, x \in X : G[k][x] \in X
    PROVE  \A n \in Nat : \E f \in [0..n -> X] : Recurs(a, G, n, f)
<1> USE DEF Recurs
<1> DEFINE To(n, f) == Recurs(a, G, n, f)
           S == {n \in Nat : \E f \in [0..n -> X] : To(n, f)}
<1>1. 0 \in S
  <2> DEFINE f == [k \in 0..0 |-> a]
  <2>1. f \in [0..0 -> X] /\ To(0, f)
    OBVIOUS
  <2> HIDE DEF f
  <2> QED BY <2>1
<1>2. ASSUME NEW n \in Nat, n \in S PROVE n + 1 \in S
  <2>1. PICK f \in [0..n -> X] : To(n, f)
    BY <1>2
  <2> DEFINE g == [k \in 0..(n + 1) |-> IF k = n + 1 THEN G[n + 1][f[n]] ELSE f[k]]
  <2>2. ASSUME NEW k \in 0..(n + 1)
        PROVE  g[k] \in X /\ g[k] = IF k = 0 THEN a ELSE G[k][g[k - 1]]
    <3>1. CASE k = 0
      BY <3>1, <2>1
    <3>2. CASE k = n + 1
      <4>1. n \in 0..n /\ n \in 0..(n + 1) /\ k # 0 /\ k - 1 = n /\ n # n + 1
        BY <3>2
      <4>2. f[n] \in X /\ g[n] = f[n]
        BY <4>1, <2>1
      <4>3. g[k] = G[k][f[n]] /\ k \in Nat
        BY <3>2
      <4>4. G[k][f[n]] \in X
        BY <4>2, <4>3
      <4> QED BY <4>1, <4>2, <4>3, <4>4
    <3>3. CASE k \in 1..n
      <4>1. k - 1 \in 0..n /\ k - 1 \in 0..(n + 1) /\ k \in 0..n /\ k # 0 /\ k # n + 1
            /\ k - 1 # n + 1
        BY <3>3
      <4> QED BY <2>1, <4>1
    <3> QED BY <3>1, <3>2, <3>3
  <2>3. g \in [0..(n + 1) -> X] /\ To(n + 1, g)
    BY <2>2
  <2> HIDE DEF g, To
  <2> QED BY <2>3
<1> HIDE DEF S
<1>3. Nat \subseteq S
  BY <1>1, <1>2, NatSetInduction
<1> QED BY <1>3 DEF S

-----------------------------------------------------------------------------
(* DES: what was encrypted decrypts to itself *)

Bit == {0, 1}
Word(n) == [1..n -> Bit]

\* The halves of the block after any number of rounds are neighbours in one
\* sequence: each is made of the two before it.
Rounds(b, ks, x, n) ==
    /\ x \in [0..(n + 1) -> Word(32)]
    /\ x[0] \o x[1] = Des!Selected(b, Des!IP)
    /\ \A k \in 0..(n - 1) : x[k + 2] = Des!XOR(Des!Mixed(x[k + 1], ks[k + 1]), x[k])

\* Encrypting goes through this sequence, decrypting back through it.
DesInv ==
    /\ desPhase \in {"keys", "encrypt", "decrypt"} /\ turn \in 0..16
    /\ str \in Word(64) /\ CD \in Word(56) /\ roundKeys \in Seq(Word(48))
    /\ Len(roundKeys) = (IF desPhase = "keys" THEN turn ELSE 16)
    /\ desPhase = "encrypt" => \E x : Rounds(str, roundKeys, x, turn) /\ left = x[turn] /\ right = x[turn + 1]
    /\ desPhase = "decrypt" => \E x : Rounds(str, roundKeys, x, 16) /\ left = x[17 - turn] /\ right = x[16 - turn]

\* The permutations of the block undo each other.
LEMMA PermutationsInvert ==
    /\ Len(Des!IP) = 64 /\ Len(Des!IP_1) = 64
    /\ \A b \in 1..64 :
          /\ Des!IP[b] \in 1..64 /\ Des!IP_1[Des!IP[b]] = b
          /\ Des!IP_1[b] \in 1..64 /\ Des!IP[Des!IP_1[b]] = b
BY SMTT(60) DEF Des!IP, Des!IP_1

\* The tables select bits that are there.
LEMMA TablesInside ==
    /\ Len(Des!PBox) = 32 /\ \A b \in 1..32 : Des!PBox[b] \in 1..32
    /\ Len(Des!Expansion) = 48 /\ \A b \in 1..48 : Des!Expansion[b] \in 1..32
    /\ Len(Des!PC_1) = 56 /\ \A b \in 1..56 : Des!PC_1[b] \in 1..64
    /\ Len(Des!PC_2) = 48 /\ \A b \in 1..48 : Des!PC_2[b] \in 1..56
    /\ Len(Des!LM) = 16 /\ \A b \in 1..16 : Des!LM[b] \in 1..2
<1>1. Len(Des!PBox) = 32 /\ \A b \in 1..32 : Des!PBox[b] \in 1..32
  BY SMTT(60) DEF Des!PBox
<1>2. Len(Des!Expansion) = 48 /\ \A b \in 1..48 : Des!Expansion[b] \in 1..32
  BY SMTT(60) DEF Des!Expansion
<1>3. Len(Des!PC_1) = 56 /\ \A b \in 1..56 : Des!PC_1[b] \in 1..64
  BY SMTT(60) DEF Des!PC_1
<1>4. Len(Des!PC_2) = 48 /\ \A b \in 1..48 : Des!PC_2[b] \in 1..56
  BY SMTT(60) DEF Des!PC_2
<1>5. Len(Des!LM) = 16 /\ \A b \in 1..16 : Des!LM[b] \in 1..2
  BY SMTT(60) DEF Des!LM
<1> QED BY <1>1, <1>2, <1>3, <1>4, <1>5

LEMMA BoxesHoldNumbers == \A s \in 1..8 : \A b \in 1..64 : Des!SBox[s][b] \in Nat
BY SMTT(60) DEF Des!SBox

\* Words are sequences.
LEMMA WordIsSeq ==
    ASSUME NEW n \in Nat, NEW w \in Word(n)
    PROVE  w \in Seq(Bit) /\ Len(w) = n /\ \A b \in 1..n : w[b] \in Bit /\ w[b] \in Int
BY DEF Word, Bit

\* Words of the same bits are equal.
LEMMA SameBits ==
    ASSUME NEW n \in Nat, NEW v \in Word(n), NEW w \in Word(n), \A k \in 1..n : v[k] = w[k]
    PROVE  v = w
<1>1. v = [k \in 1..n |-> v[k]] /\ w = [k \in 1..n |-> w[k]]
  BY DEF Word
<1> QED BY <1>1

\* Two words behind one another
LEMMA WordsJoin ==
    ASSUME NEW n \in Nat, NEW m \in Nat, NEW all \in Nat, all = n + m,
           NEW v \in Word(n), NEW w \in Word(m)
    PROVE  /\ v \o w \in Word(all)
           /\ \A k \in 1..n : (v \o w)[k] = v[k]
           /\ \A k \in 1..m : (v \o w)[k + n] = w[k]
<1> DEFINE b == v \o w
<1>1. v \in Seq(Bit) /\ Len(v) = n /\ w \in Seq(Bit) /\ Len(w) = m
  BY WordIsSeq
<1>2. b \in Seq(Bit) /\ Len(b) = n + m
  BY <1>1, ConcatProperties
<1>3. \A k \in 1..(n + m) : b[k] = IF k <= n THEN v[k] ELSE w[k - n]
  BY <1>1, ConcatProperties
<1> HIDE DEF b
<1>4. b \in [1..all -> Bit]
  BY <1>2
<1>5. \A k \in 1..n : b[k] = v[k]
  BY <1>3
<1>6. \A k \in 1..m : b[k + n] = w[k]
  <2> TAKE k \in 1..m
  <2>1. k + n \in 1..(n + m) /\ ~(k + n <= n) /\ k + n - n = k
    OBVIOUS
  <2> QED BY <2>1, <1>3
<1> QED BY <1>4, <1>5, <1>6 DEF Word, b

\* A part of a word
LEMMA PartOfWord ==
    ASSUME NEW n \in Nat, NEW w \in Word(n), NEW a \in 1..n, NEW b \in a..n
    PROVE  /\ SubSeq(w, a, b) \in Word(b - a + 1)
           /\ \A k \in 1..(b - a + 1) : SubSeq(w, a, b)[k] = w[a + k - 1]
<1>1. w \in Seq(Bit) /\ Len(w) = n
  BY WordIsSeq
<1>2. SubSeq(w, a, b) = [k \in 1..(b - a + 1) |-> w[a + k - 1]]
  BY <1>1
<1>3. \A k \in 1..(b - a + 1) : a + k - 1 \in 1..n
  OBVIOUS
<1>4. \A k \in 1..(b - a + 1) : w[a + k - 1] \in Bit
  BY <1>3 DEF Word
<1> QED BY <1>2, <1>4 DEF Word

\* The four bits that a box gives for six.
LEMMA BoxedBits ==
    ASSUME NEW s \in 1..8, NEW six \in Word(6)
    PROVE  \A k \in 1..4 : Des!Boxed(s, six)[k] \in Int
<1> DEFINE a == (six[1] * 2 + six[6]) * 16
                + six[2] * 8 + six[3] * 4 + six[4] * 2 + six[5] + 1
           t == Des!SBox[s][a]
<1>1. a \in 1..64
  <2>1. \A b \in 1..6 : six[b] \in {0, 1}
    BY DEF Word, Bit
  <2> QED BY <2>1
<1>2. t \in Nat
  BY <1>1, BoxesHoldNumbers
<1>3. Des!Boxed(s, six) = <<t \div 8, (t \div 4) % 2, (t \div 2) % 2, t % 2>>
  BY DEF Des!Boxed
<1> HIDE DEF t
<1> QED BY <1>2, <1>3

\* A round makes 32 numbers of the half and the key.
LEMMA MixedNumbers ==
    ASSUME NEW half \in Word(32), NEW key \in Word(48)
    PROVE  /\ Des!Mixed(half, key) \in [1..32 -> Int] /\ Len(Des!Mixed(half, key)) = 32
<1> DEFINE e == Des!Selected(half, Des!Expansion)
           a == Des!XOR(key, e)
           m == Des!sbox(a)
<1>1. e \in Word(48)
  BY TablesInside DEF Des!Selected, Word
<1>2. a \in Word(48)
  <2>1. Len(key) = 48 /\ \A b \in 1..48 : key[b] \in Int
    BY WordIsSeq
  <2>2. \A b \in 1..48 : e[b] \in Int
    BY <1>1, WordIsSeq
  <2> HIDE DEF e
  <2>3. \A b \in 1..48 : (key[b] + e[b]) % 2 \in Bit
    BY <2>1, <2>2 DEF Bit
  <2> QED BY <2>1, <2>3 DEF Des!XOR, Word
<1> HIDE DEF e
<1>3. ASSUME NEW b \in 1..32 PROVE m[b] \in Int
  <2> DEFINE s == (b + 3) \div 4
             six == SubSeq(a, 6 * s - 5, 6 * s)
  <2>1. s \in 1..8 /\ b + 4 - 4 * s \in 1..4
    OBVIOUS
  <2>2. six \in Word(6)
    <3>1. a \in Seq(Bit) /\ Len(a) = 48
      BY <1>2, WordIsSeq
    <3>2. six = [k \in 1..6 |-> a[6 * s - 6 + k]]
      BY <2>1, <3>1
    <3>3. \A k \in 1..6 : 6 * s - 6 + k \in 1..48
      BY <2>1
    <3> QED BY <3>2, <3>3, <1>2 DEF Word
  <2>3. m[b] = Des!Boxed(s, six)[b + 4 - 4 * s]
    BY DEF Des!sbox
  <2> HIDE DEF s, six, m, a
  <2> QED BY <2>1, <2>2, <2>3, BoxedBits
<1> HIDE DEF m, a
<1>4. Des!Mixed(half, key) = [b \in 1..32 |-> m[Des!PBox[b]]]
  BY TablesInside DEF Des!Mixed, Des!Selected, m, a, e
<1>5. \A b \in 1..32 : m[Des!PBox[b]] \in Int
  BY <1>3, TablesInside
<1> QED BY <1>4, <1>5

\* The exclusive or with the same numbers twice is the identity.
LEMMA XorTwice ==
    ASSUME NEW m \in [1..32 -> Int], NEW w \in Word(32)
    PROVE  Des!XOR(m, w) \in Word(32) /\ Des!XOR(m, Des!XOR(m, w)) = w
<1>1. Len(m) = 32
  OBVIOUS
<1>2. \A b \in 1..32 : w[b] \in {0, 1} /\ m[b] \in Int
  BY DEF Word, Bit
<1> DEFINE x == Des!XOR(m, w)
<1>3. x = [b \in 1..32 |-> (m[b] + w[b]) % 2]
  BY <1>1 DEF Des!XOR
<1>4. x \in Word(32)
  <2>1. ASSUME NEW b \in 1..32 PROVE (m[b] + w[b]) % 2 \in Bit
    <3>1. m[b] + w[b] \in Int
      BY <1>2
    <3> QED BY <3>1 DEF Bit
  <2> HIDE DEF x
  <2> QED BY <1>3, <2>1 DEF Word
<1>5. Des!XOR(m, x) = [b \in 1..32 |-> (m[b] + x[b]) % 2]
  BY <1>1 DEF Des!XOR
<1>6. \A b \in 1..32 : (m[b] + x[b]) % 2 = w[b]
  <2> TAKE b \in 1..32
  <2>1. x[b] = (m[b] + w[b]) % 2
    BY <1>3
  <2> QED BY <2>1, <1>2
<1> HIDE DEF x
<1>7. w = [b \in 1..32 |-> w[b]]
  BY DEF Word
<1> QED BY <1>4, <1>5, <1>6, <1>7 DEF x

\* Selecting with a permutation and then with its inverse gives the block.
LEMMA SelectedTwice ==
    ASSUME NEW b \in Word(64)
    PROVE  /\ Des!Selected(b, Des!IP) \in Word(64) /\ Des!Selected(b, Des!IP_1) \in Word(64)
           /\ Des!Selected(Des!Selected(b, Des!IP), Des!IP_1) = b
           /\ Des!Selected(Des!Selected(b, Des!IP_1), Des!IP) = b
<1> DEFINE p == Des!Selected(b, Des!IP)
           q == Des!Selected(b, Des!IP_1)
<1>1. p = [k \in 1..64 |-> b[Des!IP[k]]] /\ q = [k \in 1..64 |-> b[Des!IP_1[k]]]
  BY PermutationsInvert DEF Des!Selected
<1>2. p \in Word(64) /\ q \in Word(64)
  BY <1>1, PermutationsInvert DEF Word
<1> HIDE DEF p, q
<1>3. Des!Selected(p, Des!IP_1) = [k \in 1..64 |-> p[Des!IP_1[k]]]
  BY PermutationsInvert DEF Des!Selected
<1>4. Des!Selected(q, Des!IP) = [k \in 1..64 |-> q[Des!IP[k]]]
  BY PermutationsInvert DEF Des!Selected
<1>5. b = [k \in 1..64 |-> b[k]]
  BY DEF Word
<1>6. \A k \in 1..64 : p[Des!IP_1[k]] = b[k] /\ q[Des!IP[k]] = b[k]
  BY <1>1, PermutationsInvert
<1> QED BY <1>2, <1>3, <1>4, <1>5, <1>6 DEF p, q

LEMMA HalvesBits ==
    ASSUME NEW l \in Word(32), NEW r \in Word(32)
    PROVE  /\ l \o r \in Word(64)
           /\ \A k \in 1..32 : (l \o r)[k] = l[k]
           /\ \A k \in 1..32 : (l \o r)[k + 32] = r[k]
<1>1. 32 \in Nat /\ 64 \in Nat /\ 64 = 32 + 32
  OBVIOUS
<1>2. l \o r \in Word(64)
  BY <1>1, WordsJoin
<1>3. l \in Seq(Bit) /\ Len(l) = 32 /\ r \in Seq(Bit) /\ Len(r) = 32
  BY WordIsSeq
<1> DEFINE b == l \o r
<1>4. \A k \in 1..(Len(l) + Len(r)) : b[k] = IF k <= Len(l) THEN l[k] ELSE r[k - Len(l)]
  BY <1>3, ConcatProperties
<1> HIDE DEF b
<1>5. ASSUME NEW k \in 1..32 PROVE b[k] = l[k]
  <2>1. k \in 1..(Len(l) + Len(r)) /\ k <= Len(l)
    BY <1>3
  <2> QED BY <2>1, <1>4
<1>6. ASSUME NEW k \in 1..32 PROVE b[k + 32] = r[k]
  <2>1. k + 32 \in 1..(Len(l) + Len(r)) /\ ~(k + 32 <= Len(l)) /\ (k + 32) - Len(l) = k
    BY <1>3
  <2> QED BY <2>1, <1>4
<1> QED BY <1>2, <1>5, <1>6 DEF b

LEMMA HalvesJoin ==
    ASSUME NEW b \in Word(64)
    PROVE  /\ SubSeq(b, 1, 32) \in Word(32) /\ SubSeq(b, 33, 64) \in Word(32)
           /\ SubSeq(b, 1, 32) \o SubSeq(b, 33, 64) = b
<1> DEFINE l == SubSeq(b, 1, 32)
           r == SubSeq(b, 33, 64)
<1>1. l \in Word(32) /\ \A k \in 1..32 : l[k] = b[k]
  <2>1. l \in Word(32 - 1 + 1) /\ \A k \in 1..(32 - 1 + 1) : l[k] = b[1 + k - 1]
    BY PartOfWord, 1 \in 1..64, 32 \in 1..64
  <2> HIDE DEF l
  <2> QED BY <2>1
<1>2. r \in Word(32) /\ \A k \in 1..32 : r[k] = b[k + 32]
  <2>1. r \in Word(64 - 33 + 1) /\ \A k \in 1..(64 - 33 + 1) : r[k] = b[33 + k - 1]
    BY PartOfWord, 33 \in 1..64, 64 \in 33..64
  <2> HIDE DEF r
  <2> QED BY <2>1
<1> HIDE DEF l, r
<1>3. /\ l \o r \in Word(64)
      /\ \A k \in 1..32 : (l \o r)[k] = l[k]
      /\ \A k \in 1..32 : (l \o r)[k + 32] = r[k]
  BY <1>1, <1>2, HalvesBits
<1>4. ASSUME NEW k \in 1..64 PROVE (l \o r)[k] = b[k]
  <2>1. CASE k <= 32
    <3>1. k \in 1..32
      BY <2>1
    <3> QED BY <3>1, <1>1, <1>3
  <2>2. CASE k > 32
    <3>1. k - 32 \in 1..32 /\ (k - 32) + 32 = k
      BY <2>2
    <3>2. (l \o r)[(k - 32) + 32] = r[k - 32] /\ r[k - 32] = b[(k - 32) + 32]
      BY <3>1, <1>2, <1>3
    <3> QED BY <3>1, <3>2
  <2>3. k <= 32 \/ k > 32
    OBVIOUS
  <2> QED BY <2>1, <2>2, <2>3
<1>5. l \o r = b
  BY <1>3, <1>4, SameBits
<1> QED BY <1>1, <1>2, <1>5 DEF l, r

LEMMA JoinedHalves ==
    ASSUME NEW l \in Word(32), NEW r \in Word(32)
    PROVE  /\ l \o r \in Word(64)
           /\ SubSeq(l \o r, 1, 32) = l /\ SubSeq(l \o r, 33, 64) = r
<1> DEFINE b == l \o r
           s == SubSeq(b, 1, 32)
           t == SubSeq(b, 33, 64)
<1>1. /\ b \in Word(64)
      /\ \A k \in 1..32 : b[k] = l[k]
      /\ \A k \in 1..32 : b[k + 32] = r[k]
  BY HalvesBits
<1> HIDE DEF b
<1>2. s \o t = b /\ s \in Word(32) /\ t \in Word(32)
  BY <1>1, HalvesJoin
<1> HIDE DEF s, t
<1>3. /\ \A k \in 1..32 : b[k] = s[k]
      /\ \A k \in 1..32 : b[k + 32] = t[k]
  BY <1>2, HalvesBits
<1>4. s = l
  <2>1. \A k \in 1..32 : s[k] = l[k]
    BY <1>1, <1>3
  <2> QED BY <2>1, <1>2, SameBits
<1>5. t = r
  <2>1. \A k \in 1..32 : t[k] = r[k]
    BY <1>1, <1>3
  <2> QED BY <2>1, <1>2, SameBits
<1> QED BY <1>1, <1>4, <1>5 DEF b, s, t

\* The key of a round
LEMMA KeyBits ==
    ASSUME NEW cd \in Word(56), NEW n \in 1..2
    PROVE  Des!lm(cd, n) \in Word(56) /\ Des!Selected(cd, Des!PC_2) \in Word(48)
<1> DEFINE c == SubSeq(cd, 1, 28)
           d == SubSeq(cd, 29, 56)
<1>3. c \in Word(28) /\ d \in Word(28)
  <2>1. c \in Word(28 - 1 + 1) /\ d \in Word(56 - 29 + 1)
    BY PartOfWord, 1 \in 1..56, 28 \in 1..56, 29 \in 1..56, 56 \in 29..56
  <2> QED BY <2>1
<1> HIDE DEF c, d
<1>4. \A h \in Word(28) : Des!LeftMoveOf28Bit(h, n) \in Word(28)
  BY DEF Des!LeftMoveOf28Bit, Word
<1> DEFINE e == Des!LeftMoveOf28Bit(c, n)
           f == Des!LeftMoveOf28Bit(d, n)
<1>5. e \in Word(28) /\ f \in Word(28)
  BY <1>3, <1>4
<1> HIDE DEF e, f
<1>6. e \o f \in Word(56)
  BY <1>5, WordsJoin, 56 = 28 + 28
<1>7. Des!lm(cd, n) = e \o f
  BY DEF Des!lm, e, f, c, d
<1>8. Des!Selected(cd, Des!PC_2) \in Word(48)
  BY TablesInside DEF Des!Selected, Word
<1> QED BY <1>6, <1>7, <1>8

LEMMA DesInit ==
    ASSUME Des!DesAssumption PROVE Des!Init => DesInv
<1> SUFFICES ASSUME Des!Init PROVE DesInv
  OBVIOUS
<1>1. str \in Word(64) /\ password \in Word(64)
  BY DEF Des!Init, Des!DesAssumption, Word, Bit
<1>2. CD \in Word(56)
  BY <1>1, TablesInside DEF Des!Init, Des!Selected, Word
<1>3. roundKeys \in Seq(Word(48)) /\ Len(roundKeys) = 0
  BY DEF Des!Init
<1> QED BY <1>1, <1>2, <1>3 DEF Des!Init, DesInv

\* One more key is turned out.
LEMMA KeyRoundStep == DesInv /\ Des!KeyRound => DesInv'
<1> SUFFICES ASSUME DesInv, Des!KeyRound PROVE DesInv'
  OBVIOUS
<1>1. /\ desPhase = "keys" /\ turn \in 0..15 /\ turn' = turn + 1 /\ desPhase' = desPhase /\ str' = str
      /\ CD \in Word(56) /\ roundKeys \in Seq(Word(48)) /\ Len(roundKeys) = turn /\ str \in Word(64)
  BY DEF DesInv, Des!KeyRound
<1>2. Des!LM[turn + 1] \in 1..2
  <2>1. turn + 1 \in 1..16
    BY <1>1
  <2> QED BY <2>1, TablesInside
<1>3. CD' \in Word(56) /\ Des!Selected(CD', Des!PC_2) \in Word(48)
  <2>1. CD' = Des!lm(CD, Des!LM[turn + 1])
    BY DEF Des!KeyRound
  <2>2. CD' \in Word(56)
    BY <1>1, <1>2, <2>1, KeyBits
  <2> QED BY <1>2, <2>2, KeyBits
<1>4. roundKeys' = Append(roundKeys, Des!Selected(CD', Des!PC_2))
  BY DEF Des!KeyRound
<1>5. roundKeys' \in Seq(Word(48)) /\ Len(roundKeys') = turn + 1
  BY <1>1, <1>3, <1>4
<1> QED BY <1>1, <1>3, <1>5 DEF DesInv

\* The two halves of a block with which the rounds start
LEMMA StartHalves ==
    ASSUME NEW b \in Word(64), Des!Halves(b)
    PROVE  /\ left' \in Word(32) /\ right' \in Word(32)
           /\ left' \o right' = Des!Selected(b, Des!IP)
<1>1. Des!Selected(b, Des!IP) \in Word(64)
  BY SelectedTwice
<1> QED BY <1>1, HalvesJoin DEF Des!Halves

\* Encrypting begins.
LEMMA EncryptStep ==
    ASSUME DesInv, Des!Start, desPhase = "keys"
    PROVE  DesInv'
<1>1. /\ turn = 16 /\ turn' = 0 /\ desPhase' = "encrypt" /\ str' = str /\ CD' = CD /\ roundKeys' = roundKeys
      /\ CD \in Word(56) /\ roundKeys \in Seq(Word(48)) /\ Len(roundKeys) = 16 /\ str \in Word(64)
      /\ Des!Halves(str)
  BY DEF DesInv, Des!Start
<1> DEFINE x == [k \in 0..1 |-> IF k = 0 THEN left' ELSE right']
<1>2. x \in [0..1 -> Word(32)] /\ x[0] = left' /\ x[1] = right'
  BY <1>1, StartHalves
<1> HIDE DEF x
<1>3. x[0] \o x[1] = Des!Selected(str, Des!IP)
  BY <1>1, <1>2, StartHalves
<1>4. Rounds(str', roundKeys', x, turn')
  <2>1. 0 + 1 = 1 /\ 0..(0 - 1) = {}
    OBVIOUS
  <2>2. Rounds(str', roundKeys', x, 0)
    BY <1>1, <1>2, <1>3, <2>1 DEF Rounds
  <2> QED BY <1>1, <2>2
<1>5. \E y : Rounds(str', roundKeys', y, turn') /\ left' = y[turn'] /\ right' = y[turn' + 1]
  <2>1. turn' + 1 = 1
    BY <1>1
  <2> QED BY <1>1, <1>2, <1>4, <2>1
<1> QED BY <1>1, <1>5 DEF DesInv

\* The block that encrypting gives begins with the halves of the last round.
LEMMA DecryptStep ==
    ASSUME DesInv, Des!Start, desPhase = "encrypt"
    PROVE  DesInv'
<1>1. /\ turn = 16 /\ turn' = 0 /\ desPhase' = "decrypt" /\ str' = str /\ CD' = CD /\ roundKeys' = roundKeys
      /\ CD \in Word(56) /\ roundKeys \in Seq(Word(48)) /\ Len(roundKeys) = 16 /\ str \in Word(64)
      /\ Des!Halves(Des!Joined)
  BY DEF DesInv, Des!Start
<1>2. PICK x : Rounds(str, roundKeys, x, 16) /\ left = x[16] /\ right = x[17]
  BY <1>1 DEF DesInv
<1>3. left \in Word(32) /\ right \in Word(32)
  BY <1>2 DEF Rounds
<1>4. right \o left \in Word(64) /\ Des!Joined = Des!Selected(right \o left, Des!IP_1)
  BY <1>3, HalvesBits DEF Des!Joined
<1>5. Des!Joined \in Word(64) /\ Des!Selected(Des!Joined, Des!IP) = right \o left
  BY <1>4, SelectedTwice
<1>6. left' = right /\ right' = left
  <2>1. left' = SubSeq(right \o left, 1, 32) /\ right' = SubSeq(right \o left, 33, 64)
    BY <1>1, <1>5 DEF Des!Halves
  <2> QED BY <2>1, <1>3, JoinedHalves
<1>7. Rounds(str', roundKeys', x, 16)
  BY <1>1, <1>2
<1>8. \E y : Rounds(str', roundKeys', y, 16) /\ left' = y[17 - turn'] /\ right' = y[16 - turn']
  BY <1>1, <1>2, <1>6, <1>7
<1> QED BY <1>1, <1>8 DEF DesInv

\* A round of encrypting makes the next half.
LEMMA EncryptRound ==
    ASSUME DesInv, Des!Round, desPhase = "encrypt"
    PROVE  DesInv'
<1>1. /\ turn \in 0..15 /\ turn' = turn + 1 /\ desPhase' = desPhase /\ str' = str /\ CD' = CD /\ roundKeys' = roundKeys
      /\ CD \in Word(56) /\ roundKeys \in Seq(Word(48)) /\ Len(roundKeys) = 16 /\ str \in Word(64)
      /\ left' = right /\ right' = Des!XOR(Des!Mixed(right, roundKeys[turn + 1]), left)
  BY DEF DesInv, Des!Round, Des!KeyOf
<1>2. PICK x : Rounds(str, roundKeys, x, turn) /\ left = x[turn] /\ right = x[turn + 1]
  BY DEF DesInv
<1>3. left \in Word(32) /\ right \in Word(32)
  BY <1>1, <1>2 DEF Rounds
<1>4. roundKeys[turn + 1] \in Word(48)
  <2>1. turn + 1 \in 1..Len(roundKeys)
    BY <1>1
  <2> QED BY <2>1, <1>1, ElementOfSeq
<1>5. right' \in Word(32)
  BY <1>1, <1>3, <1>4, MixedNumbers, XorTwice
<1> DEFINE y == [k \in 0..(turn + 2) |-> IF k = turn + 2 THEN right' ELSE x[k]]
<1>6. x \in [0..(turn + 1) -> Word(32)]
  BY <1>2 DEF Rounds
<1>7. /\ y \in [0..(turn + 2) -> Word(32)] /\ y[turn + 2] = right'
      /\ \A k \in 0..(turn + 1) : y[k] = x[k]
  BY <1>1, <1>5, <1>6
<1> HIDE DEF y
<1>8. y[0] \o y[1] = Des!Selected(str, Des!IP)
  <2>1. 0 \in 0..(turn + 1) /\ 1 \in 0..(turn + 1)
    BY <1>1
  <2> QED BY <2>1, <1>2, <1>7 DEF Rounds
<1>9. ASSUME NEW k \in 0..turn
      PROVE  y[k + 2] = Des!XOR(Des!Mixed(y[k + 1], roundKeys[k + 1]), y[k])
  <2>1. k \in 0..(turn + 1) /\ k + 1 \in 0..(turn + 1) /\ y[k] = x[k] /\ y[k + 1] = x[k + 1]
    BY <1>1, <1>7
  <2>2. CASE k = turn
    BY <2>1, <2>2, <1>1, <1>2, <1>7
  <2>3. CASE k < turn
    <3>1. k \in 0..(turn - 1) /\ k + 2 \in 0..(turn + 1)
      BY <2>3, <1>1
    <3>2. x[k + 2] = Des!XOR(Des!Mixed(x[k + 1], roundKeys[k + 1]), x[k])
      BY <3>1, <1>2 DEF Rounds
    <3> QED BY <3>1, <3>2, <2>1, <1>7
  <2> QED BY <2>2, <2>3, <1>1
<1>10. Rounds(str', roundKeys', y, turn')
  <2>1. turn' + 1 = turn + 2 /\ turn' - 1 = turn
    BY <1>1
  <2> QED BY <2>1, <1>1, <1>7, <1>8, <1>9 DEF Rounds
<1>11. \E z : Rounds(str', roundKeys', z, turn') /\ left' = z[turn'] /\ right' = z[turn' + 1]
  <2>1. turn' + 1 = turn + 2 /\ turn' = turn + 1 /\ turn + 1 \in 0..(turn + 1)
    BY <1>1
  <2>2. left' = y[turn'] /\ right' = y[turn' + 1]
    BY <2>1, <1>1, <1>2, <1>7
  <2> QED BY <2>2, <1>10
<1> QED BY <1>1, <1>11 DEF DesInv

\* A round of decrypting goes back by one half.
LEMMA DecryptRound ==
    ASSUME DesInv, Des!Round, desPhase = "decrypt"
    PROVE  DesInv'
<1>1. /\ turn \in 0..15 /\ turn' = turn + 1 /\ desPhase' = desPhase /\ str' = str /\ CD' = CD /\ roundKeys' = roundKeys
      /\ CD \in Word(56) /\ roundKeys \in Seq(Word(48)) /\ Len(roundKeys) = 16 /\ str \in Word(64)
      /\ left' = right /\ right' = Des!XOR(Des!Mixed(right, roundKeys[16 - turn]), left)
  BY DEF DesInv, Des!Round, Des!KeyOf
<1>2. PICK x : Rounds(str, roundKeys, x, 16) /\ left = x[17 - turn] /\ right = x[16 - turn]
  BY <1>1 DEF DesInv
<1> DEFINE k == 15 - turn
<1>3. k \in 0..15 /\ k + 1 = 16 - turn /\ k + 2 = 17 - turn /\ k \in 0..(16 - 1)
  BY <1>1
<1>4. x[k] \in Word(32) /\ x[k + 1] \in Word(32)
  <2>1. k \in 0..(16 + 1) /\ k + 1 \in 0..(16 + 1)
    BY <1>3
  <2> QED BY <2>1, <1>2 DEF Rounds
<1>5. roundKeys[k + 1] \in Word(48)
  <2>1. k + 1 \in 1..Len(roundKeys)
    BY <1>1, <1>3
  <2> QED BY <2>1, <1>1, ElementOfSeq
<1> DEFINE m == Des!Mixed(x[k + 1], roundKeys[k + 1])
<1>6. m \in [1..32 -> Int]
  BY <1>4, <1>5, MixedNumbers
<1>7. left = Des!XOR(m, x[k])
  BY <1>2, <1>3 DEF Rounds
<1>8. right' = Des!XOR(m, left)
  BY <1>1, <1>2, <1>3
<1> HIDE DEF m, k
<1>9. right' = x[k]
  BY <1>4, <1>6, <1>7, <1>8, XorTwice
<1>10. \E y : Rounds(str', roundKeys', y, 16) /\ left' = y[17 - turn'] /\ right' = y[16 - turn']
  <2>1. 17 - turn' = 16 - turn /\ 16 - turn' = k
    BY <1>1 DEF k
  <2> QED BY <2>1, <1>1, <1>2, <1>9
<1> QED BY <1>1, <1>10 DEF DesInv

LEMMA DesStep == DesInv /\ [Des!Next]_(Des!vars) => DesInv'
<1> SUFFICES ASSUME DesInv, [Des!Next]_(Des!vars) PROVE DesInv'
  OBVIOUS
<1>1. CASE Des!KeyRound
  BY <1>1, KeyRoundStep
<1>2. CASE Des!Start
  <2>1. desPhase = "keys" \/ desPhase = "encrypt"
    BY <1>2 DEF Des!Start
  <2> QED BY <1>2, <2>1, EncryptStep, DecryptStep
<1>3. CASE Des!Round
  <2>1. desPhase = "encrypt" \/ desPhase = "decrypt"
    BY <1>3 DEF Des!Round
  <2> QED BY <1>3, <2>1, EncryptRound, DecryptRound
<1>4. CASE UNCHANGED Des!vars
  BY <1>4 DEF DesInv, Des!vars
<1> QED BY <1>1, <1>2, <1>3, <1>4 DEF Des!Next

\* Behind the last round of decrypting the halves are those of the block.
LEMMA DesInvDecrypts == DesInv => Des!DecryptsBack
<1> SUFFICES ASSUME DesInv, desPhase = "decrypt", turn = 16 PROVE Des!Joined = str
  BY DEF Des!DecryptsBack
<1>1. PICK x : Rounds(str, roundKeys, x, 16) /\ left = x[17 - turn] /\ right = x[16 - turn]
  BY DEF DesInv
<1>2. left = x[1] /\ right = x[0]
  BY <1>1
<1>3. right \o left = Des!Selected(str, Des!IP) /\ str \in Word(64)
  BY <1>1, <1>2 DEF Rounds, DesInv
<1> QED BY <1>3, SelectedTwice DEF Des!Joined

\* AEEDes.cpp: for every block and every password, what DES() makes of the block
\* DES_1() turns back into the block.
THEOREM DesDecrypts ==
    ASSUME Des!DesAssumption PROVE Des!Spec => []Des!DecryptsBack
<1>1. Des!Init => DesInv
  BY DesInit
<1>2. DesInv /\ [Des!Next]_(Des!vars) => DesInv'
  BY DesStep
<1>3. DesInv => Des!DecryptsBack
  BY DesInvDecrypts
<1> QED BY <1>1, <1>2, <1>3, PTL DEF Des!Spec

-----------------------------------------------------------------------------
(* AEEStackAlloc: the blocks lie side by side, and all are taken back *)

Entry == [id : Nat, data : Int, size : Nat, usedMalloc : BOOLEAN]

\* The bytes of the first n entries
Cover(e, n) == UNION {Stack!Bytes(e[j]) : j \in 1..n}

\* An entry in the stack begins where those below it end.
SideBySide(e, top) ==
    /\ \A k \in 1..Len(e) : ~e[k].usedMalloc =>
          e[k].data \in Nat /\ e[k].size > 0 /\ Cover(e, k - 1) = 0..(e[k].data - 1)
    /\ Cover(e, Len(e)) = 0..(top - 1)

\* The client's blocks are different ones, each of an entry.
HeldOK(h, e) ==
    /\ \A a, b \in 1..Len(h) : a # b => h[a] # h[b]
    /\ \A a \in 1..Len(h) : \E k \in 1..Len(e) : h[a] = e[k].id

\* A client that frees in reverse order has a block for each entry, in order.
LifoOK(h, e) == Len(h) = Len(e) /\ \A k \in 1..Len(e) : h[k] = e[k].id

StackInv ==
    /\ m_entries \in Seq(Entry) /\ stackHeld \in Seq(Nat)
    /\ m_index \in 0..m_stackSize /\ m_allocation \in Nat /\ m_maxAllocation \in Nat
    /\ allocs \in Nat /\ lifo \in BOOLEAN
    /\ SideBySide(m_entries, m_index)
    /\ \A j, k \in 1..Len(m_entries) : j # k => m_entries[j].id # m_entries[k].id
    /\ \A k \in 1..Len(m_entries) : m_entries[k].id <= allocs
    /\ HeldOK(stackHeld, m_entries)
    /\ lifo => LifoOK(stackHeld, m_entries)
    /\ m_allocation = Stack!Sum(m_entries) /\ m_allocation <= m_maxAllocation

\* An interval tells where it ends.
LEMMA IntervalEnd ==
    ASSUME NEW a \in Nat, NEW b \in Nat, 0..(a - 1) = 0..(b - 1)
    PROVE  a = b
<1>1. CASE a < b
  <2>1. a \in 0..(b - 1) /\ a \notin 0..(a - 1)
    BY <1>1
  <2> QED BY <2>1
<1>2. CASE b < a
  <2>1. b \in 0..(a - 1) /\ b \notin 0..(b - 1)
    BY <1>2
  <2> QED BY <2>1
<1> QED BY <1>1, <1>2

\* A sequence without its last element, and with it
LEMMA Pieces ==
    ASSUME NEW S, NEW q \in Seq(S), q # <<>>
    PROVE  /\ Len(q) \in Nat \ {0} /\ Stack!Last(q) = q[Len(q)] /\ Stack!Last(q) \in S
           /\ Stack!Front(q) \in Seq(S) /\ Len(Stack!Front(q)) = Len(q) - 1
           /\ \A k \in 1..(Len(q) - 1) : Stack!Front(q)[k] = q[k]
<1>1. Len(q) \in Nat \ {0}
  BY EmptySeq
<1>2. Stack!Last(q) = q[Len(q)] /\ q[Len(q)] \in S
  BY <1>1, ElementOfSeq DEF Stack!Last
<1>3. Stack!Front(q) = [k \in 1..(Len(q) - 1) |-> q[k]]
  BY <1>1 DEF Stack!Front
<1>4. \A k \in 1..(Len(q) - 1) : q[k] \in S
  BY <1>1, ElementOfSeq
<1>5. Len(q) - 1 \in Nat
  BY <1>1
<1> DEFINE f == Stack!Front(q)
<1>6. f \in Seq(S) /\ Len(f) = Len(q) - 1
  <2> DEFINE n == Len(q) - 1
  <2>1. f = [k \in 1..n |-> q[k]] /\ n \in Nat
    BY <1>3, <1>5
  <2> HIDE DEF n, f
  <2>2. f \in Seq(S) /\ Len(f) = n
    <3>1. \A k \in 1..n : q[k] \in S
      BY <1>4 DEF n
    <3> QED BY <2>1, <3>1
  <2> QED BY <2>2 DEF n
<1> QED BY <1>1, <1>2, <1>3, <1>6

\* The fields of an entry
LEMMA EntryFields ==
    ASSUME NEW e \in Seq(Entry), NEW k \in 1..Len(e)
    PROVE  /\ e[k] \in Entry /\ e[k].id \in Nat /\ e[k].data \in Int /\ e[k].size \in Nat
           /\ e[k].usedMalloc \in BOOLEAN
<1>1. e[k] \in Entry
  BY ElementOfSeq
<1> QED BY <1>1 DEF Entry

\* What Sum adds up
Sums(e, f) == f = [n \in 0..Len(e) |-> IF n = 0 THEN 0 ELSE f[n - 1] + e[n].size]

LEMMA SumsDefined ==
    ASSUME NEW e \in Seq(Entry)
    PROVE  \E f \in [0..Len(e) -> Nat] : Sums(e, f) /\ Stack!Sum(e) = f[Len(e)]
<1> DEFINE G == [k \in Nat |-> [x \in Nat |-> IF k \in 1..Len(e) THEN x + e[k].size ELSE x]]
<1>1. ASSUME NEW k \in Nat, NEW x \in Nat PROVE G[k][x] \in Nat
  <2>1. CASE k \in 1..Len(e)
    <3>1. e[k].size \in Nat
      BY <2>1, EntryFields
    <3> QED BY <2>1, <3>1
  <2>2. CASE k \notin 1..Len(e)
    BY <2>2
  <2> QED BY <2>1, <2>2
<1>2. PICK f \in [0..Len(e) -> Nat] : Recurs(0, G, Len(e), f)
  <2> HIDE DEF G
  <2>1. \A j \in Nat : \E f \in [0..j -> Nat] : Recurs(0, G, j, f)
    BY <1>1, RecursionDefined
  <2> QED BY <2>1
<1>3. ASSUME NEW k \in 0..Len(e), k # 0
      PROVE  G[k][f[k - 1]] = f[k - 1] + e[k].size
  <2>1. k \in 1..Len(e) /\ k \in Nat /\ k - 1 \in 0..Len(e)
    BY <1>3
  <2>2. f[k - 1] \in Nat
    BY <1>2, <2>1
  <2> QED BY <2>1, <2>2
<1>4. Sums(e, f)
  <2> HIDE DEF G
  <2>1. \A k \in 0..Len(e) : f[k] = IF k = 0 THEN 0 ELSE f[k - 1] + e[k].size
    BY <1>2, <1>3 DEF Recurs
  <2> QED BY <2>1, <1>2 DEF Sums, Recurs
<1> DEFINE g == CHOOSE h : Sums(e, h)
<1>5. Sums(e, g)
  BY <1>4
<1>6. Stack!Sum(e) = g[Len(e)]
  BY DEF Stack!Sum, Sums
<1> HIDE DEF g
<1>7. g \in [0..Len(e) -> Nat]
  <2> DEFINE S == {n \in Nat : n \in 0..Len(e) => g[n] \in Nat}
  <2>1. 0 \in S
    BY <1>5 DEF Sums
  <2>2. ASSUME NEW n \in Nat, n \in S PROVE n + 1 \in S
    <3>1. CASE n + 1 \in 0..Len(e)
      <4>1. n \in 0..Len(e) /\ n + 1 # 0 /\ (n + 1) - 1 = n /\ n + 1 \in 1..Len(e)
        BY <3>1
      <4>2. g[n + 1] = g[n] + e[n + 1].size
        BY <4>1, <3>1, <1>5 DEF Sums
      <4>3. e[n + 1].size \in Nat /\ g[n] \in Nat
        BY <4>1, <2>2, EntryFields
      <4> QED BY <4>2, <4>3
    <3>2. CASE n + 1 \notin 0..Len(e)
      BY <3>2
    <3> QED BY <3>1, <3>2
  <2> HIDE DEF S
  <2>3. Nat \subseteq S
    BY <2>1, <2>2, NatSetInduction
  <2>4. \A n \in 0..Len(e) : g[n] \in Nat
    BY <2>3 DEF S
  <2>5. DOMAIN g = 0..Len(e) /\ g = [n \in DOMAIN g |-> g[n]]
    BY <1>5 DEF Sums
  <2> QED BY <2>4, <2>5
<1> QED BY <1>5, <1>6, <1>7

\* One more entry adds its size.
LEMMA SumOneMore ==
    ASSUME NEW e \in Seq(Entry), NEW q \in Seq(Entry), Len(q) = Len(e) + 1,
           \A k \in 1..Len(e) : q[k] = e[k]
    PROVE  Stack!Sum(q) = Stack!Sum(e) + q[Len(q)].size /\ Stack!Sum(e) \in Nat
<1>1. PICK f \in [0..Len(e) -> Nat] : Sums(e, f) /\ Stack!Sum(e) = f[Len(e)]
  BY SumsDefined
<1>2. PICK g \in [0..Len(q) -> Nat] : Sums(q, g) /\ Stack!Sum(q) = g[Len(q)]
  BY SumsDefined
<1> DEFINE S == {n \in Nat : n <= Len(e) => f[n] = g[n]}
<1>3. 0 \in S
  BY <1>1, <1>2 DEF Sums
<1>4. ASSUME NEW n \in Nat, n \in S PROVE n + 1 \in S
  <2>1. CASE n + 1 <= Len(e)
    <3>1. n + 1 \in 0..Len(e) /\ n + 1 \in 0..Len(q) /\ n + 1 \in 1..Len(e) /\ n + 1 # 0 /\ (n + 1) - 1 = n
      BY <2>1
    <3>2. f[n + 1] = f[n] + e[n + 1].size /\ g[n + 1] = g[n] + q[n + 1].size
      BY <1>1, <1>2, <3>1 DEF Sums
    <3>3. f[n] = g[n] /\ e[n + 1] = q[n + 1]
      BY <1>4, <3>1
    <3> QED BY <3>2, <3>3
  <2>2. CASE ~(n + 1 <= Len(e))
    BY <2>2
  <2> QED BY <2>1, <2>2
<1> HIDE DEF S
<1>5. Nat \subseteq S
  BY <1>3, <1>4, NatSetInduction
<1>6. f[Len(e)] = g[Len(e)]
  BY <1>5 DEF S
<1>7. Len(q) \in 0..Len(q) /\ Len(q) # 0 /\ Len(q) - 1 = Len(e)
  OBVIOUS
<1>8. g[Len(q)] = g[Len(e)] + q[Len(q)].size
  BY <1>2, <1>7 DEF Sums
<1> QED BY <1>1, <1>2, <1>6, <1>8

\* q is e with one more entry.
OneMore(e, q) == Len(q) = Len(e) + 1 /\ \A k \in 1..Len(e) : q[k] = e[k]

LEMMA CoverOneMore ==
    ASSUME NEW e \in Seq(Entry), NEW q \in Seq(Entry), OneMore(e, q)
    PROVE  /\ \A k \in 0..Len(e) : Cover(q, k) = Cover(e, k)
           /\ Cover(q, Len(q)) = Cover(e, Len(e)) \cup Stack!Bytes(q[Len(q)])
<1>1. Len(q) = Len(e) + 1 /\ Len(e) \in Nat /\ \A k \in 1..Len(e) : q[k] = e[k]
  BY DEF OneMore
<1>2. ASSUME NEW k \in 0..Len(e) PROVE Cover(q, k) = Cover(e, k)
  <2>1. \A j \in 1..k : q[j] = e[j]
    BY <1>1
  <2>2. {Stack!Bytes(q[j]) : j \in 1..k} = {Stack!Bytes(e[j]) : j \in 1..k}
    BY <2>1
  <2> QED BY <2>2 DEF Cover
<1>3. 1..Len(q) = (1..Len(e)) \cup {Len(q)}
  BY <1>1
<1>4. Cover(q, Len(q)) = Cover(q, Len(e)) \cup Stack!Bytes(q[Len(q)])
  BY <1>3 DEF Cover
<1>5. Cover(q, Len(e)) = Cover(e, Len(e))
  BY <1>1, <1>2
<1> QED BY <1>2, <1>4, <1>5

\* A block is put on top, or lies elsewhere.
LEMMA PutOnTop ==
    ASSUME NEW e \in Seq(Entry), NEW q \in Seq(Entry), OneMore(e, q),
           NEW top \in Nat, SideBySide(e, top),
           ~q[Len(q)].usedMalloc => q[Len(q)].data = top /\ q[Len(q)].size > 0
    PROVE  SideBySide(q, IF q[Len(q)].usedMalloc THEN top ELSE top + q[Len(q)].size)
<1> DEFINE x == q[Len(q)]
           new == IF x.usedMalloc THEN top ELSE top + x.size
<1>1. Len(q) = Len(e) + 1 /\ Len(e) \in Nat /\ \A k \in 1..Len(e) : q[k] = e[k]
  BY DEF OneMore
<1>2. x.size \in Nat /\ x.data \in Int /\ x.usedMalloc \in BOOLEAN
  BY <1>1, EntryFields
<1>3. \A k \in 0..Len(e) : Cover(q, k) = Cover(e, k)
  BY CoverOneMore
<1>4. Cover(q, Len(q)) = Cover(e, Len(e)) \cup Stack!Bytes(x)
  BY CoverOneMore
<1>5. Cover(e, Len(e)) = 0..(top - 1)
  BY DEF SideBySide
<1>6. ASSUME NEW k \in 1..Len(q), ~q[k].usedMalloc
      PROVE  q[k].data \in Nat /\ q[k].size > 0 /\ Cover(q, k - 1) = 0..(q[k].data - 1)
  <2>1. CASE k \in 1..Len(e)
    <3>1. q[k] = e[k] /\ k - 1 \in 0..Len(e)
      BY <2>1, <1>1
    <3>2. e[k].data \in Nat /\ e[k].size > 0 /\ Cover(e, k - 1) = 0..(e[k].data - 1)
      BY <2>1, <3>1, <1>6 DEF SideBySide
    <3> QED BY <3>1, <3>2, <1>3
  <2>2. CASE k = Len(q)
    <3>1. k - 1 = Len(e) /\ Len(e) \in 0..Len(e)
      BY <2>2, <1>1
    <3> QED BY <2>2, <3>1, <1>3, <1>5, <1>6
  <2> QED BY <2>1, <2>2, <1>1
<1>7. Cover(q, Len(q)) = 0..(new - 1)
  <2>1. CASE x.usedMalloc
    BY <2>1, <1>4, <1>5 DEF Stack!Bytes
  <2>2. CASE ~x.usedMalloc
    <3>1. Stack!Bytes(x) = top..(top + x.size - 1)
      BY <2>2 DEF Stack!Bytes
    <3> HIDE DEF x
    <3>2. (0..(top - 1)) \cup (top..(top + x.size - 1)) = 0..(top + x.size - 1)
      BY <1>2
    <3>3. new = top + x.size
      BY <2>2
    <3> HIDE DEF new
    <3>4. Cover(q, Len(q)) = 0..(top + x.size - 1)
      BY <3>1, <3>2, <1>4, <1>5 DEF x
    <3> QED BY <3>3, <3>4, <1>2
  <2> QED BY <2>1, <2>2
<1> HIDE DEF x
<1> QED BY <1>6, <1>7 DEF SideBySide, x

\* The block on top is taken off.
LEMMA TakenOff ==
    ASSUME NEW e \in Seq(Entry), NEW q \in Seq(Entry), OneMore(e, q),
           NEW top \in Nat, SideBySide(q, top)
    PROVE  /\ SideBySide(e, IF q[Len(q)].usedMalloc THEN top ELSE top - q[Len(q)].size)
           /\ ~q[Len(q)].usedMalloc => top - q[Len(q)].size \in Nat
<1> DEFINE x == q[Len(q)]
           new == IF x.usedMalloc THEN top ELSE top - x.size
<1>1. Len(q) = Len(e) + 1 /\ Len(e) \in Nat /\ \A k \in 1..Len(e) : q[k] = e[k]
  BY DEF OneMore
<1>2. x.size \in Nat /\ x.data \in Int /\ x.usedMalloc \in BOOLEAN
  BY <1>1, EntryFields
<1>3. \A k \in 0..Len(e) : Cover(q, k) = Cover(e, k)
  BY CoverOneMore
<1>4. Cover(q, Len(q)) = Cover(e, Len(e)) \cup Stack!Bytes(x)
  BY CoverOneMore
<1>5. Cover(q, Len(q)) = 0..(top - 1)
  BY DEF SideBySide
<1>6. ASSUME NEW k \in 1..Len(e), ~e[k].usedMalloc
      PROVE  e[k].data \in Nat /\ e[k].size > 0 /\ Cover(e, k - 1) = 0..(e[k].data - 1)
  <2>1. q[k] = e[k] /\ k - 1 \in 0..Len(e) /\ k \in 1..Len(q)
    BY <1>1
  <2>2. q[k].data \in Nat /\ q[k].size > 0 /\ Cover(q, k - 1) = 0..(q[k].data - 1)
    BY <2>1, <1>6 DEF SideBySide
  <2> QED BY <2>1, <2>2, <1>3
<1>7. Cover(e, Len(e)) = 0..(new - 1) /\ (~x.usedMalloc => top - x.size \in Nat)
  <2>1. CASE x.usedMalloc
    BY <2>1, <1>4, <1>5 DEF Stack!Bytes
  <2>2. CASE ~x.usedMalloc
    <3>1. Stack!Bytes(x) = x.data..(x.data + x.size - 1)
      BY <2>2 DEF Stack!Bytes
    <3>2. Len(q) \in 1..Len(q) /\ Len(q) - 1 = Len(e) /\ Len(e) \in 0..Len(e)
      BY <1>1
    <3>3. x.data \in Nat /\ x.size > 0 /\ Cover(q, Len(q) - 1) = 0..(x.data - 1)
      BY <2>2, <3>2 DEF SideBySide
    <3>4. Cover(e, Len(e)) = 0..(x.data - 1)
      BY <3>2, <3>3, <1>3
    <3> HIDE DEF x
    <3>5. (0..(x.data - 1)) \cup (x.data..(x.data + x.size - 1)) = 0..(x.data + x.size - 1)
      BY <1>2, <3>3
    <3>6. 0..(x.data + x.size - 1) = 0..(top - 1)
      BY <3>1, <3>4, <3>5, <1>4, <1>5
    <3>7. x.data + x.size = top
      <4> DEFINE a == x.data + x.size
      <4>1. a \in Nat /\ 0..(a - 1) = 0..(top - 1)
        BY <1>2, <3>3, <3>6
      <4> HIDE DEF a
      <4>2. a = top
        BY <4>1, IntervalEnd
      <4> QED BY <4>2 DEF a
    <3>8. top - x.size = x.data
      BY <3>7, <1>2
    <3> QED BY <2>2, <3>3, <3>4, <3>8
  <2> QED BY <2>1, <2>2
<1> HIDE DEF x
<1> QED BY <1>6, <1>7 DEF SideBySide, x

LEMMA AlignedSize ==
    ASSUME NEW n \in Nat \ {0}
    PROVE  Stack!ZMAEE_ALIGN(n) \in Nat /\ Stack!ZMAEE_ALIGN(n) > 0
BY DEF Stack!ZMAEE_ALIGN

LEMMA StackInit ==
    ASSUME Stack!StackAssumption PROVE Stack!Init => StackInv
<1> SUFFICES ASSUME Stack!Init PROVE StackInv
  OBVIOUS
<1>1. m_entries = <<>> /\ stackHeld = <<>> /\ m_index = 0 /\ m_allocation = 0
      /\ m_maxAllocation = 0 /\ allocs = 0 /\ lifo \in BOOLEAN
  BY DEF Stack!Init
<1>2. m_entries \in Seq(Entry) /\ stackHeld \in Seq(Nat) /\ Len(m_entries) = 0 /\ Len(stackHeld) = 0
  BY <1>1, EmptySeq
<1>3. SideBySide(m_entries, m_index)
  BY <1>1, <1>2 DEF SideBySide, Cover
<1>4. Stack!Sum(m_entries) = 0
  <2>1. PICK f \in [0..Len(m_entries) -> Nat] : Sums(m_entries, f) /\ Stack!Sum(m_entries) = f[Len(m_entries)]
    BY <1>2, SumsDefined
  <2> QED BY <2>1, <1>2 DEF Sums
<1>5. m_index \in 0..m_stackSize
  BY <1>1 DEF Stack!StackAssumption
<1> QED BY <1>1, <1>2, <1>3, <1>4, <1>5 DEF StackInv, HeldOK, LifoOK

\* A block is given, from the stack or from elsewhere.
LEMMA AllocStep ==
    ASSUME Stack!StackAssumption, StackInv, NEW asked \in Size, NEW given \in BOOLEAN,
           Stack!Alloc(asked, given)
    PROVE  StackInv'
<1> DEFINE size == Stack!ZMAEE_ALIGN(asked)
           data == IF Stack!Fits(size) THEN m_index ELSE IF given THEN Stack!MALLOC ELSE Stack!NULL
           x == [id |-> allocs + 1, data |-> data, size |-> size, usedMalloc |-> ~Stack!Fits(size)]
<1>1. size \in Nat /\ size > 0
  BY AlignedSize DEF Stack!StackAssumption
<1>2. /\ m_entries \in Seq(Entry) /\ stackHeld \in Seq(Nat)
      /\ m_index \in 0..m_stackSize /\ m_allocation \in Nat /\ m_maxAllocation \in Nat
      /\ allocs \in Nat /\ lifo \in BOOLEAN /\ m_stackSize \in Nat
  BY DEF StackInv, Stack!StackAssumption
<1>3. data \in Int /\ (Stack!Fits(size) \in BOOLEAN)
  BY <1>2 DEF Stack!MALLOC, Stack!NULL, Stack!Fits
<1>4. x \in Entry
  BY <1>1, <1>2, <1>3 DEF Entry
<1>5. allocs' = allocs + 1 /\ lifo' = lifo /\ (lifo => given)
  BY DEF Stack!Alloc
<1>6. CASE Len(m_entries) >= m_maxEntryCount
  <2>1. UNCHANGED <<m_entries, m_index, m_allocation, m_maxAllocation, stackHeld>>
    BY <1>6 DEF Stack!Alloc
  <2>2. \A k \in 1..Len(m_entries) : m_entries[k].id <= allocs + 1
    BY <1>2, EntryFields DEF StackInv
  <2>3. allocs' \in Nat /\ lifo' \in BOOLEAN /\ (lifo' => LifoOK(stackHeld, m_entries))
    BY <1>2, <1>5 DEF StackInv
  <2>4. \A k \in 1..Len(m_entries) : m_entries[k].id <= allocs'
    BY <2>2, <1>5
  <2> QED BY <2>1, <2>3, <2>4 DEF StackInv
<1>7. CASE ~(Len(m_entries) >= m_maxEntryCount)
  <2>1. /\ m_entries' = Append(m_entries, x)
        /\ m_index' = IF Stack!Fits(size) THEN m_index + size ELSE m_index
        /\ m_allocation' = m_allocation + size
        /\ m_maxAllocation' = Stack!Max2(m_maxAllocation, m_allocation')
        /\ stackHeld' = IF data = Stack!NULL THEN stackHeld ELSE Append(stackHeld, x.id)
    BY <1>7 DEF Stack!Alloc
  <2>2. x.id = allocs + 1 /\ x.data = data /\ x.size = size /\ x.usedMalloc = ~Stack!Fits(size)
    OBVIOUS
  <2> HIDE DEF x
  <2>3. /\ m_entries' \in Seq(Entry) /\ Len(m_entries') = Len(m_entries) + 1
        /\ m_entries'[Len(m_entries')] = x
        /\ \A k \in 1..Len(m_entries) : m_entries'[k] = m_entries[k]
    BY <1>2, <1>4, <2>1
  <2>4. OneMore(m_entries, m_entries')
    BY <2>3 DEF OneMore
  <2>5. SideBySide(m_entries', m_index')
    <3>1. SideBySide(m_entries, m_index) /\ m_index \in Nat
      BY <1>2 DEF StackInv
    <3>2. ~x.usedMalloc => x.data = m_index /\ x.size > 0
      BY <2>2, <1>1
    <3>3. m_index' = IF x.usedMalloc THEN m_index ELSE m_index + x.size
      BY <2>1, <2>2, <1>3
    <3>4. SideBySide(m_entries', IF x.usedMalloc THEN m_index ELSE m_index + x.size)
      BY <1>2, <2>3, <2>4, <3>1, <3>2, PutOnTop
    <3> QED BY <3>3, <3>4
  <2>6. m_index' \in 0..m_stackSize
    BY <1>1, <1>2, <2>1 DEF Stack!Fits
  <2>7. Stack!Sum(m_entries') = m_allocation'
    <3>1. Stack!Sum(m_entries') = Stack!Sum(m_entries) + m_entries'[Len(m_entries')].size
      BY <1>2, <2>3, SumOneMore
    <3>2. Stack!Sum(m_entries) = m_allocation
      BY DEF StackInv
    <3> QED BY <3>1, <3>2, <2>1, <2>2, <2>3
  <2>8. m_allocation' \in Nat /\ m_maxAllocation' \in Nat /\ m_allocation' <= m_maxAllocation'
    BY <1>1, <1>2, <2>1 DEF Stack!Max2
  <2>9. ASSUME NEW k \in 1..Len(m_entries') PROVE m_entries'[k].id <= allocs'
    <3>1. CASE k \in 1..Len(m_entries)
      <4>1. m_entries'[k] = m_entries[k] /\ m_entries[k].id <= allocs /\ m_entries[k].id \in Nat
        BY <3>1, <1>2, <2>3, EntryFields DEF StackInv
      <4> QED BY <4>1, <1>5, <1>2
    <3>2. CASE k = Len(m_entries')
      BY <3>2, <2>2, <2>3, <1>2, <1>5
    <3> QED BY <3>1, <3>2, <2>3, <1>2
  <2>10. ASSUME NEW j \in 1..Len(m_entries'), NEW k \in 1..Len(m_entries'), j # k
         PROVE  m_entries'[j].id # m_entries'[k].id
    <3>1. \A l \in 1..Len(m_entries) : m_entries'[l] = m_entries[l] /\ m_entries[l].id # x.id
      BY <1>2, <2>2, <2>3, EntryFields DEF StackInv
    <3>2. m_entries'[Len(m_entries')].id = x.id /\ (1..Len(m_entries')) = (1..Len(m_entries)) \cup {Len(m_entries')}
      BY <1>2, <2>3
    <3>3. CASE j \in 1..Len(m_entries) /\ k \in 1..Len(m_entries)
      BY <3>1, <3>3, <2>10 DEF StackInv
    <3>4. CASE j \notin 1..Len(m_entries)
      BY <3>1, <3>2, <3>4, <2>10
    <3>5. CASE k \notin 1..Len(m_entries)
      BY <3>1, <3>2, <3>5, <2>10
    <3> QED BY <3>3, <3>4, <3>5
  <2>11. /\ stackHeld' \in Seq(Nat) /\ HeldOK(stackHeld', m_entries')
         /\ lifo' => LifoOK(stackHeld', m_entries')
    <3>1. /\ HeldOK(stackHeld, m_entries) /\ (lifo => LifoOK(stackHeld, m_entries))
      BY DEF StackInv
    <3>2. \A a \in 1..Len(stackHeld) : \E k \in 1..Len(m_entries) :
              stackHeld[a] = m_entries[k].id /\ m_entries[k].id # x.id /\ m_entries'[k] = m_entries[k]
              /\ k \in 1..Len(m_entries')
      <4> TAKE a \in 1..Len(stackHeld)
      <4>1. PICK k \in 1..Len(m_entries) : stackHeld[a] = m_entries[k].id
        BY <3>1 DEF HeldOK
      <4>2. m_entries[k].id \in Nat /\ m_entries[k].id <= allocs
        BY <1>2, EntryFields DEF StackInv
      <4>3. m_entries[k].id # x.id /\ m_entries'[k] = m_entries[k] /\ k \in 1..Len(m_entries')
        BY <4>2, <1>2, <2>2, <2>3
      <4> QED BY <4>1, <4>3
    <3>3. CASE data = Stack!NULL
      <4>1. stackHeld' = stackHeld
        BY <3>3, <2>1
      <4>2. ~given
        BY <3>3, <1>2 DEF Stack!NULL, Stack!MALLOC
      <4>3. HeldOK(stackHeld, m_entries')
        BY <3>1, <3>2 DEF HeldOK
      <4> QED BY <4>1, <4>2, <4>3, <1>2, <1>5
    <3>4. CASE data # Stack!NULL
      <4>1. stackHeld' = Append(stackHeld, x.id) /\ x.id \in Nat
        BY <3>4, <2>1, <2>2, <1>2
      <4>2. /\ stackHeld' \in Seq(Nat) /\ Len(stackHeld') = Len(stackHeld) + 1
            /\ stackHeld'[Len(stackHeld')] = x.id
            /\ \A a \in 1..Len(stackHeld) : stackHeld'[a] = stackHeld[a]
        BY <4>1, <1>2
      <4>3. Len(m_entries') \in 1..Len(m_entries') /\ m_entries'[Len(m_entries')].id = x.id
        BY <1>2, <2>3
      <4>4. (1..Len(stackHeld')) = (1..Len(stackHeld)) \cup {Len(stackHeld')}
        BY <4>2, <1>2
      <4>5. \A a \in 1..Len(stackHeld') : \E k \in 1..Len(m_entries') : stackHeld'[a] = m_entries'[k].id
        BY <3>2, <4>2, <4>3, <4>4
      <4>6. \A a, b \in 1..Len(stackHeld') : a # b => stackHeld'[a] # stackHeld'[b]
        <5>1. \A a \in 1..Len(stackHeld) : stackHeld'[a] = stackHeld[a] /\ stackHeld[a] # x.id
          BY <3>2, <4>2
        <5> QED BY <5>1, <4>2, <4>4, <3>1 DEF HeldOK
      <4>7. ASSUME lifo' PROVE LifoOK(stackHeld', m_entries')
        <5>1. Len(stackHeld) = Len(m_entries) /\ \A k \in 1..Len(m_entries) : stackHeld[k] = m_entries[k].id
          BY <4>7, <3>1, <1>5 DEF LifoOK
        <5>2. Len(stackHeld') = Len(m_entries')
          BY <5>1, <4>2, <2>3
        <5>3. ASSUME NEW k \in 1..Len(m_entries') PROVE stackHeld'[k] = m_entries'[k].id
          <6>1. CASE k \in 1..Len(m_entries)
            BY <6>1, <5>1, <4>2, <2>3
          <6>2. CASE k = Len(m_entries')
            BY <6>2, <5>2, <4>2, <4>3
          <6> QED BY <6>1, <6>2, <2>3, <1>2
        <5> QED BY <5>2, <5>3 DEF LifoOK
      <4> QED BY <4>2, <4>5, <4>6, <4>7 DEF HeldOK
    <3> QED BY <3>3, <3>4
  <2>12. allocs' \in Nat /\ lifo' \in BOOLEAN
    BY <1>2, <1>5
  <2> QED BY <2>3, <2>5, <2>6, <2>7, <2>8, <2>9, <2>10, <2>11, <2>12 DEF StackInv
<1> QED BY <1>6, <1>7

\* What is left of a sequence from which element i is removed
LEMMA Removed ==
    ASSUME NEW S, NEW q \in Seq(S), NEW i \in 1..Len(q)
    PROVE  /\ Stack!RemoveAt(q, i) \in Seq(S) /\ Len(Stack!RemoveAt(q, i)) = Len(q) - 1
           /\ \A k \in 1..(Len(q) - 1) :
                 Stack!RemoveAt(q, i)[k] = q[IF k < i THEN k ELSE k + 1]
<1> DEFINE a == SubSeq(q, 1, i - 1)
           b == SubSeq(q, i + 1, Len(q))
           r == a \o b
<1>0. Len(q) \in Nat /\ i \in Nat /\ 1 <= i /\ i <= Len(q) /\ q \in [1..Len(q) -> S]
  OBVIOUS
<1>1. a = [k \in 1..(i - 1) |-> q[k]]
  BY <1>0
<1>2. b = [k \in 1..(Len(q) - i) |-> q[i + k]]
  BY <1>0
<1>3. a \in Seq(S) /\ Len(a) = i - 1
  <2> DEFINE n == i - 1
  <2>1. n \in Nat /\ (\A k \in 1..n : q[k] \in S) /\ a = [k \in 1..n |-> q[k]]
    BY <1>0, <1>1
  <2> HIDE DEF n, a
  <2>2. a \in Seq(S) /\ Len(a) = n
    BY <2>1
  <2> QED BY <2>2 DEF n
<1>4. b \in Seq(S) /\ Len(b) = Len(q) - i
  <2> DEFINE n == Len(q) - i
  <2>1. n \in Nat /\ (\A k \in 1..n : q[i + k] \in S) /\ b = [k \in 1..n |-> q[i + k]]
    BY <1>0, <1>2
  <2> HIDE DEF n, b
  <2>2. b \in Seq(S) /\ Len(b) = n
    BY <2>1
  <2> QED BY <2>2 DEF n
<1> HIDE DEF a, b
<1>5. /\ r \in Seq(S) /\ Len(r) = Len(a) + Len(b)
      /\ \A k \in 1..(Len(a) + Len(b)) : r[k] = IF k <= Len(a) THEN a[k] ELSE b[k - Len(a)]
  BY <1>3, <1>4, ConcatProperties
<1>6. Stack!RemoveAt(q, i) = r
  BY DEF Stack!RemoveAt, a, b
<1> HIDE DEF r
<1>7. Len(r) = Len(q) - 1
  BY <1>0, <1>3, <1>4, <1>5
<1>8. ASSUME NEW k \in 1..(Len(q) - 1) PROVE r[k] = q[IF k < i THEN k ELSE k + 1]
  <2>1. k \in 1..(Len(a) + Len(b)) /\ Len(a) = i - 1
    BY <1>0, <1>3, <1>4
  <2>2. CASE k < i
    <3>1. k <= Len(a) /\ k \in 1..(i - 1)
      BY <2>1, <2>2, <1>0
    <3>2. r[k] = a[k] /\ a[k] = q[k]
      BY <3>1, <2>1, <1>1, <1>5
    <3> QED BY <3>2, <2>2
  <2>3. CASE ~(k < i)
    <3>1. ~(k <= Len(a)) /\ k - Len(a) = k - i + 1 /\ k - i + 1 \in 1..(Len(q) - i) /\ i + (k - i + 1) = k + 1
      BY <2>1, <2>3, <1>0
    <3>2. r[k] = b[k - i + 1]
      BY <3>1, <2>1, <1>5
    <3>3. b[k - i + 1] = q[i + (k - i + 1)]
      BY <3>1, <1>2
    <3> QED BY <3>1, <3>2, <3>3, <2>3
  <2> QED BY <2>2, <2>3
<1> QED BY <1>5, <1>6, <1>7, <1>8

\* The client gives a block back; only the one on top is taken off.
LEMMA FreeStep ==
    ASSUME Stack!StackAssumption, StackInv, NEW i \in 1..Len(stackHeld), Stack!Free(i)
    PROVE  StackInv'
<1> DEFINE top == Stack!Last(m_entries)
           id == stackHeld[i]
<1>1. /\ m_entries \in Seq(Entry) /\ stackHeld \in Seq(Nat)
      /\ m_index \in 0..m_stackSize /\ m_allocation \in Nat /\ m_maxAllocation \in Nat
      /\ allocs \in Nat /\ lifo \in BOOLEAN /\ SideBySide(m_entries, m_index)
      /\ HeldOK(stackHeld, m_entries) /\ (lifo => LifoOK(stackHeld, m_entries))
      /\ m_allocation = Stack!Sum(m_entries) /\ m_allocation <= m_maxAllocation
  BY DEF StackInv
<1>2. /\ stackHeld' = Stack!RemoveAt(stackHeld, i) /\ (lifo => i = Len(stackHeld))
      /\ m_maxAllocation' = m_maxAllocation /\ allocs' = allocs /\ lifo' = lifo
  BY DEF Stack!Free
<1>3. PICK at \in 1..Len(m_entries) : id = m_entries[at].id
  BY <1>1 DEF HeldOK
<1>4. m_entries # <<>>
  BY <1>1, <1>3
<1>5. /\ Len(m_entries) \in Nat \ {0} /\ top = m_entries[Len(m_entries)] /\ top \in Entry
      /\ Stack!Front(m_entries) \in Seq(Entry) /\ Len(Stack!Front(m_entries)) = Len(m_entries) - 1
      /\ \A k \in 1..(Len(m_entries) - 1) : Stack!Front(m_entries)[k] = m_entries[k]
  BY <1>1, <1>4, Pieces
<1>6. /\ stackHeld' \in Seq(Nat) /\ Len(stackHeld') = Len(stackHeld) - 1 /\ Len(stackHeld) \in Nat
      /\ \A k \in 1..(Len(stackHeld) - 1) : stackHeld'[k] = stackHeld[IF k < i THEN k ELSE k + 1]
  <2>1. stackHeld \in Seq(Nat) /\ Len(stackHeld) \in Nat
    BY <1>1
  <2> DEFINE r == Stack!RemoveAt(stackHeld, i)
  <2>2. r \in Seq(Nat) /\ Len(r) = Len(stackHeld) - 1
    BY <2>1, Removed
  <2>3. \A k \in 1..(Len(stackHeld) - 1) : r[k] = stackHeld[IF k < i THEN k ELSE k + 1]
    BY <2>1, Removed
  <2>4. stackHeld' = r
    BY <1>2
  <2> HIDE DEF r
  <2> QED BY <2>1, <2>2, <2>3, <2>4
<1> HIDE DEF top, id
\* A block that the client still has is one of those it had, and not this one.
<1>7. ASSUME NEW k \in 1..Len(stackHeld')
      PROVE  \E l \in 1..Len(stackHeld) :
                l # i /\ l = (IF k < i THEN k ELSE k + 1) /\ stackHeld'[k] = stackHeld[l]
  <2>1. (IF k < i THEN k ELSE k + 1) \in 1..Len(stackHeld) /\ (IF k < i THEN k ELSE k + 1) # i
    BY <1>6
  <2> QED BY <2>1, <1>6
<1>8. \A a, b \in 1..Len(stackHeld') : a # b => stackHeld'[a] # stackHeld'[b]
  <2> SUFFICES ASSUME NEW a \in 1..Len(stackHeld'), NEW b \in 1..Len(stackHeld'), a # b
               PROVE  stackHeld'[a] # stackHeld'[b]
    OBVIOUS
  <2>1. PICK l \in 1..Len(stackHeld) : l = (IF a < i THEN a ELSE a + 1) /\ stackHeld'[a] = stackHeld[l]
    BY <1>7
  <2>2. PICK m \in 1..Len(stackHeld) : m = (IF b < i THEN b ELSE b + 1) /\ stackHeld'[b] = stackHeld[m]
    BY <1>7
  <2>3. l # m
    BY <2>1, <2>2, <1>6
  <2> QED BY <2>1, <2>2, <2>3, <1>1 DEF HeldOK
<1>9. CASE top.id = id
  <2>1. /\ m_entries' = Stack!Front(m_entries)
        /\ m_index' = Stack!IndexLess(top) /\ m_allocation' = m_allocation - top.size
    BY <1>9 DEF Stack!Free, top, id
  <2>2. /\ m_entries' \in Seq(Entry) /\ Len(m_entries) = Len(m_entries') + 1
        /\ \A k \in 1..Len(m_entries') : m_entries[k] = m_entries'[k]
    BY <2>1, <1>5
  <2>3. /\ SideBySide(m_entries', IF top.usedMalloc THEN m_index ELSE m_index - top.size)
        /\ ~top.usedMalloc => m_index - top.size \in Nat
    <3>1. OneMore(m_entries', m_entries) /\ m_index \in Nat
      BY <2>2, <1>1 DEF OneMore
    <3> QED BY <3>1, <2>2, <1>1, <1>5, TakenOff
  <2>4. top.size \in Nat /\ top.usedMalloc \in BOOLEAN
    BY <1>5 DEF Entry
  <2>5. m_index' = IF top.usedMalloc THEN m_index ELSE m_index - top.size
    BY <2>1 DEF Stack!IndexLess
  <2>6. m_index' \in 0..m_stackSize
    <3>1. CASE top.usedMalloc
      BY <3>1, <2>5, <1>1
    <3>2. CASE ~top.usedMalloc
      <4>1. m_index' = m_index - top.size /\ m_index - top.size \in Nat
        BY <3>2, <2>3, <2>5
      <4>2. m_index \in 0..m_stackSize /\ m_stackSize \in Nat
        BY <1>1 DEF Stack!StackAssumption
      <4> QED BY <4>1, <4>2, <2>4
    <3> QED BY <3>1, <3>2
  <2>7. SideBySide(m_entries', m_index')
    BY <2>3, <2>5
  <2>8. /\ m_allocation' = Stack!Sum(m_entries') /\ m_allocation' \in Nat /\ m_allocation' <= m_maxAllocation
    <3>1. Stack!Sum(m_entries) = Stack!Sum(m_entries') + top.size /\ Stack!Sum(m_entries') \in Nat
      BY <2>2, <1>1, <1>5, SumOneMore
    <3>2. PICK sum \in Nat : sum = Stack!Sum(m_entries')
      BY <3>1
    <3>3. /\ m_allocation = sum + top.size /\ m_allocation <= m_maxAllocation
          /\ m_allocation' = m_allocation - top.size
      BY <3>1, <3>2, <2>1, <1>1, Zenon
    <3>4. m_maxAllocation \in Nat
      BY <1>1
    <3>5. m_allocation' = sum /\ sum <= m_maxAllocation
      BY <3>3, <3>4, <2>4
    <3> QED BY <3>2, <3>5
  <2>9. /\ \A j, k \in 1..Len(m_entries') : j # k => m_entries'[j].id # m_entries'[k].id
        /\ \A k \in 1..Len(m_entries') : m_entries'[k].id <= allocs'
    <3>1. \A k \in 1..Len(m_entries') : k \in 1..Len(m_entries) /\ m_entries'[k] = m_entries[k]
      BY <2>2
    <3> QED BY <3>1, <1>2 DEF StackInv
  <2>10. \A a \in 1..Len(stackHeld') : \E k \in 1..Len(m_entries') : stackHeld'[a] = m_entries'[k].id
    <3> TAKE a \in 1..Len(stackHeld')
    <3>1. PICK l \in 1..Len(stackHeld) : l # i /\ stackHeld'[a] = stackHeld[l]
      BY <1>7
    <3>2. PICK k \in 1..Len(m_entries) : stackHeld[l] = m_entries[k].id
      BY <1>1 DEF HeldOK
    <3>3. stackHeld[l] # id
      BY <3>1, <1>1 DEF HeldOK, id
    <3>4. k # Len(m_entries)
      BY <3>2, <3>3, <1>5, <1>9
    <3>5. k \in 1..Len(m_entries')
      BY <3>4, <2>2
    <3> QED BY <3>1, <3>2, <3>5, <2>2
  <2>11. ASSUME lifo' PROVE LifoOK(stackHeld', m_entries')
    <3>1. /\ i = Len(stackHeld) /\ Len(stackHeld) = Len(m_entries)
          /\ \A k \in 1..Len(m_entries) : stackHeld[k] = m_entries[k].id
      BY <2>11, <1>1, <1>2 DEF LifoOK
    <3>2. Len(stackHeld') = Len(m_entries')
      BY <3>1, <1>6, <2>2
    <3>3. ASSUME NEW k \in 1..Len(m_entries') PROVE stackHeld'[k] = m_entries'[k].id
      <4>1. k \in 1..(Len(stackHeld) - 1) /\ k < i /\ k \in 1..Len(m_entries)
        BY <3>1, <2>2, <1>5
      <4> QED BY <4>1, <3>1, <1>6, <2>2
    <3> QED BY <3>2, <3>3 DEF LifoOK
  <2> QED BY <1>1, <1>2, <1>6, <1>8, <2>2, <2>6, <2>7, <2>8, <2>9, <2>10, <2>11 DEF StackInv, HeldOK
<1>10. CASE top.id # id
  <2>1. UNCHANGED <<m_entries, m_index, m_allocation>>
    BY <1>10 DEF Stack!Free, top, id
  <2>2. ~lifo
    <3> SUFFICES ASSUME lifo PROVE FALSE
      OBVIOUS
    <3>1. i = Len(m_entries) /\ stackHeld[i] = m_entries[i].id
      BY <1>1, <1>2, <1>5 DEF LifoOK
    <3> QED BY <3>1, <1>5, <1>10 DEF id
  <2>3. \A a \in 1..Len(stackHeld') : \E k \in 1..Len(m_entries') : stackHeld'[a] = m_entries'[k].id
    <3> TAKE a \in 1..Len(stackHeld')
    <3>1. PICK l \in 1..Len(stackHeld) : stackHeld'[a] = stackHeld[l]
      BY <1>7
    <3> QED BY <3>1, <2>1, <1>1 DEF HeldOK
  <2> QED BY <1>2, <1>6, <1>8, <2>1, <2>2, <2>3 DEF StackInv, HeldOK
<1> QED BY <1>9, <1>10

LEMMA StackStep ==
    ASSUME Stack!StackAssumption PROVE StackInv /\ [Stack!Next]_(Stack!vars) => StackInv'
<1> SUFFICES ASSUME StackInv, [Stack!Next]_(Stack!vars) PROVE StackInv'
  OBVIOUS
<1>1. CASE \E s \in Size, b \in BOOLEAN : Stack!Alloc(s, b)
  BY <1>1, AllocStep
<1>2. CASE \E i \in 1..Len(stackHeld) : Stack!Free(i)
  BY <1>2, FreeStep
<1>3. CASE UNCHANGED Stack!vars
  BY <1>3 DEF StackInv, Stack!vars
<1> QED BY <1>1, <1>2, <1>3 DEF Stack!Next

LEMMA StackInvKeeps == StackInv => Stack!BlocksApart /\ Stack!AllGivenBack
<1> SUFFICES ASSUME StackInv PROVE Stack!BlocksApart /\ Stack!AllGivenBack
  OBVIOUS
<1>1. /\ m_entries \in Seq(Entry) /\ stackHeld \in Seq(Nat) /\ m_index \in 0..m_stackSize
      /\ SideBySide(m_entries, m_index) /\ HeldOK(stackHeld, m_entries)
      /\ (lifo => LifoOK(stackHeld, m_entries))
      /\ m_allocation = Stack!Sum(m_entries) /\ m_allocation <= m_maxAllocation
  BY DEF StackInv
<1>2. DOMAIN m_entries = 1..Len(m_entries) /\ Len(m_entries) \in Nat
  BY <1>1
<1>3. ASSUME NEW j \in 1..Len(m_entries), NEW k \in 1..Len(m_entries), j < k
      PROVE  Stack!Bytes(m_entries[j]) \cap Stack!Bytes(m_entries[k]) = {}
  <2>1. CASE m_entries[k].usedMalloc
    BY <2>1 DEF Stack!Bytes
  <2>2. CASE ~m_entries[k].usedMalloc
    <3>1. /\ m_entries[k].data \in Nat /\ m_entries[k].size \in Nat
          /\ Cover(m_entries, k - 1) = 0..(m_entries[k].data - 1)
      BY <2>2, <1>1, EntryFields DEF SideBySide
    <3>2. Stack!Bytes(m_entries[k]) = m_entries[k].data..(m_entries[k].data + m_entries[k].size - 1)
      BY <2>2 DEF Stack!Bytes
    <3>3. j \in 1..(k - 1)
      BY <1>3
    <3>4. Stack!Bytes(m_entries[j]) \subseteq Cover(m_entries, k - 1)
      BY <3>3 DEF Cover
    <3>5. Stack!Bytes(m_entries[j]) \subseteq 0..(m_entries[k].data - 1)
      BY <3>1, <3>4
    <3>6. (0..(m_entries[k].data - 1)) \cap Stack!Bytes(m_entries[k]) = {}
      BY <3>1, <3>2
    <3> QED BY <3>5, <3>6
  <2> QED BY <2>1, <2>2
<1>4. ASSUME NEW j \in 1..Len(m_entries), NEW k \in 1..Len(m_entries), j # k
      PROVE  Stack!Bytes(m_entries[j]) \cap Stack!Bytes(m_entries[k]) = {}
  <2>1. CASE j < k
    BY <2>1, <1>3
  <2>2. CASE k < j
    <3>1. Stack!Bytes(m_entries[k]) \cap Stack!Bytes(m_entries[j]) = {}
      BY <2>2, <1>3
    <3> QED BY <3>1
  <2> QED BY <2>1, <2>2, <1>4
<1>5. UNION {Stack!Bytes(m_entries[j]) : j \in 1..Len(m_entries)} = 0..(m_index - 1)
  BY <1>1 DEF SideBySide, Cover
<1>6. Stack!BlocksApart
  BY <1>1, <1>2, <1>4, <1>5 DEF Stack!BlocksApart
<1>7. Stack!ToSet(stackHeld) \subseteq {m_entries[j].id : j \in DOMAIN m_entries}
  <2>1. Stack!ToSet(stackHeld) = {stackHeld[a] : a \in 1..Len(stackHeld)}
    BY <1>1 DEF Stack!ToSet
  <2>2. DOMAIN m_entries = 1..Len(m_entries)
    BY <1>2
  <2>3. HeldOK(stackHeld, m_entries)
    BY <1>1
  <2> QED BY <2>1, <2>2, <2>3 DEF HeldOK
<1>8. lifo => stackHeld = [j \in DOMAIN m_entries |-> m_entries[j].id]
  <2> SUFFICES ASSUME lifo PROVE stackHeld = [j \in DOMAIN m_entries |-> m_entries[j].id]
    OBVIOUS
  <2>1. /\ Len(stackHeld) = Len(m_entries)
        /\ \A k \in 1..Len(m_entries) : stackHeld[k] = m_entries[k].id
    BY <1>1 DEF LifoOK
  <2>2. stackHeld = [j \in 1..Len(stackHeld) |-> stackHeld[j]]
    BY <1>1
  <2> QED BY <2>1, <2>2, <1>2
<1> QED BY <1>1, <1>6, <1>7, <1>8 DEF Stack!AllGivenBack

\* AEEStackAlloc.cpp: for any size of the stack, any requests and any order of the
\* client's Free(), blocks do not overlap, the top is behind the last one,
\* every block of the client has its entry, and a client that frees in reverse
\* order leaves nothing behind.
THEOREM StackCorrect ==
    ASSUME Stack!StackAssumption
    PROVE  Stack!Spec => [](Stack!BlocksApart /\ Stack!AllGivenBack)
<1>1. Stack!Init => StackInv
  BY StackInit
<1>2. StackInv /\ [Stack!Next]_(Stack!vars) => StackInv'
  BY StackStep
<1>3. StackInv => Stack!BlocksApart /\ Stack!AllGivenBack
  BY StackInvKeeps
<1> QED BY <1>1, <1>2, <1>3, PTL DEF Stack!Spec

-----------------------------------------------------------------------------
(* MD5: a message in pieces *)

\* Division with a rest
LEMMA Divided ==
    ASSUME NEW b \in Nat \ {0}, NEW q \in Nat, NEW r \in 0..(b - 1)
    PROVE  (b * q + r) \div b = q /\ (b * q + r) % b = r
OBVIOUS

LEMMA QuotientAndRest ==
    ASSUME NEW b \in Nat \ {0}, NEW n \in Nat
    PROVE  n \div b \in Nat /\ n % b \in 0..(b - 1) /\ n = b * (n \div b) + (n % b)
OBVIOUS

\* A rest of a sum
LEMMA RestOfSum ==
    ASSUME NEW b \in Nat \ {0}, NEW m \in Nat, NEW n \in Nat
    PROVE  ((m % b) + n) % b = (m + n) % b
<1> DEFINE q == m \div b
           r == m % b
           s == (r + n) \div b
           u == (r + n) % b
<1>1. q \in Nat /\ r \in 0..(b - 1) /\ m = b * q + r
  BY QuotientAndRest
<1>2. s \in Nat /\ u \in 0..(b - 1) /\ r + n = b * s + u
  <2>1. r + n \in Nat
    BY <1>1
  <2> HIDE DEF r
  <2> QED BY <2>1, QuotientAndRest
<1> HIDE DEF q, r, s, u
<1>3. m + n = b * (q + s) + u
  BY <1>1, <1>2
<1>4. q + s \in Nat
  BY <1>1, <1>2
<1>5. (m + n) % b = u
  BY <1>3, <1>4, <1>2, Divided
<1> QED BY <1>5 DEF u, r

Filled == [0..(Cells - 1) -> Int]

\* After f bytes q blocks are used, and the bytes behind them are in the buffer.
Used(f, q, buf, used) ==
    /\ q \in Nat /\ f \in Nat /\ f - Cells * q \in 0..(Cells - 1)
    /\ buf \in Filled
    /\ \A c \in 0..(Cells - 1) : c < f - Cells * q => buf[c] = Cells * q + c + 1
    /\ used \in Seq(Filled) /\ Len(used) = q
    /\ \A k \in 1..q : \A c \in 0..(Cells - 1) : used[k][c] = Cells * (k - 1) + c + 1

\* new is buf with n bytes after `from` at its cells from `to` on.
CopyOf(new, buf, to, from, n) ==
    /\ new \in Filled
    /\ \A c \in 0..(Cells - 1) :
          new[c] = IF c >= to /\ c < to + n THEN from + 1 + (c - to) ELSE buf[c]

LEMMA CopiedCells ==
    ASSUME NEW buf \in Filled, NEW to \in 0..(Cells - 1), NEW from \in Nat, NEW n \in Nat
    PROVE  CopyOf(Md5!Copied(buf, to, from, n), buf, to, from, n)
BY DEF Md5!Copied, Filled, CopyOf

\* So many blocks ahead.
LEMMA BlocksAhead ==
    ASSUME NEW size \in Nat, NEW q \in Nat, NEW m \in Nat
    PROVE  /\ size * (q + m) \in Nat /\ size * (q + m) = size * q + size * m
           /\ size * (q + m) - size * (q + m) = 0 /\ size * m \in Nat /\ q + m \in Nat
OBVIOUS

\* Bytes that do not fill the buffer stay there.
LEMMA PartIsKept ==
    ASSUME NEW f, NEW q, NEW buf, NEW used, Used(f, q, buf, used), Cells \in Nat \ {0},
           NEW n \in Nat, f - Cells * q + n < Cells
    PROVE  Used(f + n, q, Md5!Copied(buf, f - Cells * q, f, n), used)
<1> DEFINE s == Cells * q
           t == f - s
           new == Md5!Copied(buf, t, f, n)
<1>1. /\ s \in Nat /\ t \in 0..(Cells - 1) /\ f = s + t /\ f \in Nat /\ buf \in Filled
      /\ \A c \in 0..(Cells - 1) : c < t => buf[c] = s + c + 1
  BY DEF Used
<1>2. new \in Filled
      /\ \A c \in 0..(Cells - 1) : new[c] = IF c >= t /\ c < t + n THEN f + 1 + (c - t) ELSE buf[c]
  <2>1. buf \in Filled /\ t \in 0..(Cells - 1) /\ f \in Nat
    BY <1>1
  <2>2. CopyOf(new, buf, t, f, n)
    BY <2>1, CopiedCells
  <2> QED BY <2>2, Zenon DEF CopyOf
<1>3. t + n < Cells
  OBVIOUS
<1> HIDE DEF new, t, s
<1>4. \A c \in 0..(Cells - 1) : c < t + n => new[c] = s + c + 1
  BY <1>1, <1>2, <1>3
<1>5. f + n \in Nat /\ f + n - s = t + n /\ t + n \in 0..(Cells - 1)
  BY <1>1, <1>3
<1>6. Used(f + n, q, new, used)
  BY <1>2, <1>4, <1>5 DEF Used, s
<1> QED BY <1>6 DEF new, t, s

\* Bytes that fill the buffer make a block.
LEMMA BlockIsUsed ==
    ASSUME NEW f, NEW q, NEW buf, NEW used, Used(f, q, buf, used), Cells \in Nat \ {0}
    PROVE  LET new == Md5!Copied(buf, f - Cells * q, f, Cells - (f - Cells * q))
           IN  Used(Cells * (q + 1), q + 1, new, Append(used, new))
<1> DEFINE s == Cells * q
           t == f - s
           new == Md5!Copied(buf, t, f, Cells - t)
           all == Append(used, new)
<1>1. /\ s \in Nat /\ t \in 0..(Cells - 1) /\ f = s + t /\ f \in Nat /\ buf \in Filled /\ q \in Nat
      /\ \A c \in 0..(Cells - 1) : c < t => buf[c] = s + c + 1
      /\ used \in Seq(Filled) /\ Len(used) = q
      /\ \A k \in 1..q : \A c \in 0..(Cells - 1) : used[k][c] = Cells * (k - 1) + c + 1
  BY DEF Used
<1>2. Cells - t \in Nat /\ t + (Cells - t) = Cells
  <2> HIDE DEF t
  <2> QED BY <1>1
<1>3. new \in Filled
      /\ \A c \in 0..(Cells - 1) : new[c] = IF c >= t /\ c < Cells THEN f + 1 + (c - t) ELSE buf[c]
  <2>1. buf \in Filled /\ t \in 0..(Cells - 1) /\ f \in Nat
    BY <1>1
  <2>2. CopyOf(new, buf, t, f, Cells - t)
    BY <2>1, <1>2, CopiedCells
  <2> HIDE DEF new, t
  <2> QED BY <2>2, <1>2, Zenon DEF CopyOf
<1> HIDE DEF new
<1>4. \A c \in 0..(Cells - 1) : new[c] = s + c + 1
  <2> TAKE c \in 0..(Cells - 1)
  <2> HIDE DEF s, t
  <2>1. s \in Nat /\ t \in Nat /\ f = s + t /\ c \in Nat /\ c < Cells
    BY <1>1
  <2>2. new[c] = IF c >= t /\ c < Cells THEN f + 1 + (c - t) ELSE buf[c]
    BY <1>3
  <2>3. CASE c < t
    <3>1. buf[c] = s + c + 1
      BY <2>3, <1>1
    <3> QED BY <2>1, <2>2, <2>3, <3>1
  <2>4. CASE ~(c < t)
    <3>1. c >= t /\ f + 1 + (c - t) = s + c + 1
      BY <2>1, <2>4
    <3> QED BY <2>1, <2>2, <3>1
  <2> QED BY <2>3, <2>4
<1>5. all \in Seq(Filled) /\ Len(all) = q + 1 /\ all[q + 1] = new /\ \A k \in 1..q : all[k] = used[k]
  BY <1>1, <1>3
<1> HIDE DEF all
<1>6. \A k \in 1..(q + 1) : \A c \in 0..(Cells - 1) : all[k][c] = Cells * (k - 1) + c + 1
  <2> TAKE k \in 1..(q + 1)
  <2> TAKE c \in 0..(Cells - 1)
  <2>1. CASE k = q + 1
    <3>1. Cells * (k - 1) = s
      BY <2>1, <1>1
    <3> QED BY <2>1, <3>1, <1>4, <1>5
  <2>2. CASE k # q + 1
    <3>0. q \in Nat
      BY <1>1
    <3>1. k \in 1..q
      BY <2>2, <3>0
    <3>2. all[k] = used[k]
      BY <3>1, <1>5
    <3> QED BY <3>1, <3>2, <1>1
  <2> QED BY <2>1, <2>2
<1>7. Cells * (q + 1) \in Nat /\ Cells * (q + 1) - Cells * (q + 1) = 0 /\ q + 1 \in Nat
  <2>1. q \in Nat
    BY <1>1
  <2>2. PICK p \in Nat : p = q + 1
    BY <2>1
  <2>3. Cells * p \in Nat
    BY <2>2
  <2>4. \A a \in Nat : a - a = 0
    OBVIOUS
  <2> QED BY <2>2, <2>3, <2>4
<1>8. Used(Cells * (q + 1), q + 1, new, all)
  <2> DEFINE z == Cells * (q + 1)
  <2>1. z \in Nat /\ z - z = 0
    BY <1>7
  <2>2. \A c \in 0..(Cells - 1) : c < z - z => new[c] = z + c + 1
    BY <2>1
  <2> HIDE DEF z
  <2>3. z - z \in 0..(Cells - 1)
    BY <2>1
  <2> QED BY <2>1, <2>2, <2>3, <1>3, <1>5, <1>6, <1>7 DEF Used, z
<1> QED BY <1>8 DEF new, all, t, s

\* The turns of the loop over whole blocks
Turns(held, used, from, n, w) ==
    w = [k \in 0..(n \div Cells) |->
            IF k = 0 THEN [in |-> held, blocks |-> used]
            ELSE LET b == Md5!Copied(w[k - 1].in, 0, from + Cells * (k - 1), Cells)
                 IN  [in |-> b, blocks |-> Append(w[k - 1].blocks, b)]]

LEMMA TurnsDefined ==
    ASSUME NEW held \in Filled, NEW used \in Seq(Filled), NEW from \in Nat, NEW n \in Nat,
           Cells \in Nat \ {0}
    PROVE  \E w : /\ Turns(held, used, from, n, w)
                  /\ Md5!Whole(held, used, from, n) =
                         [in |-> Md5!Copied(w[n \div Cells].in, 0, from + Cells * (n \div Cells), n % Cells),
                          blocks |-> w[n \div Cells].blocks]
<1> DEFINE X == [in : Filled, blocks : Seq(Filled)]
           a == [in |-> held, blocks |-> used]
           One(x, k) ==
               LET b == Md5!Copied(x.in, 0, from + Cells * (k - 1), Cells)
               IN  [in |-> b, blocks |-> Append(x.blocks, b)]
           G == [k \in Nat |-> [x \in X |-> IF k = 0 THEN x ELSE One(x, k)]]
           m == n \div Cells
<1>1. ASSUME NEW k \in Nat, NEW x \in X PROVE G[k][x] \in X
  <2>1. CASE k = 0
    BY <2>1
  <2>2. CASE k # 0
    <3>1. from + Cells * (k - 1) \in Nat
      <4>1. k - 1 \in Nat
        BY <2>2
      <4>2. Cells * (k - 1) \in Nat
        BY <4>1
      <4> QED BY <4>2
    <3>2. Md5!Copied(x.in, 0, from + Cells * (k - 1), Cells) \in Filled
      BY <3>1, CopiedCells DEF CopyOf
    <3>3. One(x, k) \in X
      BY <3>2
    <3> QED BY <2>2, <3>3
  <2> QED BY <2>1, <2>2
<1>2. m \in Nat
  BY QuotientAndRest
<1>3. PICK f \in [0..m -> X] : Recurs(a, G, m, f)
  <2>1. a \in X
    OBVIOUS
  <2> HIDE DEF G, X, a, m
  <2>2. \A j \in Nat : \E f \in [0..j -> X] : Recurs(a, G, j, f)
    BY <1>1, <2>1, RecursionDefined
  <2> QED BY <2>2, <1>2
<1>4. ASSUME NEW k \in 0..m, k # 0 PROVE G[k][f[k - 1]] = One(f[k - 1], k)
  <2>1. k \in Nat /\ k - 1 \in 0..m
    BY <1>2, <1>4
  <2>2. f[k - 1] \in X
    BY <2>1, <1>3
  <2> HIDE DEF X, One
  <2> QED BY <2>1, <2>2, <1>4
<1>5. Turns(held, used, from, n, f)
  <2> HIDE DEF G, a, One, X, m
  <2>1. f = [k \in 0..m |-> IF k = 0 THEN a ELSE G[k][f[k - 1]]]
    BY <1>3 DEF Recurs
  <2>2. f = [k \in 0..m |-> IF k = 0 THEN a ELSE One(f[k - 1], k)]
    BY <2>1, <1>4
  <2> QED BY <2>2 DEF Turns, a, One, m
<1> DEFINE g == CHOOSE h : Turns(held, used, from, n, h)
<1>6. Turns(held, used, from, n, g)
  BY <1>5
<1>7. Md5!Whole(held, used, from, n) =
          [in |-> Md5!Copied(g[n \div Cells].in, 0, from + Cells * (n \div Cells), n % Cells),
           blocks |-> g[n \div Cells].blocks]
  BY DEF Md5!Whole, Turns
<1> QED BY <1>6, <1>7

\* From the end of a block on, as many blocks are used as there are.
LEMMA WholeIsUsed ==
    ASSUME NEW q, NEW buf, NEW used, Used(Cells * q, q, buf, used), Cells \in Nat \ {0}, NEW n \in Nat
    PROVE  LET w == Md5!Whole(buf, used, Cells * q, n)
           IN  \E p \in Nat : Used(Cells * q + n, p, w.in, w.blocks)
<1> DEFINE s == Cells * q
           m == n \div Cells
<1>1. s \in Nat /\ q \in Nat /\ buf \in Filled /\ used \in Seq(Filled)
  BY DEF Used
<1>2. PICK w : /\ Turns(buf, used, s, n, w)
               /\ Md5!Whole(buf, used, s, n) =
                      [in |-> Md5!Copied(w[m].in, 0, s + Cells * m, n % Cells), blocks |-> w[m].blocks]
  BY <1>1, TurnsDefined
<1>3. m \in Nat /\ n % Cells \in 0..(Cells - 1) /\ n = Cells * m + (n % Cells)
  BY QuotientAndRest
<1> HIDE DEF m
<1> DEFINE S == {k \in Nat : k <= m => Used(Cells * (q + k), q + k, w[k].in, w[k].blocks)}
<1>4. 0 \in S
  <2>1. w[0] = [in |-> buf, blocks |-> used]
    BY <1>2, <1>3 DEF Turns, m
  <2>2. q + 0 = q
    BY <1>1
  <2> QED BY <2>1, <2>2
<1>5. ASSUME NEW k \in Nat, k \in S PROVE k + 1 \in S
  <2>1. CASE k + 1 <= m
    <3>1. Used(Cells * (q + k), q + k, w[k].in, w[k].blocks)
      BY <1>5, <2>1, <1>3
    <3> DEFINE z == Cells * (q + k)
               b == Md5!Copied(w[k].in, 0, s + Cells * k, Cells)
    <3>2. w[k + 1] = [in |-> b, blocks |-> Append(w[k].blocks, b)]
      <4>1. k + 1 \in 0..m /\ k + 1 # 0 /\ (k + 1) - 1 = k
        BY <2>1, <1>3
      <4> QED BY <4>1, <1>2 DEF Turns, m
    <3>3. z \in Nat /\ z = s + Cells * k /\ z - z = 0 /\ Cells - 0 = Cells
      BY <1>1, BlocksAhead
    <3>4. (q + k) + 1 = q + (k + 1)
      BY <1>1
    <3>5. b = Md5!Copied(w[k].in, z - z, z, Cells - (z - z))
      BY <3>3
    <3>6. LET new == Md5!Copied(w[k].in, z - z, z, Cells - (z - z))
          IN  Used(Cells * ((q + k) + 1), (q + k) + 1, new, Append(w[k].blocks, new))
      BY <3>1, BlockIsUsed
    <3> HIDE DEF b, z
    <3>7. Used(Cells * (q + (k + 1)), q + (k + 1), b, Append(w[k].blocks, b))
      BY <3>4, <3>5, <3>6
    <3>8. w[k + 1].in = b /\ w[k + 1].blocks = Append(w[k].blocks, b)
      BY <3>2
    <3>9. Used(Cells * (q + (k + 1)), q + (k + 1), w[k + 1].in, w[k + 1].blocks)
      BY <3>7, <3>8
    <3> QED BY <3>9
  <2>2. CASE ~(k + 1 <= m)
    BY <2>2
  <2> QED BY <2>1, <2>2
<1> HIDE DEF S
<1>6. Nat \subseteq S
  BY <1>4, <1>5, NatSetInduction
<1>7. Used(Cells * (q + m), q + m, w[m].in, w[m].blocks)
  BY <1>6, <1>3 DEF S
<1> DEFINE z == Cells * (q + m)
           r == n % Cells
<1>8. z \in Nat /\ z = s + Cells * m /\ z - z = 0 /\ z + r = s + n /\ q + m \in Nat
  <2>1. z \in Nat /\ z = s + Cells * m /\ z - z = 0 /\ q + m \in Nat /\ Cells * m \in Nat
    BY <1>1, <1>3, BlocksAhead
  <2>2. PICK a \in Nat : a = Cells * m
    BY <2>1
  <2>3. r \in Nat /\ n = a + r
    BY <1>3, <2>2
  <2> HIDE DEF z, s, r
  <2>4. z + r = s + n
    BY <1>1, <2>1, <2>2, <2>3
  <2> QED BY <2>1, <2>4
<1>9. r \in Nat /\ z - z + r < Cells
  <2> HIDE DEF z
  <2> QED BY <1>3, <1>8
<1>10. Used(z + r, q + m, Md5!Copied(w[m].in, z - z, z, r), w[m].blocks)
  BY <1>7, <1>9, PartIsKept
<1> HIDE DEF z, r
<1>11. Used(s + n, q + m, Md5!Copied(w[m].in, 0, s + Cells * m, r), w[m].blocks)
  BY <1>8, <1>10
<1> QED BY <1>2, <1>8, <1>11 DEF r

\* The number of bits of f bytes, in two words.
CountOf(f) == <<(8 * f) % UInts, ((8 * f) \div UInts) % UInts>>

Md5Inv ==
    /\ len \in Nat /\ fed \in 0..len /\ done \in BOOLEAN
    /\ bits = CountOf(fed)
    /\ ~done => \E q \in Nat : Used(fed, q, in, md5Blocks)
    /\ Md5!DigestOfWhole

\* A word counts whole blocks, in bytes and in bits.
LEMMA WordOfBlocks ==
    ASSUME Md5!Md5Assumption
    PROVE  /\ Cells \in Nat \ {0} /\ Cells > 3 /\ MaxLen \in Nat /\ UInts \in Nat \ {0}
           /\ \E c \in Nat \ {0} : UInts = 8 * (Cells * c)
<1>1. /\ Cells \in Nat \ {0} /\ Cells > 3 /\ MaxLen \in Nat /\ UInts \in Nat \ {0}
      /\ UInts % (8 * Cells) = 0
  BY DEF Md5!Md5Assumption
<1> DEFINE c == UInts \div (8 * Cells)
<1>2. 8 * Cells \in Nat \ {0}
  BY <1>1
<1>3. c \in Nat /\ UInts = (8 * Cells) * c + 0
  <2> DEFINE d == 8 * Cells
  <2> HIDE DEF d
  <2>1. UInts \div d \in Nat /\ UInts = d * (UInts \div d) + (UInts % d)
    BY <1>1, <1>2, QuotientAndRest DEF d
  <2> QED BY <2>1, <1>1 DEF d
<1> HIDE DEF c
<1>4. (8 * Cells) * c = 8 * (Cells * c)
  BY <1>1, <1>3
<1>5. c # 0
  BY <1>1, <1>3
<1> QED BY <1>1, <1>3, <1>4, <1>5

\* The low word tells how much is in the buffer.
LEMMA BufferedIsRest ==
    ASSUME Md5!Md5Assumption, NEW q \in Nat, fed \in Nat, fed - Cells * q \in 0..(Cells - 1),
           bits = CountOf(fed)
    PROVE  Md5!Buffered = fed - Cells * q
<1>1. PICK c \in Nat \ {0} : UInts = 8 * (Cells * c)
  BY WordOfBlocks
<1>2. Cells \in Nat \ {0} /\ UInts \in Nat \ {0}
  BY WordOfBlocks
<1> DEFINE l == (8 * fed) % UInts
           h == (8 * fed) \div UInts
           t == fed - Cells * q
           p == q - c * h
<1>3. h \in Nat /\ l \in 0..(UInts - 1) /\ 8 * fed = UInts * h + l
  <2>1. 8 * fed \in Nat
    OBVIOUS
  <2> QED BY <2>1, <1>2, QuotientAndRest
<1> HIDE DEF l, h
<1>4. UInts * h = 8 * (Cells * (c * h))
  <2>1. (8 * (Cells * c)) * h = 8 * (Cells * (c * h))
    BY <1>2, <1>3
  <2> QED BY <2>1, <1>1
<1>5. Cells * p = Cells * q - Cells * (c * h) /\ p \in Int
  BY <1>2, <1>3
<1>6. t \in 0..(Cells - 1) /\ fed = Cells * q + t
  BY <1>2
<1> DEFINE u == Cells * (c * h)
           v == Cells * q
           w == Cells * p
<1>7. u \in Int /\ v \in Int /\ w \in Int /\ w = v - u
  BY <1>2, <1>3, <1>5
<1> HIDE DEF u, v, w, t
<1>8. l = 8 * (w + t) /\ w + t \in Nat
  <2>1. 8 * fed = 8 * u + l /\ fed = v + t
    BY <1>3, <1>4, <1>6 DEF u, v
  <2> QED BY <2>1, <1>3, <1>6, <1>7
<1>9. p \in Nat
  <2>1. SUFFICES ASSUME p < 0 PROVE FALSE
    BY <1>5
  <2>2. Cells * p <= Cells * (-1)
    BY <2>1, <1>2, <1>5
  <2>3. w <= -Cells
    BY <2>2, <1>2 DEF w
  <2> QED BY <2>3, <1>2, <1>6, <1>7, <1>8
<1>10. l \div 8 = w + t
  BY <1>8
<1>11. (w + t) % Cells = t
  <2>1. (Cells * p + t) % Cells = t
    BY <1>2, <1>6, <1>9, Divided
  <2> QED BY <2>1 DEF w
<1>12. bits[1] = l
  BY DEF CountOf, l
<1> QED BY <1>10, <1>11, <1>12 DEF Md5!Buffered, t

\* The two words count on, with a carry.
LEMMA CountsOn ==
    ASSUME Md5!Md5Assumption, fed \in Nat, NEW n \in Nat, bits = CountOf(fed)
    PROVE  Md5!Counted(n) = CountOf(fed + n)
<1>1. PICK c \in Nat \ {0} : UInts = 8 * (Cells * c)
  BY WordOfBlocks
<1>2. Cells \in Nat \ {0} /\ UInts \in Nat \ {0}
  BY WordOfBlocks
<1> DEFINE V == Cells * c
           l == (8 * fed) % UInts
           h == (8 * fed) \div UInts
           a == n \div V
           b == n % V
           s == l + 8 * b
           low == IF s < UInts THEN s ELSE s - UInts
           carry == IF s < UInts THEN 0 ELSE 1
<1>3. V \in Nat \ {0} /\ UInts = 8 * V /\ UInts \div 8 = V
  BY <1>1, <1>2
<1>4. h \in Nat /\ l \in 0..(UInts - 1) /\ 8 * fed = UInts * h + l
  <2>1. 8 * fed \in Nat
    OBVIOUS
  <2> QED BY <2>1, <1>2, QuotientAndRest
<1>5. a \in Nat /\ b \in 0..(V - 1) /\ n = V * a + b
  <2> HIDE DEF V
  <2> QED BY <1>3, QuotientAndRest
<1>6. bits[1] = l /\ bits[2] = h % UInts
  BY DEF CountOf
<1> HIDE DEF l, h, a, b, V
<1>7. 8 * n = UInts * a + 8 * b
  <2>1. (8 * V) * a = 8 * (V * a) /\ V * a \in Int
    BY <1>3, <1>5
  <2> QED BY <2>1, <1>3, <1>5
<1>8. low \in 0..(UInts - 1) /\ s = UInts * carry + low /\ carry \in {0, 1}
  BY <1>3, <1>4, <1>5
<1>9. carry = IF low < l THEN 1 ELSE 0
  BY <1>3, <1>4, <1>5
<1> HIDE DEF low, carry
<1>10. l + 8 * n = UInts * (a + carry) + low
  <2>1. UInts * (a + carry) = UInts * a + UInts * carry /\ UInts * a \in Int
    BY <1>2, <1>5, <1>8
  <2> HIDE DEF s
  <2>2. s = l + 8 * b
    BY DEF s
  <2>3. UInts * carry \in Int /\ 8 * b \in Int /\ l \in Int /\ low \in Int
    BY <1>2, <1>4, <1>5, <1>8
  <2> QED BY <2>1, <2>2, <2>3, <1>7, <1>8
<1>11. (l + 8 * n) % UInts = low
  <2>1. a + carry \in Nat
    BY <1>5, <1>8
  <2> QED BY <2>1, <1>2, <1>8, <1>10, Divided
<1>12. 8 * (fed + n) = UInts * (h + (a + carry)) + low
  <2>1. UInts * (h + (a + carry)) = UInts * h + UInts * (a + carry)
    BY <1>2, <1>4, <1>5, <1>8
  <2>2. UInts * h \in Int /\ UInts * (a + carry) \in Int
    BY <1>2, <1>4, <1>5, <1>8
  <2>3. 8 * (fed + n) = UInts * h + (l + 8 * n)
    <3> DEFINE u == UInts * h
    <3>1. 8 * fed = u + l /\ l \in Int /\ u \in Int
      BY <1>4, <2>2
    <3> HIDE DEF u
    <3>2. 8 * (fed + n) = u + (l + 8 * n)
      BY <3>1
    <3> QED BY <3>2 DEF u
  <2> QED BY <2>1, <2>2, <2>3, <1>8, <1>10
<1>13. (8 * (fed + n)) % UInts = low /\ (8 * (fed + n)) \div UInts = h + (a + carry)
  <2>1. h + (a + carry) \in Nat
    BY <1>4, <1>5, <1>8
  <2> QED BY <2>1, <1>2, <1>8, <1>12, Divided
<1>14. ((h % UInts) + (a + carry)) % UInts = (h + (a + carry)) % UInts
  <2>1. a + carry \in Nat
    BY <1>5, <1>8
  <2> QED BY <2>1, <1>2, <1>4, RestOfSum
<1>15. (h % UInts) + carry + a = (h % UInts) + (a + carry)
  <2>1. h % UInts \in Nat
    BY <1>2, <1>4, QuotientAndRest
  <2> QED BY <2>1, <1>5, <1>8
<1>16. Md5!Counted(n) = <<low, ((h % UInts) + carry + a) % UInts>>
  <2>1. n \div (UInts \div 8) = a
    BY <1>3 DEF a
  <2> QED BY <2>1, <1>6, <1>9, <1>11 DEF Md5!Counted
<1> QED BY <1>13, <1>14, <1>15, <1>16 DEF CountOf

\* A piece, however long it is and wherever the buffer stands
LEMMA UpdateUses ==
    ASSUME Md5!Md5Assumption, NEW q \in Nat, Used(fed, q, in, md5Blocks), bits = CountOf(fed),
           NEW n \in Nat
    PROVE  \E p \in Nat : Used(fed + n, p, Md5!MD5Update(n).in, Md5!MD5Update(n).blocks)
<1> DEFINE s == Cells * q
           t == fed - s
           filled == Md5!Copied(in, t, fed, Cells - t)
           m == n - (Cells - t)
<1>1. Cells \in Nat \ {0}
  BY WordOfBlocks
<1>2. fed \in Nat /\ s \in Nat /\ t \in 0..(Cells - 1)
  BY <1>1 DEF Used
<1>3. Md5!Buffered = t
  BY <1>2, BufferedIsRest
<1>4. CASE t = 0
  <2>1. fed = s
    BY <1>2, <1>4
  <2>2. LET w == Md5!Whole(in, md5Blocks, s, n)
        IN  \E p \in Nat : Used(s + n, p, w.in, w.blocks)
    BY <1>1, <2>1, WholeIsUsed
  <2>3. Md5!MD5Update(n) = Md5!Whole(in, md5Blocks, s, n)
    BY <1>3, <1>4, <2>1 DEF Md5!MD5Update
  <2> QED BY <2>1, <2>2, <2>3
<1>5. CASE t # 0 /\ n < Cells - t
  <2>1. t + n < Cells
    <3> HIDE DEF t
    <3> QED BY <1>1, <1>2, <1>5
  <2>2. Used(fed + n, q, Md5!Copied(in, t, fed, n), md5Blocks)
    BY <1>1, <2>1, PartIsKept
  <2>3. Md5!MD5Update(n) = [in |-> Md5!Copied(in, t, fed, n), blocks |-> md5Blocks]
    <3> HIDE DEF t
    <3> QED BY <1>3, <1>5 DEF Md5!MD5Update
  <2> HIDE DEF t
  <2> QED BY <2>2, <2>3
<1>6. CASE t # 0 /\ ~(n < Cells - t)
  <2>1. Used(Cells * (q + 1), q + 1, filled, Append(md5Blocks, filled))
    BY <1>1, BlockIsUsed
  <2>2. m \in Nat
    <3> HIDE DEF t
    <3> QED BY <1>1, <1>2, <1>6
  <2>3. fed + (Cells - t) = Cells * (q + 1) /\ Cells * (q + 1) + m = fed + n
    <3>1. Cells * (q + 1) = s + Cells
      BY <1>1
    <3>2. fed = s + t
      BY <1>1, <1>2
    <3> HIDE DEF s, t
    <3> QED BY <3>1, <3>2, <1>1, <1>2
  <2>4. LET w == Md5!Whole(filled, Append(md5Blocks, filled), Cells * (q + 1), m)
        IN  \E p \in Nat : Used(Cells * (q + 1) + m, p, w.in, w.blocks)
    <3> HIDE DEF m, filled
    <3> QED BY <1>1, <2>1, <2>2, WholeIsUsed
  <2>5. Md5!MD5Update(n) = Md5!Whole(filled, Append(md5Blocks, filled), Cells * (q + 1), m)
    <3>1. Md5!MD5Update(n) = Md5!Whole(filled, Append(md5Blocks, filled), fed + (Cells - t), m)
      <4> HIDE DEF t
      <4> QED BY <1>3, <1>6 DEF Md5!MD5Update
    <3> QED BY <2>3, <3>1
  <2> HIDE DEF m, filled
  <2> QED BY <2>3, <2>4, <2>5
<1> HIDE DEF t
<1> QED BY <1>4, <1>5, <1>6

\* The end of the message, its mark and the counts make one block or two, which
\* are those of the padded message.
LEMMA FinalPads ==
    ASSUME Md5!Md5Assumption, NEW q \in Nat, Used(len, q, in, md5Blocks), bits = CountOf(len),
           fed = len, done' = TRUE, len' = len, md5Blocks' = md5Blocks \o Md5!MD5Final
    PROVE  Md5!DigestOfWhole'
<1> DEFINE s == Cells * q
           t == len - s
           Columns == 0..(Cells - 1)
           last(c) == IF c < t THEN in[c] ELSE IF c = t THEN -1 ELSE 0
           low == (8 * len) % UInts
           high == ((8 * len) \div UInts) % UInts
           marked == [c \in Columns |-> last(c)]
           zeros == [c \in Columns |-> 0]
           Counted(b) == [b EXCEPT ![Cells - 2] = low, ![Cells - 1] = high]
           two == Cells - 1 - t < 2
           end == IF two THEN <<marked, Counted(zeros)>> ELSE <<Counted(marked)>>
           all == md5Blocks \o end
           size == Md5!PaddedLen(len)
<1>1. Cells \in Nat \ {0} /\ Cells > 3 /\ UInts \in Nat \ {0}
  BY WordOfBlocks
<1>2. /\ s \in Nat /\ t \in Columns /\ len = s + t /\ len \in Nat /\ in \in Filled
      /\ \A c \in Columns : c < t => in[c] = s + c + 1
      /\ md5Blocks \in Seq(Filled) /\ Len(md5Blocks) = q
      /\ \A k \in 1..q : \A c \in Columns : md5Blocks[k][c] = Cells * (k - 1) + c + 1
  BY <1>1 DEF Used
<1>3. Md5!MD5Final = end
  <2>1. Md5!Buffered = t
    BY <1>2, BufferedIsRest
  <2>2. bits[1] = low /\ bits[2] = high
    BY DEF CountOf
  <2> HIDE DEF t, low, high
  <2> QED BY <2>1, <2>2 DEF Md5!MD5Final, Md5!MARK, Md5!Zero, Md5!Counts
<1>4. low \in Int /\ high \in Int
  <2> DEFINE m == 8 * len
             h == m \div UInts
  <2>1. m \in Nat
    BY <1>2
  <2> HIDE DEF m
  <2>2. h \in Nat /\ m % UInts \in Nat
    <3>1. UInts \in Nat \ {0}
      BY <1>1
    <3>2. m \div UInts \in Nat /\ m % UInts \in 0..(UInts - 1)
      BY ONLY <2>1, <3>1, QuotientAndRest
    <3> QED BY <3>1, <3>2
  <2> HIDE DEF h
  <2>3. h % UInts \in Nat
    BY <2>2, <1>1, QuotientAndRest
  <2> USE DEF h, m
  <2> QED BY <2>2, <2>3
<1>5. size = Cells * (q + (IF two THEN 2 ELSE 1))
  <2> DEFINE r == IF two THEN t + 2 - Cells ELSE t + 2
             n == q + (IF two THEN 2 ELSE 1)
  <2>1. len + 1 + 2 + Cells - 1 = Cells * n + r /\ n \in Nat /\ r \in 0..(Cells - 1)
    <3>1. CASE two
      <4>1. Cells * (q + 2) = s + 2 * Cells
        BY <1>1, <1>2
      <4>2. n = q + 2 /\ r = t + 2 - Cells
        BY <3>1
      <4>3. Cells * n = s + 2 * Cells
        BY <4>1, <4>2
      <4> HIDE DEF s, t, n, r
      <4> QED BY <4>2, <4>3, <3>1, <1>1, <1>2
    <3>2. CASE ~two
      <4>1. Cells * (q + 1) = s + Cells
        BY <1>1, <1>2
      <4>2. n = q + 1 /\ r = t + 2
        BY <3>2
      <4>3. Cells * n = s + Cells
        BY <4>1, <4>2
      <4> HIDE DEF s, t, n, r
      <4> QED BY <4>2, <4>3, <3>2, <1>1, <1>2
    <3> QED BY <3>1, <3>2
  <2> HIDE DEF r, n
  <2>2. (len + 1 + 2 + Cells - 1) \div Cells = n
    BY <2>1, <1>1, Divided
  <2>3. n * Cells = Cells * n
    BY <1>1, <2>1
  <2> QED BY <2>2, <2>3 DEF Md5!PaddedLen, Md5!Counts, n
<1> HIDE DEF s, t, low, high, size, two
<1>6. marked \in Filled /\ zeros \in Filled
  BY <1>2 DEF Filled
<1>7. Counted(marked) \in Filled /\ Counted(zeros) \in Filled
  <2> HIDE DEF marked, zeros
  <2> QED BY <1>1, <1>4, <1>6 DEF Filled
<1>8. end \in Seq(Filled) /\ Len(end) = (IF two THEN 2 ELSE 1)
  <2> HIDE DEF marked, zeros, Counted
  <2> QED BY <1>6, <1>7
<1>9. /\ Len(all) = q + (IF two THEN 2 ELSE 1) /\ DOMAIN all = 1..Len(all)
      /\ \A k \in 1..Len(all) : all[k] = IF k <= q THEN md5Blocks[k] ELSE end[k - q]
  <2> HIDE DEF end
  <2>1. all \in Seq(Filled) /\ Len(all) = Len(md5Blocks) + Len(end)
        /\ \A k \in 1..(Len(md5Blocks) + Len(end)) :
              all[k] = IF k <= Len(md5Blocks) THEN md5Blocks[k] ELSE end[k - Len(md5Blocks)]
    BY <1>2, <1>8, ConcatProperties
  <2> HIDE DEF all
  <2> QED BY <2>1, <1>2, <1>8
<1>10. Len(all) * Cells = size
  <2> DEFINE n == q + (IF two THEN 2 ELSE 1)
  <2>1. n \in Nat
    OBVIOUS
  <2> HIDE DEF n
  <2>2. n * Cells = Cells * n
    BY <2>1, <1>1
  <2> QED BY <2>2, <1>5, <1>9 DEF n
<1>11. \A c \in Columns : /\ Counted(marked)[c] = IF c = Cells - 1 THEN high ELSE IF c = Cells - 2 THEN low ELSE last(c)
                        /\ Counted(zeros)[c] = IF c = Cells - 1 THEN high ELSE IF c = Cells - 2 THEN low ELSE 0
  BY <1>1
<1> DEFINE cell(a) == IF a < len THEN a + 1 ELSE IF a = len THEN -1
                      ELSE IF a = size - 2 THEN low ELSE IF a = size - 1 THEN high ELSE 0
<1>12. \A a \in 0..(size - 1) : Md5!Padded(len)[a] = cell(a)
  BY DEF Md5!Padded, Md5!MARK, Md5!Zero, low, high, size
<1>13. ASSUME NEW k \in 1..Len(all), NEW c \in Columns
       PROVE  /\ Cells * (k - 1) + c \in 0..(size - 1)
              /\ all[k][c] = cell(Cells * (k - 1) + c)
  <2> DEFINE b == Cells * (k - 1)
  <2> SUFFICES b + c \in 0..(size - 1) /\ all[k][c] = cell(b + c)
    OBVIOUS
  <2>0. /\ s \in Int /\ t \in Int /\ c \in Int /\ Cells \in Int /\ 0 <= s /\ Cells > 3
        /\ 0 <= t /\ t < Cells /\ 0 <= c /\ c < Cells /\ len = s + t
    BY <1>1, <1>2
  <2>1. CASE k <= q
    <3>1. all[k][c] = b + c + 1 /\ b \in Nat
      <4>1. all[k] = md5Blocks[k] /\ k \in 1..q
        BY <2>1, <1>2, <1>9
      <4>2. k - 1 \in Nat
        BY <4>1
      <4>3. b \in Nat
        BY <4>2, <1>1
      <4> HIDE DEF all
      <4> QED BY <4>1, <4>3, <1>2
    <3>2. b + Cells <= s
      <4>1. Cells * k <= Cells * q
        BY <2>1, <1>1
      <4>2. b + Cells = Cells * k
        BY <1>1
      <4> QED BY <4>1, <4>2 DEF s
    <3>3. s <= size
      <4>1. Cells * (q + (IF two THEN 2 ELSE 1)) >= Cells * q
        BY <1>1
      <4> QED BY <4>1, <1>5 DEF s
    <3>4. size \in Int
      BY <1>1, <1>5
    <3> HIDE DEF b, all
    <3>5. b + c < len /\ b + c \in 0..(size - 1)
      BY <3>1, <3>2, <3>3, <3>4, <2>0
    <3>6. cell(b + c) = b + c + 1
      BY <3>5
    <3> QED BY <3>1, <3>5, <3>6
  <2>2. CASE k = q + 1 /\ ~two
    <3>1. all[k] = Counted(marked)
      <4>1. k - q = 1 /\ ~(k <= q)
        BY <2>2
      <4>2. all[k] = end[1]
        BY <4>1, <1>9
      <4> HIDE DEF marked, zeros, Counted, all
      <4> QED BY <4>2, <2>2
    <3>2. b = s /\ size = s + Cells
      BY <2>2, <1>1, <1>2, <1>5 DEF s
    <3>3. t + 2 < Cells
      BY <2>2, <1>1, <1>2 DEF two
    <3>4. all[k][c] = IF c = Cells - 1 THEN high ELSE IF c = Cells - 2 THEN low ELSE last(c)
      BY <3>1, <1>11
    <3>5. c < t => in[c] = s + c + 1
      BY <1>2
    <3> HIDE DEF b, all
    <3>6. CASE c < t
      <4>1. all[k][c] = s + c + 1
        BY <3>3, <3>4, <3>5, <3>6, <2>0
      <4>2. b + c < len /\ b + c = s + c /\ b + c \in 0..(size - 1)
        BY <3>2, <3>6, <2>0
      <4>3. cell(b + c) = b + c + 1
        BY <4>2
      <4> QED BY <4>1, <4>2, <4>3
    <3>7. CASE c = t
      <4>1. all[k][c] = -1
        BY <3>3, <3>4, <3>7, <2>0
      <4> QED BY <4>1, <3>2, <3>3, <3>7, <2>0
    <3>8. CASE c > t
      <4>1. all[k][c] = IF c = Cells - 1 THEN high ELSE IF c = Cells - 2 THEN low ELSE 0
        BY <3>3, <3>4, <3>8, <2>0
      <4>2. ~(b + c < len) /\ b + c # len /\ (b + c = size - 2 <=> c = Cells - 2)
            /\ (b + c = size - 1 <=> c = Cells - 1) /\ b + c \in 0..(size - 1)
        BY <3>2, <3>3, <3>8, <2>0
      <4>3. cell(b + c) = IF c = Cells - 2 THEN low ELSE IF c = Cells - 1 THEN high ELSE 0
        BY <4>2
      <4> QED BY <4>1, <4>2, <4>3, <2>0
    <3> QED BY <3>6, <3>7, <3>8, <2>0
  <2>3. CASE k = q + 1 /\ two
    <3>1. all[k] = marked
      <4>1. k - q = 1 /\ ~(k <= q)
        BY <2>3
      <4>2. all[k] = end[1]
        BY <4>1, <1>9
      <4> HIDE DEF marked, zeros, Counted, all
      <4> QED BY <4>2, <2>3
    <3>2. b = s /\ size = s + 2 * Cells
      <4>1. Cells * (q + 2) = s + 2 * Cells
        BY <1>1 DEF s
      <4> QED BY <4>1, <2>3, <1>1, <1>2, <1>5 DEF s
    <3>3. t + 2 >= Cells
      BY <2>3, <1>1, <1>2 DEF two
    <3>4. all[k][c] = last(c)
      BY <3>1
    <3>5. c < t => in[c] = s + c + 1
      BY <1>2
    <3> HIDE DEF b, all
    <3> QED BY <3>2, <3>3, <3>4, <3>5, <2>0
  <2>4. CASE k = q + 2
    <3>1. two
      BY <2>4, <1>9
    <3>2. all[k] = Counted(zeros)
      <4>1. k - q = 2 /\ ~(k <= q)
        BY <2>4
      <4>2. all[k] = end[2]
        BY <4>1, <1>9
      <4> HIDE DEF marked, zeros, Counted, all
      <4> QED BY <4>2, <3>1
    <3>3. b = s + Cells /\ size = s + 2 * Cells
      <4>1. Cells * (q + 2) = s + 2 * Cells /\ Cells * (q + 1) = s + Cells
        BY <1>1 DEF s
      <4>2. k - 1 = q + 1
        BY <2>4
      <4> QED BY <4>1, <4>2, <3>1, <1>5
    <3>4. all[k][c] = IF c = Cells - 1 THEN high ELSE IF c = Cells - 2 THEN low ELSE 0
      BY <3>2, <1>11
    <3> HIDE DEF b, all
    <3> QED BY <3>3, <3>4, <2>0
  <2>5. k <= q \/ k = q + 1 \/ k = q + 2
    BY <1>9
  <2> QED BY <2>1, <2>2, <2>3, <2>4, <2>5
<1>14. /\ Len(all) * Cells = Md5!PaddedLen(len)
       /\ \A k \in DOMAIN all, c \in Columns : all[k][c] = Md5!Padded(len)[Cells * (k - 1) + c]
  <2> HIDE DEF all, cell, Columns
  <2>1. \A k \in DOMAIN all, c \in Columns : all[k][c] = Md5!Padded(len)[Cells * (k - 1) + c]
    BY <1>9, <1>12, <1>13
  <2> QED BY <1>10, <2>1 DEF size
<1>15. md5Blocks' = all
  BY <1>3
<1> HIDE DEF all
<1> QED BY <1>14, <1>15 DEF Md5!DigestOfWhole, Md5!PaddedLen, Md5!Padded, Md5!Counts, Md5!MARK, Md5!Zero

LEMMA Md5Start == Md5!Md5Assumption /\ Md5!Init => Md5Inv
<1> SUFFICES ASSUME Md5!Md5Assumption, Md5!Init PROVE Md5Inv
  OBVIOUS
<1>1. Cells \in Nat \ {0} /\ UInts \in Nat \ {0} /\ MaxLen \in Nat
  BY WordOfBlocks
<1>2. in \in Filled
  BY DEF Md5!Init, Md5!MARK, Filled
<1>3. Used(0, 0, in, <<>>)
  <2>1. Cells * 0 = 0
    BY <1>1
  <2> QED BY <1>1, <1>2, <2>1 DEF Used
<1>4. CountOf(0) = <<0, 0>>
  <2>1. UInts * 0 + 0 = 0 /\ 8 * 0 = 0 /\ 0 \in 0..(UInts - 1)
    BY <1>1
  <2>2. 0 \div UInts = 0 /\ 0 % UInts = 0
    BY <2>1, <1>1, Divided
  <2> QED BY <2>1, <2>2 DEF CountOf
<1>5. len \in 0..MaxLen /\ fed = 0 /\ bits = <<0, 0>> /\ md5Blocks = <<>> /\ done = FALSE
  BY Zenon DEF Md5!Init
<1>6. len \in Nat /\ fed \in 0..len
  BY <1>1, <1>5
<1> QED BY <1>3, <1>4, <1>5, <1>6, 0 \in Nat, Zenon DEF Md5Inv, Md5!DigestOfWhole

LEMMA Md5Step == Md5!Md5Assumption /\ Md5Inv /\ [Md5!Next]_(Md5!vars) => Md5Inv'
<1> SUFFICES ASSUME Md5!Md5Assumption, Md5Inv, [Md5!Next]_(Md5!vars) PROVE Md5Inv'
  OBVIOUS
<1>1. ASSUME NEW n \in 0..MaxLen, Md5!Update(n) PROVE Md5Inv'
  <2>1. /\ ~done /\ fed + n <= len /\ len' = len /\ done' = done /\ fed' = fed + n
        /\ in' = Md5!MD5Update(n).in /\ md5Blocks' = Md5!MD5Update(n).blocks
        /\ bits' = Md5!Counted(n)
    BY <1>1 DEF Md5!Update
  <2>2. n \in Nat /\ fed \in Nat /\ len \in Nat
    BY WordOfBlocks DEF Md5Inv
  <2>3. PICK q \in Nat : Used(fed, q, in, md5Blocks)
    BY <2>1 DEF Md5Inv
  <2>4. \E p \in Nat : Used(fed + n, p, in', md5Blocks')
    BY <2>1, <2>2, <2>3, UpdateUses DEF Md5Inv
  <2>5. bits' = CountOf(fed')
    BY <2>1, <2>2, CountsOn DEF Md5Inv
  <2>6. fed' \in 0..len'
    BY <2>1, <2>2
  <2> QED BY <2>1, <2>2, <2>4, <2>5, <2>6 DEF Md5Inv, Md5!DigestOfWhole, CountOf
<1>2. CASE Md5!Final
  <2>1. /\ ~done /\ fed = len /\ md5Blocks' = md5Blocks \o Md5!MD5Final /\ done' = TRUE
        /\ len' = len /\ fed' = fed /\ bits' = bits
    BY <1>2 DEF Md5!Final
  <2>2. PICK q \in Nat : Used(len, q, in, md5Blocks)
    BY <2>1 DEF Md5Inv
  <2>3. Md5!DigestOfWhole'
    BY <2>1, <2>2, FinalPads DEF Md5Inv
  <2> QED BY <2>1, <2>3 DEF Md5Inv, CountOf
<1>3. CASE UNCHANGED Md5!vars
  BY <1>3 DEF Md5!vars, Md5Inv, CountOf, Used, Md5!DigestOfWhole, Md5!PaddedLen, Md5!Padded, Md5!Counts,
              Md5!MARK, Md5!Zero
<1> QED BY <1>1, <1>2, <1>3 DEF Md5!Next

\* The digest of a message is made of the blocks of the padded message, however
\* it was cut into pieces, for blocks of any size and counts that wrap
\* (MD5Update, MD5Final).
THEOREM DigestCorrect ==
    ASSUME Md5!Md5Assumption
    PROVE  Md5!Spec => []Md5!DigestOfWhole
<1>1. Md5Inv => Md5!DigestOfWhole
  BY DEF Md5Inv
<1> QED BY <1>1, Md5Start, Md5Step, PTL DEF Md5!Spec

-----------------------------------------------------------------------------
(* Sequences: lists *)

Place == 0..MaxSize
Nodes == 1..MaxSize
ListOf == [next : [Place -> Place], prev : [Place -> Place], data : [Nodes -> Nat],
           used : SUBSET Nodes, size : Int]

\* The nodes of a list make a ring with the head, in the order of a sequence.
Ring(l, v, r) ==
    /\ r \in [0..(Len(v) + 1) -> Place]
    /\ r[0] = 0 /\ r[Len(v) + 1] = 0
    /\ \A k \in 1..Len(v) : r[k] # 0 /\ l.data[r[k]] = v[k]
    /\ \A j, k \in 1..Len(v) : r[j] = r[k] => j = k
    /\ \A k \in 0..Len(v) : l.next[r[k]] = r[k + 1] /\ l.prev[r[k + 1]] = r[k]
    /\ l.used = {r[k] : k \in 1..Len(v)} /\ l.size = Len(v)

\* u is v with x behind the first i elements.
With(v, i, x, u) ==
    /\ u \in Seq(Nat) /\ Len(u) = Len(v) + 1
    /\ \A k \in 1..Len(u) : u[k] = IF k <= i THEN v[k] ELSE IF k = i + 1 THEN x ELSE v[k - 1]

\* u is v without the elements behind the first i and up to the first j.
Without(v, i, j, u) ==
    /\ u \in Seq(Nat) /\ Len(u) = Len(v) - (j - i)
    /\ \A k \in 1..Len(u) : u[k] = IF k <= i THEN v[k] ELSE v[k + (j - i)]

LEMMA LinkedFields ==
    ASSUME NEW l \in ListOf, NEW s \in Place, NEW new \in Nodes, NEW x \in Nat
    PROVE  /\ Seqs!Linked(l, s, new, x) \in ListOf
           /\ \A p \in Place : Seqs!Linked(l, s, new, x).next[p] =
                     IF p = l.prev[s] THEN new ELSE IF p = new THEN s ELSE l.next[p]
           /\ \A p \in Place : Seqs!Linked(l, s, new, x).prev[p] =
                     IF p = s THEN new ELSE IF p = new THEN l.prev[s] ELSE l.prev[p]
           /\ \A p \in Nodes : Seqs!Linked(l, s, new, x).data[p] = IF p = new THEN x ELSE l.data[p]
           /\ Seqs!Linked(l, s, new, x).used = l.used \cup {new}
           /\ Seqs!Linked(l, s, new, x).size = l.size + 1
<1> DEFINE m == Seqs!Linked(l, s, new, x)
<1>1. /\ l.next \in [Place -> Place] /\ l.prev \in [Place -> Place] /\ l.data \in [Nodes -> Nat]
      /\ l.used \subseteq Nodes /\ l.size \in Int /\ new \in Place
  BY DEF ListOf, Place, Nodes
<1>2. l.prev[s] \in Place
  BY <1>1
<1>3. m = [ next |-> [l.next EXCEPT ![new] = s, ![l.prev[s]] = new],
            prev |-> [l.prev EXCEPT ![new] = l.prev[s], ![s] = new],
            data |-> [l.data EXCEPT ![new] = x], used |-> l.used \cup {new}, size |-> l.size + 1 ]
  BY DEF Seqs!Linked
<1> HIDE DEF m
<1>4. [l.next EXCEPT ![new] = s, ![l.prev[s]] = new] \in [Place -> Place]
      /\ [l.prev EXCEPT ![new] = l.prev[s], ![s] = new] \in [Place -> Place]
      /\ [l.data EXCEPT ![new] = x] \in [Nodes -> Nat]
  BY <1>1, <1>2
<1>5. m \in ListOf
  BY <1>1, <1>3, <1>4 DEF ListOf
<1>6. \A p \in Place : m.next[p] = IF p = l.prev[s] THEN new ELSE IF p = new THEN s ELSE l.next[p]
  BY <1>1, <1>2, <1>3
<1>7. \A p \in Place : m.prev[p] = IF p = s THEN new ELSE IF p = new THEN l.prev[s] ELSE l.prev[p]
  BY <1>1, <1>2, <1>3
<1>8. \A p \in Nodes : m.data[p] = IF p = new THEN x ELSE l.data[p]
  BY <1>1, <1>3
<1>9. m.used = l.used \cup {new} /\ m.size = l.size + 1
  BY <1>3
<1> QED BY <1>5, <1>6, <1>7, <1>8, <1>9 DEF m

LEMMA UnlinkedFields ==
    ASSUME NEW l \in ListOf, NEW p \in Nodes
    PROVE  /\ Seqs!Unlinked(l, p) \in ListOf
           /\ \A o \in Place : Seqs!Unlinked(l, p).next[o] =
                     IF o = p THEN p ELSE IF o = l.prev[p] THEN l.next[p] ELSE l.next[o]
           /\ \A o \in Place : Seqs!Unlinked(l, p).prev[o] =
                     IF o = p THEN p ELSE IF o = l.next[p] THEN l.prev[p] ELSE l.prev[o]
           /\ \A o \in Nodes \ {p} : Seqs!Unlinked(l, p).data[o] = l.data[o]
           /\ Seqs!Unlinked(l, p).used = l.used \ {p}
           /\ Seqs!Unlinked(l, p).size = l.size - 1
<1> DEFINE m == Seqs!Unlinked(l, p)
<1>1. /\ l.next \in [Place -> Place] /\ l.prev \in [Place -> Place] /\ l.data \in [Nodes -> Nat]
      /\ l.used \subseteq Nodes /\ l.size \in Int /\ p \in Place
  BY DEF ListOf, Place, Nodes
<1>2. l.next[p] \in Place /\ l.prev[p] \in Place
  BY <1>1
<1>3. m = [ next |-> [l.next EXCEPT ![l.prev[p]] = l.next[p], ![p] = p],
            prev |-> [l.prev EXCEPT ![l.next[p]] = l.prev[p], ![p] = p],
            data |-> [l.data EXCEPT ![p] = 0], used |-> l.used \ {p}, size |-> l.size - 1 ]
  BY DEF Seqs!Unlinked, Seqs!Garbage
<1> HIDE DEF m
<1>4. [l.next EXCEPT ![l.prev[p]] = l.next[p], ![p] = p] \in [Place -> Place]
      /\ [l.prev EXCEPT ![l.next[p]] = l.prev[p], ![p] = p] \in [Place -> Place]
      /\ [l.data EXCEPT ![p] = 0] \in [Nodes -> Nat]
  BY <1>1, <1>2
<1>5. m \in ListOf
  BY <1>1, <1>3, <1>4 DEF ListOf
<1>6. \A o \in Place : m.next[o] = IF o = p THEN p ELSE IF o = l.prev[p] THEN l.next[p] ELSE l.next[o]
  BY <1>1, <1>2, <1>3
<1>7. \A o \in Place : m.prev[o] = IF o = p THEN p ELSE IF o = l.next[p] THEN l.prev[p] ELSE l.prev[o]
  BY <1>1, <1>2, <1>3
<1>8. \A o \in Nodes \ {p} : m.data[o] = l.data[o]
  BY <1>1, <1>3
<1>9. m.used = l.used \ {p} /\ m.size = l.size - 1
  BY <1>3
<1> QED BY <1>5, <1>6, <1>7, <1>8, <1>9 DEF m

\* A node put before another takes its place in the ring.
LEMMA LinkedRing ==
    ASSUME NEW l \in ListOf, NEW v \in Seq(Nat), NEW r, Ring(l, v, r), MaxSize \in Nat,
           NEW i \in 0..Len(v), NEW new \in Nodes \ l.used, NEW x \in Nat, NEW u, With(v, i, x, u)
    PROVE  \E q : Ring(Seqs!Linked(l, r[i + 1], new, x), u, q)
<1>n. PICK n \in Nat : n = Len(v)
  OBVIOUS
<1> DEFINE s == r[i + 1]
           m == Seqs!Linked(l, s, new, x)
           q == [k \in 0..(n + 2) |-> IF k <= i THEN r[k] ELSE IF k = i + 1 THEN new ELSE r[k - 1]]
<1>1. /\ n \in Nat /\ i \in 0..n /\ Len(u) = n + 1
      /\ r \in [0..(n + 1) -> Place] /\ r[0] = 0 /\ r[n + 1] = 0
      /\ \A k \in 1..n : r[k] # 0 /\ l.data[r[k]] = v[k]
      /\ \A j, k \in 1..n : r[j] = r[k] => j = k
      /\ \A k \in 0..n : l.next[r[k]] = r[k + 1] /\ l.prev[r[k + 1]] = r[k]
      /\ l.used = {r[k] : k \in 1..n} /\ l.size = n
  BY <1>n DEF Ring, With
<1>u. \A k \in 1..Len(u) : u[k] = IF k <= i THEN v[k] ELSE IF k = i + 1 THEN x ELSE v[k - 1]
  BY DEF With
<1>0. n \in Nat /\ i \in 0..n /\ Len(u) = n + 1
  BY <1>1
<1>2. s \in Place /\ new \in Nodes /\ new \in Place /\ new # 0 /\ l.prev[s] = r[i]
  <2>1. i + 1 \in 0..(n + 1) /\ i \in 0..n
    BY <1>0
  <2>2. l.prev[s] = r[i]
    BY <2>1, <1>1
  <2> QED BY <2>1, <2>2, <1>1 DEF Place, Nodes
<1>3. /\ \A p \in Place : m.next[p] = IF p = r[i] THEN new ELSE IF p = new THEN s ELSE l.next[p]
      /\ \A p \in Place : m.prev[p] = IF p = s THEN new ELSE IF p = new THEN r[i] ELSE l.prev[p]
      /\ \A p \in Nodes : m.data[p] = IF p = new THEN x ELSE l.data[p]
      /\ m.used = l.used \cup {new} /\ m.size = n + 1
  <2> HIDE DEF s
  <2>1. /\ \A p \in Place : m.next[p] = IF p = l.prev[s] THEN new ELSE IF p = new THEN s ELSE l.next[p]
        /\ \A p \in Place : m.prev[p] = IF p = s THEN new ELSE IF p = new THEN l.prev[s] ELSE l.prev[p]
        /\ \A p \in Nodes : m.data[p] = IF p = new THEN x ELSE l.data[p]
        /\ m.used = l.used \cup {new} /\ m.size = l.size + 1
    <3>1. l \in ListOf /\ s \in Place /\ new \in Nodes /\ x \in Nat
      BY <1>2
    <3> QED BY ONLY <3>1, LinkedFields
  <2> QED BY <2>1, <1>1, <1>2
<1> HIDE DEF m
<1>4. \A k \in 0..(n + 1) : r[k] \in Place /\ r[k] # new
  <2> TAKE k \in 0..(n + 1)
  <2>0. r[k] \in Place
    BY <1>1
  <2>1. CASE k \in 1..n
    <3>1. r[k] \in l.used
      BY <2>1, <1>1
    <3> QED BY <3>1, <2>0
  <2>2. CASE k = 0 \/ k = n + 1
    BY <2>0, <2>2, <1>1, <1>2
  <2> QED BY <2>1, <2>2, <1>0
<1>5. q \in [0..(n + 2) -> Place]
  <2>1. ASSUME NEW k \in 0..(n + 2) PROVE q[k] \in Place
    <3>1. CASE k <= i
      <4>1. k \in 0..(n + 1)
        BY <3>1, <1>0
      <4> QED BY <3>1, <4>1, <1>4
    <3>2. CASE k = i + 1
      BY <3>2, <1>1, <1>2
    <3>3. CASE k > i + 1
      <4>1. k - 1 \in 0..(n + 1) /\ ~(k <= i) /\ k # i + 1
        BY <3>3, <1>0
      <4> QED BY <4>1, <1>4
    <3> QED BY <3>1, <3>2, <3>3, <1>0
  <2> QED BY <2>1
<1>6. \A k \in 0..(n + 2) : q[k] = IF k <= i THEN r[k] ELSE IF k = i + 1 THEN new ELSE r[k - 1]
  OBVIOUS
<1> HIDE DEF q, s
<1>7. q[0] = 0 /\ q[n + 2] = 0
  <2>1. n + 2 \in 0..(n + 2) /\ ~(n + 2 <= i) /\ n + 2 # i + 1 /\ (n + 2) - 1 = n + 1 /\ 0 \in 0..(n + 2) /\ 0 <= i
    BY <1>0
  <2> QED BY <2>1, <1>1, <1>6
<1>8. ASSUME NEW k \in 1..(n + 1) PROVE q[k] # 0 /\ m.data[q[k]] = u[k]
  <2>1. CASE k <= i
    <3>1. k \in 1..n /\ k \in 0..(n + 2) /\ k \in 0..(n + 1) /\ k \in 1..Len(u)
      BY <2>1, <1>0
    <3>2. q[k] = r[k]
      BY <2>1, <3>1, <1>6
    <3>3. r[k] # 0 /\ l.data[r[k]] = v[k]
      BY <3>1, <1>1
    <3>4. r[k] \in Nodes /\ r[k] # new
      BY <3>1, <3>3, <1>4 DEF Place, Nodes
    <3>5. u[k] = v[k]
      BY <2>1, <3>1, <1>u
    <3> QED BY <3>2, <3>3, <3>4, <3>5, <1>3
  <2>2. CASE k = i + 1
    <3>1. q[k] = new
      <4>1. k \in 0..(n + 2) /\ ~(k <= i)
        BY <2>2, <1>0
      <4> QED BY <4>1, <2>2, <1>6
    <3>2. u[k] = x
      <4>1. k \in 1..Len(u) /\ ~(k <= i)
        BY <2>2, <1>0
      <4> QED BY <4>1, <2>2, <1>u
    <3> QED BY <3>1, <3>2, <1>2, <1>3
  <2>3. CASE k > i + 1
    <3>1. k - 1 \in 1..n /\ k \in 0..(n + 2) /\ k - 1 \in 0..(n + 1) /\ k \in 1..Len(u) /\ ~(k <= i) /\ k # i + 1
      BY <2>3, <1>0
    <3>2. q[k] = r[k - 1] /\ r[k - 1] \in Nodes /\ r[k - 1] # new
      <4>1. q[k] = r[k - 1]
        BY <3>1, <1>6
      <4>2. r[k - 1] # 0 /\ l.data[r[k - 1]] = v[k - 1]
        BY <3>1, <1>1
      <4>3. r[k - 1] \in Place /\ r[k - 1] # new
        BY <3>1, <1>4
      <4> QED BY <4>1, <4>2, <4>3 DEF Place, Nodes
    <3>3. u[k] = v[k - 1]
      BY <3>1, <1>u
    <3>4. r[k - 1] # 0 /\ l.data[r[k - 1]] = v[k - 1]
      BY <3>1, <1>1
    <3> QED BY <3>2, <3>3, <3>4, <1>3
  <2> QED BY <2>1, <2>2, <2>3, <1>0
<1>9. ASSUME NEW j \in 1..(n + 1), NEW k \in 1..(n + 1), q[j] = q[k] PROVE j = k
  <2> DEFINE Old(a) == IF a <= i THEN a ELSE a - 1
  <2>1. ASSUME NEW a \in 1..(n + 1)
        PROVE  IF a = i + 1 THEN q[a] = new ELSE Old(a) \in 1..n /\ q[a] = r[Old(a)] /\ q[a] # new
    <3>1. CASE a = i + 1
      <4>1. a \in 0..(n + 2) /\ ~(a <= i)
        BY <3>1, <1>0
      <4> QED BY <4>1, <3>1, <1>6
    <3>2. CASE a # i + 1
      <4>1. Old(a) \in 1..n /\ Old(a) \in 0..(n + 1) /\ a \in 0..(n + 2)
        BY <3>2, <1>0
      <4>2. q[a] = r[Old(a)]
        BY <3>2, <4>1, <1>6
      <4> HIDE DEF Old
      <4> QED BY <4>1, <4>2, <3>2, <1>4
    <3> QED BY <3>1, <3>2
  <2>2. CASE j = i + 1 \/ k = i + 1
    BY <2>1, <2>2, <1>9
  <2>3. CASE j # i + 1 /\ k # i + 1
    <3>1. Old(j) = Old(k)
      <4> HIDE DEF Old
      <4>1. Old(j) \in 1..n /\ q[j] = r[Old(j)]
        BY <2>1, <2>3
      <4>2. Old(k) \in 1..n /\ q[k] = r[Old(k)]
        BY <2>1, <2>3
      <4> QED BY <4>1, <4>2, <1>1, <1>9
    <3>2. i \in Nat /\ j \in Nat /\ k \in Nat
      <4> HIDE DEF Old
      <4> QED BY <1>0
    <3>3. (IF j <= i THEN j ELSE j - 1) = (IF k <= i THEN k ELSE k - 1)
      BY <3>1
    <3> HIDE DEF Old
    <3> QED BY ONLY <3>2, <3>3, <2>3
  <2> QED BY <2>2, <2>3
<1>10. ASSUME NEW k \in 0..(n + 1) PROVE m.next[q[k]] = q[k + 1] /\ m.prev[q[k + 1]] = q[k]
  <2>0. \A j \in 0..(n + 1) : r[j] = r[i] => j = i \/ (i = 0 /\ j = n + 1)
    <3> TAKE j \in 0..(n + 1)
    <3>1. j \in 1..n => r[j] # 0
      BY <1>1
    <3>2. i \in 1..n => r[i] # 0
      BY <1>1
    <3>3. j \in 1..n /\ i \in 1..n /\ r[j] = r[i] => j = i
      BY <1>1
    <3>4. (j \in 1..n \/ j = 0 \/ j = n + 1) /\ (i \in 1..n \/ i = 0)
      BY <1>0
    <3> QED BY <3>1, <3>2, <3>3, <3>4, <1>1
  <2>1. CASE k < i
    <3>1. k \in 0..n /\ k \in 0..(n + 1) /\ k + 1 \in 0..(n + 1) /\ k \in 0..(n + 2) /\ k + 1 \in 0..(n + 2)
          /\ k <= i /\ k + 1 <= i
      BY <2>1, <1>0
    <3>2. q[k] = r[k] /\ q[k + 1] = r[k + 1]
      BY <3>1, <1>6
    <3>3. r[k] # r[i] /\ r[k] # new /\ r[k + 1] # new /\ r[k] \in Place /\ r[k + 1] \in Place
      <4>1. k # i /\ k # n + 1
        BY <3>1, <2>1, <1>0
      <4>2. r[k] # r[i]
        BY <3>1, <4>1, <2>0
      <4> QED BY <3>1, <4>2, <1>4
    <3>4. r[k + 1] # s
      <4>1. k + 1 \in 1..n
        BY <3>1, <2>1, <1>0
      <4>2. CASE i + 1 \in 1..n
        BY <4>1, <4>2, <2>1, <1>1 DEF s
      <4>3. CASE i = n
        BY <4>1, <4>3, <1>1 DEF s
      <4> QED BY <4>2, <4>3, <1>0
    <3>5. l.next[r[k]] = r[k + 1] /\ l.prev[r[k + 1]] = r[k]
      BY <3>1, <1>1
    <3> QED BY <3>2, <3>3, <3>4, <3>5, <1>3
  <2>2. CASE k = i
    <3>1. q[k] = r[i] /\ q[k + 1] = new
      <4>1. k \in 0..(n + 2) /\ k + 1 \in 0..(n + 2) /\ ~(k + 1 <= i) /\ k + 1 = i + 1
        BY <2>2, <1>0
      <4> QED BY <4>1, <2>2, <1>6, <1>1
    <3>2. i \in 0..(n + 1) /\ i + 1 \in 0..(n + 1)
      BY <1>0
    <3>3. r[i] \in Place /\ r[i] # new /\ s # new
      BY <3>2, <1>4 DEF s
    <3> QED BY <3>1, <3>3, <1>2, <1>3
  <2>3. CASE k = i + 1
    <3>1. q[k] = new /\ q[k + 1] = s
      <4>1. k \in 0..(n + 2) /\ k + 1 \in 0..(n + 2) /\ ~(k <= i) /\ ~(k + 1 <= i) /\ k + 1 # i + 1 /\ (k + 1) - 1 = i + 1
        BY <2>3, <1>0
      <4> QED BY <4>1, <2>3, <1>6 DEF s
    <3>2. i \in 0..(n + 1)
      BY <1>0
    <3>3. r[i] # new
      BY <3>2, <1>4
    <3> QED BY <3>1, <3>3, <1>2, <1>3
  <2>4. CASE k > i + 1
    <3>1. k - 1 \in 0..n /\ (k - 1) + 1 = k /\ k - 1 \in 0..(n + 1) /\ k \in 0..(n + 1) /\ k \in 0..(n + 2) /\ k + 1 \in 0..(n + 2)
          /\ ~(k <= i) /\ ~(k + 1 <= i) /\ k # i + 1 /\ k + 1 # i + 1 /\ (k + 1) - 1 = k
      BY <2>4, <1>0
    <3>2. q[k] = r[k - 1] /\ q[k + 1] = r[k]
      BY <3>1, <1>6
    <3>3. r[k - 1] # r[i] /\ r[k - 1] # new /\ r[k] # new /\ r[k - 1] \in Place /\ r[k] \in Place
      <4>1. k - 1 # i /\ k - 1 # n + 1
        BY <3>1, <2>4, <1>0
      <4>2. r[k - 1] # r[i]
        BY <3>1, <4>1, <2>0
      <4> QED BY <3>1, <4>2, <1>4
    <3>4. r[k] # s
      <4>1. i + 1 \in 1..n
        BY <2>4, <1>0
      <4>2. CASE k \in 1..n
        BY <4>1, <4>2, <2>4, <1>1 DEF s
      <4>3. CASE k = n + 1
        BY <4>1, <4>3, <1>1 DEF s
      <4>4. k \in 1..n \/ k = n + 1
        BY <4>1, <3>1, <2>4, <1>0
      <4> QED BY <4>2, <4>3, <4>4
    <3>5. l.next[r[k - 1]] = r[k] /\ l.prev[r[k]] = r[k - 1]
      <4>1. l.next[r[k - 1]] = r[(k - 1) + 1] /\ l.prev[r[(k - 1) + 1]] = r[k - 1]
        BY <3>1, <1>1
      <4> QED BY <4>1, <3>1
    <3> QED BY <3>2, <3>3, <3>4, <3>5, <1>3
  <2> QED BY <2>1, <2>2, <2>3, <2>4, <1>0
<1>11. m.used = {q[k] : k \in 1..(n + 1)}
  <2>1. ASSUME NEW k \in 1..(n + 1) PROVE q[k] \in m.used
    <3>1. CASE k <= i
      <4>1. k \in 1..n /\ k \in 0..(n + 2)
        BY <3>1, <1>0
      <4>2. q[k] = r[k]
        BY <3>1, <4>1, <1>6
      <4> QED BY <4>1, <4>2, <1>1, <1>3
    <3>2. CASE k = i + 1
      <4>1. k \in 0..(n + 2) /\ ~(k <= i)
        BY <3>2, <1>0
      <4>2. q[k] = new
        BY <3>2, <4>1, <1>6
      <4> QED BY <4>2, <1>3
    <3>3. CASE k > i + 1
      <4>1. k - 1 \in 1..n /\ k \in 0..(n + 2) /\ ~(k <= i) /\ k # i + 1
        BY <3>3, <1>0
      <4>2. q[k] = r[k - 1]
        BY <4>1, <1>6
      <4> QED BY <4>1, <4>2, <1>1, <1>3
    <3> QED BY <3>1, <3>2, <3>3, <1>0
  <2>2. ASSUME NEW p \in m.used PROVE \E k \in 1..(n + 1) : p = q[k]
    <3>1. CASE p = new
      <4>0. i + 1 \in 1..(n + 1) /\ i + 1 \in 0..(n + 2) /\ ~(i + 1 <= i)
        BY <1>0
      <4>1. i + 1 \in 1..(n + 1) /\ q[i + 1] = new
        BY <4>0, <1>6
      <4> QED BY <3>1, <4>1
    <3>2. CASE p # new
      <4>1. PICK k \in 1..n : p = r[k]
        BY <3>2, <2>2, <1>1, <1>3
      <4>2. CASE k <= i
        <5>1. k \in 1..(n + 1) /\ k \in 0..(n + 2)
          BY <1>0
        <5>2. q[k] = r[k]
          BY <4>2, <5>1, <1>6
        <5>3. p = q[k]
          BY <4>1, <5>2
        <5>4. k \in 1..(n + 1)
          BY <5>1
        <5> QED BY <5>3, <5>4
      <4>3. CASE k > i
        <5>1. k + 1 \in 1..(n + 1) /\ k + 1 \in 0..(n + 2) /\ ~(k + 1 <= i) /\ k + 1 # i + 1 /\ (k + 1) - 1 = k
          BY <4>3, <1>0
        <5>2. q[k + 1] = r[k]
          BY <5>1, <1>6
        <5>3. p = q[k + 1]
          BY <4>1, <5>2
        <5>4. k + 1 \in 1..(n + 1)
          BY <5>1
        <5> WITNESS k + 1 \in 1..(n + 1)
        <5> QED BY <5>3
      <4>4. k <= i \/ k > i
        BY <1>0
      <4> QED BY ONLY <4>2, <4>3, <4>4
    <3> QED BY <3>1, <3>2
  <2> QED BY <2>1, <2>2
<1>12. Len(u) + 1 = n + 2
  BY <1>0
<1>13. Ring(m, u, q)
  BY <1>n, <1>1, <1>3, <1>5, <1>7, <1>8, <1>9, <1>10, <1>11, <1>12 DEF Ring
<1> QED BY <1>13 DEF m, s

\* A node taken out leaves a ring of the others.
LEMMA UnlinkedRing ==
    ASSUME NEW l \in ListOf, NEW v \in Seq(Nat), NEW r, Ring(l, v, r), MaxSize \in Nat,
           NEW i \in 1..Len(v), NEW u, Without(v, i - 1, i, u)
    PROVE  /\ Seqs!Unlinked(l, r[i]) \in ListOf
           /\ Ring(Seqs!Unlinked(l, r[i]), u, [k \in 0..Len(v) |-> IF k < i THEN r[k] ELSE r[k + 1]])
<1>n. PICK n \in Nat : n = Len(v)
  OBVIOUS
<1> DEFINE p == r[i]
           m == Seqs!Unlinked(l, p)
           q == [k \in 0..n |-> IF k < i THEN r[k] ELSE r[k + 1]]
           At(k) == IF k < i THEN k ELSE k + 1
<1>1. /\ n \in Nat /\ i \in 1..n /\ Len(u) = n - 1
      /\ r \in [0..(n + 1) -> Place] /\ r[0] = 0 /\ r[n + 1] = 0
      /\ \A k \in 1..n : r[k] # 0 /\ l.data[r[k]] = v[k]
      /\ \A j, k \in 1..n : r[j] = r[k] => j = k
      /\ \A k \in 0..n : l.next[r[k]] = r[k + 1] /\ l.prev[r[k + 1]] = r[k]
      /\ l.used = {r[k] : k \in 1..n} /\ l.size = n
  <2>1. n \in Nat /\ i \in 1..n /\ i - (i - 1) = 1
    BY <1>n
  <2>2. Len(u) = n - 1
    BY <2>1, <1>n DEF Without
  <2> QED BY <2>1, <2>2, <1>n DEF Ring
<1>u. \A k \in 1..Len(u) : u[k] = IF k < i THEN v[k] ELSE v[k + 1]
  <2> TAKE k \in 1..Len(u)
  <2>1. (k <= i - 1 <=> k < i) /\ i - (i - 1) = 1
    BY <1>1
  <2>2. u[k] = IF k <= i - 1 THEN v[k] ELSE v[k + (i - (i - 1))]
    BY DEF Without
  <2> QED BY <2>1, <2>2
<1>0. n \in Nat /\ i \in 1..n
  BY <1>1
<1>2. p \in Place /\ p # 0 /\ p \in Nodes /\ l.prev[p] = r[i - 1] /\ l.next[p] = r[i + 1]
  <2>1. i - 1 \in 0..n /\ (i - 1) + 1 = i /\ i \in 0..n /\ i \in 0..(n + 1)
    BY <1>0
  <2>2. p \in Place /\ p # 0
    BY <2>1, <1>0, <1>1
  <2>3. l.prev[r[(i - 1) + 1]] = r[i - 1] /\ l.next[r[i]] = r[i + 1]
    BY <2>1, <1>1
  <2> QED BY <2>1, <2>2, <2>3 DEF Place, Nodes
<1>3. /\ m \in ListOf
      /\ \A o \in Place : m.next[o] = IF o = p THEN p ELSE IF o = r[i - 1] THEN r[i + 1] ELSE l.next[o]
      /\ \A o \in Place : m.prev[o] = IF o = p THEN p ELSE IF o = r[i + 1] THEN r[i - 1] ELSE l.prev[o]
      /\ \A o \in Nodes \ {p} : m.data[o] = l.data[o]
      /\ m.used = l.used \ {p} /\ m.size = n - 1
  <2> HIDE DEF p
  <2>1. /\ m \in ListOf
        /\ \A o \in Place : m.next[o] = IF o = p THEN p ELSE IF o = l.prev[p] THEN l.next[p] ELSE l.next[o]
        /\ \A o \in Place : m.prev[o] = IF o = p THEN p ELSE IF o = l.next[p] THEN l.prev[p] ELSE l.prev[o]
        /\ \A o \in Nodes \ {p} : m.data[o] = l.data[o]
        /\ m.used = l.used \ {p} /\ m.size = l.size - 1
    <3>1. l \in ListOf /\ p \in Nodes
      BY <1>2
    <3> QED BY ONLY <3>1, UnlinkedFields
  <2> QED BY <2>1, <1>1, <1>2
<1> HIDE DEF m
<1>4. ASSUME NEW k \in 0..n
      PROVE  q[k] = r[At(k)] /\ At(k) \in 0..(n + 1) /\ At(k) # i
             /\ (k \in 1..(n - 1) => At(k) \in 1..n)
  BY <1>0
<1>5. ASSUME NEW j \in 0..(n + 1), j # i PROVE r[j] \in Place /\ r[j] # p
  <2>1. j \in 1..n => j = i \/ r[j] # r[i]
    BY <1>1
  <2>2. j \in 1..n \/ j = 0 \/ j = n + 1
    BY <1>0
  <2> QED BY <2>1, <2>2, <1>1, <1>2, <1>5
<1> HIDE DEF q, p
<1>6. q \in [0..n -> Place]
  <2>1. ASSUME NEW k \in 0..n PROVE q[k] \in Place
    <3> HIDE DEF At
    <3> QED BY <1>4, <1>5
  <2> QED BY <2>1 DEF q
<1>7. q[0] = 0 /\ q[n] = 0
  <2>1. 0 \in 0..n /\ n \in 0..n /\ At(0) = 0 /\ At(n) = n + 1
    BY <1>0
  <2> HIDE DEF At
  <2> QED BY <2>1, <1>1, <1>4
<1>8. ASSUME NEW k \in 1..(n - 1) PROVE q[k] # 0 /\ m.data[q[k]] = u[k]
  <2>1. k \in 0..n /\ k \in 1..Len(u) /\ u[k] = v[At(k)]
    <3>1. k \in 0..n /\ k \in 1..Len(u)
      BY <1>0, <1>1
    <3>2. u[k] = IF k < i THEN v[k] ELSE v[k + 1]
      BY <3>1, <1>u
    <3> QED BY <3>1, <3>2
  <2> HIDE DEF At
  <2>2. q[k] = r[At(k)] /\ At(k) \in 1..n /\ At(k) # i /\ At(k) \in 0..(n + 1)
    BY <2>1, <1>4
  <2>3. r[At(k)] # 0 /\ l.data[r[At(k)]] = v[At(k)] /\ r[At(k)] # p /\ r[At(k)] \in Place
    BY <2>2, <1>1, <1>5
  <2>4. r[At(k)] \in Nodes \ {p}
    BY <2>3 DEF Place, Nodes
  <2> QED BY <2>1, <2>2, <2>3, <2>4, <1>3
<1>9. ASSUME NEW j \in 1..(n - 1), NEW k \in 1..(n - 1), q[j] = q[k] PROVE j = k
  <2>1. j \in 0..n /\ k \in 0..n
    BY <1>0
  <2>2. At(j) = At(k)
    <3> HIDE DEF At
    <3>1. At(j) \in 1..n /\ At(k) \in 1..n /\ r[At(j)] = r[At(k)]
      BY <2>1, <1>4, <1>9
    <3> QED BY <3>1, <1>1
  <2> QED BY <2>2, <1>0
<1>10. ASSUME NEW k \in 0..(n - 1) PROVE m.next[q[k]] = q[k + 1] /\ m.prev[q[k + 1]] = q[k]
  <2>1. k \in 0..n /\ k + 1 \in 0..n
    BY <1>0
  <2>2. q[k] = r[At(k)] /\ q[k + 1] = r[At(k + 1)]
        /\ r[At(k)] \in Place /\ r[At(k)] # p /\ r[At(k + 1)] \in Place /\ r[At(k + 1)] # p
    <3> HIDE DEF At
    <3>1. q[k] = r[At(k)] /\ At(k) \in 0..(n + 1) /\ At(k) # i
      BY <2>1, <1>4
    <3>2. q[k + 1] = r[At(k + 1)] /\ At(k + 1) \in 0..(n + 1) /\ At(k + 1) # i
      BY <2>1, <1>4
    <3> QED BY <3>1, <3>2, <1>5
  <2>3. CASE k + 1 = i
    <3>1. At(k) = i - 1 /\ At(k + 1) = i + 1
      BY <2>3, <1>0
    <3> HIDE DEF At
    <3> QED BY <3>1, <2>2, <1>3
  <2>4. CASE k + 1 # i
    <3>1. At(k + 1) = At(k) + 1 /\ At(k) \in 0..n
      BY <2>4, <1>0
    <3>2. At(k) # i - 1 /\ At(k) # i /\ At(k + 1) # i + 1
      BY <2>4, <1>0
    <3> DEFINE a == At(k)
    <3> HIDE DEF a
    <3>3. l.next[r[a]] = r[a + 1] /\ l.prev[r[a + 1]] = r[a]
      BY <3>1, <1>1 DEF a
    <3>4. r[a] # r[i - 1]
      <4>1. a \in 1..n \/ a = 0
        BY <3>1, <1>0 DEF a
      <4>2. i - 1 \in 1..n \/ i - 1 = 0
        BY <1>0
      <4>3. a # i - 1
        BY <3>2 DEF a
      <4> DEFINE b == i - 1
      <4> HIDE DEF b
      <4>4. b \in 1..n \/ b = 0
        BY <4>2 DEF b
      <4>5. a \in 1..n => r[a] # 0
        BY <1>1
      <4>6. b \in 1..n => r[b] # 0
        BY <1>1
      <4>7. a \in 1..n /\ b \in 1..n /\ r[a] = r[b] => a = b
        BY <1>1
      <4> QED BY <4>1, <4>3, <4>4, <4>5, <4>6, <4>7, <1>1 DEF b
    <3>5. r[a + 1] # r[i + 1]
      <4>1. a + 1 \in 1..n \/ a + 1 = n + 1
        BY <3>1, <1>0 DEF a
      <4>2. i + 1 \in 1..n \/ i + 1 = n + 1
        BY <1>0
      <4>3. a + 1 # i + 1
        BY <3>1, <3>2 DEF a
      <4> QED BY <4>1, <4>2, <4>3, <1>1
    <3>6. q[k] = r[a] /\ q[k + 1] = r[a + 1] /\ r[a] \in Place /\ r[a] # p /\ r[a + 1] \in Place /\ r[a + 1] # p
      BY <2>2, <3>1 DEF a
    <3> QED BY <3>3, <3>4, <3>5, <3>6, <1>3
  <2> QED BY <2>3, <2>4
<1>11. m.used = {q[k] : k \in 1..(n - 1)}
  <2>1. ASSUME NEW k \in 1..(n - 1) PROVE q[k] \in m.used
    <3>1. k \in 0..n
      BY <1>0
    <3> HIDE DEF At
    <3>2. q[k] = r[At(k)] /\ At(k) \in 1..n /\ At(k) # i /\ At(k) \in 0..(n + 1)
      BY <3>1, <1>4
    <3>3. r[At(k)] \in l.used
      BY <3>2, <1>1
    <3>4. r[At(k)] # p
      BY <3>2, <1>5
    <3> QED BY <3>2, <3>3, <3>4, <1>3
  <2>2. ASSUME NEW o \in m.used PROVE \E k \in 1..(n - 1) : o = q[k]
    <3>1. o \in l.used /\ o # p
      BY <2>2, <1>3
    <3>2. PICK j \in 1..n : o = r[j]
      BY <3>1, <1>1
    <3>3. j # i
      BY <3>1, <3>2 DEF p
    <3> DEFINE k == IF j < i THEN j ELSE j - 1
    <3>4. k \in 1..(n - 1) /\ k \in 0..n /\ At(k) = j
      BY <3>3, <1>0
    <3> HIDE DEF At, k
    <3>5. q[k] = r[At(k)]
      BY <3>4, <1>4
    <3> QED BY <3>2, <3>4, <3>5
  <2> QED BY <2>1, <2>2
<1>12. Len(u) + 1 = n /\ Len(u) = n - 1
  BY <1>0, <1>1
<1>13. Ring(m, u, q)
  <2> HIDE DEF At
  <2>1. m.used = {q[k] : k \in 1..Len(u)} /\ m.size = Len(u) /\ q \in [0..(Len(u) + 1) -> Place]
        /\ q[0] = 0 /\ q[Len(u) + 1] = 0
    BY <1>3, <1>6, <1>7, <1>11, <1>12
  <2> QED BY <2>1, <1>8, <1>9, <1>10, <1>12 DEF Ring
<1> QED BY <1>n, <1>3, <1>13 DEF m, p, q

\* The steps to a node
Steps(l, i, f) == f = [k \in 0..i |-> IF k = 0 THEN l.next[0] ELSE l.next[f[k - 1]]]

LEMMA NodeIsAt ==
    ASSUME NEW l, NEW v \in Seq(Nat), NEW r, Ring(l, v, r), NEW i \in 0..Len(v)
    PROVE  Seqs!NodeAt(l, i) = r[i + 1]
<1> DEFINE n == Len(v)
           f == [k \in 0..i |-> r[k + 1]]
           g == CHOOSE h : Steps(l, i, h)
<1>1. n \in Nat /\ i \in 0..n /\ i \in Nat
  OBVIOUS
<1>2. \A k \in 0..n : l.next[r[k]] = r[k + 1]
  BY DEF Ring
<1>3. r[0] = 0
  BY DEF Ring
<1> HIDE DEF n
<1>4. Steps(l, i, f)
  <2>1. ASSUME NEW k \in 0..i PROVE f[k] = IF k = 0 THEN l.next[0] ELSE l.next[f[k - 1]]
    <3>1. CASE k = 0
      <4>1. 0 \in 0..n /\ f[0] = r[0 + 1]
        BY <1>1
      <4> QED BY <4>1, <3>1, <1>2, <1>3
    <3>2. CASE k # 0
      <4>1. k - 1 \in 0..i /\ (k - 1) + 1 = k /\ k \in 0..n
        BY <3>2, <1>1
      <4>2. f[k - 1] = r[k] /\ f[k] = r[k + 1]
        BY <4>1
      <4> QED BY <4>1, <4>2, <3>2, <1>2
    <3> QED BY <3>1, <3>2
  <2>2. f = [k \in 0..i |-> f[k]]
    OBVIOUS
  <2> HIDE DEF f
  <2> QED BY <2>1, <2>2 DEF Steps
<1>5. Steps(l, i, g)
  BY <1>4
<1>6. Seqs!NodeAt(l, i) = g[i]
  BY DEF Seqs!NodeAt, Seqs!HEAD, Steps
<1> HIDE DEF f, g
<1> DEFINE S == {k \in Nat : k <= i => g[k] = r[k + 1]}
<1>7. 0 \in S
  <2>1. 0 \in 0..i /\ 0 \in 0..n
    BY <1>1
  <2>2. g[0] = l.next[0]
    BY <2>1, <1>5 DEF Steps
  <2>3. l.next[0] = r[0 + 1]
    BY <2>1, <1>2, <1>3
  <2> QED BY <2>2, <2>3
<1>8. ASSUME NEW k \in Nat, k \in S PROVE k + 1 \in S
  <2>1. CASE k + 1 <= i
    <3>1. k + 1 \in 0..i /\ k + 1 # 0 /\ (k + 1) - 1 = k /\ k + 1 \in 0..n /\ k <= i
      BY <2>1, <1>1
    <3>2. g[k + 1] = l.next[g[k]]
      BY <3>1, <1>5 DEF Steps
    <3>3. l.next[r[k + 1]] = r[(k + 1) + 1]
      BY <3>1, <1>2
    <3> QED BY <3>1, <3>2, <3>3, <1>8
  <2>2. CASE ~(k + 1 <= i)
    BY <2>2
  <2> QED BY <2>1, <2>2
<1> HIDE DEF S
<1>9. Nat \subseteq S
  BY <1>7, <1>8, NatSetInduction
<1> QED BY <1>1, <1>6, <1>9 DEF S

LEMMA UnlinkedType ==
    ASSUME NEW l \in ListOf, NEW p \in Place
    PROVE  Seqs!Unlinked(l, p) \in ListOf
<1>1. /\ l.next \in [Place -> Place] /\ l.prev \in [Place -> Place] /\ l.data \in [Nodes -> Nat]
      /\ l.used \subseteq Nodes /\ l.size \in Int
  BY DEF ListOf
<1>2. l.next[p] \in Place /\ l.prev[p] \in Place
  BY <1>1
<1>3. [l.next EXCEPT ![l.prev[p]] = l.next[p], ![p] = p] \in [Place -> Place]
      /\ [l.prev EXCEPT ![l.next[p]] = l.prev[p], ![p] = p] \in [Place -> Place]
      /\ [l.data EXCEPT ![p] = 0] \in [Nodes -> Nat]
  BY <1>1, <1>2
<1> QED BY <1>1, <1>3 DEF Seqs!Unlinked, Seqs!Garbage, ListOf

\* The turns of erase() of a range
Erasing(l, p, last, f) ==
    f = [k \in 0..MaxSize |->
            IF k = 0 THEN [l |-> l, p |-> p]
            ELSE LET t == f[k - 1]
                 IN  IF t.p = last THEN t ELSE [l |-> Seqs!Unlinked(t.l, t.p), p |-> t.l.next[t.p]]]

LEMMA ErasingDefined ==
    ASSUME NEW l \in ListOf, NEW p \in Place, NEW last \in Place, MaxSize \in Nat
    PROVE  \E f : Erasing(l, p, last, f) /\ Seqs!UnlinkedTo(l, p, last) = f[MaxSize].l
<1> DEFINE X == [l : ListOf, p : Place]
           a == [l |-> l, p |-> p]
           One(t) == IF t.p = last THEN t ELSE [l |-> Seqs!Unlinked(t.l, t.p), p |-> t.l.next[t.p]]
           G == [k \in Nat |-> [x \in X |-> One(x)]]
<1>1. ASSUME NEW k \in Nat, NEW x \in X PROVE G[k][x] \in X
  <2>1. x.l \in ListOf /\ x.p \in Place
    OBVIOUS
  <2>2. Seqs!Unlinked(x.l, x.p) \in ListOf
    BY <2>1, UnlinkedType
  <2>3. x.l.next[x.p] \in Place
    BY <2>1 DEF ListOf
  <2> QED BY <2>1, <2>2, <2>3
<1>2. PICK f \in [0..MaxSize -> X] : Recurs(a, G, MaxSize, f)
  <2>1. a \in X
    OBVIOUS
  <2> HIDE DEF G, X, a
  <2>2. \A j \in Nat : \E f \in [0..j -> X] : Recurs(a, G, j, f)
    BY <1>1, <2>1, RecursionDefined
  <2> QED BY <2>2
<1>3. ASSUME NEW k \in 0..MaxSize, k # 0 PROVE G[k][f[k - 1]] = One(f[k - 1])
  <2>1. k \in Nat /\ k - 1 \in 0..MaxSize
    BY <1>3
  <2>2. f[k - 1] \in X
    BY <2>1, <1>2
  <2> HIDE DEF X, One
  <2> QED BY <2>1, <2>2
<1>4. Erasing(l, p, last, f)
  <2> HIDE DEF G, a, One, X
  <2>1. f = [k \in 0..MaxSize |-> IF k = 0 THEN a ELSE G[k][f[k - 1]]]
    BY <1>2 DEF Recurs
  <2>2. f = [k \in 0..MaxSize |-> IF k = 0 THEN a ELSE One(f[k - 1])]
    BY <2>1, <1>3
  <2> QED BY <2>2 DEF Erasing, a, One
<1> DEFINE g == CHOOSE h : Erasing(l, p, last, h)
<1>5. Erasing(l, p, last, g)
  BY <1>4
<1>6. Seqs!UnlinkedTo(l, p, last) = g[MaxSize].l
  BY DEF Seqs!UnlinkedTo, Erasing
<1> QED BY <1>5, <1>6

\* A range taken out leaves a ring of the others.
LEMMA RangeUnlinked ==
    ASSUME NEW l \in ListOf, NEW v \in Seq(Nat), NEW r, Ring(l, v, r), MaxSize \in Nat, Len(v) <= MaxSize,
           NEW i \in Nat, NEW j \in Nat, i < j, j <= Len(v),
           NEW u, Without(v, i, j, u)
    PROVE  LET m == Seqs!UnlinkedTo(l, r[i + 1], r[j + 1])
           IN  m \in ListOf /\ \E q : Ring(m, u, q)
<1> DEFINE n == Len(v)
           d == j - i
           V(k) == [a \in 1..(n - k) |-> IF a <= i THEN v[a] ELSE v[a + k]]
           Q(k) == [a \in 0..(n - k + 1) |-> IF a <= i THEN r[a] ELSE r[a + k]]
<1>0. /\ n \in Nat /\ i \in Nat /\ j \in Nat /\ d \in Nat /\ d # 0 /\ i + d = j /\ j <= n
      /\ n <= MaxSize /\ d <= MaxSize /\ MaxSize \in Nat
  OBVIOUS
<1>1. /\ r \in [0..(n + 1) -> Place] /\ r[0] = 0 /\ r[n + 1] = 0
      /\ \A k \in 1..n : r[k] # 0
      /\ \A a, b \in 1..n : r[a] = r[b] => a = b
  BY DEF Ring
<1>2. \A k \in 1..n : v[k] \in Nat
  OBVIOUS
<1> HIDE DEF n, d
<1>3. r[i + 1] \in Place /\ r[j + 1] \in Place
  <2>1. i + 1 \in 0..(n + 1) /\ j + 1 \in 0..(n + 1)
    BY <1>0
  <2> QED BY <2>1, <1>1
<1>4. PICK f : Erasing(l, r[i + 1], r[j + 1], f)
               /\ Seqs!UnlinkedTo(l, r[i + 1], r[j + 1]) = f[MaxSize].l
  BY <1>3, ErasingDefined
<1>5. /\ f[0] = [l |-> l, p |-> r[i + 1]]
      /\ \A k \in 0..MaxSize : k # 0 =>
            f[k] = IF f[k - 1].p = r[j + 1] THEN f[k - 1]
                   ELSE [l |-> Seqs!Unlinked(f[k - 1].l, f[k - 1].p), p |-> f[k - 1].l.next[f[k - 1].p]]
  <2>1. 0 \in 0..MaxSize
    OBVIOUS
  <2> QED BY <2>1, <1>4 DEF Erasing
<1>6. ASSUME NEW k \in 0..d
      PROVE  /\ V(k) \in Seq(Nat) /\ Len(V(k)) = n - k
             /\ \A a \in 1..(n - k) : V(k)[a] = IF a <= i THEN v[a] ELSE v[a + k]
             /\ \A a \in 0..(n - k + 1) : Q(k)[a] = IF a <= i THEN r[a] ELSE r[a + k]
  <2>1. n - k \in Nat
    BY <1>0
  <2>2. \A a \in 1..(n - k) : (IF a <= i THEN v[a] ELSE v[a + k]) \in Nat
    BY <1>0, <1>2
  <2>3. V(k) \in [1..(n - k) -> Nat]
    BY <2>2
  <2>4. V(k) \in Seq(Nat) /\ Len(V(k)) = n - k
    <3> DEFINE w == V(k)
               m == n - k
    <3>1. m \in Nat /\ w \in [1..m -> Nat]
      BY <2>1, <2>3
    <3> HIDE DEF m, w
    <3>2. w \in Seq(Nat) /\ Len(w) = m
      BY <3>1
    <3> QED BY <3>2 DEF m, w
  <2> QED BY <2>4
<1> DEFINE S == {k \in Nat : k <= d => /\ f[k].l \in ListOf /\ f[k].p = r[i + 1 + k]
                                       /\ Ring(f[k].l, V(k), Q(k))}
<1>7. 0 \in S
  <2>1. f[0].l = l /\ f[0].p = r[i + 1] /\ i + 1 + 0 = i + 1
    BY <1>0, <1>5
  <2>2. V(0) = v
    <3>1. v = [a \in 1..n |-> v[a]]
      BY DEF n
    <3>2. n - 0 = n /\ \A a \in 1..n : a + 0 = a
      BY <1>0
    <3> QED BY <3>1, <3>2
  <2>3. Q(0) = r
    <3>1. r = [a \in 0..(n + 1) |-> r[a]]
      BY <1>1
    <3>2. n - 0 + 1 = n + 1 /\ \A a \in 0..(n + 1) : a + 0 = a
      BY <1>0
    <3> QED BY <3>1, <3>2
  <2> HIDE DEF V, Q
  <2> QED BY <2>1, <2>2, <2>3
<1>8. ASSUME NEW k \in Nat, k \in S PROVE k + 1 \in S
  <2>1. CASE k + 1 <= d
    <3>0. k <= d /\ k \in 0..d /\ k + 1 \in 0..d /\ i + 1 \in 1..(n - k) /\ i + 1 \in 0..(n - k) /\ i + 1 + k \in 1..n
      BY <2>1, <1>0
    <3>1. f[k].l \in ListOf /\ f[k].p = r[i + 1 + k] /\ Ring(f[k].l, V(k), Q(k))
      BY <3>0, <1>8
    <3>2. f[k].p # r[j + 1]
      <4>1. i + 1 + k \in 1..n /\ i + 1 + k # j + 1 /\ (j + 1 \in 1..n \/ j + 1 = n + 1)
        BY <2>1, <1>0
      <4> DEFINE a == i + 1 + k
                 b == j + 1
      <4>2. a \in 1..n /\ a # b /\ (b \in 1..n \/ b = n + 1)
        BY <4>1
      <4> HIDE DEF a, b
      <4>3. r[a] # r[b]
        BY <4>2, <1>1
      <4> QED BY <4>3, <3>1 DEF a, b
    <3>3. Q(k)[i + 1] = r[i + 1 + k]
      <4>1. i + 1 \in 0..(n - k + 1) /\ ~(i + 1 <= i)
        BY <3>0, <1>0
      <4> QED BY <4>1, <3>0, <1>6
    <3>4. Q(k)[i + 2] = r[i + 1 + (k + 1)]
      <4>1. i + 2 \in 0..(n - k + 1) /\ ~(i + 2 <= i) /\ i + 2 + k = i + 1 + (k + 1)
        BY <3>0, <1>0
      <4>2. Q(k)[i + 2] = r[i + 2 + k]
        BY <4>1, <3>0, <1>6
      <4> QED BY <4>1, <4>2
    <3>5. f[k].l.next[f[k].p] = r[i + 1 + (k + 1)]
      <4> HIDE DEF Q, V
      <4>1. Len(V(k)) = n - k
        BY <3>0, <1>6
      <4>2. f[k].l.next[Q(k)[i + 1]] = Q(k)[(i + 1) + 1]
        BY <3>0, <3>1, <4>1 DEF Ring
      <4>3. (i + 1) + 1 = i + 2
        BY <1>0
      <4> QED BY <4>2, <4>3, <3>1, <3>3, <3>4
    <3>6. /\ Seqs!Unlinked(f[k].l, Q(k)[i + 1]) \in ListOf
          /\ Ring(Seqs!Unlinked(f[k].l, Q(k)[i + 1]), V(k + 1), Q(k + 1))
      <4> DEFINE w == V(k)
                 s == Q(k)
                 x == V(k + 1)
                 y == Q(k + 1)
      <4>1. w \in Seq(Nat) /\ Len(w) = n - k /\ x \in Seq(Nat) /\ Len(x) = n - (k + 1)
        BY <3>0, <1>6
      <4>2. i + 1 \in 1..Len(w) /\ Len(x) = Len(w) - 1
        <5> HIDE DEF w, x
        <5> QED BY <3>0, <4>1, <1>0
      <4>3. ASSUME NEW a \in 1..Len(x) PROVE x[a] = IF a < i + 1 THEN w[a] ELSE w[a + 1]
        <5>1. a \in 1..(n - (k + 1)) /\ a \in 1..(n - k) /\ a + 1 \in 1..(n - k)
              /\ (a <= i <=> a < i + 1) /\ (a + 1) + k = a + (k + 1) /\ (~(a <= i) => ~(a + 1 <= i))
          <6>1. a \in 1..(n - (k + 1))
            <7> HIDE DEF w, x
            <7> QED BY <4>1
          <6> HIDE DEF w, x
          <6> QED BY <6>1, <1>0, <3>0
        <5>2. x[a] = IF a <= i THEN v[a] ELSE v[a + (k + 1)]
          BY <5>1, <3>0, <1>6
        <5>3. w[a] = IF a <= i THEN v[a] ELSE v[a + k]
          BY <5>1, <3>0, <1>6
        <5>4. w[a + 1] = IF a + 1 <= i THEN v[a + 1] ELSE v[(a + 1) + k]
          BY <5>1, <3>0, <1>6
        <5> HIDE DEF w, x
        <5> QED BY <5>1, <5>2, <5>3, <5>4
      <4>4. y = [a \in 0..Len(w) |-> IF a < i + 1 THEN s[a] ELSE s[a + 1]]
        <5>1. n - (k + 1) + 1 = n - k
          BY <1>0, <3>0
        <5>2. ASSUME NEW a \in 0..(n - k)
              PROVE  (IF a <= i THEN r[a] ELSE r[a + (k + 1)]) = (IF a < i + 1 THEN s[a] ELSE s[a + 1])
          <6>1. a \in 0..(n - k + 1) /\ a + 1 \in 0..(n - k + 1)
                /\ (a <= i <=> a < i + 1) /\ (a + 1) + k = a + (k + 1) /\ (~(a <= i) => ~(a + 1 <= i))
            BY <1>0, <3>0
          <6>2. s[a] = IF a <= i THEN r[a] ELSE r[a + k]
            BY <6>1, <3>0, <1>6
          <6>3. s[a + 1] = IF a + 1 <= i THEN r[a + 1] ELSE r[(a + 1) + k]
            BY <6>1, <3>0, <1>6
          <6> HIDE DEF s
          <6> QED BY <6>1, <6>2, <6>3
        <5>3. y = [a \in 0..(n - k) |-> IF a <= i THEN r[a] ELSE r[a + (k + 1)]]
          BY <5>1
        <5> HIDE DEF s, w, y
        <5> QED BY <5>2, <5>3, <4>1
      <4>5. Ring(f[k].l, w, s)
        BY <3>1
      <4> HIDE DEF w, s, x, y
      <4>6. /\ Seqs!Unlinked(f[k].l, s[i + 1]) \in ListOf
            /\ Ring(Seqs!Unlinked(f[k].l, s[i + 1]), x, [a \in 0..Len(w) |-> IF a < i + 1 THEN s[a] ELSE s[a + 1]])
        <5>1. Without(w, (i + 1) - 1, i + 1, x)
          <6>1. (i + 1) - ((i + 1) - 1) = 1 /\ \A a \in 1..Len(x) : (a <= (i + 1) - 1 <=> a < i + 1)
            BY <1>0, <4>1
          <6>2. \A a \in 1..Len(x) : x[a] = IF a <= (i + 1) - 1 THEN w[a] ELSE w[a + ((i + 1) - ((i + 1) - 1))]
            BY <4>3, <6>1
          <6> QED BY <4>1, <4>2, <6>1, <6>2 DEF Without
        <5>2. w \in Seq(Nat) /\ i + 1 \in 1..Len(w) /\ f[k].l \in ListOf
          BY <3>1, <4>1, <4>2
        <5> QED BY <4>5, <5>1, <5>2, UnlinkedRing
      <4> QED BY <4>4, <4>6 DEF s, x, y
    <3>7. f[k + 1] = [l |-> Seqs!Unlinked(f[k].l, f[k].p), p |-> f[k].l.next[f[k].p]]
      <4> HIDE DEF V, Q
      <4>0. k \in Nat
        BY <1>8
      <4>1. k + 1 \in 0..MaxSize /\ k + 1 # 0 /\ (k + 1) - 1 = k
        BY ONLY <4>0, <2>1, <1>0
      <4> QED BY <4>1, <3>2, <1>5
    <3>8. f[k + 1].l = Seqs!Unlinked(f[k].l, f[k].p) /\ f[k + 1].p = f[k].l.next[f[k].p]
      BY <3>7
    <3> HIDE DEF V, Q
    <3> QED BY <3>1, <3>3, <3>5, <3>6, <3>8
  <2>2. CASE ~(k + 1 <= d)
    BY <2>2
  <2> QED BY <2>1, <2>2
<1> HIDE DEF S
<1>9. Nat \subseteq S
  BY <1>7, <1>8, NatSetInduction
<1>10. f[d].l \in ListOf /\ f[d].p = r[j + 1] /\ Ring(f[d].l, V(d), Q(d))
  <2>1. i + 1 + d = j + 1 /\ d \in Nat /\ d <= d
    BY <1>0
  <2>2. d \in S
    BY <2>1, <1>9
  <2> QED BY <2>1, <2>2 DEF S
<1> DEFINE Z == {k \in Nat : d + k <= MaxSize => f[d + k] = f[d]}
<1>11. 0 \in Z
  BY <1>0
<1>12. ASSUME NEW k \in Nat, k \in Z PROVE k + 1 \in Z
  <2>1. CASE d + (k + 1) <= MaxSize
    <3>1. d + (k + 1) \in 0..MaxSize /\ d + (k + 1) # 0 /\ (d + (k + 1)) - 1 = d + k /\ d + k <= MaxSize
      BY <2>1, <1>0
    <3>2. f[d + k] = f[d]
      BY <3>1, <1>12
    <3>3. f[d + (k + 1)] = f[d + k]
      BY <3>1, <3>2, <1>5, <1>10
    <3> QED BY <3>2, <3>3
  <2>2. CASE ~(d + (k + 1) <= MaxSize)
    BY <2>2
  <2> QED BY <2>1, <2>2
<1> HIDE DEF Z
<1>13. Nat \subseteq Z
  BY <1>11, <1>12, NatSetInduction
<1>14. f[MaxSize] = f[d]
  <2>1. MaxSize - d \in Nat /\ d + (MaxSize - d) = MaxSize
    BY <1>0
  <2>2. MaxSize - d \in Z
    BY <2>1, <1>13
  <2> QED BY <2>1, <2>2 DEF Z
<1>15. V(d) = u
  <2>1. d \in 0..d
    BY <1>0
  <2>2. V(d) \in Seq(Nat) /\ Len(V(d)) = n - d /\ \A a \in 1..(n - d) : V(d)[a] = IF a <= i THEN v[a] ELSE v[a + d]
    BY <2>1, <1>6
  <2>3. u \in Seq(Nat) /\ Len(u) = n - d /\ \A a \in 1..(n - d) : u[a] = IF a <= i THEN v[a] ELSE v[a + d]
    BY DEF n, d, Without
  <2>4. n - d \in Nat
    BY <1>0
  <2> DEFINE w == V(d)
             m == n - d
  <2>5. w \in Seq(Nat) /\ Len(w) = m /\ u \in Seq(Nat) /\ Len(u) = m /\ m \in Nat
    BY <2>2, <2>3, <2>4
  <2>6. \A a \in 1..m : w[a] = u[a]
    BY <2>2, <2>3
  <2> HIDE DEF w, m
  <2>7. w = u
    BY <2>5, <2>6
  <2> QED BY <2>7 DEF w
<1> HIDE DEF V, Q
<1> QED BY <1>4, <1>10, <1>14, <1>15

\* The turns of find()
Looking(x, f) ==
    f = [k \in 0..MaxSize |->
            IF k = 0 THEN list.next[0]
            ELSE IF f[k - 1] = 0 \/ list.data[f[k - 1]] = x THEN f[k - 1]
            ELSE list.next[f[k - 1]]]

\* find() ends at the first of equal elements, or at the head.
LEMMA Found ==
    ASSUME list \in ListOf, NEW v \in Seq(Nat), NEW r, Ring(list, v, r), MaxSize \in Nat, Len(v) <= MaxSize,
           NEW x \in Nat
    PROVE  \E g \in 1..(Len(v) + 1) :
               /\ Seqs!FindFrom(list.next[0], x) = r[g]
               /\ \A j \in 1..(g - 1) : v[j] # x
               /\ g \in 1..Len(v) => v[g] = x
<1> DEFINE n == Len(v)
           One(p) == IF p = 0 \/ list.data[p] = x THEN p ELSE list.next[p]
           G == [k \in Nat |-> [p \in Place |-> One(p)]]
           a == list.next[0]
<1>0. n \in Nat /\ MaxSize \in Nat /\ n <= MaxSize
  OBVIOUS
<1>1. /\ r[0] = 0 /\ r[n + 1] = 0
      /\ \A k \in 1..n : r[k] # 0 /\ list.data[r[k]] = v[k]
      /\ \A k \in 0..n : list.next[r[k]] = r[k + 1]
  BY DEF Ring
<1>2. a \in Place /\ \A p \in Place : One(p) \in Place
  <2>1. list.next \in [Place -> Place] /\ 0 \in Place
    <3>1. list.next \in [Place -> Place]
      BY DEF ListOf
    <3>2. 0 \in Place
      BY <1>0 DEF Place
    <3> QED BY <3>1, <3>2
  <2>2. ASSUME NEW p \in Place PROVE One(p) \in Place
    BY <2>1
  <2> QED BY <2>1, <2>2
<1> HIDE DEF n
<1>3. PICK h \in [0..MaxSize -> Place] : Recurs(a, G, MaxSize, h)
  <2>1. \A k \in Nat, p \in Place : G[k][p] \in Place
    <3> HIDE DEF One
    <3> QED BY <1>2
  <2> HIDE DEF G, a
  <2>2. \A j \in Nat : \E f \in [0..j -> Place] : Recurs(a, G, j, f)
    BY <1>2, <2>1, RecursionDefined
  <2> QED BY <1>0, <2>2
<1>4. ASSUME NEW k \in 0..MaxSize, k # 0 PROVE G[k][h[k - 1]] = One(h[k - 1])
  <2>1. k \in Nat /\ k - 1 \in 0..MaxSize
    BY <1>4, <1>0
  <2>2. h[k - 1] \in Place
    BY <2>1, <1>3
  <2> HIDE DEF One
  <2> QED BY <2>1, <2>2
<1>5. Looking(x, h)
  <2> HIDE DEF G, a, One
  <2>1. h = [k \in 0..MaxSize |-> IF k = 0 THEN a ELSE G[k][h[k - 1]]]
    BY <1>3 DEF Recurs
  <2>2. h = [k \in 0..MaxSize |-> IF k = 0 THEN a ELSE One(h[k - 1])]
    BY <2>1, <1>4
  <2> QED BY <2>2 DEF Looking, a, One
<1> DEFINE f == CHOOSE e : Looking(x, e)
<1>6. Looking(x, f)
  BY <1>5
<1>7. Seqs!FindFrom(list.next[0], x) = f[MaxSize]
  BY DEF Seqs!FindFrom, Seqs!HEAD, Looking
<1>8. /\ f[0] = list.next[0]
      /\ \A k \in 0..MaxSize : k # 0 =>
            f[k] = IF f[k - 1] = 0 \/ list.data[f[k - 1]] = x THEN f[k - 1] ELSE list.next[f[k - 1]]
  <2>1. 0 \in 0..MaxSize
    BY <1>0
  <2> HIDE DEF f
  <2> QED BY <2>1, <1>6 DEF Looking
<1> HIDE DEF f, G, a, One
<1> DEFINE Stops(k) == \E g \in 1..(n + 1) : /\ f[k] = r[g]
                                             /\ \A j \in 1..(g - 1) : v[j] # x
                                             /\ g = k + 1 \/ g = n + 1 \/ v[g] = x
           S == {k \in Nat : k <= MaxSize => Stops(k)}
<1>9. 0 \in S
  <2>1. 1 \in 1..(n + 1) /\ 0 \in 0..n /\ 0 + 1 = 1
    BY <1>0
  <2>2. f[0] = r[1]
    BY <2>1, <1>1, <1>8
  <2>3. \A j \in 1..(1 - 1) : v[j] # x
    OBVIOUS
  <2>4. Stops(0)
    BY <2>1, <2>2, <2>3
  <2> HIDE DEF Stops
  <2> QED BY <2>4
<1>10. ASSUME NEW k \in Nat, k \in S PROVE k + 1 \in S
  <2>1. CASE k + 1 <= MaxSize
    <3>1. k <= MaxSize /\ k + 1 \in 0..MaxSize /\ k + 1 # 0 /\ (k + 1) - 1 = k
      BY <2>1, <1>0
    <3>2. PICK g \in 1..(n + 1) : /\ f[k] = r[g]
                                  /\ \A j \in 1..(g - 1) : v[j] # x
                                  /\ g = k + 1 \/ g = n + 1 \/ v[g] = x
      BY <3>1, <1>10
    <3>3. f[k + 1] = IF f[k] = 0 \/ list.data[f[k]] = x THEN f[k] ELSE list.next[f[k]]
      BY <3>1, <1>8
    <3>4. CASE g = n + 1
      <4>1. f[k + 1] = r[g]
        BY <3>2, <3>3, <3>4, <1>1
      <4>2. Stops(k + 1)
        BY <4>1, <3>2, <3>4
      <4> HIDE DEF Stops
      <4> QED BY <4>2
    <3>5. CASE g \in 1..n /\ v[g] = x
      <4>1. f[k + 1] = r[g]
        BY <3>2, <3>3, <3>5, <1>1
      <4>2. Stops(k + 1)
        BY <4>1, <3>2, <3>5
      <4> HIDE DEF Stops
      <4> QED BY <4>2
    <3>6. CASE g \in 1..n /\ v[g] # x
      <4>1. g = k + 1 /\ g \in 0..n /\ g + 1 \in 1..(n + 1) /\ g + 1 = (k + 1) + 1
        BY <3>2, <3>6, <1>0
      <4>2. f[k + 1] = r[g + 1]
        <5>1. r[g] # 0 /\ list.data[r[g]] = v[g]
          BY <3>6, <1>1
        <5>2. list.next[r[g]] = r[g + 1]
          BY <4>1, <1>1
        <5> QED BY <5>1, <5>2, <3>2, <3>3, <3>6
      <4>3. ASSUME NEW j \in 1..((g + 1) - 1) PROVE v[j] # x
        <5>1. j = g \/ j \in 1..(g - 1)
          BY <4>1
        <5> QED BY <5>1, <3>2, <3>6
      <4>4. Stops(k + 1)
        <5>1. g + 1 \in 1..(n + 1)
          BY <4>1
        <5> WITNESS g + 1 \in 1..(n + 1)
        <5> QED BY <4>1, <4>2, <4>3
      <4> HIDE DEF Stops
      <4> QED BY <4>4
    <3>7. g = n + 1 \/ (g \in 1..n /\ v[g] = x) \/ (g \in 1..n /\ v[g] # x)
      BY <1>0
    <3> HIDE DEF Stops
    <3> QED BY <3>4, <3>5, <3>6, <3>7
  <2>2. CASE ~(k + 1 <= MaxSize)
    BY <2>2
  <2> QED BY <2>1, <2>2
<1> HIDE DEF S, Stops
<1>11. Nat \subseteq S
  BY <1>9, <1>10, NatSetInduction
<1>12. PICK g \in 1..(n + 1) : /\ f[MaxSize] = r[g]
                               /\ \A j \in 1..(g - 1) : v[j] # x
                               /\ g = MaxSize + 1 \/ g = n + 1 \/ v[g] = x
  <2>1. MaxSize \in S /\ MaxSize <= MaxSize
    BY <1>0, <1>11
  <2> QED BY <2>1 DEF S, Stops
<1>13. g \in 1..n => v[g] = x
  BY <1>0, <1>12
<1> QED BY <1>7, <1>12, <1>13 DEF n

\* There is a node for one element more, and the least of them is taken.
LEMMA NodeLeft ==
    ASSUME NEW l, NEW v \in Seq(Nat), NEW r, Ring(l, v, r), MaxSize \in Nat, Len(v) < MaxSize,
           l.used \subseteq Nodes
    PROVE  (CHOOSE p \in Seqs!Node \ l.used : \A o \in Seqs!Node \ l.used : p <= o) \in Nodes \ l.used
<1> DEFINE T == Nodes \ l.used
           R == OpToRel(<, Nat)
<1>1. T # {}
  <2> DEFINE n == Len(v)
             f == [k \in 1..n |-> r[k]]
  <2>1. n \in Nat /\ n < MaxSize
    OBVIOUS
  <2>2. SUFFICES ASSUME l.used = Nodes PROVE FALSE
    OBVIOUS
  <2>3. l.used = {r[k] : k \in 1..n}
    BY DEF Ring
  <2> HIDE DEF n
  <2>4. f \in Surjection(1..n, l.used)
    BY <2>3 DEF Surjection
  <2>5. IsFiniteSet(1..n) /\ Cardinality(1..n) = IF 1 > n THEN 0 ELSE n - 1 + 1
    <3>1. 1 \in Int /\ n \in Int
      BY <2>1
    <3> QED BY ONLY <3>1, FS_Interval
  <2>6. Cardinality(1..MaxSize) = IF 1 > MaxSize THEN 0 ELSE MaxSize - 1 + 1
    BY FS_Interval
  <2>7. Cardinality(l.used) <= Cardinality(1..n)
    <3> HIDE DEF f
    <3> QED BY <2>4, <2>5, FS_Surjection
  <2>8. Cardinality(1..MaxSize) <= Cardinality(1..n)
    BY <2>2, <2>7 DEF Nodes
  <2> QED BY <2>1, <2>5, <2>6, <2>8
<1>2. T \subseteq Nat
  BY DEF Nodes
<1>3. PICK p \in T : \A o \in T : ~ (<<o, p>> \in R)
  <2>1. IsWellFoundedOn(R, Nat)
    BY NatLessThanWellFounded
  <2> HIDE DEF R, T
  <2> QED BY <1>1, <1>2, <2>1, WFMin
<1>4. \A o \in T : p <= o
  <2> TAKE o \in T
  <2>1. o \in Nat /\ p \in Nat
    BY <1>2
  <2>2. o < p => <<o, p>> \in R
    BY <2>1 DEF OpToRel
  <2> HIDE DEF R, T
  <2>3. ~(<<o, p>> \in R)
    BY <1>3
  <2> QED BY <2>1, <2>2, <2>3
<1>5. Seqs!Node \ l.used = T
  BY DEF Seqs!Node, Nodes
<1> HIDE DEF T
<1> QED BY <1>4, <1>5 DEF T

-----------------------------------------------------------------------------
(* Sequences: vectors *)

\* The first cells of a vector are a sequence.
Cellular(c, v) ==
    /\ c = [m_capacity |-> c.m_capacity, m_size |-> Len(v), m_ptr |-> c.m_ptr]
    /\ c.m_capacity \in Nat \ {0} /\ Len(v) <= c.m_capacity
    /\ c.m_ptr \in [0..(c.m_capacity - 1) -> Nat]
    /\ \A k \in 1..Len(v) : c.m_ptr[k - 1] = v[k]

LEMMA PutCells ==
    ASSUME NEW c, NEW v \in Seq(Nat), Cellular(c, v), Len(v) < c.m_capacity,
           NEW i \in 0..Len(v), NEW x \in Nat, NEW u, With(v, i, x, u)
    PROVE  Cellular(Seqs!Put(c, i, x), u)
<1> DEFINE n == Len(v)
           top == c.m_capacity - 1
           cells == c.m_ptr
           moved == Seqs!Moved(cells, i + 1, i, n - i)
           m == Seqs!Put(c, i, x)
<1>1. n \in Nat /\ c.m_capacity \in Nat /\ n < c.m_capacity /\ i \in 0..n /\ top \in Nat /\ n <= top
  BY DEF Cellular
<1>2. cells \in [0..top -> Nat] /\ \A k \in 1..n : cells[k - 1] = v[k]
  BY DEF Cellular
<1>3. moved = [a \in 0..top |-> IF a \in (i + 1)..((i + 1) + (n - i) - 1) THEN cells[i + (a - (i + 1))] ELSE cells[a]]
  BY <1>2 DEF Seqs!Moved
<1>4. m = [m_capacity |-> c.m_capacity, m_size |-> n + 1, m_ptr |-> [moved EXCEPT ![i] = x]]
  <2>1. c = [m_capacity |-> c.m_capacity, m_size |-> n, m_ptr |-> cells]
    BY DEF Cellular
  <2>2. c.m_size = n
    BY <2>1
  <2>3. m = [c EXCEPT !.m_size = n + 1, !.m_ptr = [moved EXCEPT ![i] = x]]
    BY <2>2 DEF Seqs!Put
  <2> HIDE DEF m, n, cells, moved
  <2> QED BY <2>1, <2>3
<1>0. Len(u) = n + 1
  BY DEF With
<1> HIDE DEF n, top, cells, moved, m
<1>5. ASSUME NEW a \in 0..top
      PROVE  moved[a] = IF i < a /\ a <= n THEN cells[a - 1] ELSE cells[a]
  <2>1. (a \in (i + 1)..((i + 1) + (n - i) - 1) <=> i < a /\ a <= n) /\ i + (a - (i + 1)) = a - 1
    BY <1>1
  <2> QED BY <2>1, <1>3
<1>6. \A a \in 0..top : moved[a] \in Nat
  <2> TAKE a \in 0..top
  <2>1. i < a => a - 1 \in 0..top
    BY <1>1
  <2> QED BY <2>1, <1>2, <1>5
<1>7. moved \in [0..top -> Nat]
  BY <1>3, <1>6
<1>8. [moved EXCEPT ![i] = x] \in [0..top -> Nat]
  BY <1>7
<1>9. m.m_capacity = c.m_capacity /\ m.m_size = n + 1 /\ m.m_ptr = [moved EXCEPT ![i] = x]
  BY <1>4
<1>10. ASSUME NEW k \in 1..(n + 1) PROVE m.m_ptr[k - 1] = u[k]
  <2>1. k - 1 \in 0..top /\ i \in 0..top /\ k \in 1..Len(u)
    BY <1>0, <1>1
  <2>2. m.m_ptr[k - 1] = IF k - 1 = i THEN x ELSE moved[k - 1]
    BY <2>1, <1>7, <1>9
  <2>3. u[k] = IF k <= i THEN v[k] ELSE IF k = i + 1 THEN x ELSE v[k - 1]
    BY <2>1 DEF With
  <2>4. CASE k <= i
    <3>1. k - 1 # i /\ ~(i < k - 1) /\ k \in 1..n
      BY <2>4, <1>1
    <3>2. moved[k - 1] = cells[k - 1]
      BY <2>1, <3>1, <1>5
    <3> QED BY <2>2, <2>3, <2>4, <3>1, <3>2, <1>2
  <2>5. CASE k = i + 1
    <3>1. k - 1 = i /\ ~(k <= i)
      BY <2>5, <1>1
    <3> QED BY <2>2, <2>3, <2>5, <3>1
  <2>6. CASE k > i + 1
    <3>1. k - 1 # i /\ i < k - 1 /\ k - 1 <= n /\ ~(k <= i) /\ k # i + 1 /\ k - 1 \in 1..n
      BY <2>6, <1>1
    <3>2. moved[k - 1] = cells[(k - 1) - 1]
      BY <2>1, <3>1, <1>5
    <3>3. cells[(k - 1) - 1] = v[k - 1]
      BY <3>1, <1>2
    <3> QED BY <2>2, <2>3, <3>1, <3>2, <3>3
  <2> QED BY <2>4, <2>5, <2>6, <1>1
<1>11. Len(u) <= m.m_capacity /\ m.m_capacity \in Nat \ {0}
  BY <1>0, <1>1, <1>9 DEF Cellular
<1>12. m.m_ptr \in [0..(m.m_capacity - 1) -> Nat]
  BY <1>8, <1>9 DEF top
<1>13. m = [m_capacity |-> m.m_capacity, m_size |-> Len(u), m_ptr |-> m.m_ptr]
  BY <1>0, <1>4, <1>9
<1>14. Cellular(m, u)
  BY <1>0, <1>10, <1>11, <1>12, <1>13 DEF Cellular
<1> QED BY <1>14 DEF m

LEMMA GrownCells ==
    ASSUME NEW c, NEW v \in Seq(Nat), Cellular(c, v)
    PROVE  Cellular(Seqs!Grown(c), v) /\ Len(v) < Seqs!Grown(c).m_capacity
<1> DEFINE n == Len(v)
           cap == c.m_capacity
           cells == c.m_ptr
           m == Seqs!Grown(c)
           new == [a \in 0..(2 * cap - 1) |-> IF a < n THEN cells[a] ELSE 0]
<1>1. n \in Nat /\ cap \in Nat \ {0} /\ n <= cap
  BY DEF Cellular
<1>2. cells \in [0..(cap - 1) -> Nat] /\ \A k \in 1..n : cells[k - 1] = v[k]
  BY DEF Cellular
<1>3. m = [m_capacity |-> 2 * cap, m_size |-> n, m_ptr |-> new]
  <2>1. c = [m_capacity |-> cap, m_size |-> n, m_ptr |-> cells]
    BY DEF Cellular
  <2>2. c.m_size = n
    BY <2>1
  <2>3. m = [c EXCEPT !.m_capacity = 2 * cap, !.m_ptr = new]
    BY <2>2 DEF Seqs!Grown, Seqs!Garbage
  <2> HIDE DEF m, n, cells, new, cap
  <2> QED BY <2>1, <2>3
<1> HIDE DEF n, cap, cells, m
<1>4. \A a \in 0..(2 * cap - 1) : (IF a < n THEN cells[a] ELSE 0) \in Nat
  <2> TAKE a \in 0..(2 * cap - 1)
  <2>1. a < n => a \in 0..(cap - 1)
    BY <1>1
  <2> QED BY <2>1, <1>2
<1>5. new \in [0..(2 * cap - 1) -> Nat]
  BY <1>4
<1>6. ASSUME NEW k \in 1..n PROVE new[k - 1] = v[k]
  <2>1. k - 1 \in 0..(2 * cap - 1) /\ k - 1 < n
    BY <1>1
  <2> QED BY <2>1, <1>2
<1> HIDE DEF new
<1>7. 2 * cap \in Nat \ {0} /\ n < 2 * cap /\ n <= 2 * cap
  BY <1>1
<1>8. m.m_capacity = 2 * cap /\ m.m_size = n /\ m.m_ptr = new
  BY <1>3
<1>9. Cellular(m, v)
  BY <1>3, <1>5, <1>6, <1>7, <1>8 DEF Cellular, n
<1> QED BY <1>7, <1>8, <1>9 DEF m, n

LEMMA ErasedCells ==
    ASSUME NEW v \in Seq(Nat), Cellular(vec, v),
           NEW i \in Nat, NEW j \in Nat, i < j, j <= Len(v),
           NEW u, Without(v, i, j, u)
    PROVE  Cellular(Seqs!VectorErase(i, j), u)
<1> DEFINE n == Len(v)
           top == vec.m_capacity - 1
           cells == vec.m_ptr
           moved == Seqs!Moved(cells, i, j, n - j)
           m == Seqs!VectorErase(i, j)
           new == IF j = n THEN cells ELSE moved
<1>1. /\ n \in Nat /\ vec.m_capacity \in Nat /\ n <= vec.m_capacity /\ i \in Nat /\ j \in Nat /\ i < j /\ j <= n
      /\ top \in Nat /\ n - 1 <= top
  BY DEF Cellular
<1>2. cells \in [0..top -> Nat] /\ \A k \in 1..n : cells[k - 1] = v[k]
  BY DEF Cellular
<1>3. moved = [a \in 0..top |-> IF a \in i..(i + (n - j) - 1) THEN cells[j + (a - i)] ELSE cells[a]]
  BY <1>2 DEF Seqs!Moved
<1>4. m = [m_capacity |-> vec.m_capacity, m_size |-> n - (j - i), m_ptr |-> new]
  <2>1. vec = [m_capacity |-> vec.m_capacity, m_size |-> n, m_ptr |-> cells]
    BY DEF Cellular
  <2>2. vec.m_size = n
    BY <2>1
  <2>3. m = [vec EXCEPT !.m_size = n - (j - i), !.m_ptr = new]
    BY <2>2 DEF Seqs!VectorErase
  <2> HIDE DEF m, n, cells, new
  <2> QED BY <2>1, <2>3
<1>0. Len(u) = n - (j - i)
  BY DEF Without
<1>num. n \in Nat /\ i \in Nat /\ j \in Nat /\ i < j /\ j <= n /\ top \in Nat
  BY <1>1
<1> HIDE DEF n, top, cells, moved, m
<1>5. ASSUME NEW a \in 0..top
      PROVE  moved[a] = IF i <= a /\ a < n - (j - i) THEN cells[a + (j - i)] ELSE cells[a]
  <2>1. (a \in i..(i + (n - j) - 1) <=> i <= a /\ a < n - (j - i)) /\ j + (a - i) = a + (j - i)
    BY <1>num
  <2> QED BY <2>1, <1>3
<1>6. \A a \in 0..top : moved[a] \in Nat
  <2> TAKE a \in 0..top
  <2>1. i <= a /\ a < n - (j - i) => a + (j - i) \in 0..top
    BY <1>1
  <2> QED BY <2>1, <1>2, <1>5
<1>7. moved \in [0..top -> Nat]
  BY <1>3, <1>6
<1>8. new \in [0..top -> Nat]
  BY <1>2, <1>7
<1>9. m.m_capacity = vec.m_capacity /\ m.m_size = n - (j - i) /\ m.m_ptr = new
  BY <1>4
<1>10. ASSUME NEW k \in 1..(n - (j - i)) PROVE new[k - 1] = u[k]
  <2>1. k - 1 \in 0..top /\ k \in 1..Len(u) /\ k - 1 < n - (j - i)
    BY <1>0, <1>1
  <2>2. u[k] = IF k <= i THEN v[k] ELSE v[k + (j - i)]
    BY <2>1 DEF Without
  <2>3. CASE k <= i
    <3>1. ~(i <= k - 1) /\ k \in 1..n
      <4> HIDE DEF new
      <4> QED BY <2>3, <1>num
    <3>2. moved[k - 1] = cells[k - 1]
      BY <2>1, <3>1, <1>5
    <3>3. cells[k - 1] = v[k]
      BY <3>1, <1>2
    <3> QED BY <2>2, <2>3, <3>2, <3>3
  <2>4. CASE ~(k <= i)
    <3>1. i <= k - 1 /\ k + (j - i) \in 1..n /\ (k - 1) + (j - i) = (k + (j - i)) - 1 /\ j # n
      BY <2>4, <1>1
    <3>2. moved[k - 1] = cells[(k - 1) + (j - i)]
      BY <2>1, <3>1, <1>5
    <3>3. cells[(k + (j - i)) - 1] = v[k + (j - i)]
      BY <3>1, <1>2
    <3> QED BY <2>2, <2>4, <3>1, <3>2, <3>3
  <2> QED BY <2>3, <2>4
<1> HIDE DEF new
<1>11. Len(u) <= m.m_capacity /\ m.m_capacity \in Nat \ {0}
  BY <1>0, <1>1, <1>9 DEF Cellular
<1>12. m.m_ptr \in [0..(m.m_capacity - 1) -> Nat]
  BY <1>8, <1>9 DEF top
<1>13. m = [m_capacity |-> m.m_capacity, m_size |-> Len(u), m_ptr |-> m.m_ptr]
  BY <1>0, <1>4, <1>9
<1>14. Cellular(m, u)
  BY <1>0, <1>9, <1>10, <1>11, <1>12, <1>13 DEF Cellular
<1> QED BY <1>14 DEF m

-----------------------------------------------------------------------------
(* What a client asks for, as a sequence *)

LEMMA Inserted ==
    ASSUME NEW v \in Seq(Nat), NEW i \in 0..Len(v), NEW x \in Nat
    PROVE  With(v, i, x, Seqs!InsertAt(v, i + 1, x))
<1> DEFINE n == Len(v)
           a == SubSeq(v, 1, i)
           b == SubSeq(v, i + 1, n)
           ax == a \o <<x>>
           u == ax \o b
<1>1. n \in Nat /\ i \in 0..n
  OBVIOUS
<1>2. \A k \in 1..n : v[k] \in Nat
  BY ElementOfSeq
<1>3. Seqs!InsertAt(v, i + 1, x) = u
  <2>1. (i + 1) - 1 = i
    BY <1>1
  <2> QED BY <2>1 DEF Seqs!InsertAt
<1> HIDE DEF n
<1>4. a \in Seq(Nat) /\ Len(a) = i /\ \A k \in 1..i : a[k] = v[k]
  <2>1. 1 \in Int /\ i \in Int /\ \A k \in 1..i : v[k] \in Nat
    BY <1>1, <1>2
  <2>2. /\ a \in Seq(Nat) /\ Len(a) = IF 1 <= i THEN i - 1 + 1 ELSE 0
        /\ \A k \in 1..(i - 1 + 1) : a[k] = v[1 + k - 1]
    BY ONLY <2>1, SubSeqProperties
  <2>3. (IF 1 <= i THEN i - 1 + 1 ELSE 0) = i /\ i - 1 + 1 = i /\ \A k \in 1..i : 1 + k - 1 = k
    BY <1>1
  <2> HIDE DEF a
  <2> QED BY <2>2, <2>3
<1>5. b \in Seq(Nat) /\ Len(b) = n - i /\ \A k \in 1..(n - i) : b[k] = v[i + k]
  <2>1. i + 1 \in Int /\ n \in Int /\ \A k \in (i + 1)..n : v[k] \in Nat
    BY <1>1, <1>2
  <2>2. /\ b \in Seq(Nat) /\ Len(b) = IF i + 1 <= n THEN n - (i + 1) + 1 ELSE 0
        /\ \A k \in 1..(n - (i + 1) + 1) : b[k] = v[(i + 1) + k - 1]
    BY ONLY <2>1, SubSeqProperties
  <2>3. (IF i + 1 <= n THEN n - (i + 1) + 1 ELSE 0) = n - i /\ n - (i + 1) + 1 = n - i
        /\ \A k \in 1..(n - i) : (i + 1) + k - 1 = i + k
    BY <1>1
  <2> HIDE DEF b
  <2> QED BY <2>2, <2>3
<1> HIDE DEF a, b
<1>6. <<x>> \in Seq(Nat) /\ Len(<<x>>) = 1 /\ <<x>>[1] = x
  OBVIOUS
<1>7. /\ ax \in Seq(Nat) /\ Len(ax) = i + 1
      /\ \A k \in 1..(i + 1) : ax[k] = IF k <= i THEN v[k] ELSE x
  <2>1. /\ ax \in Seq(Nat) /\ Len(ax) = Len(a) + Len(<<x>>)
        /\ \A k \in 1..(Len(a) + Len(<<x>>)) : ax[k] = IF k <= Len(a) THEN a[k] ELSE <<x>>[k - Len(a)]
    BY <1>4, <1>6, ConcatProperties
  <2>2. ASSUME NEW k \in 1..(i + 1) PROVE (k <= i /\ k \in 1..i) \/ (~(k <= i) /\ k - i = 1)
    BY <1>1
  <2> HIDE DEF ax
  <2> QED BY <2>1, <2>2, <1>4, <1>6
<1> HIDE DEF ax
<1>8. /\ u \in Seq(Nat) /\ Len(u) = (i + 1) + (n - i)
      /\ \A k \in 1..((i + 1) + (n - i)) : u[k] = IF k <= i + 1 THEN ax[k] ELSE b[k - (i + 1)]
  <2>1. /\ u \in Seq(Nat) /\ Len(u) = Len(ax) + Len(b)
        /\ \A k \in 1..(Len(ax) + Len(b)) : u[k] = IF k <= Len(ax) THEN ax[k] ELSE b[k - Len(ax)]
    BY <1>5, <1>7, ConcatProperties
  <2> HIDE DEF u
  <2> QED BY <2>1, <1>5, <1>7
<1> HIDE DEF u
<1>9. (i + 1) + (n - i) = n + 1
  BY <1>1
<1>10. ASSUME NEW k \in 1..(n + 1)
       PROVE  u[k] = IF k <= i THEN v[k] ELSE IF k = i + 1 THEN x ELSE v[k - 1]
  <2>1. CASE k <= i + 1
    <3>1. k \in 1..(i + 1) /\ (~(k <= i) => k = i + 1)
      BY <2>1, <1>1
    <3> QED BY <2>1, <3>1, <1>7, <1>8, <1>9
  <2>2. CASE ~(k <= i + 1)
    <3>1. k - (i + 1) \in 1..(n - i) /\ i + (k - (i + 1)) = k - 1 /\ ~(k <= i) /\ k # i + 1
      BY <2>2, <1>1
    <3>2. b[k - (i + 1)] = v[k - 1]
      BY <3>1, <1>5
    <3> QED BY <2>2, <3>1, <3>2, <1>8, <1>9
  <2> QED BY <2>1, <2>2
<1>11. With(v, i, x, u)
  BY <1>8, <1>9, <1>10 DEF n, With
<1> QED BY <1>3, <1>11

LEMMA Erased ==
    ASSUME NEW v \in Seq(Nat), NEW i \in Nat, NEW j \in Nat, i < j, j <= Len(v)
    PROVE  Without(v, i, j, SubSeq(v, 1, i) \o SubSeq(v, j + 1, Len(v)))
<1> DEFINE n == Len(v)
           a == SubSeq(v, 1, i)
           b == SubSeq(v, j + 1, n)
           u == a \o b
<1>1. n \in Nat /\ i \in Nat /\ j \in Nat /\ i < j /\ j <= n
  OBVIOUS
<1>2. \A k \in 1..n : v[k] \in Nat
  BY ElementOfSeq
<1> HIDE DEF n
<1>4. a \in Seq(Nat) /\ Len(a) = i /\ \A k \in 1..i : a[k] = v[k]
  <2>1. 1 \in Int /\ i \in Int /\ \A k \in 1..i : v[k] \in Nat
    BY <1>1, <1>2
  <2>2. /\ a \in Seq(Nat) /\ Len(a) = IF 1 <= i THEN i - 1 + 1 ELSE 0
        /\ \A k \in 1..(i - 1 + 1) : a[k] = v[1 + k - 1]
    BY ONLY <2>1, SubSeqProperties
  <2>3. (IF 1 <= i THEN i - 1 + 1 ELSE 0) = i /\ i - 1 + 1 = i /\ \A k \in 1..i : 1 + k - 1 = k
    BY <1>1
  <2> HIDE DEF a
  <2> QED BY <2>2, <2>3
<1>5. b \in Seq(Nat) /\ Len(b) = n - j /\ \A k \in 1..(n - j) : b[k] = v[j + k]
  <2>1. j + 1 \in Int /\ n \in Int /\ \A k \in (j + 1)..n : v[k] \in Nat
    BY <1>1, <1>2
  <2>2. /\ b \in Seq(Nat) /\ Len(b) = IF j + 1 <= n THEN n - (j + 1) + 1 ELSE 0
        /\ \A k \in 1..(n - (j + 1) + 1) : b[k] = v[(j + 1) + k - 1]
    BY ONLY <2>1, SubSeqProperties
  <2>3. (IF j + 1 <= n THEN n - (j + 1) + 1 ELSE 0) = n - j /\ n - (j + 1) + 1 = n - j
        /\ \A k \in 1..(n - j) : (j + 1) + k - 1 = j + k
    BY <1>1
  <2> HIDE DEF b
  <2> QED BY <2>2, <2>3
<1> HIDE DEF a, b
<1>6. /\ u \in Seq(Nat) /\ Len(u) = i + (n - j)
      /\ \A k \in 1..(i + (n - j)) : u[k] = IF k <= i THEN a[k] ELSE b[k - i]
  <2>1. /\ u \in Seq(Nat) /\ Len(u) = Len(a) + Len(b)
        /\ \A k \in 1..(Len(a) + Len(b)) : u[k] = IF k <= Len(a) THEN a[k] ELSE b[k - Len(a)]
    <3>1. a \in Seq(Nat) /\ b \in Seq(Nat)
      BY <1>4, <1>5
    <3> QED BY ONLY <3>1, ConcatProperties
  <2> HIDE DEF u
  <2> QED BY <2>1, <1>4, <1>5
<1> HIDE DEF u
<1>7. i + (n - j) = n - (j - i)
  BY <1>1
<1>8. ASSUME NEW k \in 1..(n - (j - i)) PROVE u[k] = IF k <= i THEN v[k] ELSE v[k + (j - i)]
  <2>1. CASE k <= i
    <3>1. k \in 1..i
      BY <2>1, <1>1
    <3> QED BY <2>1, <3>1, <1>4, <1>6, <1>7
  <2>2. CASE ~(k <= i)
    <3>1. k - i \in 1..(n - j) /\ j + (k - i) = k + (j - i)
      BY <2>2, <1>1
    <3>2. b[k - i] = v[k + (j - i)]
      BY <3>1, <1>5
    <3> QED BY <2>2, <3>2, <1>6, <1>7
  <2> QED BY <2>1, <2>2
<1>9. Without(v, i, j, u)
  BY <1>6, <1>7, <1>8 DEF n, Without
<1> QED BY <1>9 DEF u, a, b, n

-----------------------------------------------------------------------------
(* Sequences: the invariant *)

\* A list is a ring of the nodes it uses, in the order of the sequence; a
\* vector has the sequence in its first cells.
SequenceInv ==
    /\ kind \in {"vector", "vectorEx", "list"}
    /\ value \in Seq(Nat) /\ Len(value) <= MaxSize
    /\ kind = "list" => list \in ListOf /\ \E r : Ring(list, value, r)
    /\ kind # "list" => Cellular(vec, value)

LEMMA SequenceInit ==
    ASSUME Seqs!SequencesAssumption, Seqs!Init
    PROVE  SequenceInv
<1>1. /\ kind \in {"vector", "vectorEx", "list"} /\ value = <<>>
      /\ vec = [m_capacity |-> Capacity, m_size |-> 0, m_ptr |-> [c \in 0..(Capacity - 1) |-> 0]]
      /\ list = [next |-> [n \in Place |-> n], prev |-> [n \in Place |-> n],
                 data |-> [n \in Nodes |-> 0], used |-> {}, size |-> 0]
  <2>1. {0} \cup 1..MaxSize = Place
    BY DEF Place, Seqs!SequencesAssumption
  <2> QED BY <2>1 DEF Seqs!Init, Seqs!HEAD, Seqs!Node, Seqs!Garbage, Nodes
<1>2. value \in Seq(Nat) /\ Len(value) = 0
  BY <1>1
<1>3. MaxSize \in Nat /\ Capacity \in Nat \ {0}
  BY DEF Seqs!SequencesAssumption
<1>4. list \in ListOf
  <2>1. /\ [n \in Place |-> n] \in [Place -> Place] /\ [n \in Nodes |-> 0] \in [Nodes -> Nat]
        /\ {} \in SUBSET Nodes /\ 0 \in Int
    OBVIOUS
  <2> QED BY <2>1, <1>1 DEF ListOf
<1>5. \E r : Ring(list, value, r)
  <2> DEFINE r == [k \in 0..1 |-> 0]
  <2>1. 0 \in Place
    BY <1>3 DEF Place
  <2>2. r \in [0..1 -> Place] /\ r[0] = 0 /\ r[1] = 0
    BY <2>1
  <2>3. list.next[0] = 0 /\ list.prev[0] = 0 /\ list.used = {} /\ list.size = 0
    BY <2>1, <1>1
  <2> HIDE DEF r
  <2>4. ASSUME NEW k \in 0..0 PROVE list.next[r[k]] = r[k + 1] /\ list.prev[r[k + 1]] = r[k]
    BY <2>2, <2>3
  <2>5. {r[k] : k \in 1..0} = {}
    OBVIOUS
  <2>6. Ring(list, value, r)
    BY <1>2, <2>2, <2>3, <2>4, <2>5 DEF Ring
  <2> QED BY <2>6
<1>6. Cellular(vec, value)
  <2>1. [c \in 0..(Capacity - 1) |-> 0] \in [0..(Capacity - 1) -> Nat]
    OBVIOUS
  <2>2. vec.m_capacity = Capacity /\ vec.m_ptr = [c \in 0..(Capacity - 1) |-> 0]
    BY <1>1
  <2> QED BY <1>1, <1>2, <1>3, <2>1, <2>2 DEF Cellular
<1>7. kind \in {"vector", "vectorEx", "list"} /\ Len(value) <= MaxSize
  <2>1. kind \in {"vector", "vectorEx", "list"}
    BY <1>1
  <2>2. Len(value) <= MaxSize
    BY <1>2, <1>3
  <2> QED BY <2>1, <2>2
<1> QED BY <1>2, <1>4, <1>5, <1>6, <1>7 DEF SequenceInv

LEMMA InsertKeeps ==
    ASSUME Seqs!SequencesAssumption, SequenceInv,
           NEW i \in 0..MaxSize, NEW x \in Element, NEW given \in BOOLEAN, Seqs!Insert(i, x, given)
    PROVE  SequenceInv'
<1> DEFINE u == Seqs!InsertAt(value, i + 1, x)
<1>1. MaxSize \in Nat /\ x \in Nat /\ value \in Seq(Nat) /\ Len(value) \in Nat
  BY DEF Seqs!SequencesAssumption, SequenceInv
<1>2. Len(value) < MaxSize /\ i \in 0..Len(value) /\ kind' = kind
  BY DEF Seqs!Insert
<1>3. With(value, i, x, u)
  BY <1>1, <1>2, Inserted
<1>4. u \in Seq(Nat) /\ Len(u) <= MaxSize
  <2> HIDE DEF u
  <2>1. u \in Seq(Nat) /\ Len(u) = Len(value) + 1
    BY <1>3 DEF With
  <2> QED BY <1>1, <1>2, <2>1
<1>5. CASE kind = "list"
  <2> DEFINE new == CHOOSE p \in Seqs!Node \ list.used : \A o \in Seqs!Node \ list.used : p <= o
  <2>1. list' = Seqs!Linked(list, Seqs!NodeAt(list, i), new, x) /\ value' = u
    BY <1>5 DEF Seqs!Insert
  <2>2. list \in ListOf
    BY <1>5 DEF SequenceInv
  <2>3. PICK r : Ring(list, value, r)
    BY <1>5 DEF SequenceInv
  <2>4. new \in Nodes \ list.used
    <3>1. list.used \subseteq Nodes
      BY <2>2 DEF ListOf
    <3> QED BY <1>1, <1>2, <2>3, <3>1, NodeLeft
  <2> HIDE DEF new, u
  <2>5. Seqs!NodeAt(list, i) = r[i + 1]
    BY <1>1, <1>2, <2>3, NodeIsAt
  <2>6. r[i + 1] \in Place
    <3>1. i + 1 \in 0..(Len(value) + 1)
      BY <1>1, <1>2
    <3>2. r \in [0..(Len(value) + 1) -> Place]
      BY <2>3 DEF Ring
    <3> QED BY <3>1, <3>2
  <2>7. list' \in ListOf
    <3>1. new \in Nodes
      BY <2>4
    <3>2. Seqs!Linked(list, r[i + 1], new, x) \in ListOf
      BY <1>1, <2>2, <2>6, <3>1, LinkedFields
    <3> QED BY <2>1, <2>5, <3>2
  <2>8. \E q : Ring(list', u, q)
    <3>1. \E q : Ring(Seqs!Linked(list, r[i + 1], new, x), u, q)
      BY <1>1, <1>2, <1>3, <2>2, <2>3, <2>4, LinkedRing
    <3> QED BY <2>1, <2>5, <3>1
  <2> QED BY <1>2, <1>3, <1>4, <1>5, <2>1, <2>7, <2>8 DEF SequenceInv
<1>6. CASE kind # "list"
  <2>0. Cellular(vec, value) /\ kind \in {"vector", "vectorEx"}
    BY <1>6 DEF SequenceInv
  <2>1. /\ vec' = Seqs!VectorInsert(i, x, given)
        /\ value' = IF vec.m_size < vec.m_capacity \/ (kind = "vectorEx" /\ given) THEN u ELSE value
    BY <1>6 DEF Seqs!Insert
  <2>2. vec.m_size = Len(value) /\ vec.m_capacity \in Nat
    BY <2>0 DEF Cellular
  <2> HIDE DEF u
  <2>3. CASE vec.m_size < vec.m_capacity
    <3>1. vec' = Seqs!Put(vec, i, x) /\ value' = u
      BY <2>1, <2>3 DEF Seqs!VectorInsert
    <3>2. Cellular(Seqs!Put(vec, i, x), u)
      BY <1>1, <1>2, <1>3, <2>0, <2>2, <2>3, PutCells
    <3> QED BY <1>2, <1>3, <1>4, <1>6, <2>0, <3>1, <3>2 DEF SequenceInv
  <2>4. CASE ~(vec.m_size < vec.m_capacity) /\ kind = "vectorEx" /\ given
    <3>1. vec' = Seqs!Put(Seqs!Grown(vec), i, x) /\ value' = u
      BY <2>1, <2>4 DEF Seqs!VectorInsert
    <3>2. Cellular(Seqs!Grown(vec), value) /\ Len(value) < Seqs!Grown(vec).m_capacity
      BY <1>1, <2>0, GrownCells
    <3>3. Cellular(Seqs!Put(Seqs!Grown(vec), i, x), u)
      BY <1>1, <1>2, <1>3, <3>2, PutCells
    <3> QED BY <1>2, <1>3, <1>4, <1>6, <2>0, <3>1, <3>3 DEF SequenceInv
  <2>5. CASE ~(vec.m_size < vec.m_capacity) /\ ~(kind = "vectorEx" /\ given)
    <3>1. vec' = vec /\ value' = value
      BY <2>1, <2>5 DEF Seqs!VectorInsert
    <3> QED BY <1>1, <1>2, <1>6, <2>0, <3>1 DEF SequenceInv
  <2> QED BY <2>3, <2>4, <2>5
<1> QED BY <1>5, <1>6

LEMMA EraseKeeps ==
    ASSUME Seqs!SequencesAssumption, SequenceInv,
           NEW i \in 0..MaxSize, NEW j \in 0..MaxSize, Seqs!Erase(i, j)
    PROVE  SequenceInv'
<1> DEFINE u == SubSeq(value, 1, i) \o SubSeq(value, j + 1, Len(value))
<1>1. MaxSize \in Nat /\ value \in Seq(Nat) /\ Len(value) \in Nat /\ Len(value) <= MaxSize
  BY DEF Seqs!SequencesAssumption, SequenceInv
<1>2. i \in Nat /\ j \in Nat /\ i < j /\ j <= Len(value) /\ kind' = kind /\ value' = u
  BY DEF Seqs!Erase
<1>3. Without(value, i, j, u)
  BY <1>1, <1>2, Erased
<1>4. u \in Seq(Nat) /\ Len(u) <= MaxSize
  <2> HIDE DEF u
  <2>1. u \in Seq(Nat) /\ Len(u) = Len(value) - (j - i)
    BY <1>3 DEF Without
  <2> QED BY <1>1, <1>2, <2>1
<1>5. CASE kind = "list"
  <2>1. list' = Seqs!UnlinkedTo(list, Seqs!NodeAt(list, i), Seqs!NodeAt(list, j))
    BY <1>5 DEF Seqs!Erase
  <2>2. list \in ListOf
    BY <1>5 DEF SequenceInv
  <2>3. PICK r : Ring(list, value, r)
    BY <1>5 DEF SequenceInv
  <2> HIDE DEF u
  <2>4. i \in 0..Len(value) /\ j \in 0..Len(value)
    BY <1>1, <1>2
  <2>5. Seqs!NodeAt(list, i) = r[i + 1] /\ Seqs!NodeAt(list, j) = r[j + 1]
    BY <1>1, <2>3, <2>4, NodeIsAt
  <2>6. list' \in ListOf /\ \E q : Ring(list', u, q)
    <3>1. LET m == Seqs!UnlinkedTo(list, r[i + 1], r[j + 1])
          IN  m \in ListOf /\ \E q : Ring(m, u, q)
      BY <1>1, <1>2, <1>3, <2>2, <2>3, RangeUnlinked
    <3> QED BY <2>1, <2>5, <3>1
  <2> QED BY <1>2, <1>3, <1>4, <1>5, <2>6 DEF SequenceInv
<1>6. CASE kind # "list"
  <2>1. vec' = Seqs!VectorErase(i, j)
    BY <1>6 DEF Seqs!Erase
  <2>2. Cellular(vec, value) /\ kind \in {"vector", "vectorEx"}
    BY <1>6 DEF SequenceInv
  <2> HIDE DEF u
  <2>3. Cellular(Seqs!VectorErase(i, j), u)
    BY <1>1, <1>2, <1>3, <2>2, ErasedCells
  <2> QED BY <1>2, <1>3, <1>4, <1>6, <2>1, <2>2, <2>3 DEF SequenceInv
<1> QED BY <1>5, <1>6

LEMMA InvariantKeepsSequence ==
    ASSUME Seqs!SequencesAssumption, SequenceInv
    PROVE  Seqs!SequenceKept
<1> DEFINE n == Len(value)
<1>1. MaxSize \in Nat /\ value \in Seq(Nat) /\ n \in Nat /\ n <= MaxSize /\ Element \subseteq Nat
  BY DEF Seqs!SequencesAssumption, SequenceInv
<1>2. value = [k \in 1..n |-> value[k]]
  BY <1>1
<1>3. CASE kind # "list"
  <2>1. Cellular(vec, value)
    BY <1>3 DEF SequenceInv
  <2> HIDE DEF n
  <2>2. vec.m_size = n /\ \A k \in 1..n : vec.m_ptr[k - 1] = value[k]
    BY <2>1 DEF Cellular, n
  <2>3. Seqs!Contents = [k \in 1..vec.m_size |-> vec.m_ptr[k - 1]]
    BY <1>3 DEF Seqs!Contents
  <2>4. Seqs!Contents = value
    BY <1>2, <2>2, <2>3
  <2> QED BY <1>3, <2>4 DEF Seqs!SequenceKept
<1>4. CASE kind = "list"
  <2>1. list \in ListOf
    BY <1>4 DEF SequenceInv
  <2>2. PICK r : Ring(list, value, r)
    BY <1>4 DEF SequenceInv
  <2>3. /\ r[0] = 0 /\ r[n + 1] = 0
        /\ \A k \in 1..n : list.data[r[k]] = value[k]
        /\ \A k \in 0..n : list.next[r[k]] = r[k + 1] /\ list.prev[r[k + 1]] = r[k]
        /\ list.used = {r[k] : k \in 1..n} /\ list.size = n
    BY <2>2 DEF Ring
  <2>4. \A k \in 0..n : Seqs!NodeAt(list, k) = r[k + 1]
    BY <1>1, <2>2, NodeIsAt
  <2>5. ASSUME NEW x \in Element
        PROVE  \E g \in 1..(n + 1) : /\ Seqs!FindFrom(list.next[0], x) = r[g]
                                     /\ \A j \in 1..(g - 1) : value[j] # x
                                     /\ g \in 1..n => value[g] = x
    <3>1. x \in Nat /\ Len(value) <= MaxSize
      BY <1>1
    <3>2. \E g \in 1..(Len(value) + 1) :
               /\ Seqs!FindFrom(list.next[0], x) = r[g]
               /\ \A j \in 1..(g - 1) : value[j] # x
               /\ g \in 1..Len(value) => value[g] = x
      BY <1>1, <2>1, <2>2, <3>1, Found
    <3> QED BY <3>2
  <2>0. DOMAIN value = 1..n
    BY <1>1
  <2> HIDE DEF n
  <2>6. \A k \in 1..n : Seqs!NodeAt(list, k - 1) = r[k]
    <3> TAKE k \in 1..n
    <3>1. k - 1 \in 0..n /\ (k - 1) + 1 = k
      BY <1>1
    <3> QED BY <3>1, <2>4
  <2>7. Seqs!Contents = value
    <3>1. Seqs!Contents = [k \in 1..list.size |-> list.data[Seqs!NodeAt(list, k - 1)]]
      BY <1>4 DEF Seqs!Contents
    <3> QED BY <1>2, <2>3, <2>6, <3>1
  <2>8. Seqs!NodeAt(list, Len(value)) = 0
    <3>1. n \in 0..n
      BY <1>1
    <3> QED BY <2>3, <2>4, <3>1 DEF n
  <2>9. \A p \in {0} \cup list.used : list.prev[list.next[p]] = p
    <3> TAKE p \in {0} \cup list.used
    <3>1. PICK k \in 0..n : p = r[k]
      <4>1. 0 \in 0..n /\ \A k \in 1..n : k \in 0..n
        BY <1>1
      <4> QED BY <4>1, <2>3
    <3> QED BY <3>1, <2>3
  <2>10. ASSUME NEW x \in Element
         PROVE  LET m == Seqs!FindFrom(list.next[0], x)
                IN  IF \E k \in DOMAIN value : value[k] = x
                    THEN \E k \in DOMAIN value :
                             /\ m = Seqs!NodeAt(list, k - 1) /\ value[k] = x
                             /\ \A j \in 1..(k - 1) : value[j] # x
                    ELSE m = 0
    <3>1. PICK g \in 1..(n + 1) : /\ Seqs!FindFrom(list.next[0], x) = r[g]
                                  /\ \A j \in 1..(g - 1) : value[j] # x
                                  /\ g \in 1..n => value[g] = x
      BY <2>5
    <3>2. g \in 1..n \/ g = n + 1
      BY <1>1
    <3>3. CASE g \in 1..n
      BY <3>1, <3>3, <2>0, <2>6
    <3>4. CASE g = n + 1
      <4>1. g - 1 = n
        BY <3>4, <1>1
      <4>2. ~ \E k \in DOMAIN value : value[k] = x
        BY <4>1, <3>1, <2>0
      <4> QED BY <4>2, <3>1, <3>4, <2>3
    <3> QED BY <3>2, <3>3, <3>4
  <2> QED BY <2>7, <2>8, <2>9, <2>10 DEF Seqs!SequenceKept, Seqs!HEAD
<1> QED BY <1>3, <1>4

\* After any insertions and erasures, a vector, a growing vector and a list
\* hold the sequence a client expects; a list leads back to its head both ways
\* and finds the first of equal elements.  For any capacity, any bound on the
\* size and any elements.
THEOREM SequenceCorrect ==
    ASSUME Seqs!SequencesAssumption
    PROVE  Seqs!Spec => []Seqs!SequenceKept
<1>1. Seqs!Init => SequenceInv
  BY SequenceInit
<1>2. SequenceInv /\ [Seqs!Next]_Seqs!vars => SequenceInv'
  <2> SUFFICES ASSUME SequenceInv, [Seqs!Next]_Seqs!vars
               PROVE  SequenceInv'
    OBVIOUS
  <2>1. ASSUME NEW i \in 0..MaxSize, NEW x \in Element, NEW b \in BOOLEAN, Seqs!Insert(i, x, b)
        PROVE  SequenceInv'
    BY <2>1, InsertKeeps
  <2>2. ASSUME NEW i \in 0..MaxSize, NEW j \in 0..MaxSize, Seqs!Erase(i, j)
        PROVE  SequenceInv'
    BY <2>2, EraseKeeps
  <2>3. CASE UNCHANGED Seqs!vars
    BY <2>3 DEF Seqs!vars, SequenceInv, Ring, Cellular
  <2> QED BY <2>1, <2>2, <2>3 DEF Seqs!Next
<1>3. SequenceInv => Seqs!SequenceKept
  BY InvariantKeepsSequence
<1> QED BY <1>1, <1>2, <1>3, PTL DEF Seqs!Spec

-----------------------------------------------------------------------------
(* AEEBase64: what was encoded has the bits of the message *)

\* The least of a set of natural numbers.
LEMMA LeastNumber ==
    ASSUME NEW T \in SUBSET Nat, T # {}
    PROVE  \E x \in T : \A y \in T : x <= y
<1> DEFINE R == OpToRel(<, Nat)
<1>1. IsWellFoundedOn(R, Nat)
  BY NatLessThanWellFounded
<1>2. PICK x \in T : \A y \in T : ~ (<<y, x>> \in R)
  <2> HIDE DEF R
  <2> QED BY <1>1, WFMin
<1>3. ASSUME NEW y \in T PROVE x <= y
  <2>1. SUFFICES ASSUME y < x PROVE FALSE
    BY x \in Nat, y \in Nat
  <2>2. <<y, x>> \in R
    BY <2>1, x \in Nat, y \in Nat DEF OpToRel
  <2> QED BY <1>2, <2>2
<1> QED BY <1>3

\* The four indices of a group have the bits of its three bytes.
BitInBoth(x, y, z, b) ==
    Base64!Bit(<<x, y, z>>[((b - 1) \div 8) + 1], 8, ((b - 1) % 8) + 1)
    = Base64!Bit(<<x \div 4, ((x % 4) * 16) + (y \div 16), ((y % 16) * 4) + (z \div 64), z % 64>>
                     [((b - 1) \div 6) + 1], 6, ((b - 1) % 6) + 1)

LEMMA FourBits ==
    ASSUME NEW x \in 0..255, NEW y \in 0..255, NEW z \in 0..255, NEW b \in 1..24
    PROVE  BitInBoth(x, y, z, b)
<1> DEFINE w == x \div 4
           u == ((x % 4) * 16) + (y \div 16)
           v == ((y % 16) * 4) + (z \div 64)
           t == z % 64
           Eighth(n) == Base64!Bit(<<x, y, z>>[((n - 1) \div 8) + 1], 8, ((n - 1) % 8) + 1)
           Sixth(n) == Base64!Bit(<<w, u, v, t>>[((n - 1) \div 6) + 1], 6, ((n - 1) % 6) + 1)
<1>1. /\ Eighth(1) = (x \div 128) % 2 /\ Eighth(2) = (x \div 64) % 2
      /\ Eighth(3) = (x \div 32) % 2 /\ Eighth(4) = (x \div 16) % 2
      /\ Eighth(5) = (x \div 8) % 2 /\ Eighth(6) = (x \div 4) % 2
      /\ Eighth(7) = (x \div 2) % 2 /\ Eighth(8) = (x \div 1) % 2
      /\ Eighth(9) = (y \div 128) % 2 /\ Eighth(10) = (y \div 64) % 2
      /\ Eighth(11) = (y \div 32) % 2 /\ Eighth(12) = (y \div 16) % 2
      /\ Eighth(13) = (y \div 8) % 2 /\ Eighth(14) = (y \div 4) % 2
      /\ Eighth(15) = (y \div 2) % 2 /\ Eighth(16) = (y \div 1) % 2
      /\ Eighth(17) = (z \div 128) % 2 /\ Eighth(18) = (z \div 64) % 2
      /\ Eighth(19) = (z \div 32) % 2 /\ Eighth(20) = (z \div 16) % 2
      /\ Eighth(21) = (z \div 8) % 2 /\ Eighth(22) = (z \div 4) % 2
      /\ Eighth(23) = (z \div 2) % 2 /\ Eighth(24) = (z \div 1) % 2
  BY DEF Base64!Bit, Base64!Powers
<1>2. /\ Sixth(1) = (w \div 32) % 2 /\ Sixth(2) = (w \div 16) % 2
      /\ Sixth(3) = (w \div 8) % 2 /\ Sixth(4) = (w \div 4) % 2
      /\ Sixth(5) = (w \div 2) % 2 /\ Sixth(6) = (w \div 1) % 2
      /\ Sixth(7) = (u \div 32) % 2 /\ Sixth(8) = (u \div 16) % 2
      /\ Sixth(9) = (u \div 8) % 2 /\ Sixth(10) = (u \div 4) % 2
      /\ Sixth(11) = (u \div 2) % 2 /\ Sixth(12) = (u \div 1) % 2
      /\ Sixth(13) = (v \div 32) % 2 /\ Sixth(14) = (v \div 16) % 2
      /\ Sixth(15) = (v \div 8) % 2 /\ Sixth(16) = (v \div 4) % 2
      /\ Sixth(17) = (v \div 2) % 2 /\ Sixth(18) = (v \div 1) % 2
      /\ Sixth(19) = (t \div 32) % 2 /\ Sixth(20) = (t \div 16) % 2
      /\ Sixth(21) = (t \div 8) % 2 /\ Sixth(22) = (t \div 4) % 2
      /\ Sixth(23) = (t \div 2) % 2 /\ Sixth(24) = (t \div 1) % 2
  BY DEF Base64!Bit, Base64!Powers
<1>3. /\ (x \div 128) % 2 = (w \div 32) % 2 /\ (x \div 64) % 2 = (w \div 16) % 2
      /\ (x \div 32) % 2 = (w \div 8) % 2 /\ (x \div 16) % 2 = (w \div 4) % 2
      /\ (x \div 8) % 2 = (w \div 2) % 2 /\ (x \div 4) % 2 = (w \div 1) % 2
      /\ (x \div 2) % 2 = (u \div 32) % 2 /\ (x \div 1) % 2 = (u \div 16) % 2
  <2>1. PICK a \in 0..3, h \in 0..15 : a = x % 4 /\ h = y \div 16
    OBVIOUS
  <2>2. u = 16 * a + h
    BY <2>1
  <2>3. (u \div 32) % 2 = (a \div 2) % 2 /\ (u \div 16) % 2 = a % 2
    <3> HIDE DEF u
    <3> QED BY <2>2
  <2>4. (a \div 2) % 2 = (x \div 2) % 2 /\ a % 2 = x % 2
    BY <2>1
  <2>5. /\ w \div 32 = x \div 128 /\ w \div 16 = x \div 64 /\ w \div 8 = x \div 32
        /\ w \div 4 = x \div 16 /\ w \div 2 = x \div 8 /\ w \div 1 = x \div 4 /\ x \div 1 = x
    OBVIOUS
  <2> HIDE DEF w, u
  <2> QED BY <2>3, <2>4, <2>5
<1>4. /\ (y \div 128) % 2 = (u \div 8) % 2 /\ (y \div 64) % 2 = (u \div 4) % 2
      /\ (y \div 32) % 2 = (u \div 2) % 2 /\ (y \div 16) % 2 = (u \div 1) % 2
      /\ (y \div 8) % 2 = (v \div 32) % 2 /\ (y \div 4) % 2 = (v \div 16) % 2
      /\ (y \div 2) % 2 = (v \div 8) % 2 /\ (y \div 1) % 2 = (v \div 4) % 2
  <2>0. PICK a \in 0..3, h \in 0..15 : a = x % 4 /\ h = y \div 16
    OBVIOUS
  <2>1. PICK c \in 0..15, d \in 0..3 : c = y % 16 /\ d = z \div 64
    OBVIOUS
  <2>2. u = 16 * a + h /\ v = 4 * c + d
    BY <2>0, <2>1
  <2> HIDE DEF u, v
  <2>3. /\ (u \div 8) % 2 = (h \div 8) % 2 /\ (u \div 4) % 2 = (h \div 4) % 2
        /\ (u \div 2) % 2 = (h \div 2) % 2 /\ (u \div 1) % 2 = h % 2
    BY <2>2
  <2>4. h \div 8 = y \div 128 /\ h \div 4 = y \div 64 /\ h \div 2 = y \div 32 /\ h = y \div 16
    BY <2>0
  <2>5. /\ v \div 32 = c \div 8 /\ v \div 16 = c \div 4 /\ v \div 8 = c \div 2 /\ v \div 4 = c
    BY <2>2
  <2>6. /\ (c \div 8) % 2 = (y \div 8) % 2 /\ (c \div 4) % 2 = (y \div 4) % 2
        /\ (c \div 2) % 2 = (y \div 2) % 2 /\ c % 2 = (y \div 1) % 2
    BY <2>1
  <2> QED BY <2>3, <2>4, <2>5, <2>6
<1>5. /\ (z \div 128) % 2 = (v \div 2) % 2 /\ (z \div 64) % 2 = (v \div 1) % 2
      /\ (z \div 32) % 2 = (t \div 32) % 2 /\ (z \div 16) % 2 = (t \div 16) % 2
      /\ (z \div 8) % 2 = (t \div 8) % 2 /\ (z \div 4) % 2 = (t \div 4) % 2
      /\ (z \div 2) % 2 = (t \div 2) % 2 /\ (z \div 1) % 2 = (t \div 1) % 2
  <2>1. PICK c \in 0..15, d \in 0..3 : c = y % 16 /\ d = z \div 64
    OBVIOUS
  <2>2. v = 4 * c + d
    BY <2>1
  <2>3. (v \div 2) % 2 = (d \div 2) % 2 /\ (v \div 1) % 2 = d % 2
    <3> HIDE DEF v
    <3> QED BY <2>2
  <2>4. d \div 2 = z \div 128 /\ d = z \div 64
    BY <2>1
  <2>5. /\ (t \div 32) % 2 = (z \div 32) % 2 /\ (t \div 16) % 2 = (z \div 16) % 2
        /\ (t \div 8) % 2 = (z \div 8) % 2
    OBVIOUS
  <2>6. /\ (t \div 4) % 2 = (z \div 4) % 2 /\ (t \div 2) % 2 = (z \div 2) % 2
        /\ (t \div 1) % 2 = (z \div 1) % 2
    OBVIOUS
  <2> HIDE DEF v, t
  <2> QED BY <2>3, <2>4, <2>5, <2>6
<1> HIDE DEF w, u, v, t
<1>6. Eighth(b) = Sixth(b)
  <2> HIDE DEF Eighth, Sixth
  <2>1. b \in 1..8 => Eighth(b) = Sixth(b)
    BY <1>1, <1>2, <1>3
  <2>2. b \in 9..16 => Eighth(b) = Sixth(b)
    BY <1>1, <1>2, <1>4
  <2>3. b \in 17..24 => Eighth(b) = Sixth(b)
    BY <1>1, <1>2, <1>5
  <2> QED BY <2>1, <2>2, <2>3
<1> QED BY <1>6, Zenon DEF w, u, v, t, BitInBoth

\* The four indices of three bytes are indices, and give the bytes again.
IndicesOf(c, x, y, z) ==
    /\ c[1] = x \div 4 /\ c[2] = ((x % 4) * 16) + (y \div 16)
    /\ c[3] = ((y % 16) * 4) + (z \div 64) /\ c[4] = z % 64

BytesAre(b, x, y, z) == b[1] = x /\ b[2] = y /\ b[3] = z

LEMMA ThreeOfFour ==
    ASSUME NEW x \in 0..255, NEW y \in 0..255, NEW z \in 0..255, NEW c, IndicesOf(c, x, y, z)
    PROVE  (\A k \in 1..4 : c[k] \in 0..63) /\ BytesAre(Base64!Three(c), x, y, z)
<1>1. /\ x \div 4 \in 0..63 /\ x % 4 \in 0..3 /\ x = 4 * (x \div 4) + (x % 4)
      /\ y \div 16 \in 0..15 /\ y % 16 \in 0..15 /\ y = 16 * (y \div 16) + (y % 16)
      /\ z \div 64 \in 0..3 /\ z % 64 \in 0..63 /\ z = 64 * (z \div 64) + (z % 64)
  OBVIOUS
<1> DEFINE a == x % 4
           p == x \div 4
           h == y \div 16
           q == y % 16
           d == z \div 64
           t == z % 64
<1>2. c[1] = p /\ c[2] = a * 16 + h /\ c[3] = q * 4 + d /\ c[4] = t
  BY Zenon DEF IndicesOf
<1>3. /\ a \in 0..3 /\ p \in 0..63 /\ h \in 0..15 /\ q \in 0..15 /\ d \in 0..3 /\ t \in 0..63
      /\ x = 4 * p + a /\ y = 16 * h + q /\ z = 64 * d + t
  BY <1>1
<1> HIDE DEF a, p, h, q, d, t
<1>4. \A k \in 1..4 : c[k] \in 0..63
  BY <1>2, <1>3
<1>5. /\ (a * 16 + h) \div 16 = a /\ (a * 16 + h) % 16 = h
      /\ (q * 4 + d) \div 4 = q /\ (q * 4 + d) % 4 = d
  BY <1>3
<1>6. /\ Base64!Three(c)[1] = (p * 4 + a) % 256 /\ Base64!Three(c)[2] = (h * 16 + q) % 256
      /\ Base64!Three(c)[3] = (d * 64 + t) % 256
  BY <1>2, <1>5 DEF Base64!Three
<1> QED BY <1>3, <1>4, <1>6 DEF BytesAre

\* The characters of the text of n bytes that are not padding.
Kept(n) == 4 * (n \div 3) + (IF n % 3 = 0 THEN 0 ELSE (n % 3) + 1)

\* They are those that have a bit of the bytes; Decode counts n bytes for
\* them; and in each group they are one more than its bytes.
LEMMA KeptCharacters ==
    ASSUME NEW n \in Nat
    PROVE  /\ Kept(n) \in Nat /\ Kept(n) <= 4 * ((n + 2) \div 3)
           /\ \A i \in Nat \ {0} : 6 * (i - 1) >= 8 * n <=> i > Kept(n)
           /\ Kept(n) \div 4 = n \div 3
           /\ Kept(n) % 4 = IF n % 3 = 0 THEN 0 ELSE (n % 3) + 1
           /\ (Kept(n) \div 4) * 3 + (((Kept(n) % 4) + 1) \div 2) = n
<1>1. PICK h \in Nat, r \in 0..2 : n = 3 * h + r /\ h = n \div 3 /\ r = n % 3
  OBVIOUS
<1>2. Kept(n) = 4 * h + (IF r = 0 THEN 0 ELSE r + 1)
  BY <1>1 DEF Kept
<1>3. (n + 2) \div 3 = IF r = 0 THEN h ELSE h + 1
  BY <1>1
<1>4. PICK m \in Nat, u \in Nat : m = (n + 2) \div 3 /\ u = Kept(n)
  BY <1>2, <1>3
<1>5. u <= 4 * m
  BY <1>2, <1>3, <1>4
<1>6. ASSUME NEW i \in Nat \ {0} PROVE 6 * (i - 1) >= 8 * n <=> i > u
  <2>1. CASE r = 0
    BY <2>1, <1>1, <1>2, <1>4
  <2>2. CASE r = 1
    BY <2>2, <1>1, <1>2, <1>4
  <2>3. CASE r = 2
    BY <2>3, <1>1, <1>2, <1>4
  <2> QED BY <2>1, <2>2, <2>3
<1>7. u \div 4 = h /\ u % 4 = IF r = 0 THEN 0 ELSE r + 1
  BY <1>2, <1>4
<1>8. h * 3 + (((IF r = 0 THEN 0 ELSE r + 1) + 1) \div 2) = n
  BY <1>1
<1> QED BY <1>1, <1>4, <1>5, <1>6, <1>7, <1>8

LEMMA KeptInGroup ==
    ASSUME NEW n \in Nat, NEW g \in Nat, NEW k \in 1..4, 4 * g + k <= ((n + 2) \div 3) * 4
    PROVE  k <= (IF 3 * g + 3 <= n THEN 3 ELSE n % 3) + 1 <=> 4 * g + k <= Kept(n)
<1>1. PICK h \in Nat, r \in 0..2 : n = 3 * h + r /\ h = n \div 3 /\ r = n % 3
  OBVIOUS
<1>2. Kept(n) = 4 * h + (IF r = 0 THEN 0 ELSE r + 1)
  BY <1>1 DEF Kept
<1>3. (n + 2) \div 3 = IF r = 0 THEN h ELSE h + 1
  BY <1>1
<1>4. 4 * g + k <= 4 * (IF r = 0 THEN h ELSE h + 1)
  BY <1>3
<1> QED BY <1>1, <1>2, <1>4

\* A byte of a message, or zero behind it.
LEMMA ByteAt == ASSUME NEW s \in Seq(0..255), NEW i PROVE Base64!At(s, i) \in 0..255
<1>1. i \in DOMAIN s => s[i] \in 0..255
  BY LenProperties, ElementOfSeq
<1> QED BY <1>1 DEF Base64!At

\* The m characters of the text t of n bytes.
CharactersOf(s, t, n, m) ==
    /\ m = 4 * ((n + 2) \div 3)
    /\ \A g \in Nat, k \in 1..4 : 4 * g + k <= m =>
          t[4 * g + k] = IF 4 * g + k <= Kept(n) THEN Base64!Four(s, 3 * g + 1)[k] ELSE 64
    /\ \A i \in 1..m : (i <= Kept(n) => t[i] \in 0..63) /\ (i > Kept(n) => t[i] = 64)

LEMMA EncodedText ==
    ASSUME NEW s \in Seq(0..255), NEW max \in Nat, NEW t, t = Base64!Encode(s, max), t # <<>>
    PROVE  t \in Seq(0..64) /\ Len(t) <= max /\ CharactersOf(s, t, Len(s), Len(t))
<1>1. PICK n \in Nat, m \in Nat : n = Len(s) /\ m = ((Len(s) + 2) \div 3)
  BY LenProperties
<1>2. m * 4 <= max /\ t = [i \in 1..(m * 4) |-> Base64!Character(s, i, 1)]
  <2>1. t = IF m * 4 > max THEN <<>> ELSE [i \in 1..(m * 4) |-> Base64!Character(s, i, 1)]
    BY <1>1, Zenon DEF Base64!Encode
  <2> QED BY <2>1
<1>3. ASSUME NEW g \in Nat, NEW k \in 1..4, 4 * g + k <= m * 4
      PROVE  t[4 * g + k] = IF 4 * g + k <= Kept(n) THEN Base64!Four(s, 3 * g + 1)[k] ELSE 64
  <2>1. PICK i \in 1..(m * 4) : i = 4 * g + k
    BY <1>3
  <2>2. (i - 1) \div 4 = g /\ ((i - 1) % 4) + 1 = k
    BY <2>1
  <2>3. PICK first \in Nat : first = 3 * g + 1
    OBVIOUS
  <2>4. t[i] = IF k <= (IF first + 2 <= n THEN 3 ELSE n % 3) + 1 THEN Base64!Four(s, first)[k] ELSE 64
    BY <1>1, <1>2, <2>2, <2>3 DEF Base64!Character, Base64!PAD
  <2>5. first + 2 <= n <=> 3 * g + 3 <= n
    BY <2>3
  <2>6. k <= (IF 3 * g + 3 <= n THEN 3 ELSE n % 3) + 1 <=> 4 * g + k <= Kept(n)
    BY <1>1, <1>3, KeptInGroup
  <2> QED BY <2>1, <2>3, <2>4, <2>5, <2>6
<1>4. ASSUME NEW i \in 1..(m * 4)
      PROVE  (i <= Kept(n) => t[i] \in 0..63) /\ (i > Kept(n) => t[i] = 64) /\ t[i] \in 0..64
  <2>1. PICK g \in Nat, k \in 1..4 : i = 4 * g + k
    <3>1. PICK j \in Nat : j = i - 1
      OBVIOUS
    <3>2. PICK g \in Nat, p \in 0..3 : j = 4 * g + p
      BY j \div 4 \in Nat, j % 4 \in 0..3, j = 4 * (j \div 4) + (j % 4)
    <3>3. p + 1 \in 1..4 /\ i = 4 * g + (p + 1)
      BY <3>1, <3>2
    <3> QED BY <3>3
  <2>2. t[i] = IF i <= Kept(n) THEN Base64!Four(s, 3 * g + 1)[k] ELSE 64
    <3>1. 4 * g + k <= m * 4
      BY <2>1
    <3>2. t[4 * g + k] = IF 4 * g + k <= Kept(n) THEN Base64!Four(s, 3 * g + 1)[k] ELSE 64
      BY <1>3, <3>1
    <3> QED BY <2>1, <3>2
  <2>3. Base64!Four(s, 3 * g + 1)[k] \in 0..63
    <3>1. PICK x \in 0..255, y \in 0..255, z \in 0..255 :
              x = Base64!At(s, 3 * g + 1) /\ y = Base64!At(s, 3 * g + 2) /\ z = Base64!At(s, 3 * g + 3)
      BY ByteAt
    <3>2. (3 * g + 1) + 1 = 3 * g + 2 /\ (3 * g + 1) + 2 = 3 * g + 3
      OBVIOUS
    <3>3. PICK c : /\ c = Base64!Four(s, 3 * g + 1)
                   /\ c = <<x \div 4, ((x % 4) * 16) + (y \div 16), ((y % 16) * 4) + (z \div 64), z % 64>>
      BY <3>1, <3>2 DEF Base64!Four
    <3>4. IndicesOf(c, x, y, z)
      BY <3>3 DEF IndicesOf
    <3>5. \A j \in 1..4 : c[j] \in 0..63
      BY <3>4, ThreeOfFour
    <3> QED BY <3>3, <3>5
  <2>4. Kept(n) \in Nat
    BY KeptCharacters
  <2> QED BY <2>2, <2>3, <2>4
<1>5. t \in Seq(0..64) /\ Len(t) = m * 4
  <2>1. t \in [1..(m * 4) -> 0..64] /\ m * 4 \in Nat
    BY <1>2, <1>4
  <2> QED BY <2>1
<1>7. Len(t) = 4 * ((n + 2) \div 3) /\ Len(t) <= max
  BY <1>1, <1>2, <1>5
<1>8. CharactersOf(s, t, n, m * 4)
  BY <1>1, <1>3, <1>4 DEF CharactersOf
<1> QED BY <1>1, <1>5, <1>7, <1>8

\* What CodecKeepsBytes says of the text of a message: its padding and its bits.
TextKeeps(s, t) ==
    /\ \A i \in DOMAIN t : t[i] = Base64!PAD <=> 6 * (i - 1) >= 8 * Len(s)
    /\ \A b \in 1..(8 * Len(s)) :
           Base64!Bit(s[((b - 1) \div 8) + 1], 8, ((b - 1) % 8) + 1)
               = Base64!Bit(t[((b - 1) \div 6) + 1], 6, ((b - 1) % 6) + 1)

LEMMA EncodedKeeps ==
    ASSUME NEW s \in Seq(0..255), NEW max \in Nat, NEW t, t = Base64!Encode(s, max), t # <<>>
    PROVE  TextKeeps(s, t)
<1>1. PICK n \in Nat : n = Len(s) /\ \A i \in 1..n : s[i] \in 0..255
  BY LenProperties, ElementOfSeq
<1>2. /\ t \in Seq(0..64) /\ Len(t) = 4 * ((n + 2) \div 3)
      /\ \A g \in Nat, k \in 1..4 : 4 * g + k <= Len(t) =>
            t[4 * g + k] = IF 4 * g + k <= Kept(n) THEN Base64!Four(s, 3 * g + 1)[k] ELSE 64
      /\ \A i \in 1..Len(t) : (i <= Kept(n) => t[i] \in 0..63) /\ (i > Kept(n) => t[i] = 64)
  BY <1>1, EncodedText DEF CharactersOf
<1>3. /\ Kept(n) \in Nat /\ Kept(n) <= Len(t)
      /\ \A i \in Nat \ {0} : 6 * (i - 1) >= 8 * n <=> i > Kept(n)
  BY <1>2, KeptCharacters
<1>4. DOMAIN t = 1..Len(t) /\ Len(t) \in Nat
  BY <1>2, LenProperties
<1>5. ASSUME NEW i \in DOMAIN t PROVE t[i] = Base64!PAD <=> 6 * (i - 1) >= 8 * n
  <2>1. i \in 1..Len(t) /\ i \in Nat \ {0}
    BY <1>4
  <2>2. 6 * (i - 1) >= 8 * n <=> i > Kept(n)
    BY <1>3, <2>1
  <2>3. (i <= Kept(n) => t[i] \in 0..63) /\ (i > Kept(n) => t[i] = 64)
    BY <1>2, <2>1
  <2>4. PICK u \in Nat : u = Kept(n)
    BY <1>3
  <2>5. t[i] = 64 <=> i > u
    <3>1. (i <= u => t[i] \in 0..63) /\ (i > u => t[i] = 64)
      BY <2>3, <2>4
    <3>2. \A v : v \in 0..63 => v # 64
      OBVIOUS
    <3>3. i <= u \/ i > u
      BY <2>1
    <3>4. i <= u => ~ (i > u)
      BY <2>1
    <3> QED BY <3>1, <3>2, <3>3, <3>4, Zenon
  <2> QED BY <2>2, <2>4, <2>5 DEF Base64!PAD
<1>6. ASSUME NEW b \in 1..(8 * n)
      PROVE  Base64!Bit(s[((b - 1) \div 8) + 1], 8, ((b - 1) % 8) + 1)
             = Base64!Bit(t[((b - 1) \div 6) + 1], 6, ((b - 1) % 6) + 1)
  <2>1. PICK g \in Nat, c \in 1..24 : b = 24 * g + c
    <3>1. PICK a \in Nat : a = b - 1
      BY <1>1
    <3>2. PICK g \in Nat, p \in 0..23 : a = 24 * g + p
      BY a \div 24 \in Nat, a % 24 \in 0..23, a = 24 * (a \div 24) + (a % 24)
    <3> QED BY <3>1, <3>2, p + 1 \in 1..24, b = 24 * g + (p + 1)
  <2>2. PICK j \in 0..2, l \in 1..8, k \in 1..4, m \in 1..6 :
            /\ j = (c - 1) \div 8 /\ l = ((c - 1) % 8) + 1 /\ c - 1 = 8 * j + l - 1
            /\ k = ((c - 1) \div 6) + 1 /\ m = ((c - 1) % 6) + 1 /\ c - 1 = 6 * (k - 1) + m - 1
    OBVIOUS
  <2>3. /\ ((b - 1) \div 8) + 1 = 3 * g + j + 1 /\ ((b - 1) % 8) + 1 = l
        /\ ((b - 1) \div 6) + 1 = 4 * g + k /\ ((b - 1) % 6) + 1 = m
    BY <2>1, <2>2
  <2>4. 3 * g + j + 1 \in 1..n
    BY <1>1, <2>1, <2>2
  <2>5. PICK x \in 0..255, y \in 0..255, z \in 0..255 :
            x = Base64!At(s, 3 * g + 1) /\ y = Base64!At(s, 3 * g + 2) /\ z = Base64!At(s, 3 * g + 3)
    BY ByteAt
  <2>6. s[3 * g + j + 1] = <<x, y, z>>[j + 1]
    <3>1. 3 * g + j + 1 \in DOMAIN s
      BY <1>1, <2>4, LenProperties
    <3>2. s[3 * g + j + 1] = Base64!At(s, 3 * g + j + 1)
      BY <3>1 DEF Base64!At
    <3>3. CASE j = 0
      BY <3>2, <3>3, <2>5
    <3>4. CASE j = 1
      BY <3>2, <3>4, <2>5
    <3>5. CASE j = 2
      BY <3>2, <3>5, <2>5
    <3> QED BY <3>3, <3>4, <3>5
  <2>7. 4 * g + k <= Kept(n) /\ 4 * g + k <= Len(t)
    <3>1. PICK i \in Nat \ {0} : i = 4 * g + k
      OBVIOUS
    <3>2. 6 * (i - 1) < 8 * n
      BY <1>1, <2>1, <2>2, <3>1
    <3>3. 6 * (i - 1) >= 8 * n <=> i > Kept(n)
      BY <1>3
    <3>4. PICK u \in Nat, v \in Nat : u = Kept(n) /\ v = Len(t) /\ u <= v
      BY <1>3, <1>4
    <3>5. i <= u
      BY <3>2, <3>3, <3>4
    <3> QED BY <3>1, <3>4, <3>5
  <2>8. t[4 * g + k] = Base64!Four(s, 3 * g + 1)[k]
    BY <1>2, <2>7
  <2>9. Base64!Four(s, 3 * g + 1)
        = <<x \div 4, ((x % 4) * 16) + (y \div 16), ((y % 16) * 4) + (z \div 64), z % 64>>
    BY <2>5, (3 * g + 1) + 1 = 3 * g + 2, (3 * g + 1) + 2 = 3 * g + 3 DEF Base64!Four
  <2>10. Base64!Bit(<<x, y, z>>[j + 1], 8, l)
         = Base64!Bit(<<x \div 4, ((x % 4) * 16) + (y \div 16), ((y % 16) * 4) + (z \div 64), z % 64>>[k], 6, m)
    <3>1. BitInBoth(x, y, z, c)
      BY FourBits
    <3> QED BY ONLY <2>2, <3>1, Zenon DEF BitInBoth
  <2> QED BY <2>3, <2>6, <2>8, <2>9, <2>10, Zenon
<1> QED BY <1>1, <1>5, <1>6 DEF TextKeeps

-----------------------------------------------------------------------------
\* The two counts of Decode exist in any text.
LEMMA Counted ==
    ASSUME NEW c \in Seq(0..65)
    PROVE  /\ Base64!Taken(c) \in 0..Len(c) /\ \A i \in 1..Base64!Taken(c) : c[i] < 64
           /\ Base64!Taken(c) < Len(c) => c[Base64!Taken(c) + 1] >= 64
           /\ Base64!Unpadded(c) \in 0..Len(c)
           /\ \A i \in (Base64!Unpadded(c) + 1)..Len(c) : c[i] = 64
           /\ Base64!Unpadded(c) > 0 => c[Base64!Unpadded(c)] # 64
<1>1. PICK n \in Nat : n = Len(c) /\ \A i \in 1..n : c[i] \in 0..65
  BY LenProperties, ElementOfSeq
<1>2. \E m \in 0..n : (\A i \in 1..m : c[i] < 64) /\ (m < n => c[m + 1] >= 64)
  <2> DEFINE T == {m \in 0..n : m < n => c[m + 1] >= 64}
  <2>1. T \in SUBSET Nat /\ n \in T
    BY <1>1
  <2>2. PICK m \in T : \A y \in T : m <= y
    <3> HIDE DEF T
    <3> QED BY <2>1, LeastNumber
  <2>3. ASSUME NEW i \in 1..m PROVE c[i] < 64
    <3>1. i - 1 \in 0..n /\ i - 1 < n /\ i - 1 < m /\ i \in 1..n
      BY <1>1
    <3>2. i - 1 \notin T
      <4> HIDE DEF T
      <4> QED BY <2>1, <2>2, <3>1
    <3>3. ~ (c[(i - 1) + 1] >= 64) /\ (i - 1) + 1 = i
      BY <3>1, <3>2
    <3>4. PICK v \in 0..65 : v = c[i] /\ ~ (v >= 64)
      <4> HIDE DEF T
      <4> QED BY <1>1, <3>1, <3>3
    <3> QED BY <3>4
  <2> QED BY <2>3
<1>3. \E m \in 0..n : (\A i \in (m + 1)..n : c[i] = 64) /\ (m > 0 => c[m] # 64)
  <2> DEFINE T == {m \in 0..n : \A i \in (m + 1)..n : c[i] = 64}
  <2>1. T \in SUBSET Nat /\ n \in T
    BY <1>1
  <2>2. PICK m \in T : \A y \in T : m <= y
    <3> HIDE DEF T
    <3> QED BY <2>1, LeastNumber
  <2>3. m > 0 => c[m] # 64
    <3>1. SUFFICES ASSUME m > 0, c[m] = 64 PROVE FALSE
      OBVIOUS
    <3>2. m - 1 \in 0..n /\ m - 1 < m
      BY <1>1, <3>1
    <3>3. ASSUME NEW i \in ((m - 1) + 1)..n PROVE c[i] = 64
      <4>1. i = m \/ i \in (m + 1)..n
        BY <1>1
      <4> QED BY <3>1, <4>1
    <3>4. m - 1 \in T
      BY <3>2, <3>3
    <3> HIDE DEF T
    <3> QED BY <2>1, <2>2, <3>2, <3>4
  <2> QED BY <2>3
<1>4. /\ Base64!Taken(c) \in 0..n /\ \A i \in 1..Base64!Taken(c) : c[i] < 64
      /\ Base64!Taken(c) < n => c[Base64!Taken(c) + 1] >= 64
  BY <1>1, <1>2 DEF Base64!Taken, Base64!PAD
<1>5. /\ Base64!Unpadded(c) \in 0..n
      /\ \A i \in (Base64!Unpadded(c) + 1)..n : c[i] = 64
      /\ Base64!Unpadded(c) > 0 => c[Base64!Unpadded(c)] # 64
  BY <1>1, <1>3 DEF Base64!Unpadded, Base64!PAD
<1> QED BY <1>1, <1>4, <1>5

\* What Decode counts bounds what it writes, whatever the text is.
DecodedLength(taken) == 3 * (taken \div 4) + (IF taken % 4 = 0 THEN 0 ELSE (taken % 4) - 1)

LEMMA LengthBound ==
    ASSUME NEW a \in Nat, NEW b \in Nat, a <= b
    PROVE  DecodedLength(a) \in Nat /\ DecodedLength(a) <= (b \div 4) * 3 + (((b % 4) + 1) \div 2)
<1>1. PICK h \in Nat, r \in 0..3 : h = a \div 4 /\ r = a % 4 /\ a = 4 * h + r
  OBVIOUS
<1>2. PICK g \in Nat, q \in 0..3 : g = b \div 4 /\ q = b % 4 /\ b = 4 * g + q
  OBVIOUS
<1>3. DecodedLength(a) = 3 * h + (IF r = 0 THEN 0 ELSE r - 1)
  BY <1>1 DEF DecodedLength
<1>4. (q + 1) \div 2 = IF q = 0 THEN 0 ELSE IF q = 3 THEN 2 ELSE 1
  OBVIOUS
<1>5. 3 * h + (IF r = 0 THEN 0 ELSE r - 1) <= g * 3 + (IF q = 0 THEN 0 ELSE IF q = 3 THEN 2 ELSE 1)
  BY <1>1, <1>2
<1> QED BY <1>2, <1>3, <1>4, <1>5


\* What d is when Decode takes the first n characters of c.
DecodedOf(c, d, n) ==
    /\ Len(d) = DecodedLength(n)
    /\ \A g \in Nat, k \in 1..3 : g < n \div 4 =>
          d[3 * g + k] = Base64!Three([j \in 1..4 |-> c[4 * g + j]])[k]

LEMMA Decoded ==
    ASSUME NEW c \in Seq(0..65), NEW max \in Nat, NEW d, d = Base64!Decode(c, max)
    PROVE  \/ d = <<>>
           \/ /\ (Base64!Unpadded(c) \div 4) * 3 + (((Base64!Unpadded(c) % 4) + 1) \div 2) <= max
              /\ DecodedOf(c, d, Base64!Taken(c))
<1>1. PICK n \in Nat, u \in Nat : n = Base64!Taken(c) /\ u = Base64!Unpadded(c)
  BY Counted, LenProperties
<1>2. PICK whole \in Nat, rest \in 0..3 : whole = n \div 4 /\ rest = n % 4
  OBVIOUS
<1>3. PICK size \in Nat : size = 3 * whole + (IF rest = 0 THEN 0 ELSE rest - 1)
  OBVIOUS
<1>4. size = DecodedLength(n)
  BY <1>2, <1>3 DEF DecodedLength
<1>5. d = IF (u \div 4) * 3 + (((u % 4) + 1) \div 2) > max THEN <<>>
          ELSE [i \in 1..size |-> IF i <= 3 * whole
                                THEN Base64!Three([j \in 1..4 |-> c[4 * ((i - 1) \div 3) + j]])[((i - 1) % 3) + 1]
                                ELSE 0]
  BY <1>1, <1>2, <1>3, Zenon DEF Base64!Decode
<1>6. PICK need \in Nat : need = (u \div 4) * 3 + (((u % 4) + 1) \div 2)
  OBVIOUS
<1>7. CASE need > max
  BY <1>5, <1>6, <1>7
<1>8. CASE ~ (need > max)
  <2>1. d = [i \in 1..size |-> IF i <= 3 * whole
                              THEN Base64!Three([j \in 1..4 |-> c[4 * ((i - 1) \div 3) + j]])[((i - 1) % 3) + 1]
                              ELSE 0]
    BY <1>5, <1>6, <1>8, Zenon
  <2>2. DOMAIN d = 1..size /\ Len(d) = size
    BY <2>1
  <2>3. ASSUME NEW g \in Nat, NEW k \in 1..3, g < whole
        PROVE  d[3 * g + k] = Base64!Three([j \in 1..4 |-> c[4 * g + j]])[k]
    <3>1. PICK i \in 1..size : i = 3 * g + k /\ i <= 3 * whole
      BY <1>3, <2>3
    <3>2. (i - 1) \div 3 = g /\ ((i - 1) % 3) + 1 = k
      BY <3>1
    <3>3. d[i] = Base64!Three([j \in 1..4 |-> c[4 * ((i - 1) \div 3) + j]])[((i - 1) % 3) + 1]
      BY <2>1, <3>1
    <3> QED BY <3>1, <3>2, <3>3, Zenon
  <2>4. (u \div 4) * 3 + (((u % 4) + 1) \div 2) <= max
    BY <1>6, <1>8
  <2>5. DecodedOf(c, d, n)
    BY <1>2, <1>4, <2>2, <2>3 DEF DecodedOf
  <2> QED BY <1>1, <2>4, <2>5
<1> QED BY <1>7, <1>8

LEMMA DecodedFits ==
    ASSUME NEW c \in Seq(0..65), NEW max \in Nat
    PROVE  Len(Base64!Decode(c, max)) <= max
<1>1. PICK n \in Nat, u \in Nat, m \in Nat : n = Base64!Taken(c) /\ u = Base64!Unpadded(c) /\ m = Len(c)
  BY Counted, LenProperties
<1>2. n <= u
  <2>1. SUFFICES ASSUME u < n PROVE FALSE
    BY <1>1
  <2>2. n <= m /\ u + 1 \in 1..n /\ u + 1 \in (u + 1)..m
    BY <1>1, <2>1, Counted
  <2>3. c[u + 1] < 64 /\ c[u + 1] = 64
    BY <1>1, <2>2, Counted
  <2> QED BY <2>3
<1>3. PICK l \in Nat : l = DecodedLength(n)
  <2>1. n <= n
    OBVIOUS
  <2> QED BY <2>1, LengthBound
<1> DEFINE d == Base64!Decode(c, max)
<1>4. l <= (u \div 4) * 3 + (((u % 4) + 1) \div 2)
  BY <1>2, <1>3, LengthBound
<1>5. d = <<>> \/ ((u \div 4) * 3 + (((u % 4) + 1) \div 2) <= max /\ Len(d) = l)
  BY <1>1, <1>3, Decoded DEF DecodedOf
<1>6. PICK need \in Nat : need = (u \div 4) * 3 + (((u % 4) + 1) \div 2)
  OBVIOUS
<1>7. d = <<>> => Len(d) <= max
  BY EmptySeq
<1>8. Len(d) = l /\ need <= max /\ l <= need => Len(d) <= max
  OBVIOUS
<1> HIDE DEF d
<1>9. Len(d) <= max
  BY <1>4, <1>5, <1>6, <1>7, <1>8
<1> QED BY <1>9 DEF d

LEMMA KeptDecodes ==
    ASSUME NEW n \in Nat
    PROVE  \E h \in Nat, r \in 0..2 : /\ n = 3 * h + r /\ n % 3 = r
                                     /\ Kept(n) \div 4 = h /\ Kept(n) >= 4 * h
                                     /\ DecodedLength(Kept(n)) = n
<1>1. PICK h \in Nat, r \in 0..2 : n = 3 * h + r /\ h = n \div 3 /\ r = n % 3
  OBVIOUS
<1>2. PICK u \in Nat : u = Kept(n)
  BY KeptCharacters
<1>3. u \div 4 = h /\ u % 4 = (IF r = 0 THEN 0 ELSE r + 1)
  BY <1>1, <1>2, KeptCharacters
<1>4. DecodedLength(u) = n /\ u >= 4 * h
  BY <1>1, <1>3 DEF DecodedLength
<1> QED BY <1>1, <1>2, <1>3, <1>4

\* A text that is not damaged gives the bytes of the whole groups, and as many
\* as there were.
LEMMA DecodedEncoded ==
    ASSUME NEW s \in Seq(0..255), NEW t \in Seq(0..64), CharactersOf(s, t, Len(s), Len(t)),
           NEW d, DecodedOf(t, d, Base64!Taken(t))
    PROVE  /\ Len(d) = Len(s)
           /\ \A i \in 1..(Len(s) - (Len(s) % 3)) : d[i] = s[i]
<1>1. PICK n \in Nat, m \in Nat : n = Len(s) /\ m = Len(t) /\ \A i \in 1..n : s[i] \in 0..255
  BY LenProperties, ElementOfSeq
<1>2. /\ \A g \in Nat, k \in 1..4 : 4 * g + k <= m =>
            t[4 * g + k] = IF 4 * g + k <= Kept(n) THEN Base64!Four(s, 3 * g + 1)[k] ELSE 64
      /\ \A i \in 1..m : (i <= Kept(n) => t[i] \in 0..63) /\ (i > Kept(n) => t[i] = 64)
      /\ m = 4 * ((n + 2) \div 3)
  <2>1. CharactersOf(s, t, n, m)
    BY <1>1
  <2> QED BY <2>1, Zenon DEF CharactersOf
<1>3. PICK u \in 0..m : u = Kept(n)
  <2>1. Kept(n) \in Nat /\ Kept(n) <= m
    BY <1>2, KeptCharacters
  <2> QED BY <1>1, <2>1
<1>4. t \in Seq(0..65)
  BY 0..64 \subseteq 0..65
<1>5. Base64!Taken(t) = u
  <2>1. PICK a \in 0..m : a = Base64!Taken(t) /\ (\A i \in 1..a : t[i] < 64) /\ (a < m => t[a + 1] >= 64)
    BY <1>1, <1>4, Counted
  <2>2. CASE a < u
    <3>1. a + 1 \in 1..m /\ a + 1 <= u /\ a < m
      BY <2>2
    <3>2. PICK v \in 0..63 : v = t[a + 1]
      BY <1>2, <1>3, <3>1
    <3>3. v >= 64
      BY <2>1, <3>1, <3>2
    <3> QED BY <3>3
  <2>3. CASE a > u
    <3>1. u + 1 \in 1..m /\ u + 1 > u /\ u + 1 \in 1..a
      BY <2>3
    <3>2. t[u + 1] = 64 /\ t[u + 1] < 64
      BY <1>2, <1>3, <2>1, <3>1
    <3> QED BY <3>2
  <2>4. ~ (a < u) /\ ~ (a > u) => a = u
    OBVIOUS
  <2> QED BY <2>1, <2>2, <2>3, <2>4
<1>6. PICK h \in Nat, r \in 0..2 : /\ n = 3 * h + r /\ n % 3 = r
                                   /\ u \div 4 = h /\ u >= 4 * h /\ DecodedLength(u) = n
  BY <1>3, KeptDecodes
<1>7. /\ Len(d) = n
       /\ \A g \in Nat, k \in 1..3 : g < h =>
             d[3 * g + k] = Base64!Three([j \in 1..4 |-> t[4 * g + j]])[k]
  <2>1. DecodedLength(Base64!Taken(t)) = n /\ Base64!Taken(t) \div 4 = h
    BY <1>5, <1>6
  <2> QED BY <2>1, Zenon DEF DecodedOf
<1>8. n - (n % 3) = 3 * h
  BY <1>6
<1>9. ASSUME NEW i \in 1..(3 * h) PROVE d[i] = s[i]
  <2>1. PICK g \in Nat, k \in 1..3 : i = 3 * g + k /\ g < h
    <3>1. PICK a \in Nat : a = i - 1
      OBVIOUS
    <3>2. PICK g \in Nat, p \in 0..2 : a = 3 * g + p
      BY a \div 3 \in Nat, a % 3 \in 0..2, a = 3 * (a \div 3) + (a % 3)
    <3> QED BY <3>1, <3>2, p + 1 \in 1..3, i = 3 * g + (p + 1), g < h
  <2>2. 3 * g + 1 \in 1..n /\ 3 * g + 2 \in 1..n /\ 3 * g + 3 \in 1..n /\ 4 * g + 4 <= u
    BY <2>1, <1>6
  <2>3. PICK x \in 0..255, y \in 0..255, z \in 0..255 :
            x = s[3 * g + 1] /\ y = s[3 * g + 2] /\ z = s[3 * g + 3]
    BY <1>1, <2>2
  <2>4. Base64!Four(s, 3 * g + 1)
        = <<x \div 4, ((x % 4) * 16) + (y \div 16), ((y % 16) * 4) + (z \div 64), z % 64>>
    <3>1. DOMAIN s = 1..n
      BY <1>1, LenProperties
    <3>2. x = Base64!At(s, 3 * g + 1) /\ y = Base64!At(s, 3 * g + 2) /\ z = Base64!At(s, 3 * g + 3)
      BY <2>2, <2>3, <3>1 DEF Base64!At
    <3> QED BY <3>2, (3 * g + 1) + 1 = 3 * g + 2, (3 * g + 1) + 2 = 3 * g + 3 DEF Base64!Four
  <2>5. PICK c : c = [j \in 1..4 |-> t[4 * g + j]]
    OBVIOUS
  <2>6. ASSUME NEW j \in 1..4 PROVE c[j] = Base64!Four(s, 3 * g + 1)[j]
    <3>1. 4 * g + j <= m /\ 4 * g + j <= u
      BY <2>2, <1>1
    <3> QED BY <1>2, <1>3, <2>5, <3>1
  <2>7. IndicesOf(c, x, y, z)
    BY <2>4, <2>6 DEF IndicesOf
  <2>8. PICK b : b = Base64!Three(c) /\ BytesAre(b, x, y, z)
    BY <2>7, ThreeOfFour
  <2>9. d[3 * g + k] = b[k]
    BY <1>7, <2>1, <2>5, <2>8
  <2>10. b[1] = s[3 * g + 1] /\ b[2] = s[3 * g + 2] /\ b[3] = s[3 * g + 3]
    BY <2>3, <2>8, Zenon DEF BytesAre
  <2>11. d[i] = b[k] /\ (k = 1 \/ k = 2 \/ k = 3)
    BY <2>1, <2>9
  <2>12. s[i] = s[3 * g + k]
    BY <2>1
  <2> QED BY <2>10, <2>11, <2>12, Zenon
<1> QED BY <1>1, <1>7, <1>8, <1>9

-----------------------------------------------------------------------------
\* What holds in every state: which text, and which bytes, there are.
Base64Inv ==
    /\ b64Phase \in {"start", "encoded", "damaged", "decoded", "salvaged"}
    /\ message \in Seq(0..255) /\ text \in Seq(0..65) /\ room \in Nat
    /\ b64Phase = "encoded" => text = Base64!Encode(message, room)
    /\ b64Phase \in {"decoded", "salvaged"} => decoded = Base64!Decode(text, room)
    /\ b64Phase = "decoded" => text # <<>> /\ \E max \in Nat : text = Base64!Encode(message, max)

LEMMA Base64Init == Base64!Base64Assumption /\ Base64!Init => Base64Inv
<1> SUFFICES ASSUME Base64!Base64Assumption, Base64!Init PROVE Base64Inv
  OBVIOUS
<1>1. PICK n \in 0..MaxLen : message \in [1..n -> Bytes]
  BY DEF Base64!Init
<1>2. Bytes \subseteq 0..255 /\ MaxLen \in Nat
  BY DEF Base64!Base64Assumption
<1>3. message \in Seq(0..255)
  <2>1. n \in Nat
    BY <1>2
  <2>2. DOMAIN message = 1..n /\ message = [i \in 1..n |-> message[i]]
    BY <1>1
  <2>3. ASSUME NEW i \in 1..n PROVE message[i] \in 0..255
    BY <1>1, <1>2
  <2>4. message \in [1..n -> 0..255]
    BY <2>2, <2>3
  <2> QED BY <2>1, <2>4
<1>4. b64Phase = "start" /\ text = <<>> /\ room = 0
  BY DEF Base64!Init
<1> QED BY <1>3, <1>4 DEF Base64Inv

LEMMA EncodeType ==
    ASSUME NEW s \in Seq(0..255), NEW max \in Nat
    PROVE  Base64!Encode(s, max) \in Seq(0..65)
<1>1. PICK t : t = Base64!Encode(s, max)
  OBVIOUS
<1>2. t # <<>> => t \in Seq(0..64)
  BY <1>1, EncodedText
<1>3. t # <<>> => t \in Seq(0..65)
  BY <1>2, 0..64 \subseteq 0..65
<1>4. t = <<>> => t \in Seq(0..65)
  BY EmptySeq
<1> QED BY <1>1, <1>3, <1>4, Zenon

LEMMA Base64Step == Base64!Base64Assumption /\ Base64Inv /\ [Base64!Next]_(Base64!vars) => Base64Inv'
<1> SUFFICES ASSUME Base64!Base64Assumption, Base64Inv, [Base64!Next]_(Base64!vars) PROVE Base64Inv'
  OBVIOUS
<1>1. ASSUME NEW m \in Room, Base64!DoEncode(m) PROVE Base64Inv'
  <2>1. m \in Nat
    BY DEF Base64!Base64Assumption
  <2>2. /\ b64Phase' = "encoded" /\ text' = Base64!Encode(message, m) /\ room' = m
        /\ message' = message
    BY <1>1 DEF Base64!DoEncode
  <2>3. message \in Seq(0..255)
    BY DEF Base64Inv
  <2>4. text' \in Seq(0..65)
    BY <2>1, <2>2, <2>3, EncodeType
  <2> QED BY <2>1, <2>2, <2>3, <2>4 DEF Base64Inv
<1>2. ASSUME NEW m \in Room, Base64!DoDecode(m) PROVE Base64Inv'
  <2>1. m \in Nat
    BY DEF Base64!Base64Assumption
  <2>2. /\ b64Phase \in {"encoded", "damaged"} /\ text # <<>>
        /\ b64Phase' = IF b64Phase = "damaged" THEN "salvaged" ELSE "decoded"
        /\ decoded' = Base64!Decode(text, m) /\ room' = m
        /\ message' = message /\ text' = text
    BY <1>2 DEF Base64!DoDecode
  <2>3. b64Phase' = "decoded" => text = Base64!Encode(message, room) /\ room \in Nat
    BY <2>2 DEF Base64Inv
  <2> QED BY <2>1, <2>2, <2>3 DEF Base64Inv
<1>3. CASE Base64!Damage
  <2>1. /\ b64Phase' = "damaged" /\ room' = room /\ message' = message
    BY <1>3 DEF Base64!Damage
  <2>2. PICK i \in DOMAIN text : text' \in {Base64!RemoveAt(text, i), [text EXCEPT ![i] = 65],
                                           [text EXCEPT ![i] = 64]}
    BY <1>3 DEF Base64!Damage, Base64!Other, Base64!PAD
  <2>3. text \in Seq(0..65)
    BY DEF Base64Inv
  <2>4. PICK n \in Nat : n = Len(text) /\ i \in 1..n
    BY <2>3, LenProperties
  <2>5. Base64!RemoveAt(text, i) \in Seq(0..65)
    <3>1. SubSeq(text, 1, i - 1) \in Seq(0..65) /\ SubSeq(text, i + 1, n) \in Seq(0..65)
      <4>1. \A j \in 1..n : text[j] \in 0..65
        BY <2>3, <2>4, ElementOfSeq
      <4>2. PICK a \in Int, b \in Int : a = i - 1 /\ b = i + 1
        BY <2>4
      <4>3. (\A j \in 1..a : text[j] \in 0..65) /\ (\A j \in b..n : text[j] \in 0..65)
        <5>1. 1..a \subseteq 1..n /\ b..n \subseteq 1..n
          BY <2>4, <4>2
        <5> QED BY <4>1, <5>1, Zenon
      <4>4. SubSeq(text, 1, a) \in Seq(0..65)
        BY <4>3, SubSeqProperties
      <4>5. SubSeq(text, b, n) \in Seq(0..65)
        BY <4>3, SubSeqProperties
      <4> QED BY <4>2, <4>4, <4>5
    <3> QED BY <2>4, <3>1, ConcatProperties DEF Base64!RemoveAt
  <2>6. [text EXCEPT ![i] = 65] \in Seq(0..65) /\ [text EXCEPT ![i] = 64] \in Seq(0..65)
    BY <2>3, <2>4, ExceptSeq
  <2>7. text' \in Seq(0..65)
    BY <2>2, <2>5, <2>6
  <2> QED BY <2>1, <2>7 DEF Base64Inv
<1>4. CASE UNCHANGED Base64!vars
  BY <1>4 DEF Base64Inv, Base64!vars
<1> QED BY <1>1, <1>2, <1>3, <1>4 DEF Base64!Next

LEMMA Base64InvKeeps == Base64Inv => Base64!CodecKeepsBytes
<1> SUFFICES ASSUME Base64Inv PROVE Base64!CodecKeepsBytes
  OBVIOUS
<1>1. message \in Seq(0..255) /\ text \in Seq(0..65) /\ room \in Nat
  BY DEF Base64Inv
<1>2. ASSUME b64Phase = "encoded", text # <<>>
      PROVE  Len(text) % 4 = 0 /\ Len(text) <= room /\ TextKeeps(message, text)
  <2>1. text = Base64!Encode(message, room)
    BY <1>2 DEF Base64Inv
  <2>2. Len(text) <= room /\ CharactersOf(message, text, Len(message), Len(text))
    BY <1>1, <1>2, <2>1, EncodedText
  <2>3. PICK n \in Nat : n = Len(message)
    BY <1>1, LenProperties
  <2>4. Len(text) = 4 * ((n + 2) \div 3)
    BY <2>2, <2>3 DEF CharactersOf
  <2>5. (4 * ((n + 2) \div 3)) % 4 = 0
    OBVIOUS
  <2>6. TextKeeps(message, text)
    BY <1>1, <1>2, <2>1, EncodedKeeps
  <2> QED BY <2>2, <2>4, <2>5, <2>6
<1>3. ASSUME b64Phase \in {"decoded", "salvaged"} PROVE Len(decoded) <= room
  BY <1>1, <1>3, DecodedFits DEF Base64Inv
<1>4. ASSUME b64Phase = "decoded", decoded # <<>>
      PROVE  /\ Len(decoded) = Len(message)
             /\ \A i \in 1..(Len(message) - (Len(message) % 3)) : decoded[i] = message[i]
  <2>1. decoded = Base64!Decode(text, room) /\ text # <<>>
    BY <1>4 DEF Base64Inv
  <2>2. PICK max \in Nat : text = Base64!Encode(message, max)
    BY <1>4 DEF Base64Inv
  <2>3. text \in Seq(0..64) /\ CharactersOf(message, text, Len(message), Len(text))
    BY <1>1, <2>1, <2>2, EncodedText
  <2>4. DecodedOf(text, decoded, Base64!Taken(text))
    BY <1>1, <1>4, <2>1, Decoded
  <2> QED BY <1>1, <2>3, <2>4, DecodedEncoded
<1> QED BY <1>2, <1>3, <1>4, Zenon DEF Base64!CodecKeepsBytes, TextKeeps

\* The text has the bits of the message, six to a character, and padding to a
\* multiple of four behind them; decoding gives the bytes of its whole
\* groups, and as many as there were; and neither writes beyond its buffer,
\* whatever happened to the text (Base64::Encode and Base64::Decode).
THEOREM Base64Correct ==
    ASSUME Base64!Base64Assumption
    PROVE  Base64!Spec => []Base64!CodecKeepsBytes
<1>1. Base64!Init => Base64Inv
  BY Base64Init
<1>2. Base64Inv /\ [Base64!Next]_Base64!vars => Base64Inv'
  BY Base64Step
<1>3. Base64Inv => Base64!CodecKeepsBytes
  BY Base64InvKeeps
<1> QED BY <1>1, <1>2, <1>3, PTL DEF Base64!Spec
=============================================================================
