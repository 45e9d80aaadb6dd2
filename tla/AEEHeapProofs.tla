--------------------------- MODULE AEEHeapProofs ---------------------------
(***************************************************************************)
(* Proofs about AEEHeap for every memory, every size of an int and every   *)
(* set of requests.                                                        *)
(***************************************************************************)
EXTENDS AEEHeap, TLAPS

USE HeapAssumption DEF HDR, NULL

-----------------------------------------------------------------------------
(* Rounding *)

\* Rounding up gives the next multiple of four.
LEMMA UpFacts ==
    ASSUME NEW n \in Nat
    PROVE  Up(n) \in Nat /\ n <= Up(n) /\ Up(n) < n + 4 /\ Up(n) % 4 = 0
BY DEF Up

\* The memory begins at a multiple of four and has room for a block.
LEMMA StartFacts ==
    /\ mMemoryStart \in Nat \ {0} /\ MemoryEnd \in Nat /\ mMemoryEnd \in Nat
    /\ mMemoryStart % 4 = 0 /\ MemoryEnd % 4 = 0
    /\ mMemoryStart + 16 <= MemoryEnd /\ mMemoryEnd = MemoryEnd - 8
<1>1. mMemoryStart \in Nat /\ Memory <= mMemoryStart /\ mMemoryStart % 4 = 0
  BY UpFacts DEF HeapAssumption, mMemoryStart
<1>2. MemoryEnd \in Nat /\ MemoryEnd % 4 = 0 /\ mMemoryStart + 16 <= MemoryEnd
  BY DEF HeapAssumption, MemoryEnd
<1>3. mMemoryEnd = MemoryEnd - 8
  BY DEF mMemoryEnd
<1> QED BY <1>1, <1>2, <1>3 DEF HeapAssumption

\* What Alloc looks for is a multiple of four, and enough if it does not wrap.
LEMMA NumBytesFacts ==
    ASSUME NEW size \in 0..(Word - 1)
    PROVE  /\ NumBytes(size) \in Nat /\ NumBytes(size) % 4 = 0
           /\ size <= Word - 4 => size <= NumBytes(size)
<1>1. Up(size) \in Nat /\ size <= Up(size) /\ Up(size) < size + 4 /\ Up(size) % 4 = 0
  BY UpFacts
<1>2. size <= Word - 4 => Up(size) < Word
  BY <1>1
<1> QED BY <1>1, <1>2 DEF NumBytes

-----------------------------------------------------------------------------
(* Memory that is cut into blocks *)

Header == [free : BOOLEAN, size : Nat]
After(b, a) == a + HDR + b[a].size

\* Headers and their blocks are words, and a block has room for two.
Shaped(b) ==
    \A a \in DOMAIN b :
        /\ b[a] \in Header /\ b[a].size % 4 = 0
        /\ a \in Nat /\ a % 4 = 0 /\ mMemoryStart <= a /\ a + 16 <= MemoryEnd

Chained(b) ==
    /\ mMemoryStart \in DOMAIN b
    /\ \A a \in DOMAIN b :
          /\ After(b, a) \in DOMAIN b \cup {MemoryEnd}
          /\ \A c \in DOMAIN b : a < c => After(b, a) <= c

\* What With and Without do to a function.
LEMMA WithFacts ==
    ASSUME NEW f, NEW x, NEW v
    PROVE  /\ DOMAIN With(f, x, v) = DOMAIN f \cup {x}
           /\ With(f, x, v)[x] = v
           /\ \A y \in DOMAIN f : y # x => With(f, x, v)[y] = f[y]
BY DEF With

LEMMA WithoutFacts ==
    ASSUME NEW f, NEW x
    PROVE  /\ DOMAIN Without(f, x) = DOMAIN f \ {x}
           /\ \A y \in DOMAIN f \ {x} : Without(f, x)[y] = f[y]
BY DEF Without

\* A header is followed by one or by the end; there is nothing in between.
LEMMA AfterFacts ==
    ASSUME NEW b, Shaped(b), Chained(b), NEW a \in DOMAIN b
    PROVE  /\ After(b, a) \in Nat /\ a + 8 <= After(b, a) /\ After(b, a) <= MemoryEnd
           /\ After(b, a) % 4 = 0
           /\ After(b, a) < mMemoryEnd <=> After(b, a) \in DOMAIN b
           /\ After(b, a) \notin DOMAIN b <=> After(b, a) = MemoryEnd
<1>1. a \in Nat /\ b[a].size \in Nat /\ a % 4 = 0 /\ b[a].size % 4 = 0
  BY DEF Shaped, Header
<1>2. After(b, a) \in DOMAIN b \cup {MemoryEnd}
  BY DEF Chained
<1>3. \A c \in DOMAIN b : c \in Nat /\ c + 16 <= MemoryEnd
  BY DEF Shaped
<1>4. After(b, a) \in Nat /\ a + 8 <= After(b, a) /\ After(b, a) % 4 = 0
  BY <1>1 DEF After
<1> QED BY <1>2, <1>3, <1>4, StartFacts

\* Joining a block with the next leaves the memory cut into blocks.
LEMMA JoinCut ==
    ASSUME NEW b, Shaped(b), Chained(b),
           NEW a \in DOMAIN b, After(b, a) \in DOMAIN b,
           NEW c, DOMAIN c = DOMAIN b \ {After(b, a)},
           c[a] = [free |-> TRUE, size |-> b[a].size + b[After(b, a)].size + HDR],
           \A x \in DOMAIN c : x # a => c[x] = b[x]
    PROVE  Shaped(c) /\ Chained(c) /\ a \in DOMAIN c /\ After(c, a) = After(b, After(b, a))
<1> DEFINE n == After(b, a)
<1>1. \A x \in DOMAIN b : /\ x \in Nat /\ x % 4 = 0 /\ mMemoryStart <= x /\ x + 16 <= MemoryEnd
                         /\ b[x] \in Header /\ b[x].size \in Nat /\ b[x].size % 4 = 0
  BY DEF Shaped, Header
<1>2. n \in Nat /\ a < n
  BY AfterFacts, <1>1
<1>3. a \in DOMAIN c
  BY <1>2, <1>1
<1>4. c[a] \in Header /\ c[a].size \in Nat /\ c[a].size % 4 = 0
  BY <1>1 DEF Header
<1>5. Shaped(c)
  BY <1>1, <1>4 DEF Shaped
<1>6. After(c, a) = After(b, n)
  BY <1>1, <1>4 DEF After
<1>7. mMemoryStart \in DOMAIN c
  BY <1>1, <1>2, StartFacts DEF Chained
<1>8. ASSUME NEW x \in DOMAIN c
      PROVE  /\ After(c, x) \in DOMAIN c \cup {MemoryEnd}
             /\ \A d \in DOMAIN c : x < d => After(c, x) <= d
  <2>1. CASE x = a
    <3>1. After(b, n) \in DOMAIN b \cup {MemoryEnd} /\ n < After(b, n)
      BY AfterFacts, <1>1 DEF Chained
    <3>2. ASSUME NEW d \in DOMAIN c, a < d PROVE After(b, n) <= d
      <4>1. n <= d /\ d # n
        BY <3>2 DEF Chained
      <4> QED BY <4>1, <1>1, <1>2 DEF Chained
    <3> QED BY <2>1, <1>6, <3>1, <3>2, <1>2
  <2>2. CASE x # a
    <3>1. After(c, x) = After(b, x)
      BY <2>2 DEF After
    <3>2. After(b, x) # n
      <4>1. CASE x < a
        <5>1. After(b, x) <= a
          BY <4>1 DEF Chained
        <5> QED BY <5>1, <1>1, <1>2, AfterFacts
      <4>2. CASE a < x
        <5>1. n <= x
          BY <4>2 DEF Chained
        <5>2. x < After(b, x) /\ After(b, x) \in Nat
          BY AfterFacts, <1>1
        <5> QED BY <5>1, <5>2, <1>1, <1>2
      <4> QED BY <4>1, <4>2, <2>2, <1>1
    <3> QED BY <3>1, <3>2 DEF Chained
  <2> QED BY <2>1, <2>2
<1> QED BY <1>3, <1>5, <1>6, <1>7, <1>8 DEF Chained

\* Splitting a block leaves the memory cut into blocks, with a new header.
LEMMA SplitCut ==
    ASSUME NEW b, Shaped(b), Chained(b),
           NEW a \in DOMAIN b, NEW need \in Nat, need % 4 = 0, b[a].size > need + HDR + 4,
           NEW c, DOMAIN c = DOMAIN b \cup {a + HDR + need},
           c[a] = [free |-> FALSE, size |-> need],
           c[a + HDR + need] = [free |-> TRUE, size |-> b[a].size - need - HDR],
           \A x \in DOMAIN b : x # a /\ x # a + HDR + need => c[x] = b[x]
    PROVE  Shaped(c) /\ Chained(c) /\ a + HDR + need \notin DOMAIN b
<1> DEFINE rest == a + HDR + need
<1>1. \A x \in DOMAIN b : /\ x \in Nat /\ x % 4 = 0 /\ mMemoryStart <= x /\ x + 16 <= MemoryEnd
                         /\ b[x] \in Header /\ b[x].size \in Nat /\ b[x].size % 4 = 0
  BY DEF Shaped, Header
<1>2. After(b, a) = a + 8 + b[a].size /\ After(b, a) <= MemoryEnd
  BY AfterFacts DEF After
<1>3. b[a].size >= need + 16
  BY <1>1
<1>4. rest \in Nat /\ rest % 4 = 0 /\ a < rest /\ rest + 16 <= After(b, a)
  <2>1. a \in Nat /\ a % 4 = 0 /\ b[a].size \in Nat
    BY <1>1
  <2>2. rest \in Nat /\ a < rest /\ rest + 16 <= After(b, a)
    BY <2>1, <1>2, <1>3
  <2>3. rest % 4 = 0
    BY <2>1
  <2> QED BY <2>2, <2>3
<1>5. rest \notin DOMAIN b
  BY <1>1, <1>2, <1>4 DEF Chained
<1>6. \A x \in DOMAIN b : x # a => c[x] = b[x]
  BY <1>5
<1>7. c[a] \in Header /\ c[a].size = need
  BY DEF Header
<1>8. /\ c[rest] \in Header /\ c[rest].size = b[a].size - need - 8
      /\ c[rest].size \in Nat /\ c[rest].size % 4 = 0
  BY <1>1, <1>3 DEF Header
<1>9. Shaped(c)
  <2>1. rest + 16 <= MemoryEnd /\ mMemoryStart <= rest
    BY <1>1, <1>2, <1>4, StartFacts
  <2>2. ASSUME NEW x \in DOMAIN c
        PROVE  /\ c[x] \in Header /\ c[x].size % 4 = 0
               /\ x \in Nat /\ x % 4 = 0 /\ mMemoryStart <= x /\ x + 16 <= MemoryEnd
    <3>1. CASE x = a
      BY <3>1, <1>1, <1>7
    <3>2. CASE x = rest
      BY <3>2, <2>1, <1>4, <1>8
    <3>3. CASE x \in DOMAIN b /\ x # a
      BY <3>3, <1>1, <1>6
    <3> QED BY <3>1, <3>2, <3>3
  <2> QED BY <2>2 DEF Shaped
<1>10. After(c, a) = rest /\ After(c, rest) = After(b, a)
  BY <1>1, <1>2, <1>4, <1>7, <1>8 DEF After
<1>11. ASSUME NEW x \in DOMAIN c
       PROVE  /\ After(c, x) \in DOMAIN c \cup {MemoryEnd}
              /\ \A d \in DOMAIN c : x < d => After(c, x) <= d
  <2>1. CASE x = a
    <3>1. ASSUME NEW d \in DOMAIN b, a < d PROVE rest <= d
      BY <3>1, <1>1, <1>2, <1>4 DEF Chained
    <3> QED BY <2>1, <3>1, <1>10, <1>4
  <2>2. CASE x = rest
    <3>1. ASSUME NEW d \in DOMAIN b, rest < d PROVE After(b, a) <= d
      BY <3>1, <1>1, <1>4 DEF Chained
    <3> QED BY <2>2, <3>1, <1>10, <1>4 DEF Chained
  <2>3. CASE x \in DOMAIN b /\ x # a
    <3>1. After(c, x) = After(b, x)
      BY <2>3, <1>6 DEF After
    <3>2. x < rest => After(b, x) <= rest
      <4>1. CASE x < a
        BY <4>1, <2>3, <1>1, <1>4, AfterFacts DEF Chained
      <4>2. CASE a < x
        BY <4>2, <2>3, <1>1, <1>2, <1>4 DEF Chained
      <4> QED BY <4>1, <4>2, <2>3, <1>1
    <3> QED BY <2>3, <3>1, <3>2 DEF Chained
  <2> QED BY <2>1, <2>2, <2>3
<1> QED BY <1>5, <1>9, <1>11 DEF Chained

\* Headers that change their mark only leave the memory cut into blocks.
LEMMA MarkCut ==
    ASSUME NEW b, Shaped(b), Chained(b),
           NEW c, DOMAIN c = DOMAIN b,
           \A x \in DOMAIN b : c[x] \in Header /\ c[x].size = b[x].size
    PROVE  Shaped(c) /\ Chained(c) /\ \A x \in DOMAIN b : After(c, x) = After(b, x)
<1>1. \A x \in DOMAIN b : After(c, x) = After(b, x)
  BY DEF After
<1>2. Shaped(c)
  BY DEF Shaped
<1> QED BY <1>1, <1>2 DEF Chained

\* Free() marks the block of a pointer, and nothing else.
LEMMA FreedFacts ==
    ASSUME NEW b, Shaped(b), Chained(b), NEW p \in Nat, p - HDR \in DOMAIN b
    PROVE  /\ DOMAIN Freed(b, p) = DOMAIN b
           /\ \A x \in DOMAIN b : /\ Freed(b, p)[x] \in Header
                                /\ Freed(b, p)[x].size = b[x].size
                                /\ Freed(b, p)[x].free = (b[x].free \/ x = p - HDR)
<1>1. p <= mMemoryEnd
  BY StartFacts DEF Shaped
<1>2. Freed(b, p) = [x \in DOMAIN b |-> [b[x] EXCEPT !.free = @ \/ x = p - HDR]]
  BY <1>1, StartFacts DEF Freed
<1>3. \A x \in DOMAIN b : b[x] \in Header
  BY DEF Shaped
<1> QED BY <1>2, <1>3 DEF Header

\* The memory of a new heap is cut into one block.
LEMMA NewBlocksCut ==
    ASSUME NEW b, DOMAIN b = {mMemoryStart},
           b[mMemoryStart] = [free |-> TRUE, size |-> MemoryEnd - mMemoryStart - HDR]
    PROVE  Shaped(b) /\ Chained(b)
<1>1. /\ b[mMemoryStart] \in Header
      /\ b[mMemoryStart].size = MemoryEnd - mMemoryStart - 8
      /\ b[mMemoryStart].size % 4 = 0
  BY StartFacts DEF Header
<1>2. After(b, mMemoryStart) = MemoryEnd
  BY <1>1, StartFacts DEF After
<1>3. mMemoryStart \in Nat /\ mMemoryStart % 4 = 0 /\ mMemoryStart + 16 <= MemoryEnd
      /\ mMemoryStart <= mMemoryStart
  BY StartFacts
<1>4. Shaped(b)
  BY <1>1, <1>3 DEF Shaped
<1>5. \A x, d \in DOMAIN b : ~(x < d)
  BY <1>3
<1>6. Chained(b)
  BY <1>2, <1>5 DEF Chained
<1> QED BY <1>4, <1>6

-----------------------------------------------------------------------------
(* The inductive invariant *)

Walks == [at : Nat, size : 0..(Word - 1), old : Nat]

WalkOK ==
    \/ walk = Idle
    \/ /\ walk \in Walks
       /\ walk.at \in DOMAIN blocks \cup {MemoryEnd}
       /\ walk.old \in {NULL} \cup DOMAIN held

\* A block in the hands of a client
HeldOK ==
    \A p \in DOMAIN held :
        /\ p \in Nat /\ p - HDR \in DOMAIN blocks
        /\ held[p] \in 0..(Word - 1)
        /\ ~blocks[p - HDR].free
        /\ held[p] <= Word - 4 => held[p] <= blocks[p - HDR].size

\* The walk has left behind no block that would do, and no free neighbours.
Passed ==
    Walking =>
        \A a \in DOMAIN blocks : a < walk.at /\ blocks[a].free =>
            /\ blocks[a].size < NumBytes(walk.size)
            /\ After(blocks, a) \in DOMAIN blocks => ~blocks[After(blocks, a)].free

HeapInv ==
    /\ Shaped(blocks) /\ Chained(blocks)
    /\ WalkOK /\ HeldOK /\ NoLeak /\ Passed

\* The invariant gives every property that the runs check.
LEMMA InvImplies ==
    ASSUME HeapInv
    PROVE  TypeOK /\ Tiling /\ Granted /\ NoLeak /\ FailsOnlyIfFull
<1> USE DEF HeapInv
<1>1. \A a \in DOMAIN blocks : /\ a \in Nat /\ mMemoryStart <= a /\ a + 16 <= MemoryEnd
                              /\ blocks[a] \in Header /\ blocks[a].size \in Nat
  BY DEF Shaped, Header
<1>2. \A p \in DOMAIN held : p \in mMemoryStart..MemoryEnd
  <2> SUFFICES ASSUME NEW p \in DOMAIN held PROVE p \in mMemoryStart..MemoryEnd
    OBVIOUS
  <2>1. p \in Nat /\ mMemoryStart <= p - 8 /\ (p - 8) + 16 <= MemoryEnd
    BY <1>1 DEF HeldOK
  <2> QED BY <2>1, StartFacts
<1>3. TypeOK
  <2>1. DOMAIN blocks \subseteq mMemoryStart..MemoryEnd
    BY <1>1, StartFacts
  <2>2. \A a \in DOMAIN blocks : blocks[a] \in [free : BOOLEAN, size : Nat]
    BY <1>1 DEF Header
  <2>3. walk = Idle \/ walk \in [at : mMemoryStart..MemoryEnd, size : 0..(Word - 1),
                                 old : {NULL} \cup DOMAIN held]
    BY <2>1, StartFacts DEF WalkOK, Walks
  <2> QED BY <1>2, <2>1, <2>2, <2>3 DEF TypeOK, HeldOK
<1>4. Tiling
  BY DEF Tiling, Chained, After, NextHeader
<1>5. Granted
  BY DEF Granted, HeldOK
<1>6. FailsOnlyIfFull
  <2> SUFFICES ASSUME Walking, walk.at >= mMemoryEnd,
                      NEW a \in DOMAIN blocks, NEW e \in DOMAIN blocks \cup {MemoryEnd},
                      FreeRange(a, e)
               PROVE  e - a - HDR < NumBytes(walk.size)
    BY DEF FailsOnlyIfFull
  <2>1. walk \in Walks /\ walk.at = MemoryEnd
    BY <1>1, StartFacts DEF WalkOK, Walking, Idle
  <2>2. a < e /\ blocks[a].free
    BY <1>1 DEF FreeRange
  <2>3. /\ blocks[a].size < NumBytes(walk.size)
        /\ After(blocks, a) \in DOMAIN blocks => ~blocks[After(blocks, a)].free
    BY <2>1, <2>2, <1>1, StartFacts DEF Passed
  <2>4. After(blocks, a) <= e /\ e <= MemoryEnd
    BY <2>2, <1>1, AfterFacts, StartFacts DEF Chained
  <2>5. After(blocks, a) = e
    <3> SUFFICES ASSUME After(blocks, a) # e PROVE FALSE
      OBVIOUS
    <3>1. After(blocks, a) \in Nat /\ After(blocks, a) < e /\ a <= After(blocks, a)
      BY <2>4, <1>1, AfterFacts, StartFacts
    <3>2. After(blocks, a) \in DOMAIN blocks
      <4>1. After(blocks, a) # MemoryEnd
        BY <3>1, <2>4, <1>1, StartFacts
      <4> QED BY <4>1 DEF Chained
    <3> QED BY <3>1, <3>2, <2>3 DEF FreeRange
  <2>6. e = a + 8 + blocks[a].size /\ a \in Nat /\ blocks[a].size \in Nat
    BY <2>5, <1>1 DEF After
  <2>7. NumBytes(walk.size) \in Nat
    BY <2>1, NumBytesFacts DEF Walks
  <2> QED BY <2>3, <2>6, <2>7
<1> QED BY <1>3, <1>4, <1>5, <1>6

LEMMA InitInv == Init => HeapInv
<1> SUFFICES ASSUME Init PROVE HeapInv
  OBVIOUS
<1>1. /\ DOMAIN blocks = {mMemoryStart}
      /\ blocks[mMemoryStart] = [free |-> TRUE, size |-> MemoryEnd - mMemoryStart - HDR]
      /\ DOMAIN held = {} /\ walk = Idle
  BY DEF Init, NewBlocks
<1>2. Shaped(blocks) /\ Chained(blocks)
  BY <1>1, NewBlocksCut
<1>3. NoLeak
  BY <1>1 DEF NoLeak
<1>4. WalkOK /\ HeldOK /\ Passed
  BY <1>1 DEF WalkOK, HeldOK, Passed, Walking, Idle
<1> QED BY <1>2, <1>3, <1>4 DEF HeapInv

-----------------------------------------------------------------------------
(* The steps *)

\* Between two calls there is no walk.
LEMMA NotWalking ==
    ASSUME HeapInv, ~Walking
    PROVE  walk = Idle
<1>1. \A a \in DOMAIN blocks \cup {MemoryEnd} : a # 0
  BY StartFacts DEF HeapInv, Shaped
<1> QED BY <1>1 DEF HeapInv, WalkOK, Walking

\* A walk is at a header or at the end.
LEMMA WalkFacts ==
    ASSUME HeapInv, Walking
    PROVE  /\ walk \in Walks /\ walk.old \in {NULL} \cup DOMAIN held
           /\ walk.at \in DOMAIN blocks \cup {MemoryEnd}
           /\ walk.at < mMemoryEnd => walk.at \in DOMAIN blocks
<1>1. walk # Idle
  BY DEF Walking, Idle
<1> QED BY <1>1, StartFacts DEF HeapInv, WalkOK

\* What the walk sees of the next header.
LEMMA NextFreeFacts ==
    ASSUME Shaped(blocks), Chained(blocks), NEW a \in DOMAIN blocks
    PROVE  NextIsFree(a) <=> /\ blocks[a].free
                             /\ After(blocks, a) \in DOMAIN blocks
                             /\ blocks[After(blocks, a)].free
<1>1. NextHeader(a) = After(blocks, a)
  BY DEF NextHeader, After
<1>2. After(blocks, a) < mMemoryEnd <=> After(blocks, a) \in DOMAIN blocks
  BY AfterFacts
<1> QED BY <1>1, <1>2 DEF NextIsFree

\* A walk begins at the first header: there is nothing to have passed.
LEMMA AllocStep ==
    ASSUME HeapInv, NEW size \in Requests, NEW old \in {NULL} \cup DOMAIN held,
           AllocFor(size, old)
    PROVE  HeapInv'
<1>1. /\ walk' = [at |-> mMemoryStart, size |-> size, old |-> old]
      /\ blocks' = blocks /\ held' = held
  BY DEF AllocFor
<1>2. old \in Nat /\ size \in 0..(Word - 1)
  BY DEF HeapInv, HeldOK
<1>3. WalkOK'
  BY <1>1, <1>2, StartFacts DEF HeapInv, Chained, WalkOK, Walks
<1>4. \A a \in DOMAIN blocks : ~(a < mMemoryStart)
  BY StartFacts DEF HeapInv, Shaped
<1>5. Passed'
  BY <1>1, <1>4 DEF Passed
<1>6. HeldOK' /\ NoLeak'
  BY <1>1 DEF HeapInv, HeldOK, NoLeak
<1>7. Shaped(blocks)' /\ Chained(blocks)'
  BY <1>1 DEF HeapInv, Shaped, Chained, After
<1> QED BY <1>3, <1>5, <1>6, <1>7 DEF HeapInv

\* Free: the block is no longer held, and the only one whose mark changes.
LEMMA FreeStep ==
    ASSUME HeapInv, NEW p \in DOMAIN held, Free(p)
    PROVE  HeapInv'
<1>1. /\ blocks' = Freed(blocks, p) /\ held' = Without(held, p) /\ walk' = walk
      /\ walk = Idle
  BY NotWalking DEF Free
<1>2. p \in Nat /\ p - HDR \in DOMAIN blocks
  BY DEF HeapInv, HeldOK
<1>3. /\ DOMAIN blocks' = DOMAIN blocks
      /\ \A x \in DOMAIN blocks : /\ blocks'[x] \in Header
                                /\ blocks'[x].size = blocks[x].size
                                /\ blocks'[x].free = (blocks[x].free \/ x = p - HDR)
  BY <1>1, <1>2, FreedFacts DEF HeapInv
<1>4. Shaped(blocks') /\ Chained(blocks')
  BY <1>3, MarkCut DEF HeapInv
<1>5. DOMAIN held' = DOMAIN held \ {p} /\ \A q \in DOMAIN held' : held'[q] = held[q]
  BY <1>1, WithoutFacts
<1>6. HeldOK'
  <2> SUFFICES ASSUME NEW q \in DOMAIN held'
               PROVE  /\ q \in Nat /\ q - HDR \in DOMAIN blocks'
                      /\ held'[q] \in 0..(Word - 1)
                      /\ ~blocks'[q - HDR].free
                      /\ held'[q] <= Word - 4 => held'[q] <= blocks'[q - HDR].size
    BY DEF HeldOK
  <2>1. /\ q \in Nat /\ q - HDR \in DOMAIN blocks /\ held[q] \in 0..(Word - 1)
        /\ ~blocks[q - HDR].free
        /\ held[q] <= Word - 4 => held[q] <= blocks[q - HDR].size
    BY <1>5 DEF HeapInv, HeldOK
  <2>2. q - HDR # p - HDR
    BY <1>2, <1>5, <2>1
  <2> QED BY <1>3, <1>5, <2>1, <2>2
<1>7. NoLeak'
  <2> SUFFICES ASSUME NEW a \in DOMAIN blocks', ~blocks'[a].free PROVE a + HDR \in DOMAIN held'
    BY DEF NoLeak
  <2>1. ~blocks[a].free /\ a # p - HDR /\ a + HDR \in DOMAIN held
    BY <1>3 DEF HeapInv, NoLeak
  <2>2. a \in Nat
    BY <1>3 DEF HeapInv, Shaped
  <2> QED BY <1>2, <1>5, <2>1, <2>2
<1>8. WalkOK' /\ Passed'
  BY <1>1 DEF WalkOK, Passed, Walking, Idle
<1> QED BY <1>4, <1>6, <1>7, <1>8 DEF HeapInv

\* Realloc to the size of the block: the client asked for another size.
LEMMA ResizeStep ==
    ASSUME HeapInv, NEW size \in Requests, NEW p \in DOMAIN held,
           ~Walking, blocks[p - HDR].size = size,
           held' = With(held, p, size), blocks' = blocks, walk' = walk
    PROVE  HeapInv'
<1>1. DOMAIN held' = DOMAIN held /\ held'[p] = size
      /\ \A q \in DOMAIN held : q # p => held'[q] = held[q]
  BY DEF With
<1>2. HeldOK'
  <2>1. size \in 0..(Word - 1) /\ size <= blocks[p - HDR].size
    OBVIOUS
  <2> QED BY <1>1, <2>1 DEF HeapInv, HeldOK
<1>3. WalkOK' /\ Passed'
  BY NotWalking DEF WalkOK, Passed, Walking, Idle
<1>4. NoLeak'
  BY <1>1 DEF HeapInv, NoLeak
<1>5. Shaped(blocks') /\ Chained(blocks')
  BY DEF HeapInv
<1> QED BY <1>2, <1>3, <1>4, <1>5 DEF HeapInv

\* Joining: both blocks are free, so nobody holds them, and the block before
\* them was passed because it is used or followed by a used one.
LEMMA CoalesceStep ==
    ASSUME HeapInv, Coalesce
    PROVE  HeapInv'
<1> DEFINE a == walk.at
           n == After(blocks, a)
<1>1. a \in DOMAIN blocks /\ walk' = walk /\ held' = held
  BY WalkFacts DEF Coalesce
<1>2. n = NextHeader(a)
  BY DEF After, NextHeader
<1>3. blocks[a].free /\ n \in DOMAIN blocks /\ blocks[n].free
  BY <1>1, NextFreeFacts DEF Coalesce, HeapInv
<1>4. a \in Nat /\ n \in Nat /\ a < n
  BY <1>1, AfterFacts DEF HeapInv, Shaped
<1> DEFINE w == With(blocks, a, [free |-> TRUE, size |-> Joined(a)])
<1>5. /\ DOMAIN w = DOMAIN blocks /\ w[a] = [free |-> TRUE, size |-> Joined(a)]
      /\ \A x \in DOMAIN blocks : x # a => w[x] = blocks[x]
  BY <1>1 DEF With
<1>6. blocks' = Without(w, n)
  BY <1>2 DEF Coalesce
<1> HIDE DEF w
<1>7. /\ DOMAIN blocks' = DOMAIN blocks \ {n}
      /\ blocks'[a] = [free |-> TRUE, size |-> blocks[a].size + blocks[n].size + HDR]
      /\ \A x \in DOMAIN blocks' : x # a => blocks'[x] = blocks[x]
  <2>1. DOMAIN blocks' = DOMAIN blocks \ {n} /\ \A x \in DOMAIN blocks' : blocks'[x] = w[x]
    BY <1>5, <1>6 DEF Without
  <2>2. a \in DOMAIN blocks'
    BY <1>1, <1>4, <2>1
  <2>3. Joined(a) = blocks[a].size + blocks[n].size + HDR
    BY <1>2 DEF Joined
  <2> QED BY <1>5, <2>1, <2>2, <2>3
<1>8. Shaped(blocks') /\ Chained(blocks') /\ a \in DOMAIN blocks'
  BY <1>1, <1>3, <1>7, JoinCut DEF HeapInv
<1>9. HeldOK'
  BY <1>1, <1>3, <1>7 DEF HeapInv, HeldOK
<1>10. NoLeak'
  BY <1>1, <1>3, <1>7 DEF HeapInv, NoLeak
<1>11. WalkOK'
  BY <1>1, <1>8 DEF HeapInv, WalkOK
<1>12. Passed'
  <2> SUFFICES ASSUME NEW x \in DOMAIN blocks', x < a, blocks'[x].free, Walking
               PROVE  /\ blocks'[x].size < NumBytes(walk.size)
                      /\ After(blocks', x) \in DOMAIN blocks' => ~blocks'[After(blocks', x)].free
    BY <1>1 DEF Passed, Walking
  <2>1. x \in DOMAIN blocks /\ x # a /\ blocks'[x] = blocks[x]
    BY <1>4, <1>7 DEF HeapInv, Shaped
  <2>2. After(blocks', x) = After(blocks, x)
    BY <2>1 DEF After
  <2>3. /\ blocks[x].size < NumBytes(walk.size)
        /\ After(blocks, x) \in DOMAIN blocks => ~blocks[After(blocks, x)].free
    BY <2>1 DEF HeapInv, Passed
  <2> QED BY <1>3, <1>7, <2>1, <2>2, <2>3
<1> QED BY <1>8, <1>9, <1>10, <1>11, <1>12 DEF HeapInv

\* Going on: the block left behind is too small, or not free.
LEMMA GoOnStep ==
    ASSUME HeapInv, GoOn
    PROVE  HeapInv'
<1> DEFINE a == walk.at
           n == After(blocks, a)
<1>1. a \in DOMAIN blocks /\ blocks' = blocks /\ held' = held /\ walk \in Walks /\ Walking
      /\ walk.old \in {NULL} \cup DOMAIN held
  BY WalkFacts DEF GoOn
<1>2. walk' = [walk EXCEPT !.at = n]
  BY DEF GoOn, After, NextHeader
<1>3. n \in Nat /\ n \in DOMAIN blocks \cup {MemoryEnd}
  BY <1>1, AfterFacts DEF HeapInv, Chained
<1>4. walk' \in Walks /\ walk'.at = n /\ walk'.size = walk.size /\ walk'.old = walk.old
  BY <1>1, <1>2, <1>3 DEF Walks
<1>5. WalkOK'
  BY <1>1, <1>3, <1>4 DEF WalkOK
<1>6. Passed'
  <2> SUFFICES ASSUME NEW x \in DOMAIN blocks, x < n, blocks[x].free
               PROVE  /\ blocks[x].size < NumBytes(walk.size)
                      /\ After(blocks, x) \in DOMAIN blocks => ~blocks[After(blocks, x)].free
    BY <1>1, <1>4 DEF Passed, After
  <2>1. x \in Nat /\ a \in Nat /\ blocks[x].size \in Nat
    BY <1>1 DEF HeapInv, Shaped, Header
  <2>2. ~(a < x)
    BY <1>1, <1>3, <2>1 DEF HeapInv, Chained
  <2>3. CASE x < a
    BY <1>1, <2>3 DEF HeapInv, Passed
  <2>4. CASE x = a
    <3>1. NumBytes(walk.size) \in Nat
      BY <1>1, NumBytesFacts DEF Walks
    <3>2. blocks[x].size < NumBytes(walk.size)
      BY <2>1, <2>4, <3>1 DEF GoOn, Fits
    <3>3. ~NextIsFree(a)
      BY DEF GoOn
    <3> QED BY <1>1, <2>4, <3>2, <3>3, NextFreeFacts DEF HeapInv
  <2> QED BY <2>1, <2>2, <2>3, <2>4
<1>7. HeldOK' /\ NoLeak'
  BY <1>1 DEF HeapInv, HeldOK, NoLeak
<1> QED BY <1>1, <1>5, <1>6, <1>7 DEF HeapInv

\* What taking a block does: the block is used and large enough, what is new
\* is free, and nothing else changes.
LEMMA TakenFacts ==
    ASSUME HeapInv, Walking, NEW a \in DOMAIN blocks, Fits(a)
    PROVE  /\ Shaped(Taken(a)) /\ Chained(Taken(a))
           /\ DOMAIN blocks \subseteq DOMAIN Taken(a)
           /\ ~Taken(a)[a].free /\ NumBytes(walk.size) <= Taken(a)[a].size
           /\ \A x \in DOMAIN blocks : x # a => Taken(a)[x] = blocks[x]
           /\ \A x \in DOMAIN Taken(a) : x \notin DOMAIN blocks => Taken(a)[x].free
<1> DEFINE need == NumBytes(walk.size)
           rest == a + HDR + need
           fill == [free |-> FALSE, size |-> need]
           room == [free |-> TRUE, size |-> blocks[a].size - need - HDR]
           all == [free |-> FALSE, size |-> blocks[a].size]
<1>1. need \in Nat /\ need % 4 = 0
  BY WalkFacts, NumBytesFacts DEF Walks
<1>2. a \in Nat /\ blocks[a].size \in Nat /\ blocks[a].free /\ need <= blocks[a].size
  BY <1>1 DEF Fits, HeapInv, Shaped, Header
<1>3. CASE blocks[a].size > need + HDR + 4
  <2> DEFINE w == With(blocks, rest, room)
  <2>1. Taken(a) = With(w, a, fill)
    BY <1>3 DEF Taken
  <2>2. rest # a
    BY <1>1, <1>2
  <2>3. /\ DOMAIN w = DOMAIN blocks \cup {rest} /\ w[rest] = room
        /\ \A x \in DOMAIN blocks : x # rest => w[x] = blocks[x]
    BY DEF With
  <2> HIDE DEF w, fill, room, rest
  <2>4. /\ DOMAIN Taken(a) = DOMAIN blocks \cup {rest}
        /\ Taken(a)[a] = fill
        /\ Taken(a)[rest] = room
        /\ \A x \in DOMAIN blocks : x # a /\ x # rest => Taken(a)[x] = blocks[x]
    BY <2>1, <2>2, <2>3 DEF With
  <2> USE DEF fill, room, rest
  <2>5. Shaped(Taken(a)) /\ Chained(Taken(a)) /\ rest \notin DOMAIN blocks
    BY <1>1, <1>3, <2>4, SplitCut DEF HeapInv
  <2> QED BY <1>1, <2>4, <2>5
<1>4. CASE ~(blocks[a].size > need + HDR + 4)
  <2>1. Taken(a) = With(blocks, a, all)
    BY <1>4 DEF Taken
  <2>2. /\ DOMAIN Taken(a) = DOMAIN blocks /\ Taken(a)[a] = all
        /\ \A x \in DOMAIN blocks : x # a => Taken(a)[x] = blocks[x]
    BY <2>1 DEF With
  <2>3. \A x \in DOMAIN blocks : Taken(a)[x] \in Header /\ Taken(a)[x].size = blocks[x].size
    <3>1. all \in Header /\ all.size = blocks[a].size
      BY <1>2 DEF Header
    <3>2. \A x \in DOMAIN blocks : blocks[x] \in Header
      BY DEF HeapInv, Shaped
    <3> HIDE DEF all
    <3> QED BY <2>2, <3>1, <3>2
  <2>4. Shaped(Taken(a)) /\ Chained(Taken(a))
    BY <2>2, <2>3, MarkCut DEF HeapInv
  <2> QED BY <1>2, <2>2, <2>4
<1> QED BY <1>3, <1>4

\* The blocks after Found: those after Taken, the old one being free.
LEMMA FoundFacts ==
    ASSUME HeapInv, Found
    PROVE  /\ walk.at \in DOMAIN blocks /\ blocks[walk.at].free
           /\ Shaped(blocks') /\ Chained(blocks')
           /\ DOMAIN blocks \subseteq DOMAIN blocks'
           /\ ~blocks'[walk.at].free /\ NumBytes(walk.size) <= blocks'[walk.at].size
           /\ \A x \in DOMAIN blocks : x # walk.at =>
                 /\ blocks'[x].size = blocks[x].size
                 /\ ~blocks'[x].free <=> ~blocks[x].free /\ x # walk.old - HDR
           /\ \A x \in DOMAIN blocks' : x \notin DOMAIN blocks => blocks'[x].free
<1> DEFINE a == walk.at
           c == Taken(a)
<1>1. Walking /\ a \in DOMAIN blocks /\ Fits(a) /\ blocks[a].free
  BY WalkFacts DEF Found, Fits
<1>2. /\ Shaped(c) /\ Chained(c)
      /\ DOMAIN blocks \subseteq DOMAIN c
      /\ ~c[a].free /\ NumBytes(walk.size) <= c[a].size
      /\ \A x \in DOMAIN blocks : x # a => c[x] = blocks[x]
      /\ \A x \in DOMAIN c : x \notin DOMAIN blocks => c[x].free
  BY <1>1, TakenFacts
<1> HIDE DEF c
<1>3. CASE walk.old = NULL
  <2>1. blocks' = c
    BY <1>3 DEF Found, c
  <2>2. \A x \in DOMAIN blocks : x # walk.old - HDR
    BY <1>3 DEF HeapInv, Shaped
  <2> QED BY <1>1, <1>2, <2>1, <2>2
<1>4. CASE walk.old # NULL
  <2>1. blocks' = Freed(c, walk.old)
    BY <1>4 DEF Found, c
  <2>2. walk.old \in DOMAIN held
    BY <1>1, <1>4, WalkFacts
  <2>3. /\ walk.old \in Nat /\ walk.old - HDR \in DOMAIN blocks
        /\ ~blocks[walk.old - HDR].free
    BY <2>2 DEF HeapInv, HeldOK
  <2>4. walk.old - HDR # a
    BY <1>1, <2>3
  <2>5. walk.old - HDR \in DOMAIN c
    BY <1>2, <2>3
  <2>6. /\ DOMAIN blocks' = DOMAIN c
        /\ \A x \in DOMAIN c : /\ blocks'[x] \in Header
                             /\ blocks'[x].size = c[x].size
                             /\ blocks'[x].free = (c[x].free \/ x = walk.old - HDR)
    BY <1>2, <2>1, <2>3, <2>5, FreedFacts
  <2>7. Shaped(blocks') /\ Chained(blocks')
    BY <1>2, <2>6, MarkCut
  <2> QED BY <1>1, <1>2, <2>4, <2>6, <2>7
<1> QED BY <1>3, <1>4

\* Finding a block: the client holds it instead of the old one.
LEMMA FoundStep ==
    ASSUME HeapInv, Found
    PROVE  HeapInv'
<1> DEFINE a == walk.at
           p == a + HDR
           kept == IF walk.old = NULL THEN held ELSE Without(held, walk.old)
<1>1. /\ a \in DOMAIN blocks /\ blocks[a].free
      /\ Shaped(blocks') /\ Chained(blocks')
      /\ DOMAIN blocks \subseteq DOMAIN blocks'
      /\ ~blocks'[a].free /\ NumBytes(walk.size) <= blocks'[a].size
      /\ \A x \in DOMAIN blocks : x # a =>
            /\ blocks'[x].size = blocks[x].size
            /\ ~blocks'[x].free <=> ~blocks[x].free /\ x # walk.old - HDR
      /\ \A x \in DOMAIN blocks' : x \notin DOMAIN blocks => blocks'[x].free
  BY FoundFacts
<1>2. walk \in Walks /\ walk.old \in Nat /\ walk.size \in 0..(Word - 1)
  BY WalkFacts DEF Found, Walks
<1>3. \A q \in DOMAIN held : /\ q \in Nat /\ q - HDR \in DOMAIN blocks
                           /\ held[q] \in 0..(Word - 1) /\ ~blocks[q - HDR].free
                           /\ held[q] <= Word - 4 => held[q] <= blocks[q - HDR].size
  BY DEF HeapInv, HeldOK
<1>4. \A x \in DOMAIN blocks : x \in Nat
  BY DEF HeapInv, Shaped
<1>5. a \in Nat /\ p \in Nat /\ p - HDR = a
  BY <1>1, <1>4
<1>6. NULL \notin DOMAIN held
  <2> SUFFICES ASSUME NULL \in DOMAIN held PROVE FALSE
    OBVIOUS
  <2>1. NULL - HDR \in DOMAIN blocks
    BY DEF HeapInv, HeldOK
  <2> QED BY <1>4, <2>1
<1>7. DOMAIN kept = DOMAIN held \ {walk.old} /\ \A q \in DOMAIN kept : kept[q] = held[q]
  BY <1>6 DEF Without
<1>8. held' = With(kept, p, walk.size) /\ walk' = Idle
  BY DEF Found
<1> HIDE DEF kept
<1>9. /\ DOMAIN held' = (DOMAIN held \ {walk.old}) \cup {p}
      /\ held'[p] = walk.size
      /\ \A q \in DOMAIN held' : q # p => held'[q] = held[q]
  BY <1>7, <1>8 DEF With
<1>10. HeldOK'
  <2> SUFFICES ASSUME NEW q \in DOMAIN held'
               PROVE  /\ q \in Nat /\ q - HDR \in DOMAIN blocks'
                      /\ held'[q] \in 0..(Word - 1)
                      /\ ~blocks'[q - HDR].free
                      /\ held'[q] <= Word - 4 => held'[q] <= blocks'[q - HDR].size
    BY DEF HeldOK
  <2>1. CASE q = p
    <3>1. walk.size <= Word - 4 => walk.size <= NumBytes(walk.size)
      BY <1>2, NumBytesFacts
    <3>2. blocks'[a].size \in Nat /\ NumBytes(walk.size) \in Nat
      BY <1>1, <1>2, NumBytesFacts DEF Shaped, Header
    <3>3. walk.size <= Word - 4 => walk.size <= blocks'[a].size
      BY <1>1, <1>2, <3>1, <3>2
    <3> QED BY <1>1, <1>2, <1>5, <1>9, <2>1, <3>3
  <2>2. CASE q # p
    <3>1. q \in DOMAIN held /\ q # walk.old /\ held'[q] = held[q]
      BY <1>9, <2>2
    <3>2. /\ q \in Nat /\ q - HDR \in DOMAIN blocks /\ held[q] \in 0..(Word - 1)
          /\ ~blocks[q - HDR].free
          /\ held[q] <= Word - 4 => held[q] <= blocks[q - HDR].size
      BY <3>1 DEF HeapInv, HeldOK
    <3>3. q - HDR # a /\ q - HDR # walk.old - HDR
      BY <1>1, <1>2, <3>1, <3>2
    <3> DEFINE h == q - HDR
    <3>4. /\ h \in DOMAIN blocks /\ h # a /\ h # walk.old - HDR /\ ~blocks[h].free
          /\ held[q] <= Word - 4 => held[q] <= blocks[h].size
      BY <3>2, <3>3
    <3> HIDE DEF h
    <3>5. h \in DOMAIN blocks' /\ ~blocks'[h].free /\ blocks'[h].size = blocks[h].size
      BY <1>1, <3>4
    <3> QED BY <3>1, <3>2, <3>4, <3>5 DEF h
  <2> QED BY <2>1, <2>2
<1>11. NoLeak'
  <2> SUFFICES ASSUME NEW x \in DOMAIN blocks', ~blocks'[x].free PROVE x + HDR \in DOMAIN held'
    BY DEF NoLeak
  <2>1. CASE x = a
    BY <1>9, <2>1
  <2>2. CASE x # a
    <3>1. x \in DOMAIN blocks /\ ~blocks[x].free /\ x # walk.old - HDR
      BY <1>1, <2>2
    <3>2. x + HDR \in DOMAIN held /\ x + HDR # walk.old
      BY <1>2, <1>4, <3>1 DEF HeapInv, NoLeak
    <3> QED BY <1>9, <3>2
  <2> QED BY <2>1, <2>2
<1>12. WalkOK' /\ Passed'
  BY <1>8 DEF WalkOK, Passed, Walking, Idle
<1> QED BY <1>1, <1>10, <1>11, <1>12 DEF HeapInv

\* Giving up changes no block.
LEMMA FailStep ==
    ASSUME HeapInv, Fail
    PROVE  HeapInv'
<1>1. walk' = Idle /\ blocks' = blocks /\ held' = held
  BY DEF Fail
<1>2. WalkOK' /\ Passed'
  BY <1>1 DEF WalkOK, Passed, Walking, Idle
<1> QED BY <1>1, <1>2 DEF HeapInv, HeldOK, NoLeak

\* A new heap, as in Init
LEMMA RenewStep ==
    ASSUME HeapInv, Renew
    PROVE  HeapInv'
<1>1. /\ DOMAIN blocks' = {mMemoryStart}
      /\ blocks'[mMemoryStart] = [free |-> TRUE, size |-> MemoryEnd - mMemoryStart - HDR]
      /\ DOMAIN held' = {} /\ walk' = Idle
  BY NotWalking DEF Renew, NewBlocks
<1>2. Shaped(blocks') /\ Chained(blocks')
  BY <1>1, NewBlocksCut
<1>3. NoLeak'
  BY <1>1 DEF NoLeak
<1>4. WalkOK' /\ HeldOK' /\ Passed'
  BY <1>1 DEF WalkOK, HeldOK, Passed, Walking, Idle
<1> QED BY <1>2, <1>3, <1>4 DEF HeapInv

LEMMA StepInv == HeapInv /\ [Next]_vars => HeapInv'
<1> SUFFICES ASSUME HeapInv, [Next]_vars PROVE HeapInv'
  OBVIOUS
<1>1. ASSUME NEW size \in Requests, Alloc(size) PROVE HeapInv'
  BY <1>1, AllocStep DEF Alloc
<1>2. ASSUME NEW size \in Requests, NEW p \in DOMAIN held, Realloc(p, size) PROVE HeapInv'
  <2>1. CASE /\ ~Walking /\ blocks[p - HDR].size = size
             /\ held' = With(held, p, size) /\ UNCHANGED <<blocks, walk>>
    BY <2>1, ResizeStep
  <2>2. CASE Free(p)
    BY <2>2, FreeStep
  <2>3. CASE AllocFor(size, p)
    BY <2>3, AllocStep
  <2> QED BY <1>2, <2>1, <2>2, <2>3 DEF Realloc
<1>3. ASSUME NEW p \in DOMAIN held, Free(p) PROVE HeapInv'
  BY <1>3, FreeStep
<1>4. CASE Coalesce
  BY <1>4, CoalesceStep
<1>5. CASE Found
  BY <1>5, FoundStep
<1>6. CASE GoOn
  BY <1>6, GoOnStep
<1>7. CASE Fail
  BY <1>7, FailStep
<1>8. CASE Renew
  BY <1>8, RenewStep
<1>9. CASE UNCHANGED vars
  BY <1>9 DEF vars, HeapInv, Shaped, Chained, After, WalkOK, HeldOK, NoLeak, Passed, Walking
<1> QED BY <1>1, <1>2, <1>3, <1>4, <1>5, <1>6, <1>7, <1>8, <1>9 DEF Next

-----------------------------------------------------------------------------
(* The theorems *)

\* The memory is always cut into blocks, what is given out is used, nothing
\* that is used is lost, and a walk leaves behind nothing that would do.
THEOREM HeapInvariant == Spec => []HeapInv
BY InitInv, StepInv, PTL DEF Spec

\* The state of AEEHeap stays within its types.
THEOREM TypeCorrect == Spec => []TypeOK
<1>1. HeapInv => TypeOK
  BY InvImplies
<1> QED BY <1>1, HeapInvariant, PTL

\* The walk of Alloc from header to header meets every block once and ends at
\* the end of the memory.
THEOREM TilingCorrect == Spec => []Tiling
<1>1. HeapInv => Tiling
  BY InvImplies
<1> QED BY <1>1, HeapInvariant, PTL

\* Every pointer that Alloc and Realloc gave out is a block of its own, not
\* free, with room for what was asked for.
THEOREM GrantedCorrect == Spec => []Granted
<1>1. HeapInv => Granted
  BY InvImplies
<1> QED BY <1>1, HeapInvariant, PTL

\* Free and Realloc give back every block that no client holds any more.
THEOREM NoLeakCorrect == Spec => []NoLeak
<1>1. HeapInv => NoLeak
  BY InvImplies
<1> QED BY <1>1, HeapInvariant, PTL

\* Alloc returns NULL only when no run of free blocks is large enough.
THEOREM FailureCorrect == Spec => []FailsOnlyIfFull
<1>1. HeapInv => FailsOnlyIfFull
  BY InvImplies
<1> QED BY <1>1, HeapInvariant, PTL
=============================================================================
