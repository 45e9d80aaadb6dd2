------------------------------- MODULE AEEHeap -------------------------------
(***************************************************************************)
(* class AEEHeap (AEE++/util/AEEHeap.cpp): a heap in a given piece of      *)
(* memory, the frame buffer of a layer.  The memory is cut into blocks,    *)
(* each a header and the bytes behind it; Alloc walks over the headers,    *)
(* joins free neighbours on its way and takes the first block that is      *)
(* large enough.  The walk is modelled step by step.                       *)
(*                                                                         *)
(* A header is in "blocks" at its address while the walk can reach it; the *)
(* remains of a joined header in the bytes of another block are not.       *)
(***************************************************************************)
EXTENDS Naturals, FiniteSets

CONSTANTS
    Memory,     \* address of the memory
    Size,       \* number of its bytes
    Requests,   \* the sizes that are asked for
    Word        \* an unsigned int is less

HDR == 8        \* sizeof(_MidpMemHdr)
NULL == 0

\* n rounded up to a multiple of four
Up(n) == n + ((4 - (n % 4)) % 4)

mMemoryStart == Up(Memory)
MemoryEnd == Memory + Size
mMemoryEnd == MemoryEnd - HDR

\* The memory ends at a word, as the layers of ImageAlloc do.  With an odd end
\* the last block can be one that Free() takes for memory of somebody else.
ASSUME HeapAssumption ==
    /\ Memory \in Nat \ {0} /\ Size \in Nat /\ Word \in Nat
    /\ MemoryEnd % 4 = 0 /\ Word % 4 = 0
    /\ mMemoryStart + 2 * HDR <= MemoryEnd
    /\ Requests \subseteq 0..(Word - 1)

VARIABLES
    blocks,   \* the headers: address -> [free, size]
    walk,     \* the Alloc under way
    held      \* client: pointer -> the size it asked for

vars == <<blocks, walk, held>>

\* no Alloc under way
Idle == [at |-> 0, size |-> 0, old |-> NULL]
Walking == walk.at # 0

\* The constructor: all is one free block.
NewBlocks ==
    [a \in {mMemoryStart} |-> [free |-> TRUE, size |-> MemoryEnd - mMemoryStart - HDR]]

Init == blocks = NewBlocks /\ walk = Idle /\ held = [p \in {} |-> 0]

\* numBytesToAllocate: the loop wraps at the end of an unsigned int, to zero.
NumBytes(size) == IF Up(size) < Word THEN Up(size) ELSE 0

NextHeader(a) == a + HDR + blocks[a].size

\* Free() with a pointer of its own: it must not be behind mMemoryEnd.
Freed(b, p) ==
    IF p > mMemoryEnd THEN b
    ELSE [a \in DOMAIN b |-> [b[a] EXCEPT !.free = @ \/ a = p - HDR]]

Without(f, x) == [y \in DOMAIN f \ {x} |-> f[y]]
With(f, x, v) == [y \in DOMAIN f \cup {x} |-> IF y = x THEN v ELSE f[y]]

-----------------------------------------------------------------------------

AllocFor(size, old) ==
    /\ ~Walking
    /\ walk' = [at |-> mMemoryStart, size |-> size, old |-> old]
    /\ UNCHANGED <<blocks, held>>

Alloc(size) == AllocFor(size, NULL)

\* The next block may not be a block but what follows the memory.
NextIsFree(a) ==
    /\ blocks[a].free
    /\ NextHeader(a) < mMemoryEnd
    /\ blocks[NextHeader(a)].free

JoinedNoHeader(a) == blocks[a].size + blocks[NextHeader(a)].size  \* mutant
Joined(a) == blocks[a].size + blocks[NextHeader(a)].size + HDR

Coalesce ==
    /\ Walking /\ walk.at < mMemoryEnd
    /\ NextIsFree(walk.at)
    /\ blocks' = Without(With(blocks, walk.at, [free |-> TRUE, size |-> Joined(walk.at)]),
                         NextHeader(walk.at))
    /\ UNCHANGED <<walk, held>>

Fits(a) == blocks[a].free /\ blocks[a].size >= NumBytes(walk.size)

\* The blocks when the one at a is taken: the rest of it becomes a block if it
\* has room for more than a header and a word.
Taken(a) ==
    LET need == NumBytes(walk.size)
        rest == a + HDR + need
    IN  IF blocks[a].size > need + HDR + 4
          THEN With(With(blocks, rest, [free |-> TRUE, size |-> blocks[a].size - need - HDR]),
                    a, [free |-> FALSE, size |-> need])
          ELSE With(blocks, a, [free |-> FALSE, size |-> blocks[a].size])

\* mutant: Realloc forgets the old block
FoundKeepsOld ==
    LET p == walk.at + HDR IN
    /\ Walking /\ walk.at < mMemoryEnd
    /\ ~NextIsFree(walk.at)
    /\ Fits(walk.at)
    /\ blocks' = Taken(walk.at)
    /\ held' = With(IF walk.old = NULL THEN held ELSE Without(held, walk.old), p, walk.size)
    /\ walk' = Idle

\* A block is found: Alloc returns it, and Realloc frees the old one.
Found ==
    LET p == walk.at + HDR IN
    /\ Walking /\ walk.at < mMemoryEnd
    /\ ~NextIsFree(walk.at)
    /\ Fits(walk.at)
    /\ blocks' = IF walk.old = NULL THEN Taken(walk.at) ELSE Freed(Taken(walk.at), walk.old)
    /\ held' = With(IF walk.old = NULL THEN held ELSE Without(held, walk.old), p, walk.size)
    /\ walk' = Idle

\* mutant: a block is passed over before it is joined with the next
GoOnEarly ==
    /\ Walking /\ walk.at < mMemoryEnd
    /\ ~Fits(walk.at)
    /\ walk' = [walk EXCEPT !.at = NextHeader(@)]
    /\ UNCHANGED <<blocks, held>>

GoOn ==
    /\ Walking /\ walk.at < mMemoryEnd
    /\ ~NextIsFree(walk.at)
    /\ ~Fits(walk.at)
    /\ walk' = [walk EXCEPT !.at = NextHeader(@)]
    /\ UNCHANGED <<blocks, held>>

\* mutant: the block of a failed Realloc is freed as well
FailFrees ==
    /\ Walking /\ walk.at >= mMemoryEnd
    /\ blocks' = IF walk.old = NULL THEN blocks ELSE Freed(blocks, walk.old)
    /\ walk' = Idle
    /\ UNCHANGED held

\* NULL is returned; Realloc keeps the old block.
Fail ==
    /\ Walking /\ walk.at >= mMemoryEnd
    /\ walk' = Idle
    /\ UNCHANGED <<blocks, held>>

Free(p) ==
    /\ ~Walking
    /\ p \in DOMAIN held
    /\ blocks' = Freed(blocks, p)
    /\ held' = Without(held, p)
    /\ UNCHANGED walk

Realloc(p, size) ==
    /\ ~Walking
    /\ p \in DOMAIN held
    /\ \/ /\ blocks[p - HDR].size = size
          /\ held' = With(held, p, size)
          /\ UNCHANGED <<blocks, walk>>
       \/ blocks[p - HDR].size # size /\ size = 0 /\ Free(p)
       \/ blocks[p - HDR].size # size /\ size # 0 /\ AllocFor(size, p)

\* The heap is deleted and made anew in the same memory.
Renew ==
    /\ ~Walking
    /\ blocks' = NewBlocks
    /\ held' = [p \in {} |-> 0]
    /\ UNCHANGED walk

Next ==
    \/ \E size \in Requests : Alloc(size) \/ \E p \in DOMAIN held : Realloc(p, size)
    \/ \E p \in DOMAIN held : Free(p)
    \/ Coalesce \/ Found \/ GoOn \/ Fail
    \/ Renew

Spec == Init /\ [][Next]_vars

-----------------------------------------------------------------------------
(* Properties *)

TypeOK ==
    /\ DOMAIN blocks \subseteq mMemoryStart..MemoryEnd
    /\ \A a \in DOMAIN blocks : blocks[a] \in [free : BOOLEAN, size : Nat]
    /\ DOMAIN held \subseteq mMemoryStart..MemoryEnd
    /\ \A p \in DOMAIN held : held[p] \in 0..(Word - 1)
    /\ walk = Idle \/ walk \in [at : mMemoryStart..MemoryEnd, size : 0..(Word - 1),
                                old : {NULL} \cup DOMAIN held]

\* The headers cut the memory into blocks without gaps and overlaps: the walk
\* goes from header to header and ends at the memory's end.
Tiling ==
    /\ mMemoryStart \in DOMAIN blocks
    /\ \A a \in DOMAIN blocks :
          /\ NextHeader(a) \in DOMAIN blocks \cup {MemoryEnd}
          /\ \A b \in DOMAIN blocks : a < b => NextHeader(a) <= b

\* A block that was given out is used, and as large as was asked for, whatever
\* happens to its neighbours.  (Not if the size wraps: the three largest sizes
\* give a block of zero bytes.)
Granted ==
    \A p \in DOMAIN held :
        /\ p - HDR \in DOMAIN blocks
        /\ ~blocks[p - HDR].free
        /\ held[p] <= Word - 4 => held[p] <= blocks[p - HDR].size

\* Nothing is lost: a block is used only while a client holds it.
NoLeak == \A a \in DOMAIN blocks : ~blocks[a].free => a + HDR \in DOMAIN held

\* A range of free blocks
FreeRange(a, e) ==
    a < e /\ \A b \in DOMAIN blocks : a <= b /\ b < e => blocks[b].free

\* Alloc gives up only when no range of free neighbours would do.
FailsOnlyIfFull ==
    Walking /\ walk.at >= mMemoryEnd =>
        \A a \in DOMAIN blocks, e \in DOMAIN blocks \cup {MemoryEnd} :
            FreeRange(a, e) => e - a - HDR < NumBytes(walk.size)
=============================================================================
