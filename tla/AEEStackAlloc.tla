--------------------------- MODULE AEEStackAlloc ---------------------------
(***************************************************************************)
(* class AEEStackAlloc (AEE++/AEEStackAlloc.cpp): blocks are taken from    *)
(* the top of a piece of memory, and from AEEAlloc when it is used up; only*)
(* the block that was taken last can be given back.                        *)
(*                                                                         *)
(* The client frees every block it got, once: in reverse order (`lifo') or *)
(* in any order.                                                           *)
(***************************************************************************)
EXTENDS Integers, Sequences, FiniteSets, SequencesExt

CONSTANTS
    m_stackSize, m_maxEntryCount,
    Size,     \* the sizes that are asked for, in bytes
    MaxAllocs \* bound: calls of Alloc

StackAssumption ==
    /\ m_stackSize \in Nat /\ m_maxEntryCount \in Nat /\ MaxAllocs \in Nat
    /\ Size \subseteq Nat \ {0}

VARIABLES
    m_entries, \* the entries in use: id, data, size, usedMalloc
    m_index, m_allocation, m_maxAllocation,
    held,      \* the blocks the client has, oldest first
    allocs,    \* how many calls of Alloc there were
    lifo       \* the client frees in reverse order and never meets a failure

vars == <<m_entries, m_index, m_allocation, m_maxAllocation, held, allocs, lifo>>

\* Where the data of an entry is: an offset into the stack, or one of these.
MALLOC == -1
NULL == -2

ZMAEE_ALIGN(size) == ((size + 3) \div 4) * 4

Max2(a, b) == IF a > b THEN a ELSE b
Sum(entries) ==
    LET upTo[n \in 0..Len(entries)] == IF n = 0 THEN 0 ELSE upTo[n - 1] + entries[n].size
    IN  upTo[Len(entries)]

Init ==
    /\ m_entries = <<>> /\ m_index = 0 /\ m_allocation = 0 /\ m_maxAllocation = 0
    /\ held = <<>> /\ allocs = 0 /\ lifo \in BOOLEAN

\* mutant: a block may begin in the stack and end behind it
FitsBeyond(size) == m_index <= m_stackSize

Fits(size) == m_index + size <= m_stackSize

\* Alloc: the entry of a block that AEEAlloc could not give stays.
Alloc(asked, given) ==
    LET size == ZMAEE_ALIGN(asked)
        data == IF Fits(size) THEN m_index ELSE IF given THEN MALLOC ELSE NULL
        entry == [id |-> allocs + 1, data |-> data, size |-> size, usedMalloc |-> ~Fits(size)]
    IN  /\ allocs < MaxAllocs /\ allocs' = allocs + 1
        /\ lifo => given
        /\ IF Len(m_entries) >= m_maxEntryCount
           THEN UNCHANGED <<m_entries, m_index, m_allocation, m_maxAllocation, held>>
           ELSE /\ m_entries' = Append(m_entries, entry)
                /\ m_index' = IF Fits(size) THEN m_index + size ELSE m_index
                /\ m_allocation' = m_allocation + size
                /\ m_maxAllocation' = Max2(m_maxAllocation, m_allocation')
                /\ held' = IF data = NULL THEN held ELSE Append(held, entry.id)
        /\ UNCHANGED lifo

\* mutant: every block is taken off the stack
IndexLessAny(entry) == m_index - entry.size

IndexLess(entry) == IF entry.usedMalloc THEN m_index ELSE m_index - entry.size

\* Free: a block that is not on top is refused, and the client has it no more.
Free(i) ==
    LET top == Last(m_entries)
        id == held[i]
    IN  /\ lifo => i = Len(held)
        /\ held' = RemoveAt(held, i)
        /\ IF top.id = id
           THEN /\ m_entries' = Front(m_entries)
                /\ m_index' = IndexLess(top)
                /\ m_allocation' = m_allocation - top.size
           ELSE UNCHANGED <<m_entries, m_index, m_allocation>>
        /\ UNCHANGED <<m_maxAllocation, allocs, lifo>>

Next ==
    \/ \E s \in Size, b \in BOOLEAN : Alloc(s, b)
    \/ \E i \in 1..Len(held) : Free(i)

Spec == Init /\ [][Next]_vars

-----------------------------------------------------------------------------
(* What must hold *)

Bytes(e) == IF e.usedMalloc THEN {} ELSE e.data..(e.data + e.size - 1)

\* The blocks in the stack lie in it, side by side, and the top is behind the
\* last of them, in whatever order the client frees.
BlocksApart ==
    /\ \A i, j \in DOMAIN m_entries : i # j => Bytes(m_entries[i]) \cap Bytes(m_entries[j]) = {}
    /\ UNION {Bytes(m_entries[i]) : i \in DOMAIN m_entries} = 0..(m_index - 1)
    /\ m_index \in 0..m_stackSize

\* The blocks a client holds are those of entries, and a client that frees in
\* reverse order has everything taken back: no entry is left behind.
AllGivenBack ==
    /\ ToSet(held) \subseteq {m_entries[i].id : i \in DOMAIN m_entries}
    /\ lifo => held = [i \in DOMAIN m_entries |-> m_entries[i].id]
    /\ m_allocation = Sum(m_entries) /\ m_allocation <= m_maxAllocation
=============================================================================
