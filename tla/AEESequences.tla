---------------------------- MODULE AEESequences ----------------------------
(***************************************************************************)
(* The containers that keep an order: AEEVector, of a fixed capacity, and  *)
(* AEEVectorEx, which grows (util/AEEVector.h), and AEEList, linked both   *)
(* ways around a head (util/AEEList.h).  AEEStack is an AEEVector.  What a *)
(* client sees of each is a sequence.                                      *)
(*                                                                         *)
(* The client erases only what is there: pop_back() of an empty vector     *)
(* would leave a size of -1.                                               *)
(***************************************************************************)
EXTENDS Integers, Sequences, SequencesExt

CONSTANTS
    Value,
    Capacity,  \* the first capacity of a vector
    MaxSize    \* bound: elements at a time

SequencesAssumption ==
    /\ Capacity \in Nat \ {0} /\ MaxSize \in Nat
    /\ Value \subseteq Nat \ {0}

VARIABLES
    kind,   \* the container: vector, vectorEx or list
    value,  \* the sequence it should be
    vec,    \* of a vector: m_capacity, m_size and the cells of m_ptr
    list    \* of a list: the links and data of every node, and _size

vars == <<kind, value, vec, list>>

\* What is in memory that was not written; the node that is the head.
Garbage == 0
HEAD == 0
Node == 1..MaxSize

Init ==
    /\ kind \in {"vector", "vectorEx", "list"}
    /\ value = <<>>
    /\ vec = [m_capacity |-> Capacity, m_size |-> 0,
              m_ptr |-> [c \in 0..(Capacity - 1) |-> Garbage]]
    /\ list = [next |-> [n \in {HEAD} \cup Node |-> n], prev |-> [n \in {HEAD} \cup Node |-> n],
               data |-> [n \in Node |-> Garbage], used |-> {}, size |-> 0]

-----------------------------------------------------------------------------
(* Vectors *)

\* zmaee_memmove of n cells
Moved(cells, to, from, n) ==
    [c \in DOMAIN cells |-> IF c \in to..(to + n - 1) THEN cells[from + (c - to)] ELSE cells[c]]

\* increase_cap, if AEEAlloc gives the memory
Grown(v) ==
    [v EXCEPT !.m_capacity = 2 * @,
              !.m_ptr = [c \in 0..(2 * v.m_capacity - 1) |->
                             IF c < v.m_size THEN v.m_ptr[c] ELSE Garbage]]

\* insert() when there is room
Put(v, i, x) ==
    [v EXCEPT !.m_size = @ + 1,
              !.m_ptr = [Moved(v.m_ptr, i + 1, i, v.m_size - i) EXCEPT ![i] = x]]

VectorInsert(i, x, given) ==
    IF vec.m_size < vec.m_capacity THEN Put(vec, i, x)
    ELSE IF kind = "vectorEx" /\ given THEN Put(Grown(vec), i, x)
    ELSE vec

\* mutant: the cells behind the range are moved by one
VectorEraseByOne(i, j) ==
    [vec EXCEPT !.m_size = @ - (j - i),
                !.m_ptr = IF j = vec.m_size THEN @ ELSE Moved(@, i, i + 1, vec.m_size - j)]

\* erase() of the elements from i on that are before j
VectorErase(i, j) ==
    [vec EXCEPT !.m_size = @ - (j - i),
                !.m_ptr = IF j = vec.m_size THEN @ ELSE Moved(@, i, j, vec.m_size - j)]

-----------------------------------------------------------------------------
(* Lists *)

\* The node of element i, or the head behind the last.
NodeAt(l, i) ==
    LET node[k \in 0..i] == IF k = 0 THEN l.next[HEAD] ELSE l.next[node[k - 1]]
    IN  node[i]

\* insert() before the node s
Linked(l, s, new, x) ==
    [ next |-> [l.next EXCEPT ![new] = s, ![l.prev[s]] = new],
      prev |-> [l.prev EXCEPT ![new] = l.prev[s], ![s] = new],
      data |-> [l.data EXCEPT ![new] = x], used |-> l.used \cup {new}, size |-> l.size + 1 ]

\* erase() of the node p
Unlinked(l, p) ==
    [ next |-> [l.next EXCEPT ![l.prev[p]] = l.next[p], ![p] = p],
      prev |-> [l.prev EXCEPT ![l.next[p]] = l.prev[p], ![p] = p],
      data |-> [l.data EXCEPT ![p] = Garbage], used |-> l.used \ {p}, size |-> l.size - 1 ]

\* erase() of the nodes before `last': a turn for each of the MaxSize nodes
\* there may be, of which those behind `last' do nothing.
UnlinkedTo(l, p, last) ==
    LET turn[k \in 0..MaxSize] ==
            IF k = 0 THEN [l |-> l, p |-> p]
            ELSE LET t == turn[k - 1]
                 IN  IF t.p = last THEN t ELSE [l |-> Unlinked(t.l, t.p), p |-> t.l.next[t.p]]
    IN  turn[MaxSize].l

\* find(), with turns as above: the node, or the head if the value is not there.
FindFrom(n, x) ==
    LET at[k \in 0..MaxSize] ==
            IF k = 0 THEN n
            ELSE IF at[k - 1] = HEAD \/ list.data[at[k - 1]] = x THEN at[k - 1]
            ELSE list.next[at[k - 1]]
    IN  at[MaxSize]

-----------------------------------------------------------------------------
(* insert() and erase(); with them push, pop and clear() *)

\* A full AEEVector, and an AEEVectorEx without memory, lose the element.
Insert(i, x, given) ==
    /\ Len(value) < MaxSize /\ i \in 0..Len(value)
    /\ IF kind = "list"
       THEN /\ LET new == CHOOSE n \in Node \ list.used : \A o \in Node \ list.used : n <= o
               IN  list' = Linked(list, NodeAt(list, i), new, x)
            /\ value' = InsertAt(value, i + 1, x)
            /\ UNCHANGED vec
       ELSE /\ vec' = VectorInsert(i, x, given)
            /\ value' = IF vec.m_size < vec.m_capacity \/ (kind = "vectorEx" /\ given)
                        THEN InsertAt(value, i + 1, x) ELSE value
            /\ UNCHANGED list
    /\ UNCHANGED kind

Erase(i, j) ==
    /\ 0 <= i /\ i < j /\ j <= Len(value)
    /\ value' = SubSeq(value, 1, i) \o SubSeq(value, j + 1, Len(value))
    /\ IF kind = "list"
       THEN list' = UnlinkedTo(list, NodeAt(list, i), NodeAt(list, j)) /\ UNCHANGED vec
       ELSE vec' = VectorErase(i, j) /\ UNCHANGED list
    /\ UNCHANGED kind

Next ==
    \/ \E i \in 0..MaxSize, x \in Value, b \in BOOLEAN : Insert(i, x, b)
    \/ \E i, j \in 0..MaxSize : Erase(i, j)

Spec == Init /\ [][Next]_vars

-----------------------------------------------------------------------------
(* What must hold *)

\* The elements as an iterator meets them.
Contents ==
    IF kind = "list" THEN [i \in 1..list.size |-> list.data[NodeAt(list, i - 1)]]
    ELSE [i \in 1..vec.m_size |-> vec.m_ptr[i - 1]]

\* After any insertions and erasures, one by one, of ranges or all at once, in
\* the middle or at an end, with growth and with memory that is refused, a
\* container holds the sequence a client expects; a list leads back to its
\* head both ways, and finds the first of equal elements.
SequenceKept ==
    /\ Contents = value
    /\ kind = "list" =>
           /\ NodeAt(list, Len(value)) = HEAD
           /\ \A n \in {HEAD} \cup list.used : list.prev[list.next[n]] = n
           /\ \A x \in Value :
                  LET n == FindFrom(list.next[HEAD], x)
                  IN  IF \E i \in DOMAIN value : value[i] = x
                      THEN \E i \in DOMAIN value :
                               /\ n = NodeAt(list, i - 1) /\ value[i] = x
                               /\ \A j \in 1..(i - 1) : value[j] # x
                      ELSE n = HEAD
=============================================================================
