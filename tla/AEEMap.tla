------------------------------- MODULE AEEMap -------------------------------
(***************************************************************************)
(* AEEMap<KEY, DATA> (AEE++/util/AEEMap.h): a red-black tree whose leaves  *)
(* are one node, m_nullNode.  Erasing stores a parent in that node, and    *)
(* makes its children and parent the root, so they are part of the state.  *)
(* A walk with an iterator may go on while the map is changed.             *)
(*                                                                         *)
(* A node is named by its key, since nobody tells addresses apart: where   *)
(* erase() copies a pair from one node to another, the two change names.   *)
(***************************************************************************)
EXTENDS Integers, FiniteSets, Sequences

CONSTANTS
    Key       \* the keys, numbers

MapAssumption == Key \subseteq Nat \ {0}

VARIABLES
    t,        \* the tree: m_root, m_count and the fields of every node
    keys,     \* the keys a map should have
    it,       \* an iterator of the client: the node it is at
    seen,     \* the keys the iterator was at since it was at begin()
    expected  \* the keys at begin() that were neither erased nor freed since

vars == <<t, keys, it, seen, expected>>

\* m_nullNode, and what stands for a node that is not allocated
NULL == 0
NoNode == [color |-> "BLACK", left |-> NULL, right |-> NULL, parent |-> NULL]

Other(d) == IF d = "left" THEN "right" ELSE "left"

-----------------------------------------------------------------------------
(* Walking *)

RECURSIVE Farthest(_, _, _)
Farthest(m, n, d) == IF m.n[n][d] = NULL THEN n ELSE Farthest(m, m.n[n][d], d)

\* first()
First(m) == IF m.m_root = NULL THEN NULL ELSE Farthest(m, m.m_root, "left")

\* find(): the node with the key, or where the search ended.
RECURSIVE Descend(_, _, _, _)
Descend(m, n, k, above) ==
    IF n = NULL THEN [at |-> NULL, above |-> above]
    ELSE IF k = n THEN [at |-> n, above |-> above]
    ELSE Descend(m, m.n[n][IF k < n THEN "left" ELSE "right"], k, n)

Find(m, k) == Descend(m, m.m_root, k, NULL)

RECURSIVE UpFromRight(_, _)
UpFromRight(m, n) ==
    LET p == m.n[n].parent
    IN  IF p # NULL /\ n = m.n[p].right THEN UpFromRight(m, p) ELSE p

\* mutant: from the last node of a subtree to its parent
SuccessorIsParent(m, n) ==
    IF m.n[n].right # NULL THEN Farthest(m, m.n[n].right, "left") ELSE m.n[n].parent

\* iterator::next() and InOrderSuccessor
Successor(m, n) ==
    IF m.n[n].right # NULL THEN Farthest(m, m.n[n].right, "left") ELSE UpFromRight(m, n)

-----------------------------------------------------------------------------
(* Rotations and repairs.  The code writes each out for both sides. *)

\* RotateLeft is Rotate(m, n, "left"): the child on the other side goes up.
Rotate(m, n, d) ==
    LET up == m.n[n][Other(d)]
        inner == m.n[up][d]
        p == m.n[n].parent
        side == IF n = m.n[p].left THEN "left" ELSE "right"
        moved == [m.n EXCEPT ![up].parent = p, ![n][Other(d)] = inner,
                             ![n].parent = up, ![up][d] = n]
        below == IF inner = NULL THEN moved ELSE [moved EXCEPT ![inner].parent = n]
    IN  IF n = NULL \/ up = NULL THEN m
        ELSE IF p = NULL
             THEN [m EXCEPT !.m_root = up,
                            !.n = [below EXCEPT ![NULL].left = up, ![NULL].right = up]]
             ELSE [m EXCEPT !.n = [below EXCEPT ![p][side] = up]]

Colored(m, n, c) == [m EXCEPT !.n[n].color = c]
Blackened(m, n) == Colored(m, n, "BLACK")

\* mutant: a red uncle is not considered
RECURSIVE InsertFixUpRotates(_, _)
InsertFixUpRotates(m, z) ==
    LET p == m.n[z].parent
        g == m.n[p].parent
        d == IF p = m.n[g].left THEN "left" ELSE "right"
    IN  IF m.n[p].color # "RED" THEN Blackened(m, m.m_root)
        ELSE IF z = m.n[p][Other(d)] THEN InsertFixUpRotates(Rotate(m, p, d), p)
        ELSE InsertFixUpRotates(Rotate(Colored(Blackened(m, p), g, "RED"), g, Other(d)), z)

RECURSIVE InsertFixUp(_, _)
InsertFixUp(m, z) ==
    LET p == m.n[z].parent
        g == m.n[p].parent
        d == IF p = m.n[g].left THEN "left" ELSE "right"
        uncle == m.n[g][Other(d)]
    IN  IF m.n[p].color # "RED" THEN Blackened(m, m.m_root)
        ELSE IF m.n[uncle].color = "RED"
             THEN InsertFixUp(Colored(Blackened(Blackened(m, p), uncle), g, "RED"), g)
        ELSE IF z = m.n[p][Other(d)] THEN InsertFixUp(Rotate(m, p, d), p)
        ELSE InsertFixUp(Rotate(Colored(Blackened(m, p), g, "RED"), g, Other(d)), z)

RECURSIVE DeleteFixUp(_, _)
DeleteFixUp(m, x) ==
    LET p == m.n[x].parent
        d == IF x = m.n[p].left THEN "left" ELSE "right"
        b == m.n[p][Other(d)]
        near == m.n[b][d]
        far == m.n[b][Other(d)]
    IN  IF x = m.m_root \/ m.n[x].color # "BLACK"
        THEN Blackened([m EXCEPT !.n[NULL].parent = m.m_root], x)
        ELSE IF m.n[b].color = "RED"
        THEN DeleteFixUp(Rotate(Colored(Blackened(m, b), p, "RED"), p, d), x)
        ELSE IF m.n[near].color = "BLACK" /\ m.n[far].color = "BLACK"
        THEN DeleteFixUp(Colored(m, b, "RED"), p)
        ELSE IF m.n[far].color = "BLACK"
        THEN DeleteFixUp(Rotate(Blackened(Colored(m, b, "RED"), near), b, Other(d)), x)
        ELSE LET done == Rotate(Blackened(Blackened(Colored(m, b, m.n[p].color), p), far), p, d)
             IN  DeleteFixUp(done, done.m_root)

-----------------------------------------------------------------------------
(* insert, erase and clear *)

RootIs(m, n) ==
    [m EXCEPT !.m_root = n, !.n[NULL].left = n, !.n[NULL].right = n, !.n[NULL].parent = n]

\* insert() of a key that is not there
Inserted(m, k) ==
    LET above == Find(m, k).above
        made == [m EXCEPT !.m_count = @ + 1, !.n[k] = [NoNode EXCEPT !.color = "RED", !.parent = above]]
    IN  InsertFixUp(IF above = NULL THEN RootIs(made, k)
                    ELSE [made EXCEPT !.n[above][IF k < above THEN "left" ELSE "right"] = k], k)

\* The node that erase() frees: with two children it takes the pair of its
\* successor, and the successor goes.
Victim(m, n) == IF m.n[n].left # NULL /\ m.n[n].right # NULL THEN Successor(m, n) ELSE n

\* The pair of v is copied to n: each is called by its new key from now on.
PairCopied(m, n, v) ==
    LET name(x) == CASE x = n -> v [] x = v -> n [] OTHER -> x
        renamed(r) == [color |-> r.color, left |-> name(r.left), right |-> name(r.right),
                       parent |-> name(r.parent)]
    IN  [m EXCEPT !.m_root = name(@), !.n = [x \in DOMAIN @ |-> renamed(@[name(x)])]]

\* erase(iterator).  After the copy, the node that goes is the one called k.
Erased(m, k) ==
    LET copied == PairCopied(m, k, Victim(m, k))
        p == copied.n[k].parent
        child == IF copied.n[k].right # NULL THEN copied.n[k].right ELSE copied.n[k].left
        lent == [copied EXCEPT !.n[child].parent = p]
        cut == IF p = NULL THEN RootIs(lent, child)
               ELSE [lent EXCEPT !.n[p][IF k = lent.n[p].right THEN "right" ELSE "left"] = child]
        fixed == IF lent.n[k].color = "BLACK" /\ ~(child = NULL /\ cut.n[child].parent = NULL)
                 THEN DeleteFixUp(cut, child) ELSE cut
    IN  [fixed EXCEPT !.m_count = @ - 1, !.n[k] = NoNode]

Insert(k) ==
    /\ t' = IF Find(t, k).at # NULL THEN t ELSE Inserted(t, k)
    /\ keys' = keys \cup {k}
    /\ UNCHANGED <<it, seen, expected>>

\* The iterator of the client is worth nothing if its node is freed, or if the
\* node now holds another pair.
Erase(k) ==
    /\ Find(t, k).at # NULL
    /\ t' = Erased(t, k)
    /\ keys' = keys \ {k}
    /\ it' = IF it \in {k, Victim(t, k)} THEN NULL ELSE it
    /\ seen' = IF it' = NULL THEN {} ELSE seen
    /\ expected' = IF it' = NULL THEN {} ELSE expected \ {k}

\* clear(): m_nullNode keeps the root that is freed.
Clear ==
    /\ t' = [t EXCEPT !.m_root = NULL, !.m_count = 0,
                      !.n = [n \in {NULL} \cup Key |->
                                 IF n = NULL THEN t.n[NULL] ELSE NoNode]]
    /\ keys' = {} /\ it' = NULL /\ seen' = {} /\ expected' = {}

Begin ==
    /\ it' = First(t)
    /\ seen' = {it'} \ {NULL}
    /\ expected' = IF it' = NULL THEN {} ELSE keys
    /\ UNCHANGED <<t, keys>>

NextPair ==
    /\ it # NULL
    /\ it' = Successor(t, it)
    /\ seen' = IF it' = NULL THEN {} ELSE seen \cup {it'}
    /\ expected' = IF it' = NULL THEN {} ELSE expected
    /\ UNCHANGED <<t, keys>>

Init ==
    /\ t = [m_root |-> NULL, m_count |-> 0, n |-> [n \in {NULL} \cup Key |-> NoNode]]
    /\ keys = {} /\ it = NULL /\ seen = {} /\ expected = {}

Next ==
    \/ \E k \in Key : Insert(k) \/ Erase(k)
    \/ Clear \/ Begin \/ NextPair

Spec == Init /\ [][Next]_vars

-----------------------------------------------------------------------------
(* What must hold *)

RECURSIVE Below(_)
Below(n) == IF n = NULL THEN {} ELSE {n} \cup Below(t.n[n].left) \cup Below(t.n[n].right)

\* The number of black nodes on every way down from n, or -1 if they differ.
RECURSIVE Height(_)
Height(n) ==
    IF n = NULL THEN 0
    ELSE LET l == Height(t.n[n].left)
             r == Height(t.n[n].right)
         IN  IF l # r THEN -1 ELSE l + (IF t.n[n].color = "BLACK" THEN 1 ELSE 0)

\* After any insertions and erasures: the tree holds the keys of the map, every
\* link up fits a link down, the keys are in order, no
\* red node has a red child and all ways down have as many black nodes, and
\* the leaf all share is black whatever parent it was lent.
TreeIsRedBlack ==
    /\ Below(t.m_root) = keys /\ t.m_count = Cardinality(keys)
    /\ \A n \in Key \ keys : t.n[n] = NoNode
    /\ t.m_root # NULL => t.n[t.m_root].parent = NULL
    /\ \A n \in keys :
           /\ \A d \in {"left", "right"} :
                  t.n[n][d] # NULL =>
                      t.n[t.n[n][d]].parent = n /\ ~(t.n[n].color = "RED" /\ t.n[t.n[n][d]].color = "RED")
           /\ \A b \in Below(t.n[n].left) : b < n
           /\ \A a \in Below(t.n[n].right) : a > n
    /\ t.n[NULL].color = "BLACK" /\ Height(t.m_root) >= 0

\* A walk meets every key that stays in the map, though others are inserted
\* and erased on the way: behind the iterator nothing is left that it missed.
WalkMissesNone ==
    it # NULL => \A k \in expected : k <= it => k \in seen
=============================================================================
