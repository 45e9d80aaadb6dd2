------------------------------ MODULE AEEBson ------------------------------
(***************************************************************************)
(* Binary trees of values (AEE++/bson): AEEBsonStream writes one into a    *)
(* buffer, AEEBsonValue::parse reads it.  Strings that are in a sorted     *)
(* table are written as their place in it.                                 *)
(***************************************************************************)
EXTENDS Integers, Sequences, SequencesExt

CONSTANTS
    Scalars,   \* <<type, bytes>> of a number or a binary
    Strings,   \* names and values; each is one byte, and strcmp compares it
    Table,     \* the table of strings
    Indexes,   \* the places a byte can name, 256 in the code
    Room,      \* the capacity of the buffer
    MaxNodes, MaxValues  \* bounds: objects and arrays, other values

BsonAssumption ==
    /\ \A s \in Scalars : s[1] \in {"byte", "short", "int", "float", "double", "binary"}
    /\ Strings \subseteq 1..255 /\ Table \in Seq(Strings) /\ Len(Table) <= Indexes
    /\ \A i, j \in DOMAIN Table : i < j => Table[i] < Table[j]
    /\ {Room, MaxNodes, MaxValues} \subseteq Nat

VARIABLE task   \* the tree that is written, and what was read

Types == <<"byte", "short", "int", "float", "double", "null", "string", "stridx", "binary",
           "array", "object">>
Tag(type) == CHOOSE t \in DOMAIN Types : Types[t] = type
END == 14

\* The bytes that a number has behind its tag
Width == [byte |-> 1, short |-> 2, int |-> 4, float |-> 4, double |-> 8]

-----------------------------------------------------------------------------
(* AEEBsonStream *)

\* What is behind the buffer is not of the tree: write() leaves out what does
\* not fit, the others write on.
Written(bytes) ==
    IF Len(task.buf) + Len(bytes) < Room THEN [buf |-> task.buf \o bytes, lost |-> task.lost]
    ELSE [buf |-> task.buf, lost |-> TRUE]

\* mutant: the place in the middle is taken without a look
SearchBlind(from, to, name) == IF from >= to THEN -1 ELSE (from + to) \div 2

\* getStrIdx: places are counted from 0; the first is missed in a table of
\* two and more.
RECURSIVE Search(_, _, _)
Search(from, to, name) ==
    LET middle == (from + to) \div 2
        low == IF Table[middle + 1] < name THEN middle ELSE from
        high == IF Table[middle + 1] > name THEN middle ELSE to
    IN  IF from >= to THEN -1
        ELSE IF Table[middle + 1] = name THEN middle
        ELSE IF high - low = 1 THEN -1
        ELSE Search(low, high, name)

StringBytes(name) ==
    LET place == Search(0, Len(Table), name)
    IN  IF place < 0 THEN <<Tag("string"), name, 0>> ELSE <<Tag("stridx"), place % Indexes>>

\* operator[] for a member of an object; what is in an array has no name.
InObject == task.open # <<>> /\ Last(task.open).type = "object"
NameBytes(name) == IF InObject THEN StringBytes(name) ELSE <<>>

Into(open, name, value) ==
    [open EXCEPT ![Len(open)].members = Append(@, <<IF Last(open).type = "object" THEN name ELSE 0, value>>)]

CanWrite(name) ==
    /\ task.phase = "write" /\ ~task.lost
    /\ name # 0 <=> InObject

Begin(type, name) ==
    /\ CanWrite(name) /\ task.nodes < MaxNodes
    /\ task.open # <<>> \/ (task.nodes = 0)
    /\ task' = [task EXCEPT
            !.buf = Written(NameBytes(name) \o <<Tag(type)>>).buf,
            !.lost = Written(NameBytes(name) \o <<Tag(type)>>).lost,
            !.nodes = @ + 1, !.open = Append(@, [type |-> type, name |-> name, members |-> <<>>])]

\* writeBinary: the length has four bytes.
Scalar(name, scalar) ==
    /\ CanWrite(name) /\ task.open # <<>> /\ task.values < MaxValues
    /\ LET bytes == NameBytes(name) \o <<Tag(scalar[1])>>
                        \o (IF scalar[1] = "binary" THEN <<Len(scalar[2]), 0, 0, 0>> ELSE <<>>)
                        \o scalar[2]
       IN  task' = [task EXCEPT
                !.buf = Written(bytes).buf, !.lost = Written(bytes).lost, !.values = @ + 1,
                !.open = Into(@, name, [type |-> scalar[1], data |-> scalar[2]])]

String(name, string) ==
    /\ CanWrite(name) /\ task.open # <<>> /\ task.values < MaxValues
    /\ LET bytes == NameBytes(name) \o StringBytes(string)
       IN  task' = [task EXCEPT
                !.buf = Written(bytes).buf, !.lost = Written(bytes).lost, !.values = @ + 1,
                !.open = Into(@, name, [type |-> "string", data |-> <<string>>])]

End ==
    /\ task.phase = "write" /\ ~task.lost /\ task.open # <<>>
    /\ LET last == Last(task.open)
           value == [type |-> last.type, members |-> last.members]
       IN  task' = [task EXCEPT
                !.buf = Written(<<END>>).buf, !.lost = Written(<<END>>).lost,
                !.tree = IF Len(task.open) = 1 THEN value ELSE @,
                !.open = IF Len(task.open) = 1 THEN <<>> ELSE Into(Front(@), last.name, value)]

-----------------------------------------------------------------------------
(* AEEBsonValue: a place p of the buffer is counted from 1. *)

At(p) == IF p <= Len(task.buf) THEN task.buf[p] ELSE 0

\* The place of the NUL of a string
Nul(p) == CHOOSE j \in p..(Len(task.buf) + 1) : At(j) = 0 /\ \A k \in p..(j - 1) : At(k) # 0

\* mutant: of a string in the table only the tag is passed
ReachOfTag(p) ==
    LET type == Types[At(p)]
    IN  CASE type = "string" -> Nul(p + 1) - p + 1
          [] type = "binary" -> At(p + 1) + 5
          [] type \in {"stridx", "null"} -> 1
          [] OTHER -> 1 + Width[type]

\* How far a value that is no array or object reaches
Reach(p) ==
    LET type == Types[At(p)]
    IN  CASE type = "string" -> Nul(p + 1) - p + 1
          [] type = "binary" -> At(p + 1) + 5
          [] type = "stridx" -> 2
          [] type = "null" -> 1
          [] OTHER -> 1 + Width[type]

\* calcSize: the members of the value that begins at from, and its bytes
RECURSIVE CalcSize(_, _, _, _, _)
CalcSize(from, p, len, depth, count) ==
    LET counted == IF depth = 1 THEN count + 1 ELSE count
    IN  IF p - from >= len THEN [count |-> -2, size |-> 0]
        ELSE IF At(p) = END
        THEN IF depth = 1 THEN [count |-> count, size |-> p + 1 - from]
             ELSE CalcSize(from, p + 1, len, depth - 1, count)
        ELSE IF At(p) \notin DOMAIN Types THEN [count |-> -1, size |-> 0]
        ELSE IF At(p) \in {Tag("array"), Tag("object")}
        THEN CalcSize(from, p + 1, len, depth + 1, counted)
        ELSE CalcSize(from, p + Reach(p), len, depth, counted)

StringAt(p) == IF At(p) = Tag("string") THEN SubSeq(task.buf, p + 1, Nul(p + 1) - 1)
               ELSE <<Table[At(p + 1) + 1]>>

\* parse() of the value at p, and how many bytes it took, 0 if it failed;
\* Members reads the ones of an array or object, until one fails.
RECURSIVE ParseAt(_, _), Members(_, _, _, _, _)
ParseAt(p, len) ==
    LET type == IF At(p) \in DOMAIN Types THEN Types[At(p)] ELSE "none"
        all == CalcSize(p, p, len, 0, 0)
        wrong == all.count < 0 \/ (type = "object" /\ all.count % 2 # 0)
    IN  CASE type \in {"array", "object"} /\ ~wrong ->
                [size |-> all.size,
                 value |-> [type |-> type,
                            members |-> Members(type = "object", p + 1,
                                                IF type = "object" THEN len - 2 ELSE all.size - 2,
                                                IF type = "object" THEN all.count \div 2 ELSE all.count,
                                                p + 1)]]
          [] type \in {"string", "stridx"} ->
                [size |-> Reach(p), value |-> [type |-> "string", data |-> StringAt(p)]]
          [] type = "binary" ->
                [size |-> Reach(p), value |-> [type |-> type, data |-> SubSeq(task.buf, p + 5, p + Reach(p) - 1)]]
          [] type \in DOMAIN Width ->
                [size |-> Reach(p), value |-> [type |-> type, data |-> SubSeq(task.buf, p + 1, p + Width[type])]]
          [] OTHER -> [size |-> IF type = "null" THEN 1 ELSE 0, value |-> [type |-> "null"]]

Members(named, p, len, count, from) ==
    LET at == IF named THEN p + Reach(p) ELSE p
        one == ParseAt(at, len - (IF named THEN at - from ELSE 0))
    IN  IF count = 0 \/ (named /\ At(p) \notin {Tag("string"), Tag("stridx")}) THEN <<>>
        ELSE IF one.size <= 0 THEN <<>>
        ELSE <<<<IF named THEN StringAt(p)[1] ELSE 0, one.value>>>>
                 \o Members(named, at + one.size, len, count - 1, from)

\* The buffer is read, whole or with a length that cuts it short; what is in
\* memory behind that length is still there.
Read ==
    /\ task.phase = "write" /\ ~task.lost /\ task.open = <<>> /\ task.nodes > 0
    /\ \E n \in 1..Len(task.buf) :
          task' = [task EXCEPT !.phase = "read", !.cut = n < Len(task.buf), !.read = ParseAt(1, n)]

Init == task = [phase |-> "write", buf |-> <<>>, lost |-> FALSE, open |-> <<>>, nodes |-> 0,
                values |-> 0, tree |-> <<>>, cut |-> FALSE, read |-> <<>>]

Names == Strings \cup {0}

Next ==
    \/ \E name \in Names, type \in {"array", "object"} : Begin(type, name)
    \/ \E name \in Names :
          (\E s \in Scalars : Scalar(name, s)) \/ (\E string \in Strings : String(name, string))
    \/ End \/ Read

-----------------------------------------------------------------------------
(* What must hold *)

\* A tree that fits is read as it was written, whatever bytes its values have,
\* and all its bytes are taken.
BsonReadAsWritten ==
    task.phase = "read" /\ ~task.cut => task.read.value = task.tree /\ task.read.size = Len(task.buf)

\* A length that cuts the buffer short is noticed, though the rest is there.
CutIsRefused == task.cut => task.read.size = 0
=============================================================================
