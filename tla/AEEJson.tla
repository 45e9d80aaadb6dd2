------------------------------ MODULE AEEJson ------------------------------
(***************************************************************************)
(* The texts of remote calls (AEE++/json): AEEJsonStream writes one into a *)
(* buffer, AEEJsonParser cuts one into tokens and AEEJsonBuilder makes a   *)
(* tree of them.  A client or a server writes a tree step by step; then it *)
(* is read, a token at a time.                                             *)
(*                                                                         *)
(* A text is a sequence of characters, "q" being the quote, "b" the        *)
(* backslash, "sp" and "nl" space and newline.                             *)
(***************************************************************************)
EXTENDS Integers, Sequences, SequencesExt, FiniteSets

CONSTANTS
    Keys, Words,  \* what members are called, and values
    Styles,       \* who writes: "stream", or a server: "spaced", "bare", "commented"
    Room,         \* the capacity of the buffer of a stream
    Capacity,     \* of the stacks of the parser and the builder, 16 in the code
    MaxNodes, MaxValues  \* bounds: objects and arrays, other values

JsonAssumption ==
    /\ Keys \cup Words \subseteq Seq({"x", "y", "z", "b", "q"})
    /\ Styles \subseteq {"stream", "spaced", "bare", "commented"}
    /\ {Room, Capacity} \subseteq Nat /\ {MaxNodes, MaxValues} \subseteq Nat

VARIABLE task   \* the tree that is written, its text, and the parser that reads it

\* A node of a tree is an object or an array with its members in order; those
\* of an array have no key.  A member is a node or a word.
None == 0
NoKey == <<>>
Node(type) == [type |-> type, members |-> <<>>]
WithMember(nodes, parent, key, value) ==
    IF parent = None THEN nodes
    ELSE [nodes EXCEPT ![parent].members =
            Append(@, [key |-> IF nodes[parent].type = "object" THEN key ELSE NoKey, value |-> value])]

Top(stack) == IF stack = <<>> THEN None ELSE Last(stack)

-----------------------------------------------------------------------------
(* AEEJsonStream, and a server *)

\* AEEJsonStream::write: what does not fit is left out.
Written(out, s) ==
    IF task.style = "stream" /\ Len(out.buf) + Len(s) >= Room THEN [out EXCEPT !.lost = TRUE]
    ELSE [out EXCEPT !.buf = @ \o s]

Quoted(out, s, rest) == Written(Written(Written(out, <<"q">>), s), <<"q">> \o rest)

\* A server puts a comma before every member but the first, and spaces,
\* newlines or comments where they do no harm.
Comma(out) ==
    LET first == out.buf = <<>> \/ Last(out.buf) \in {"{", "[", "/"}
    IN  IF task.style = "stream" \/ first THEN out
        ELSE Written(out, CASE task.style = "spaced" -> <<"nl", ",", "sp">>
                            [] task.style = "commented" -> <<"#", "x", "nl", ",", "/", "/", "x", "nl">>
                            [] OTHER -> <<",">>)

\* operator[]
Named(out, key) ==
    IF key = NoKey THEN Comma(out)
    ELSE Quoted(Comma(out), key, IF task.style = "spaced" THEN <<"sp", ":", "sp">> ELSE <<":">>)

Opening(type) ==
    (IF type = "object" THEN <<"{">> ELSE <<"[">>)
        \o IF task.style = "commented" THEN <<"/", "*", "*", "x", "*", "/">> ELSE <<>>

\* The member that is written next needs a key.
InObject == task.open # <<>> /\ task.tree[Last(task.open)].type = "object"
KeyHere(key) == InObject <=> key # NoKey

\* The states the parser keeps for the nodes that are open, and for the value
\* of a member: one for each node and one for each that is a member.
Depth(open) == Len(open) + Cardinality({i \in 2..Len(open) : task.tree[open[i - 1]].type = "object"})

\* beginObject, beginArray
Begin(type, key) ==
    /\ task.phase = "write" /\ Len(task.tree) < MaxNodes /\ KeyHere(key)
    /\ task.tree = <<>> \/ task.open # <<>>
    /\ LET n == Len(task.tree) + 1
           \* one state more for the value of a member
           deep == Depth(task.open) + (IF InObject THEN 2 ELSE 1) + (IF type = "object" THEN 1 ELSE 0)
       IN  /\ deep <= Capacity
           /\ task' = [task EXCEPT
                !.out = Written(Named(@, key), Opening(type)),
                !.tree = Append(WithMember(@, Top(task.open), key, [node |-> n]), Node(type)),
                !.open = Append(@, n)]

\* operator<<: every value is a string.
Value(key, word) ==
    /\ task.phase = "write" /\ task.open # <<>> /\ task.values < MaxValues /\ KeyHere(key)
    /\ task' = [task EXCEPT
            !.out = IF task.style = "stream" THEN Quoted(Named(@, key), word, <<",">>)
                    ELSE IF task.style = "bare" THEN Written(Named(@, key), word)
                    ELSE Quoted(Named(@, key), word, <<>>),
            !.tree = WithMember(@, Last(task.open), key, [word |-> word]),
            !.values = @ + 1]

\* endObject, endArray: the comma after the last member is taken back.
End ==
    /\ task.phase = "write" /\ task.open # <<>>
    /\ LET close == IF task.tree[Last(task.open)].type = "object" THEN <<"}">> ELSE <<"]">>
           ends == task.style = "stream" /\ Last(task.out.buf) = ","
           out == Written(IF ends THEN [task.out EXCEPT !.buf = Front(@)] ELSE task.out, close)
       IN  task' = [task EXCEPT
                !.open = Front(@),
                !.out = IF task.style = "stream" /\ Len(task.open) > 1 THEN Written(out, <<",">>) ELSE out]

\* The text is received, whole or, from a server, cut short; AEEJsonBuilder and
\* its parser are new.
Receive ==
    /\ task.phase = "write" /\ task.open = <<>> /\ task.tree # <<>>
    /\ \E n \in 0..Len(task.out.buf) :
          /\ n = Len(task.out.buf) \/ task.style \in {"spaced", "bare"}
          /\ task' = [task EXCEPT !.phase = "parse", !.text = SubSeq(task.out.buf, 1, n),
                                  !.cut = n < Len(task.out.buf)]

-----------------------------------------------------------------------------
(* AEEJsonTokener *)

At(p) == IF p <= Len(task.text) THEN task.text[p] ELSE "end"

\* The first place from p on with one of some characters, or the end
NextTo(p, chars) ==
    CHOOSE j \in p..(Len(task.text) + 1) :
        /\ At(j) \in chars \cup {"end"}
        /\ \A k \in p..(j - 1) : At(k) \notin chars \cup {"end"}

\* The first place from p on behind spaces and comments
RECURSIVE NextClean(_)
NextClean(p) ==
    CASE At(p) = "/" /\ At(p + 1) = "/" -> NextClean(NextTo(p + 2, {"nl"}))
      [] At(p) = "/" /\ At(p + 1) = "*" ->
            NextClean(2 + CHOOSE j \in (p + 2)..Len(task.text) :
                            /\ At(j) = "*" /\ At(j + 1) = "/"
                            /\ \A k \in (p + 2)..(j - 1) : At(k) # "*" \/ At(k + 1) # "/")
      [] At(p) = "/" /\ At(p + 1) \notin {"/", "*"} -> NextClean(p + 1)
      [] At(p) = "#" -> NextClean(NextTo(p + 1, {"nl"}))
      [] At(p) \in {"sp", "nl"} -> NextClean(p + 1)
      [] OTHER -> p

\* mutant: a backslash is a character as any other
NextStringUnescaped(p) == NextTo(p, {"nl", "q"})

\* NextString: where the string that begins at p ends
RECURSIVE NextString(_)
NextString(p) ==
    IF At(p) \in {"end", "nl", "q"} THEN p ELSE NextString(IF At(p) = "b" THEN p + 2 ELSE p + 1)

-----------------------------------------------------------------------------
(* AEEJsonParser and AEEJsonBuilder *)

\* The stacks are of a fixed capacity.
Pushed(stack, x) == IF Len(stack) < Capacity THEN Append(stack, x) ELSE stack

\* mutant: the state of a value stays when it was an object or an array
ValueStays(states) == states
ValueEnded(states) == IF Top(states) = "value" THEN Front(states) ELSE states

\* OnBeginObject, OnBeginArray: the new node is a member of the one on top,
\* under the string that was read last.
Opens(type, p) ==
    /\ At(p) = IF type = "object" THEN "{" ELSE "["
    /\ LET n == Len(task.nodes) + 1
       IN  task' = [task EXCEPT
                !.pos = p + 1, !.states = Pushed(@, type),
                !.nodes = Append(WithMember(@, Top(task.objects), task.mLastString, [node |-> n]),
                                 Node(type)),
                !.objects = Pushed(@, n)]

\* OnEndObject, OnEndArray; a text with the wrong bracket is given up.
Closes(type, p) ==
    /\ At(p) = IF type = "object" THEN "}" ELSE "]"
    /\ LET states == ValueEnded(task.states)
       IN  task' = IF Top(states) # type THEN [task EXCEPT !.phase = "malformed", !.mDocObject = None]
                   ELSE [task EXCEPT
                            !.pos = p + 1, !.states = Front(states),
                            !.mDocObject = IF Len(task.objects) = 1 THEN Last(task.objects) ELSE @,
                            !.objects = Front(@)]

Separates(p) ==
    \/ At(p) = ":" /\ task' = [task EXCEPT !.pos = p + 1, !.states = Pushed(@, "value")]
    \/ At(p) = "," /\ task' = [task EXCEPT !.pos = p + 1, !.states = ValueEnded(@)]

\* OnValue
WithValue(word) == WithMember(task.nodes, Top(task.objects), task.mLastKey, [word |-> word])

\* A string is a value in an array or behind a colon, else a key; one that
\* does not end leaves the string before it.
ReadsString(p) ==
    /\ At(p) = "q"
    /\ LET e == NextString(p + 1)
           string == IF At(e) = "q" THEN SubSeq(task.text, p + 1, e - 1) ELSE task.mLastString
           key == Top(task.states) \notin {"array", "value"}
       IN  task' = [task EXCEPT
                !.pos = IF At(e) = "end" THEN e ELSE e + 1, !.mLastString = string,
                !.mLastKey = IF key THEN string ELSE @,
                !.nodes = IF key THEN @ ELSE WithValue(string),
                !.states = ValueEnded(@)]

ReadsBare(p) ==
    /\ At(p) \notin {"{", "}", "[", "]", ":", ",", "q", "end"}
    /\ LET e == NextTo(p, {",", "}", "]", "nl"})
           string == SubSeq(task.text, p, e - 1)
       IN  task' = [task EXCEPT !.pos = e, !.mLastString = string, !.nodes = WithValue(string),
                                !.states = ValueEnded(@)]

Ends(p) == At(p) = "end" /\ task' = [task EXCEPT !.phase = "read"]

\* One turn of the loop of Parse
Parse ==
    /\ task.phase = "parse"
    /\ LET p == NextClean(task.pos)
       IN  \/ \E type \in {"object", "array"} : Opens(type, p) \/ Closes(type, p)
           \/ Separates(p) \/ ReadsString(p) \/ ReadsBare(p) \/ Ends(p)

Init ==
    \E style \in Styles :
        task = [phase |-> "write", style |-> style, out |-> [buf |-> <<>>, lost |-> FALSE],
                tree |-> <<>>, open |-> <<>>, values |-> 0, text |-> <<>>, cut |-> FALSE,
                pos |-> 1, states |-> <<>>, objects |-> <<>>, nodes |-> <<>>,
                mLastString |-> <<>>, mLastKey |-> <<>>, mDocObject |-> None]

Next ==
    \/ \E type \in {"object", "array"}, key \in Keys \cup {NoKey} : Begin(type, key)
    \/ \E word \in Words, key \in Keys \cup {NoKey} : Value(key, word)
    \/ End \/ Receive \/ Parse

-----------------------------------------------------------------------------
(* What must hold *)

\* A stream keeps room for the end of its text.
StreamEnds == task.style = "stream" => Len(task.out.buf) < Room

\* The tree that is built from a whole text is the one that was written, in
\* every style, as deep as the stacks allow; the stacks are empty again.
ReadAsWritten ==
    task.phase \in {"read", "malformed"} /\ ~task.cut /\ ~task.out.lost =>
        /\ task.phase = "read" /\ task.mDocObject = 1 /\ task.nodes = task.tree
        /\ task.states = <<>> /\ task.objects = <<>>

\* A text that was cut short is never taken for a document.
CutIsNoDocument == task.cut => task.mDocObject = None
=============================================================================
