------------------------------- MODULE AEEXml -------------------------------
(***************************************************************************)
(* How a screen is made of a resource: AEEXMLParser (AEE++/xml) cuts the   *)
(* text into tags, attributes and characters, and the builder of one of    *)
(* the two user interface libraries, DUIBuilder or MUIBuilder, makes a     *)
(* tree of controls of them.  A designer writes a document step by step;   *)
(* then it is parsed, a token at a time.                                   *)
(*                                                                         *)
(* A text is a sequence of characters, of which a name, a value or a word  *)
(* is one; "sp", "nl", "qq" and "sq" are space, newline and the quotes.    *)
(***************************************************************************)
EXTENDS Integers, Sequences, SequencesExt, FiniteSetsExt

CONSTANTS
    Names,      \* Names[lib]: the elements the designer uses with a library
    Unknown,    \* those of them nobody can create
    Files,      \* the files that an include names
    Missing,    \* those of them that cannot be loaded
    Attributes, Values,
    Styles,     \* how the document is laid out: "plain", "spaced"
    MaxNodes, MaxMarks, \* bounds: elements with a library; attributes and words;
    MaxCut              \* elements of a document that loses its end

XmlAssumption ==
    /\ DOMAIN Names \subseteq {"dui", "mui"}
    /\ Missing \subseteq Files /\ Styles \subseteq {"plain", "spaced"}
    /\ MaxNodes \in [DOMAIN Names -> Nat] /\ {MaxMarks, MaxCut} \subseteq Nat
    /\ (Attributes \cup Values) \cap {"sp", "nl", "qq", "sq", "<", ">", "/", "=", "?", "!"} = {}

VARIABLE task  \* the document, what should come of it, the parser and the builder

None == 0

\* A control: its name, its parent, what was set, and the titles of its tabs
Node(name, parent) == [name |-> name, parent |-> parent, set |-> <<>>, tabs |-> <<>>]
ChildrenOf(nodes, n) == {k \in DOMAIN nodes : nodes[k].parent = n}
Top(stack) == IF stack = <<>> THEN None ELSE Last(stack)

-----------------------------------------------------------------------------
(* The designer.  open has the elements that are not ended: a node, or an    *)
(* element that makes none.                                                  *)

Spaced(s, chars) == IF task.style = "spaced" THEN s \o chars ELSE chars

\* A start tag whose attributes are done is closed by what follows.
Closed == IF task.head THEN Append(task.text, ">") ELSE task.text
OpenNodes == SelectSeq(task.open, LAMBDA n : n # None)
Here == Top(OpenNodes)
\* Children go into an element that makes a control.
CanNest == task.open = <<>> \/ Top(task.open) # None

Opened(name, makes) ==
    LET n == Len(task.tree) + 1
    IN  [task EXCEPT !.text = Closed \o Spaced(<<"nl", "sp">>, <<"<", name>>), !.head = TRUE,
                     !.open = Append(@, IF makes THEN n ELSE None), !.elements = @ + 1,
                     !.tree = IF makes THEN Append(@, Node(name, Here)) ELSE @]

CanOpen == task.phase = "write" /\ task.elements < MaxNodes[task.lib] /\ CanNest
           /\ (task.elements = 0 \/ task.open # <<>>)

Begin(name) ==
    /\ CanOpen /\ name \in Names[task.lib]
    /\ task' = [Opened(name, TRUE) EXCEPT !.odd = @ \/ name \in Unknown
                    \/ (name = "tab" /\ \E n \in Range(OpenNodes) : task.tree[n].name = "tab")]

Attr(a, v) == IF task.style = "spaced" THEN <<"sp", "sp", a, "sp", "=", "sp", "sq", v, "sq", "nl">>
              ELSE <<"sp", a, "=", "qq", v, "qq">>

Attribute(a, v) ==
    /\ task.phase = "write" /\ task.head /\ task.marks < MaxMarks /\ Top(task.open) # None
    /\ task' = [task EXCEPT !.text = @ \o Attr(a, v), !.marks = @ + 1,
                            !.tree[Here].set = Append(@, <<a, v>>)]

\* An included file has one control.
Include(file) ==
    /\ CanOpen /\ task.lib = "dui" /\ task.elements > 0
    /\ LET opened == Opened("include", TRUE)
       IN  task' = [opened EXCEPT !.text = @ \o Attr("file", file), !.odd = @ \/ file \in Missing,
                                  !.tree = [@ EXCEPT ![Len(@)].name = file]]

\* The title of a tab comes behind the control it shows; a tab without a
\* control has none.
TabItem(title) ==
    /\ CanOpen /\ Here # None /\ task.tree[Here].name = "tab"
    /\ LET opened == Opened("tabitem", FALSE)
       IN  task' = [opened EXCEPT !.text = @ \o Attr("title", title),
                        !.tree[Here].tabs =
                            Append(@, IF Len(@) < Cardinality(ChildrenOf(task.tree, Here)) THEN title
                                      ELSE "none")]

Word(v) ==
    /\ task.phase = "write" /\ task.marks < MaxMarks /\ Top(task.open) # None
    /\ (task.head \/ Last(task.text) = ">")
    /\ task' = [task EXCEPT !.text = Closed \o Spaced(<<"nl">>, <<v>>), !.head = FALSE, !.marks = @ + 1,
                            !.tree[Here].set = IF task.lib = "dui" THEN Append(@, <<"text", v>>) ELSE @]

End ==
    /\ task.phase = "write" /\ task.open # <<>>
    /\ task' = [task EXCEPT !.open = Front(@), !.head = FALSE,
                    !.text = @ \o IF task.head THEN Spaced(<<"sp">>, <<"/", ">">>)
                                  ELSE Spaced(<<"nl">>, <<"<", "/", "name", ">">>)]

\* The document is loaded, whole or without its end.
Load ==
    /\ task.phase = "write" /\ task.open = <<>> /\ task.elements > 0
    /\ \E n \in 0..Len(task.text) :
          /\ n = Len(task.text) \/ task.elements <= MaxCut
          /\ task' = [task EXCEPT !.phase = "parse", !.text = SubSeq(@, 1, n),
                                  !.cut = n < Len(task.text)]

-----------------------------------------------------------------------------
(* The builders: b is the state of one, b.fault an access through a null or  *)
(* missing pointer.                                                          *)

\* mutant: the place of the tab is not counted
EndElementKeepsTab(b) ==
    IF b.tabItem THEN [b EXCEPT !.tabItem = FALSE]
    ELSE [b EXCEPT !.include = FALSE, !.stack = IF @ = <<>> THEN @ ELSE Front(@)]

\* mutant: a control that is not the first is the child of the first
PushedUnderRoot(b, name) ==
    LET n == Len(b.nodes) + 1
    IN  [b EXCEPT !.nodes = Append(@, Node(name, IF n = 1 THEN None ELSE 1)), !.stack = Append(@, n)]

\* The new control is a child of the one on top; the first is the root.
Pushed(b, name) ==
    LET n == Len(b.nodes) + 1
    IN  IF b.stack = <<>> /\ b.nodes # <<>> /\ task.lib = "dui" THEN [b EXCEPT !.fault = TRUE]
        ELSE [b EXCEPT !.nodes = Append(@, Node(name, Top(b.stack))), !.stack = Append(@, n)]

\* DUIBuilder ignores an element it does not know, but not its end; MUIBuilder
\* uses what its handler did not create.
StartElement(b, name) ==
    IF task.lib = "dui"
    THEN IF name = "include" THEN [b EXCEPT !.include = TRUE]
         ELSE IF name \in Unknown \cup {""} THEN b ELSE Pushed(b, name)
    ELSE IF name = "tabitem" THEN [b EXCEPT !.tabItem = TRUE]
    ELSE IF name \in Unknown \cup {""} THEN [b EXCEPT !.fault = TRUE]
    ELSE Pushed(IF name = "tab" THEN [b EXCEPT !.tabIndex = 0, !.tabItem = FALSE] ELSE b, name)

EndElement(b) ==
    IF b.tabItem THEN [b EXCEPT !.tabIndex = @ + 1, !.tabItem = FALSE]
    ELSE [b EXCEPT !.include = FALSE, !.stack = IF @ = <<>> THEN @ ELSE Front(@)]

\* setTabItem
TabNamed(b, tab, title) ==
    IF b.tabIndex >= Cardinality(ChildrenOf(b.nodes, tab)) THEN b
    ELSE [b EXCEPT !.nodes[tab].tabs =
            [k \in 1..Max({Len(@), b.tabIndex + 1}) |->
                IF k = b.tabIndex + 1 THEN title ELSE IF k <= Len(@) THEN @[k] ELSE "none"]]

SetOn(b, n, a, v) == [b EXCEPT !.nodes[n].set = Append(@, <<a, v>>)]

AttributeOf(b, a, v) ==
    IF b.stack = <<>> THEN [b EXCEPT !.fault = task.lib = "mui"]
    ELSE IF b.include
    THEN IF a # "file" THEN b
         ELSE [(IF v \in Missing THEN b ELSE Pushed(b, v)) EXCEPT !.include = FALSE]
    ELSE IF b.tabItem THEN IF a = "title" THEN TabNamed(b, Last(b.stack), v) ELSE b
    ELSE SetOn(b, Last(b.stack), a, v)

Characters(b, v) ==
    IF task.lib = "mui" \/ b.stack = <<>> THEN b ELSE SetOn(b, Last(b.stack), "text", v)

-----------------------------------------------------------------------------
(* AEEXMLParser *)

At(p) == IF p <= Len(task.text) THEN task.text[p] ELSE "end"

\* The first place from p on with one of some characters, behind the end if
\* there is none
Break(p, chars) ==
    CHOOSE j \in p..(Len(task.text) + 1) :
        /\ At(j) \in chars \cup {"end"} /\ \A k \in p..(j - 1) : At(k) \notin chars
SkipWhite(p) ==
    CHOOSE j \in p..(Len(task.text) + 1) :
        At(j) \notin {"sp", "nl"} /\ \A k \in p..(j - 1) : At(k) \in {"sp", "nl"}

\* readString: nothing is read, and nothing passed, without a break
ReadTo(p, chars) == IF At(Break(p, chars)) = "end" THEN p ELSE Break(p, chars)
ReadName(p, chars) == IF ReadTo(p, chars) = p THEN "" ELSE task.text[p]

\* skipTo looks for its character without an end; so does what passes the end
\* of the text by a step.
GoOn(p, b) ==
    task' = [task EXCEPT !.pos = p, !.b = b,
                         !.phase = IF b.fault THEN "fault" ELSE IF p > Len(task.text) + 1 THEN "overrun" ELSE @]
Skipped(p, char) == IF At(Break(p, {char})) = "end" THEN Len(task.text) + 2 ELSE Break(p, {char})

\* A declaration or a comment ends at the first ">".
ParseDeclaration(p) ==
    /\ At(p) = "<" /\ At(p + 1) \in {"?", "!"}
    /\ GoOn(Skipped(p + 1, ">") + 1, task.b)

ParseEndTag(p) ==
    /\ At(p) = "<" /\ At(p + 1) = "/"
    /\ GoOn(ReadTo(p + 2, {">"}) + 1, EndElement(task.b))

ParseStartTag(p) ==
    /\ At(p) = "<" /\ At(p + 1) \notin {"?", "!", "/"}
    /\ LET b == StartElement(task.b, ReadName(p + 1, {"sp", "/", ">"}))
       IN  task' = [task EXCEPT !.pos = SkipWhite(ReadTo(p + 1, {"sp", "/", ">"})), !.b = b,
                                !.phase = IF b.fault THEN "fault" ELSE "attributes"]

\* An attribute without quotes ends the document; one with an empty name or
\* value is left out.
ParseAttribute ==
    /\ task.phase = "attributes" /\ At(task.pos) \notin {">", "/"}
    /\ LET start == SkipWhite(task.pos)
           name == ReadName(start, {"sp", "="})
           equals == Skipped(ReadTo(start, {"sp", "="}), "=")
           quote == Break(equals, {"qq", "sq"})
           value == ReadName(quote + 1, {"qq", "sq"})
           b == IF name = "" \/ value = "" THEN task.b ELSE AttributeOf(task.b, name, value)
       IN  IF equals > Len(task.text) + 1 THEN GoOn(equals, task.b)
           ELSE IF At(quote) = "end" THEN task' = [task EXCEPT !.phase = "done"]
           ELSE GoOn(LET next == ReadTo(quote + 1, {"qq", "sq"}) + 1
                     IN  IF next > Len(task.text) + 1 THEN next ELSE SkipWhite(next), b)

ParseTagDone ==
    /\ task.phase = "attributes" /\ At(task.pos) \in {">", "/"}
    /\ LET empty == At(task.pos) = "/"
           p == task.pos + (IF empty THEN 2 ELSE 1)
       IN  task' = [task EXCEPT !.pos = p, !.b = IF empty THEN EndElement(@) ELSE @,
                                !.phase = IF p > Len(task.text) + 1 THEN "overrun" ELSE "parse"]

\* readCharacters: characters that no tag follows are never passed.
ParseCharacters(p) ==
    /\ At(p) \notin {"<", "end"}
    /\ IF At(Break(p, {"<"})) = "end" THEN task' = [task EXCEPT !.phase = "hangs"]
       ELSE GoOn(Break(p, {"<"}), Characters(task.b, task.text[p]))

ParseEnd(p) == At(p) = "end" /\ task' = [task EXCEPT !.phase = "done"]

Parse ==
    \/ /\ task.phase = "parse"
       /\ LET p == SkipWhite(task.pos)
          IN  \/ ParseDeclaration(p) \/ ParseEndTag(p) \/ ParseStartTag(p) \/ ParseCharacters(p)
              \/ ParseEnd(p)
    \/ ParseAttribute \/ ParseTagDone

Init ==
    \E style \in Styles, lib \in DOMAIN Names :
        task = [ phase |-> "write", style |-> style, lib |-> lib, elements |-> 0, marks |-> 0, odd |-> FALSE,
                 text |-> IF style = "spaced" THEN <<"<", "?", "xml", "?", ">", "<", "!", "note", ">">> ELSE <<>>,
                 tree |-> <<>>, open |-> <<>>, head |-> FALSE, cut |-> FALSE, pos |-> 1,
                 b |-> [stack |-> <<>>, nodes |-> <<>>, include |-> FALSE, tabItem |-> FALSE,
                        tabIndex |-> 0, fault |-> FALSE] ]

Next ==
    \/ \E name \in UNION Range(Names) : Begin(name)
    \/ \E a \in Attributes, v \in Values : Attribute(a, v)
    \/ \E file \in Files : Include(file)
    \/ \E v \in Values : TabItem(v) \/ Word(v)
    \/ End \/ Load \/ Parse

Spec == Init /\ [][Next]_task

-----------------------------------------------------------------------------
(* What must hold *)

\* The tabs that have a title, without those at the end that have none
Titles(nodes) ==
    [n \in DOMAIN nodes |-> [nodes[n] EXCEPT !.tabs = {<<k, @[k]>> : k \in {j \in DOMAIN @ : @[j] # "none"}}]]

\* A whole document whose elements are known, whose files are there and that
\* has no tab in a tab becomes the tree of controls the designer wrote, with
\* the attributes, the texts and the titles at their places.
BuiltAsWritten ==
    (~task.cut /\ ~task.odd /\ task.phase \notin {"write", "parse", "attributes"}) =>
        task.phase = "done" /\ Titles(task.b.nodes) = Titles(task.tree) /\ task.b.stack = <<>>

\* What a document without its end becomes, if parsing ends, has the controls
\* of its beginning, with their parents.
CutIsBeginning ==
    (task.phase = "done" /\ ~task.odd) =>
        /\ Len(task.b.nodes) <= Len(task.tree)
        /\ \A n \in DOMAIN task.b.nodes :
               /\ task.b.nodes[n].name = task.tree[n].name
               /\ task.b.nodes[n].parent = task.tree[n].parent
=============================================================================
