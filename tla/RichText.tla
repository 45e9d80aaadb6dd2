------------------------------ MODULE RichText ------------------------------
(***************************************************************************)
(* The text with tags that DUIRichText and MUIRichText lay out: words go   *)
(* from left to right into lines of a width; {b}, {c}, {f}... change how   *)
(* they are drawn, {p} begins a paragraph.  Of a text, a tag is one        *)
(* character here, and so is a newline.  What is out of sight is drawn     *)
(* here too, the source leaves it out.                                     *)
(***************************************************************************)
EXTENDS Integers, Sequences, SequencesExt, FiniteSetsExt, Folds

CONSTANTS
    Words,      \* the characters that are drawn, "narrow" (one byte) and wider ones
    Marks,      \* the tags and spaces of a document
    Width,      \* Width[font][word]
    Height,     \* Height[font], rowSpace
    Total,      \* the width of the control
    Room, More, \* the height of a MUIRichText, and what it adds to a text that is
                \* higher (50 in the source)
    TabWidth,   \* TabWidth[lib]
    MaxWords, MaxMarks  \* bounds of a document

Fonts == {"normal", "large"}
EndTag == [b |-> "/b", u |-> "/u", color |-> "/color", large |-> "/large"]
StartTags == DOMAIN EndTag
EndTags == Range(EndTag)
\* A tag nobody knows, and the newline as two characters or escaped as four
Spaces == {"tab", "newline", "escaped"}

RichTextAssumption ==
    /\ Marks \subseteq StartTags \cup EndTags \cup Spaces \cup {"p", "unknown"}
    /\ \A f \in Fonts : Height[f] \in Nat \ {0} /\ \A w \in Words : Width[f][w] \in Nat \ {0}
    /\ "narrow" \in Words /\ {Total, Room, More} \subseteq Nat /\ \A lib \in {"dui", "mui"} : TabWidth[lib] \in Nat

VARIABLE task  \* the document, how it was meant, and the line that is laid out

Plain == [bold |-> FALSE, underline |-> FALSE, color |-> FALSE, font |-> "normal"]
WidthOf(font, words) == FoldLeft(LAMBDA sum, w : sum + Width[font][w], 0, words)

-----------------------------------------------------------------------------
(* The writer of the document.  open has the tags that are not ended; odd are   *)
(* documents that the source lays out in a way their writer did not mean.       *)

Meant(open) == [bold |-> "b" \in Range(open), underline |-> "u" \in Range(open),
                color |-> "color" \in Range(open), font |-> IF "large" \in Range(open) THEN "large" ELSE "normal"]

Write(w) ==
    /\ task.phase = "write" /\ task.words < MaxWords /\ w \in Words
    /\ task' = [task EXCEPT !.text = Append(@, w), !.words = @ + 1,
                            !.meant = Append(@, [word |-> w, style |-> Meant(task.open), line |-> task.line])]

\* A line that ends right behind a start tag, or whose tab follows a word of
\* MUIRichText, is not what it was meant to be; underlining does not end.
Odd(m) ==
    \/ m = "unknown" \/ m = "/u"
    \/ m \in {"newline", "escaped"} /\ task.text # <<>> /\ Last(task.text) \in StartTags
    \/ m = "tab" /\ task.lib = "mui" /\ task.text # <<>> /\ Last(task.text) \in Words
    \/ m \in StartTags /\ m \in Range(task.open)

Mark(m) ==
    /\ task.phase = "write" /\ task.marks < MaxMarks /\ m \in Marks
    /\ m \in EndTags => task.open # <<>> /\ m = EndTag[Last(task.open)]
    /\ task' = [task EXCEPT !.text = Append(@, m), !.marks = @ + 1, !.odd = @ \/ Odd(m),
                            !.open = IF m \in StartTags THEN Append(@, m)
                                     ELSE IF m \in EndTags THEN Front(@) ELSE @,
                            !.line = IF m \in {"newline", "escaped", "p"} THEN @ + 1 ELSE @]

Show == task.phase = "write" /\ task' = [task EXCEPT !.phase = "layout"]

-----------------------------------------------------------------------------
(* Laying out: x is currentWidth, y is lineOffsetY, style the font and its       *)
(* attributes.  MUIRichText gathers the words of one style in a section and      *)
(* draws them at once; DUIRichText draws each by itself.                         *)

Rest == Tail(task.text)
Newline(s) == [s EXCEPT !.x = 0, !.y = @ + Height[s.style.font] + Height["row"]]

DrawSection(s, n) ==
    [s EXCEPT !.drawn = @ \o [k \in 1..n |->
                    [word |-> s.section[k], style |-> s.style, y |-> s.y,
                     x |-> s.x + WidthOf(s.style.font, SubSeq(s.section, 1, k - 1))]],
              !.section = SubSeq(@, n + 1, Len(@))]
Flushed(s) == [DrawSection(s, Len(s.section)) EXCEPT !.x = @ + WidthOf(s.style.font, s.section)]

Fits(s, words) == s.x + WidthOf(s.style.font, words) <= Total

\* mutant: the width of the word itself is left out
PlaceInLineLate(s, w) ==
    Flushed([(IF s.x < Total THEN s ELSE Newline(s)) EXCEPT !.section = <<w>>])

\* DUIRichText: a word that does not fit goes to the next line.
PlaceInLine(s, w) ==
    Flushed([(IF Fits(s, <<w>>) THEN s ELSE Newline(s)) EXCEPT !.section = <<w>>])

\* MUIRichText: the section is drawn without a word that does not fit, unless it
\* is that word.
PlaceInSection(s, w) ==
    LET t == [s EXCEPT !.section = Append(@, w)]
    IN  IF Fits(s, t.section) THEN t ELSE Newline(DrawSection(t, Len(s.section)))

\* mutant: an end tag keeps the attribute
StyleKept(style, m) ==
    CASE m = "b" -> [style EXCEPT !.bold = TRUE]
      [] m \in {"u", "/u"} -> [style EXCEPT !.underline = TRUE]
      [] m = "color" -> [style EXCEPT !.color = TRUE]
      [] m = "/color" -> [style EXCEPT !.color = FALSE]
      [] m = "large" -> [style EXCEPT !.font = "large"]
      [] m = "/large" -> [style EXCEPT !.font = "normal"]
      [] OTHER -> style

\* {/u} has no effect.
Style(style, m) ==
    CASE m = "b" -> [style EXCEPT !.bold = TRUE]
      [] m = "/b" -> [style EXCEPT !.bold = FALSE]
      [] m = "u" -> [style EXCEPT !.underline = TRUE]
      [] m = "color" -> [style EXCEPT !.color = TRUE]
      [] m = "/color" -> [style EXCEPT !.color = FALSE]
      [] m = "large" -> [style EXCEPT !.font = "large"]
      [] m = "/large" -> [style EXCEPT !.font = "normal"]
      [] OTHER -> style

LayWord ==
    /\ Head(task.text) \in Words
    /\ LET w == Head(task.text)
       IN  task' = [(IF task.lib = "dui" THEN PlaceInLine(task, w) ELSE PlaceInSection(task, w))
                        EXCEPT !.text = Rest]

LayTab ==
    /\ Head(task.text) = "tab"
    /\ task' = [task EXCEPT !.x = @ + TabWidth[task.lib], !.text = Rest]

\* In MUIRichText, what was gathered is drawn first.
LayNewline ==
    /\ Head(task.text) \in {"newline", "escaped"}
    /\ task' = [Newline(Flushed(task)) EXCEPT !.text = Rest]

\* Behind a start tag only a tag or a tab is taken for what it is; the characters
\* of a newline are drawn.
LayStartTag ==
    /\ Head(task.text) \in StartTags
    /\ LET s == Flushed(task)
           next == IF Rest = <<>> THEN "none" ELSE Head(Rest)
       IN  task' = [s EXCEPT !.style = Style(@, Head(task.text)),
                        !.last = IF Head(task.text) = "large" THEN Height["large"] ELSE @,
                        !.text = CASE next = "newline" -> <<"narrow", "narrow">> \o Tail(Rest)
                                   [] next = "escaped" -> <<"narrow", "narrow", "narrow", "narrow">> \o Tail(Rest)
                                   [] OTHER -> Rest]

\* mutant: what was gathered is drawn after the end of its style
LayEndTagFirst ==
    /\ Head(task.text) \in EndTags
    /\ task' = [task EXCEPT !.style = Style(@, Head(task.text)), !.text = Rest]

LayEndTag ==
    /\ Head(task.text) \in EndTags
    /\ task' = [Flushed(task) EXCEPT !.style = Style(@, Head(task.text)), !.text = Rest]

\* A paragraph is indented by the parameter of its tag (none here).  In DUIRichText
\* it keeps off a line with a font that was ended.
LayParagraph ==
    /\ Head(task.text) = "p"
    /\ LET height == Height[task.style.font]
       IN  task' = [Newline(Flushed(task)) EXCEPT !.text = Rest, !.last = height,
                        !.y = task.y + (IF task.lib = "dui" THEN task.last ELSE height) + Height["row"]]

\* The brace and the slash are left out, the name and the brace behind it drawn.
LayUnknown ==
    /\ Head(task.text) = "unknown"
    /\ task' = [Flushed(task) EXCEPT !.text = <<"narrow", "narrow">> \o Rest]

Lay ==
    /\ task.phase = "layout" /\ task.text # <<>>
    /\ \/ LayWord \/ LayTab \/ LayNewline \/ LayStartTag \/ LayEndTag \/ LayParagraph \/ LayUnknown

\* mutant: the height of the last line is left out
LastLineLeftOut == task.y

\* MeasureSize takes the height from where the last line is; the container of a
\* MUIRichText scrolls when that line is below the end.
MeasuredHeight == task.y + Height[task.style.font]
LayEnd ==
    /\ task.phase = "layout" /\ task.text = <<>>
    /\ task' = [Flushed(task) EXCEPT !.phase = "shown",
                    !.height = IF task.lib = "dui" THEN MeasuredHeight
                               ELSE IF task.y > Room THEN task.y + More ELSE Room]

Init ==
    \E lib \in {"dui", "mui"} :
        task = [ phase |-> "write", lib |-> lib, text |-> <<>>, words |-> 0, marks |-> 0, open |-> <<>>,
                 odd |-> FALSE, meant |-> <<>>, line |-> 0, x |-> 0, y |-> 0, style |-> Plain, last |-> Height["normal"],
                 section |-> <<>>, drawn |-> <<>>, height |-> 0 ]

Next ==
    \/ \E w \in Words : Write(w)
    \/ \E m \in Marks : Mark(m)
    \/ Show \/ Lay \/ LayEnd

Spec == Init /\ [][Next]_task

-----------------------------------------------------------------------------
(* What must hold *)

\* Every word of a document is drawn once, in its order, in the font and with the
\* attributes its writer gave it, and words of different lines on different lines.
DrawnAsMeant ==
    (task.phase = "shown" /\ ~task.odd) =>
        /\ Len(task.drawn) = Len(task.meant)
        /\ \A k \in DOMAIN task.meant :
               /\ task.drawn[k].word = task.meant[k].word /\ task.drawn[k].style = task.meant[k].style
               /\ k > 1 /\ task.meant[k].line > task.meant[k - 1].line => task.drawn[k].y > task.drawn[k - 1].y

\* No word leaves the width of the control, unless it is wider, and none is drawn
\* over another (but for the next line of a font that was ended).
WordsApart ==
    ~task.odd =>
        \A k \in DOMAIN task.drawn :
            LET t == task.drawn[k]
                u == task.drawn[k - 1]
            IN  /\ t.x = 0 \/ t.x + Width[t.style.font][t.word] <= Total
                /\ k > 1 => IF t.y = u.y THEN t.x >= u.x + Width[u.style.font][u.word]
                            ELSE t.y > u.y /\ (u.style.font = "normal" => t.y >= u.y + Height["normal"])

\* The height that DUIRichText measures has room for the words of the normal font,
\* and for those of another that was not ended; so has a MUIRichText that scrolls.
HeightSuffices ==
    (task.phase = "shown" /\ (task.lib = "dui" \/ task.height # Room)) =>
        \A k \in DOMAIN task.drawn :
            LET t == task.drawn[k]
            IN  t.style.font \in {"normal", task.style.font} => t.y + Height[t.style.font] <= task.height
=============================================================================
