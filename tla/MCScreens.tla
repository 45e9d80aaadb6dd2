----------------------------- MODULE MCScreens -----------------------------
(***************************************************************************)
(* The life of an applet, its sounds, the two libraries for user           *)
(* interfaces, the drawing of bitmaps and the making of screens from       *)
(* documents, and the objects of a game, for TLC.  They do not interact    *)
(* here: a behaviour is one of a single part, and the variables of the     *)
(* other parts stay as they are.                                           *)
(***************************************************************************)
EXTENDS DUIBitmapTable, AEEApplet, AEEMultiMedia, MUIManager

CONSTANTS i1, i2, button, animation, cursor, filler1, filler2
Items == {i1, i2}
Buttons == {button}
Animations == {animation}
WaitCursors == {cursor}
Fillers == {filler1, filler2}

VARIABLES
    part,
    task   \* of the other parts: the scaling, the list, the document, the game that move

\* Two sizes of the screen; a context of a byte, a short and a byte, at an even place
\* of the memory and behind another one; two parts of the screen.
ScreenSizes == {1, 2}
SavedWidths == <<1, 2, 1>>
StartIndices == {0, 2}
Regions == {"top", "bottom"}

\* Both ways up and down, squares and rows, one beyond a third of the width
Scale == INSTANCE AEEBitmapScale WITH
    Sizes <- {<<2, 3, 5, 4>>, <<1, 1, 3, 2>>, <<3, 2, 3, 2>>, <<6, 7, 5, 3>>,
              <<9, 9, 4, 8>>, <<9, 8, 2, 5>>, <<4, 9, 6, 7>>},
    Images <- {"ramp", "checks"}

\* Five angles, three places, and a clip one pixel inside the layer
Turn == INSTANCE AEERotateBitmap WITH
    One <- 256, Turns <- {<<256, 0>>, <<0, 256>>, <<181, 181>>, <<222, -128>>, <<-240, 88>>},
    Places <- {<<4, 3>>, <<1, 5>>, <<7, 2>>}, Shapes <- {<<2, 2>>, <<5, 3>>, <<1, 4>>, <<8, 2>>},
    Layer <- [w |-> 9, h |-> 7, left |-> 1, top |-> 1, right |-> 8, bottom |-> 6]

\* A list with nothing to scroll and one of three pages; down, drag, let go and catch
Scroll == INSTANCE LauScroller WITH
    MaxOfs <- {0, 300}, PageW <- 100, Pen <- {0, 90}, Delays <- {50, 600}, Ticks <- {200}, Events <- 4

\* Three words of two widths for lines of a few, and two tags or spaces
Text == INSTANCE RichText WITH
    Words <- {"narrow", "wide"}, Total <- 4, Room <- 3, More <- 3,
    Marks <- {"b", "/b", "u", "/u", "color", "/color", "large", "/large", "tab", "newline", "escaped",
              "p", "unknown"},
    Width <- [normal |-> [narrow |-> 1, wide |-> 2], large |-> [narrow |-> 2, wide |-> 3]],
    Height <- [normal |-> 2, large |-> 3, row |-> 1], TabWidth <- [dui |-> 3, mui |-> 2],
    MaxWords <- 3, MaxMarks <- 2

\* Two items, one higher than the half of the list, and one that may come
List == INSTANCE DUIListControl WITH
    Heights <- [a |-> 30, b |-> 50, c |-> 20], Lists <- {<<"a", "b">>}, Top <- 10, Page <- 60,
    Kinds <- {[pager |-> FALSE, page |-> 0, long |-> TRUE, scrolls |-> TRUE],
              [pager |-> TRUE, page |-> 1, long |-> FALSE, scrolls |-> TRUE],
              [pager |-> TRUE, page |-> 0, long |-> TRUE, scrolls |-> FALSE]},
    Pen <- {20, 60, 80}, Drag <- 16, PageSize <- 3, Total <- 5, MaxChanges <- 1, MaxEvents <- 3

\* Three elements of the one library, four of the other, one attribute or word
MaxNodes == [dui |-> 3, mui |-> 4]
Xml == INSTANCE AEEXml WITH
    Names <- [dui |-> {"container", "bogus"}, mui |-> {"tab", "widget"}], Unknown <- {"bogus"},
    Files <- {"good", "missing"}, Missing <- {"missing"}, Attributes <- {"x"}, Values <- {"v", "w"},
    Styles <- {"plain", "spaced"}, MaxMarks <- 1, MaxCut <- 2

\* Children of fixed sizes and of percents, one at a corner, and the five of a border
Child(w, h) == [x |-> 0, y |-> 0, w |-> w, h |-> h, pw |-> -1, ph |-> -1, visible |-> TRUE, id |-> "",
                pos |-> [col |-> -1, row |-> -1, dx |-> 0, dy |-> 0]]
Wide(percent, h) == [Child(0, h) EXCEPT !.pw = percent]
High(w, percent) == [Child(w, 0) EXCEPT !.ph = percent]
InCorner == [Child(4, 3) EXCEPT !.pos = [col |-> 2, row |-> 2, dx |-> -4, dy |-> -3]]
At(id, child) == [child EXCEPT !.id = id]
OfDUI(name, cols, pad) ==
    [lib |-> "dui", name |-> name, cols |-> cols, rows |-> 1, pad |-> pad, iw |-> 0, ih |-> 0, move_x |-> FALSE]
OfMUI(name, rows, pad, move_x) ==
    [lib |-> "mui", name |-> name, cols |-> 2, rows |-> rows, pad |-> pad, iw |-> 7, ih |-> 6, move_x |-> move_x]
Layout == INSTANCE ScreenLayout WITH
    Layouts <-
        {OfDUI(name, 2, pad) : name \in {"vbox", "hbox", "tab", "grid", "vflow", "border", "relative"}, pad \in {0, 2}}
        \cup {OfDUI(name, 3, 0) : name \in {"grid", "vflow"}}
        \cup {OfMUI(name, rows, pad, move_x) : name \in {"grid", "list"}, rows \in {1, 2}, pad \in {0, 2},
                                              move_x \in BOOLEAN},
    Children <- {
        <<Child(8, 6), Wide(50, 4), High(8, 50), High(9, 50)>>,
        <<Child(8, 5), InCorner, Wide(100, 5), Child(7, 9), Child(8, 5)>>,
        <<Child(6, 4), Child(6, 9), Child(6, 3), Child(6, 4), Child(6, 7)>>,
        <<Child(5, 6), Child(9, 6), Child(2, 6), Child(3, 6)>>,
        <<At("north", Child(5, 3)), At("center", Child(1, 1)), At("west", Child(4, 2)),
          At("south", Child(6, 4)), At("east", Wide(25, 1))>>,
        <<At("south", Child(5, 3)), At("center", Child(1, 1))>>, <<>>, <<Child(6, 4)>>},
    Boxes <- {[x |-> 3, y |-> 5, w |-> 20, h |-> 16], [x |-> 0, y |-> 0, w |-> 24, h |-> 30]}, MaxChanges <- 3

\* A control, a list that is higher than it shows, with two radio buttons, and two pages
Focus == INSTANCE DUIFocus WITH
    Window <- "window",
    Tree <- [window |-> <<"a", "list", "pages">>, list |-> <<"r1", "b", "r2">>, pages |-> <<"p1", "p2">>,
             p1 |-> <<"c">>, p2 |-> <<"d">>],
    Class <- [a |-> "control", list |-> "container", pages |-> "pages", p1 |-> "container",
              p2 |-> "container", r1 |-> "radio", b |-> "control", r2 |-> "radio", c |-> "control",
              d |-> "control"],
    Height <- [a |-> 10, list |-> 40, pages |-> 30, p1 |-> 30, p2 |-> 30, r1 |-> 25, b |-> 30, r2 |-> 25,
               c |-> 10, d |-> 10],
    WindowHeight <- 100, CanFocus <- {"a", "r1", "b", "r2", "c", "d"}, CanScroll <- {"list"},
    May <- {"r1", "b"}, MaxEvents <- 4

\* Three places of the row, three tabs, and the pen on one of them or between
Tabs == INSTANCE MUITab WITH
    Shapes <- {[x |-> 10, w |-> 90, align |-> 0], [x |-> 0, w |-> 90, align |-> 1],
               [x |-> 4, w |-> 85, align |-> 2]},
    TabWidth <- 20, Interval <- 5, Capacity <- 3, PenX <- {5, 30, 45, 80}, MaxPages <- 3, MaxEvents <- 7

\* Two objects that collide in a group of two and with the one of another group, and
\* three maps, one of which is not there
Game == INSTANCE GameWorld WITH
    Group <- [o \in 1..3 |-> IF o < 3 THEN 1 ELSE 2], Touching <- {<<1, 2>>, <<1, 3>>, <<3, 2>>},
    MapObjects <- [m1 |-> <<1, 3>>, m2 |-> <<2>>], Missing <- {"m3"}, Kinds <- {"key"},
    Owned <- {2}, MaxCalls <- 5

ASSUME PartsAssumption ==
    /\ Scale!ScaleAssumption /\ Turn!RotateAssumption /\ Scroll!ScrollerAssumption
    /\ Xml!XmlAssumption /\ List!ListAssumption /\ Text!RichTextAssumption
    /\ Layout!LayoutsAssumption /\ Focus!FocusAssumption /\ Tabs!TabAssumption
    /\ Game!GameAssumption

Parts == {"images", "applet", "media", "mui", "scale", "rotate", "scroll", "xml", "list",
          "text", "layout", "focus", "tabs", "game"}

lives == orderly

\* Bound: windows in a life of MUIManager that is not disciplined; MaxWindows in others
WildWindows == 2

\* Every initial state of the part that moves, any one of the others.
ScreensInit ==
    /\ part \in Parts
    /\ IF part = "images" THEN Init
       ELSE Init /\ ~mayFail /\ layer = NULL /\ \A h \in Filler : mBmpItem[h] = i1
    /\ AppletInit /\ (part = "applet" \/ screen = 1)
    /\ MediaInit /\ (part = "media" \/ (android /\ mStatus = {}))
    /\ ManagerInit /\ (part = "mui" \/ orderly)
    /\ CASE part = "scale" -> Scale!Init
         [] part = "rotate" -> Turn!Init
         [] part = "scroll" -> Scroll!Init
         [] part = "xml" -> Xml!Init
         [] part = "list" -> List!Init
         [] part = "text" -> Text!Init
         [] part = "layout" -> Layout!Init
         [] part = "focus" -> Focus!Init
         [] part = "tabs" -> Tabs!Init
         [] part = "game" -> Game!Init
         [] OTHER -> task = <<>>

ImagesMove ==
    /\ part = "images" /\ Next
    /\ UNCHANGED <<part, appletVars, mediaVars, muiVars, lives, task>>

AppletMoves ==
    /\ part = "applet" /\ AppletNext
    /\ UNCHANGED <<part, vars, mediaVars, muiVars, lives, task>>

MediaMove ==
    /\ part = "media" /\ MediaNext
    /\ UNCHANGED <<part, vars, appletVars, muiVars, lives, task>>

MuiMoves ==
    /\ part = "mui" /\ ManagerNext /\ (orderly \/ made' <= WildWindows)
    /\ UNCHANGED <<part, vars, appletVars, mediaVars, lives, task>>

TaskMoves ==
    /\ \/ part = "scale" /\ Scale!Next
       \/ part = "rotate" /\ Turn!Next
       \/ part = "scroll" /\ Scroll!Next
       \/ part = "xml" /\ Xml!Next
       \/ part = "list" /\ List!Next
       \/ part = "text" /\ Text!Next
       \/ part = "layout" /\ Layout!Next
       \/ part = "focus" /\ Focus!Next
       \/ part = "tabs" /\ Tabs!Next
       \/ part = "game" /\ Game!Next
    /\ UNCHANGED <<part, vars, appletVars, mediaVars, muiVars, lives>>

ScreensNext == ImagesMove \/ AppletMoves \/ MediaMove \/ MuiMoves \/ TaskMoves

ScreensSpec ==
    ScreensInit /\ [][ScreensNext]_<<part, vars, appletVars, mediaVars, muiVars, lives, task>>

\* The objects of a game may add and delete objects and ask for maps in the middle
\* of the loops over them: each is in its list, destroyed once and never used
\* after; every two that collide are told once; and what was asked for is done.
GameObjectsKept ==
    part = "game" =>
        /\ Game!ListsWhole /\ Game!NothingFreedIsUsed /\ Game!DestroyedOnce
        /\ Game!ToldOnce /\ Game!RequestsDone

\* A bitmap that was scaled is what interpolation between its pixels gives,
\* and one that was turned is drawn whole, over what was there, and nowhere else;
\* the controls of a screen are those of its document, and its texts are
\* drawn whole, as they were meant, no word over another; a layout gives every
\* control a place of its own, which depends on nothing past and can be scrolled to.
DrawnRight ==
    /\ part = "scale" => Scale!ScaledBitmapIsInterpolated
    /\ part = "rotate" => Turn!BitmapIsDrawn /\ Turn!CopyReadsTheBitmap
    /\ part = "xml" => Xml!BuiltAsWritten /\ Xml!CutIsBeginning
    /\ part = "text" => Text!DrawnAsMeant /\ Text!WordsApart /\ Text!HeightSuffices
    /\ part = "layout" =>
           /\ Layout!ChildrenApart /\ Layout!PlacesForgetThePast
           /\ Layout!ScrollReachesAll /\ Layout!RoomIsUsed

\* A list that was dragged and thrown comes to rest in its range, and never
\* flies off the way to the place where it will stop; a press on a list is
\* answered once, with the item under the pen, and the selected item is shown;
\* one control has the focus, the arrow keys bring it to all and show it, and one
\* radio button is marked; of the tabs one is chosen, the one that was pressed.
ControlsAnswer ==
    /\ part = "scroll" =>
           /\ Scroll!ListRests /\ Scroll!FlightStaysOnItsWay
           /\ Scroll!FlightEnds /\ Scroll!EasesFromEndToEnd
    /\ part = "list" =>
           /\ List!OneItemPerPress /\ List!ClickIsUnderPen
           /\ List!SelectedIsShown /\ List!ContentIsItems
    /\ part = "focus" =>
           /\ Focus!OneFocus /\ Focus!ArrowsReachAll /\ Focus!FocusIsShown /\ Focus!OneRadio
    /\ part = "tabs" =>
           /\ Tabs!OneTab /\ Tabs!ChosenUnderPen /\ Tabs!PushedWhileDown /\ Tabs!ItemsInRow
=============================================================================
