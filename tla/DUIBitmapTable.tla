--------------------------- MODULE DUIBitmapTable ---------------------------
(***************************************************************************)
(* class DUIBitmapTable (AEE++/dui/dui_bitmaptable.cpp): the bitmaps of a  *)
(* DUI application, counted by the handles that use them, and ImageAlloc   *)
(* (dui_imagealloc.cpp), which puts them into the memory of a layer of the *)
(* screen while the application is shown.  A suspended application has no  *)
(* layer: the bitmaps in it are given up and loaded again on resumption.   *)
(*                                                                         *)
(* The users of bitmaps are the controls, which load a bitmap when it is   *)
(* set, and the fillers of backgrounds and borders, which load theirs when *)
(* they are painted.  Everything runs on one thread; timers and answers    *)
(* from the network call the application while it is suspended, too.       *)
(***************************************************************************)
EXTENDS Integers, FiniteSets

CONSTANTS
    Item,       \* the bitmaps of the resource file
    Button,     \* controls that draw the bitmap they were given
    Animation,  \* controls that load their bitmap again to draw it
    WaitCursor, \* controls that release a bitmap only if it is there
    Filler,     \* backgrounds and borders
    NoItem,
    MaxLayers   \* bound: the layers that are made

Control == Button \cup Animation \cup WaitCursor
Holder == Control \cup Filler

ASSUME TableAssumption ==
    /\ NoItem \notin Item
    /\ Button \cap (Animation \cup WaitCursor \cup Filler) = {}
    /\ Animation \cap (WaitCursor \cup Filler) = {} /\ WaitCursor \cap Filler = {}
    /\ IsFiniteSet(Holder)
    /\ MaxLayers \in Nat

VARIABLES
    mItems,     \* the table: pBmp, nRefCnt and bScreenMem of every item
    mBmpItem,   \* the item a handle refers to
    layer,      \* the memory of ImageAlloc's layer, NULL if it has none
    layers,     \* how many layers were made
    mIsSuspend, closed,
    mayFail,    \* files and memory may be missing
    owned,      \* fillers that have counted their bitmap
    abandoned,  \* items with a count that no handle will take back
    strayed     \* a bitmap was freed after the layer it was in

table == <<mItems, mBmpItem, owned, abandoned, strayed>>
vars == <<table, layer, layers, mIsSuspend, closed, mayFail>>

\* Where a bitmap is: nowhere, in the memory of AEEAlloc, or in a layer.  A
\* layer gets a new number whenever it is made.
NULL == 0
HEAP == 1
Layers == 2..(MaxLayers + 1)

NewItem == [pBmp |-> NULL, nRefCnt |-> 0, bScreenMem |-> FALSE]

-----------------------------------------------------------------------------
(* Operations on an item *)

\* LoadBitmap: the possible results.  A bitmap is called screen memory if any
\* of its memory came from the layer.
LoadBitmap(item, inLayer) ==
    IF item.pBmp # NULL THEN {item}
    ELSE {[item EXCEPT !.pBmp = HEAP, !.bScreenMem = FALSE]}
         \cup (IF inLayer = NULL THEN {}
               ELSE {[item EXCEPT !.pBmp = inLayer, !.bScreenMem = TRUE]})
         \cup (IF mayFail THEN {item} ELSE {})

UnLoad(item) ==
    LET n == item.nRefCnt - 1
    IN  [item EXCEPT !.nRefCnt = n, !.pBmp = IF n <= 0 THEN NULL ELSE @]

\* ImageAlloc::Free gives a pointer that is in no layer to AEEAlloc.
Strays(before, after, inLayer) ==
    \E i \in Item : /\ before[i].pBmp \in Layers
                    /\ after[i].pBmp # before[i].pBmp
                    /\ before[i].pBmp # inLayer

-----------------------------------------------------------------------------
(* Handles *)

Init ==
    /\ mItems = [i \in Item |-> NewItem]
    /\ mBmpItem \in {m \in [Holder -> Item \cup {NoItem}] :
                        /\ \A c \in Control : m[c] = NoItem
                        /\ \A f \in Filler : m[f] # NoItem}
    /\ layer \in {NULL, 2} /\ layers = 1
    /\ mIsSuspend = FALSE /\ closed = FALSE
    /\ mayFail \in BOOLEAN
    /\ owned = {} /\ abandoned = {} /\ strayed = FALSE

\* A control that gives its bitmap back.  A wait cursor does so only if the
\* bitmap is there, and forgets its handle otherwise.
Released(c) ==
    LET i == mBmpItem[c] IN
    IF i = NoItem \/ (c \in WaitCursor /\ mItems[i].pBmp = NULL) THEN mItems
    ELSE [mItems EXCEPT ![i] = UnLoad(@)]

Forgotten(c) ==
    IF /\ c \in WaitCursor /\ mBmpItem[c] # NoItem
       /\ mItems[mBmpItem[c]].pBmp = NULL
      THEN {mBmpItem[c]} ELSE {}

\* The control is deleted.
Destroy(c) ==
    /\ mBmpItem[c] # NoItem
    /\ mItems' = Released(c)
    /\ mBmpItem' = [mBmpItem EXCEPT ![c] = NoItem]
    /\ abandoned' = abandoned \cup Forgotten(c)
    /\ strayed' = (strayed \/ Strays(mItems, mItems', layer))
    /\ UNCHANGED <<owned, layer, layers, mIsSuspend, closed, mayFail>>

\* The attribute "bitmap" of a control is set: the old one is released, the
\* new one loaded and counted.
SetBitmap(c, i) ==
    /\ \E item \in LoadBitmap(Released(c)[i], layer) :
          /\ mItems' = [Released(c) EXCEPT ![i] =
                 IF item.pBmp # NULL THEN [item EXCEPT !.nRefCnt = @ + 1] ELSE item]
          /\ mBmpItem' = [mBmpItem EXCEPT ![c] = IF item.pBmp # NULL THEN i ELSE NoItem]
    /\ abandoned' = abandoned \cup Forgotten(c)
    /\ strayed' = (strayed \/ Strays(mItems, Released(c), layer))
    /\ UNCHANGED <<owned, layer, layers, mIsSuspend, closed, mayFail>>

\* mutant: the bitmap is loaded and not counted
PaintUncounted(h) ==
    LET i == mBmpItem[h] IN
    /\ ~mIsSuspend
    /\ h \in Animation \cup Filler /\ i # NoItem /\ mItems[i].pBmp = NULL
    /\ \E item \in LoadBitmap(mItems[i], layer) :
          /\ mItems' = [mItems EXCEPT ![i] = item]
          /\ mBmpItem' = [mBmpItem EXCEPT ![h] = IF item.pBmp # NULL THEN i ELSE NoItem]
          /\ owned' = IF h \in Filler /\ item.pBmp # NULL THEN owned \cup {h} ELSE owned \ {h}
          /\ abandoned' = IF h \in Animation \cup owned THEN abandoned \cup {i} ELSE abandoned
    /\ UNCHANGED <<strayed, layer, layers, mIsSuspend, closed, mayFail>>

\* getLoadBmp, when an animation or a filler is painted and its bitmap is not
\* there: it is loaded and counted once more; if that fails the handle is lost.
\* Either way a count that was there already stays behind.
Paint(h) ==
    LET i == mBmpItem[h] IN
    /\ ~mIsSuspend
    /\ h \in Animation \cup Filler /\ i # NoItem /\ mItems[i].pBmp = NULL
    /\ \E item \in LoadBitmap(mItems[i], layer) :
          /\ mItems' = [mItems EXCEPT ![i] =
                 IF item.pBmp # NULL THEN [item EXCEPT !.nRefCnt = @ + 1] ELSE item]
          /\ mBmpItem' = [mBmpItem EXCEPT ![h] = IF item.pBmp # NULL THEN i ELSE NoItem]
          /\ owned' = IF h \in Filler /\ item.pBmp # NULL THEN owned \cup {h} ELSE owned \ {h}
          /\ abandoned' = IF h \in Animation \cup owned THEN abandoned \cup {i} ELSE abandoned
    /\ UNCHANGED <<strayed, layer, layers, mIsSuspend, closed, mayFail>>

\* The bitmap of a filler is released before its time.  A filler that has not
\* counted it must not: it would take the count of somebody else.
UnLoadBmp(f) ==
    /\ f \in owned
    /\ mItems' = [mItems EXCEPT ![mBmpItem[f]] = UnLoad(@)]
    /\ mBmpItem' = [mBmpItem EXCEPT ![f] = NoItem]
    /\ owned' = owned \ {f}
    /\ strayed' = (strayed \/ Strays(mItems, mItems', layer))
    /\ UNCHANGED <<abandoned, layer, layers, mIsSuspend, closed, mayFail>>

-----------------------------------------------------------------------------
(* The life of the application *)

\* mutant: the pointers to the bitmaps that were given up are not cleared
SuspendAllDangling == [i \in Item |-> mItems[i]]

\* SuspendAll: bitmaps in the layer are given up, their counts stay.
SuspendAll ==
    [i \in Item |-> IF mItems[i].nRefCnt # 0 /\ mItems[i].bScreenMem
                      THEN [mItems[i] EXCEPT !.pBmp = NULL] ELSE mItems[i]]

\* mutant: the layer goes before the bitmaps in it
SuspendLayerFirst ==
    /\ ~mIsSuspend
    /\ mItems' = SuspendAll
    /\ strayed' = (strayed \/ Strays(mItems, mItems', NULL))
    /\ layer' = NULL /\ mIsSuspend' = TRUE
    /\ UNCHANGED <<mBmpItem, owned, abandoned, layers, closed, mayFail>>

Suspend ==
    /\ ~mIsSuspend
    /\ mItems' = SuspendAll
    /\ strayed' = (strayed \/ Strays(mItems, mItems', layer))
    /\ layer' = NULL /\ mIsSuspend' = TRUE
    /\ UNCHANGED <<mBmpItem, owned, abandoned, layers, closed, mayFail>>

\* mutant: bitmaps of more than one handle are loaded again, no others
WantedTwice(item) == item.nRefCnt > 1 /\ item.bScreenMem

\* ResumeAll loads what was in the layer and is still wanted.
Wanted(item) == item.nRefCnt # 0 /\ item.bScreenMem

\* The layer is made anew, which may fail, and the bitmaps are loaded, into
\* it or not.
Resume ==
    /\ mIsSuspend /\ layers < MaxLayers
    /\ layers' = layers + 1
    /\ layer' \in {layers' + 1} \cup (IF mayFail THEN {NULL} ELSE {})
    /\ mItems' \in {m \in [Item -> UNION {LoadBitmap(mItems[i], layer') \cup {mItems[i]} : i \in Item}] :
                       \A i \in Item : m[i] \in IF Wanted(mItems[i])
                                                  THEN LoadBitmap(mItems[i], layer')
                                                  ELSE {mItems[i]}}
    /\ mIsSuspend' = FALSE
    /\ UNCHANGED <<mBmpItem, owned, abandoned, strayed, closed, mayFail>>

\* The manager is deleted: every bitmap is released, then the layer.
Close ==
    /\ mItems' = [i \in Item |-> NewItem]
    /\ mBmpItem' = [h \in Holder |-> NoItem]
    /\ strayed' = (strayed \/ Strays(mItems, mItems', layer))
    /\ layer' = NULL /\ closed' = TRUE /\ owned' = {} /\ abandoned' = {}
    /\ UNCHANGED <<layers, mIsSuspend, mayFail>>

Next ==
    /\ ~closed
    /\ \/ \E c \in Control : Destroy(c) \/ \E i \in Item : SetBitmap(c, i)
       \/ \E h \in Holder : Paint(h)
       \/ \E f \in Filler : UnLoadBmp(f)
       \/ Suspend \/ Resume \/ Close

Spec == Init /\ [][Next]_vars

-----------------------------------------------------------------------------
(* Properties *)

\* The handles that have counted item i
Counting(i) == {h \in Control \cup owned : mBmpItem[h] = i}

\* No bitmap outlives the layer its memory is in: after SuspendAll none is in
\* the layer, and none comes from an earlier one; and ImageAlloc::Free sees the
\* layer a bitmap is in, so that nothing of a layer is given to AEEAlloc.
LayerAlive ==
    /\ \A i \in Item : mItems[i].pBmp \in Layers => mItems[i].pBmp = layer
    /\ ~strayed

\* The count of an item is the number of the handles that will release it,
\* unless a count was abandoned; a bitmap that nobody counts is not there; and
\* as long as nothing fails, what a handle has counted can be drawn whenever
\* the application is shown, however often it was suspended.
Counted ==
    \A i \in Item :
        /\ Cardinality(Counting(i)) <= mItems[i].nRefCnt
        /\ i \notin abandoned => mItems[i].nRefCnt = Cardinality(Counting(i))
        /\ mItems[i].nRefCnt = 0 => mItems[i].pBmp = NULL
        /\ (~mayFail /\ ~mIsSuspend /\ Counting(i) # {}) => mItems[i].pBmp # NULL
=============================================================================
