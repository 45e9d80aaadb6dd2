# Verification of clearid

Clearid is a video telephone for feature phones: AEE++ (`src/src/AEE++`), a C++ framework over
the callbacks of the ZMAEE platform, and a small application (`src/src/*.cpp`) on top of it.
This directory holds TLA+ models of its core, the TLC configurations that check them, and
TLAPS proofs. Definitions keep the names of the source; the lines each one stands for are in
`PROJECT.json` ("map"). File names below are relative to `src/src` unless they begin with
`src/`; `AEE++/` is left out where it is plain.

1. [The system](#1-the-system) – parts, interaction, what is hard
2. [The modules](#2-the-modules) – which module models what, and how state corresponds
3. [The runs](#3-the-runs) – what each checks, bounds
4. [Fairness](#4-fairness)
5. [What is proved](#5-what-is-proved)
6. [Where code and comments disagree](#6-where-code-and-comments-disagree)
7. [Limits](#7-limits) – what is only checked, assumed, or left out
8. [Plan](#8-plan)

## 1. The system

Everything runs on the platform's one event loop: there are no threads. What makes the program
hard is that *calls nest and answers come late*:

* the framework calls its user's handlers in the middle of its own functions, and a handler may
  call the framework again, before the interrupted function has finished with its fields;
* requests, timers and registrations outlive the state that asked for them;
* a user can call in any order, and the buffers, the pool and the layer memory have limits.

| Part | State | Operations | What must hold |
|---|---|---|---|
| `AEESocket` | `mStat`, the socket handle, `mSending`, `mTimeId`, two buffers; in the platform: registered events, resolver requests, timers | `connect`, `send`, `close`, destructor; callbacks for DNS, connected, timeout, readable, writable | the byte stream is exact; waiting bytes have a registered event; no timer or event survives its connection; complete frames are delivered |
| `AEEFixedBuffer` | bytes, length | `append`, `take`, `reset` | never beyond its capacity |
| `PhoneChannel`, `VideoCapture`, `TcpTransport`, `SignalClient` | capture timer, its buffer, list of sinks, the transport's socket | `initialize`, `call`, `terminate`; timer; `produce`, `consume`; `decode`; `processmessage` | frames of the fixed size whole or not at all; the timer never outlives its buffer; capture goes on |
| `AEEHttp` | `mHttp`, `mIdle`, `mReturnType`, body | `sendRequest`, `cancel`; one event handler for all events | see the two users |
| `AEEJsonRpc` | pool `mHttps`, map `mMethods`, one resend slot and timer | `callMethod`, `cancelMethod`, `removeMethod(s)`, events, resend timer | each call is answered at most once, never after removal, and at last |
| `AEEHttpDownload` | the request, the handler, two files | `Download`, `DonwloadReport`, `DownloadStop`, events, a kill at any time | a partial file is a prefix, the target never a part |
| `AEEHeap` | headers in raw memory | `Alloc` (first fit, joining as it walks), `Realloc`, `Free` | headers tile the memory; blocks stay; free memory is found |
| `DUIBitmapTable`, `ImageAlloc` | items with pointer and count; a screen layer as memory | set/paint/release by controls, `SuspendAll`, `ResumeAll` | no bitmap outlives its layer; counts equal handles |
| `DUIManager`, `DUIWindow`, `DUIControl` | stack of windows, dialog, handlers, period handlers, focus, press | `ShowWindow`, `Back`, `ShowDialog`, `DestroyDialog`, pen, keys, timeouts, suspend | handlers and timers end with their owner; repaints come; a press is answered once |
| `AEEBaseApp`, `AEEMain`, `AeeCharge` | the handler of the applet, its context, a payment under way | start, suspend, resume, repaint, stop; pay, callback | a payment gives the handler back; suspension and resumption alternate; the context is read as it was written |
| `AEEMultiMedia` | status bits, map of callbacks, music that is held | play, stop, record | no sound while recording; held music goes on; each handler told once |
| `MUIManager` | stack of windows, dialog, transition, period handlers, capture | show, back, redraw, pen, suspend | references of a transition balance; nothing dangles; repaints come |
| scrollers (`mui_scroll.cpp`, `dui_scroll.cpp`), `DUIListControl` | position, tracker of velocity, timer; items, selected and pressed index | pen, keys, timer, insert, remove | a thrown list rests in its range; a press is answered once, with the item under the pen |
| layouts, focus, `MUITab` | rectangles; two records of the focus; items and pages | layout, show, hide, take away; keys; pen | children apart; one control has the focus and every one can be reached; one tab is selected |
| `AEEXMLParser`, the builders; `DUIRichText`, `MUIRichText` | a cursor in a text, a stack of controls | parse, build, lay out, draw | the tree of the document; every word drawn where it was meant |
| `gdi` | none (functions over rows of pixels) | scale, rotate | interpolation between the right pixels; nothing outside |
| json, bson, zip, base64, MD5, DES | buffers, stacks of nodes, tables | write, read | what is read is what was written; what is cut is refused |
| `AEEMap`, `AEEList`, `AEEVector`, `AEEStack`, `AEEStackAlloc` | nodes, entries | insert, erase, iterate; take, give back | the sequence or map a client expects, whatever the order |
| `AEEGameWorld`, `AEEObjectManage` | lists of objects by group, listeners, a map that is asked for | step, collide, keys, add, delete, load | no object is used after it is freed; two that collide are told once |
| drawing, animations, sprites, `AEEFile`, test servers | | pixels, thin covers of calls | not modelled, see [Limits](#7-limits) |

How the parts interact:

```
PhoneChannel -> VideoCapture -> TcpTransport -> AEESocket -> AEEFixedBuffer
                                     ^              |  callbacks of its handler
SignalClient <- messages             +--------------+
AEEJsonRpc ------> AEEHttp -> platform       AEEHttpDownload -> AEEHttp, files
DUIManager -> DUIWindow -> dialogs, DUIControl -> DUIBitmapTable -> ImageAlloc -> AEEHeap
AEEXMLParser -> DUIBuilder -> layouts, lists with DUIScroll, texts      MUIBuilder -> MUIManager, MUITab
AEEMain -> AEEBaseApp -> DUIManager or MUIManager, AeeCharge            AEEGameWorld -> AEEObjectManage
```

`PROJECT.json` lists forty hazards with the line where each one bites and the properties that
watch it. Most are of four kinds: a call inside a callback (`AEESocket.cpp:99`,
`AEEJsonRpc.cpp:206`, `dui_window.cpp:104`), an answer or timer that is late
(`AEESocket.cpp:171`, `AEEJsonRpc.cpp:436`, `dui_window.cpp:229`), a flag that is the only record
that something will happen (`AEESocket.cpp:120`, `AEEJsonRpc.cpp:458`, `dui_manager.cpp:535`),
and something that ends half way (`AEEHttpDownload.cpp:365`, `AEEXmlParser.cpp:24`,
`VideoCapture.cpp:72`). The rest are places where a computation meets an edge: a row of pixels that
ends in the middle of a step (`AEEBitmapScale.cpp:3409`), a tree whose shared leaf has a parent
(`AEEMap.h:516`), a layout that overwrites what it computes from (`dui_control.cpp:241`).

## 2. The modules

| Module | Models | Uses | Checked by | Proofs |
|---|---|---|---|---|
| `AEEFixedBuffer` | `AEEFixedBuffer.h` as operators on sequences | – | | |
| `AEESocket` | `AEESocket.cpp` | `AEEFixedBuffer`, refines `SendPipe` | itself | `AEESocketProofs` |
| `SendPipe` | abstract: what `send()` promises | – | | |
| `PhoneCall` | the telephone application | extends `AEESocket` | `MCPhoneCall` | `AEESocketProofs` |
| `AEEHttp` | `AEEHttp.cpp` as operators on a record | – | | |
| `AEEJsonRpc` | `json/AEEJsonRpc.cpp` | extends `AEEHttp`, refines `RpcCalls` | itself | `AEEJsonRpcProofs` |
| `RpcCalls` | abstract: what a caller of a method is promised | – | | |
| `AEEHttpDownload` | `AEEHttpDownload.cpp` | extends `AEEHttp` | itself | `AEEHttpDownloadProofs` |
| `DUIWindows` | `dui_manager.cpp`, `dui_window.cpp`, presses in `dui_control.cpp` | – | `MCDUIWindows` | `DUIWindowsProofs` |
| `AEEHeap` | `util/AEEHeap.cpp` | – | `MCLibrary` | `AEEHeapProofs` |
| `AEEStackAlloc`, `AEEDes`, `AEEMd5`, `AEEBase64` | `AEEStackAlloc.cpp`, `util/AEEDes.cpp`, `AEEMd5.cpp`, `AEEBase64.cpp` | – | `MCLibrary` | `LibraryProofs` |
| `AEESequences` | `util/AEEList.h`, `AEEVector.h`, `AEEStack.h` | – | `MCLibrary` | `LibraryProofs` |
| `AEEMap` | `util/AEEMap.h` | – | `MCLibrary` | |
| `AEEJson`, `AEEBson`, `AEEZipPackage` | `json/`, `bson/`, the archives of `util/` | – | `MCLibrary` | |
| `DUIBitmapTable` | `dui_bitmaptable.cpp`, `dui_imagealloc.cpp`, the bitmaps of controls | the memory it takes is that of `AEEHeap` | `MCScreens` | `AppletProofs` |
| `AEEApplet`, `AEEMultiMedia` | `AEEMain.cpp`, `AEEBaseApp.cpp`, `dui_app.cpp`, `charge/AeeCharge.cpp`; `AEEMultiMedia.cpp` | – | `MCScreens` | `AppletProofs` |
| `MUIManager` | `mui_manager.cpp`, `mui_window.cpp`, `mui_widget.cpp`, `mui_transform.*` | – | `MCScreens` | `MUIManagerProofs` |
| `AEEXml` | `xml/`, `dui_builder.cpp`, `mui_builder.cpp` and the containers that take the children | – | `MCScreens` | |
| `Layouts` | `dui/layout/`, `mui_layout.cpp`, rectangles of `dui_control.cpp` | – | two modules below | |
| `ScreenLayout` | a container that is laid out | extends `Layouts` | `MCScreens` | |
| `DUIFocus` | `dui_container.cpp`, `dui_window.cpp`, `dui_pages.cpp`, radio buttons | extends `Layouts` | `MCScreens` | |
| `RichText` | `dui_richtext.cpp`, `mui_richtext.cpp` | – | `MCScreens` | |
| `LauScroller` | `mui_scroll.cpp`, `dui_scroll.cpp` | – | `MCScreens` | |
| `DUIListControl` | `dui_listcontrol.cpp` with its scroll | – | `MCScreens` | |
| `MUITab` | `mui_tab.cpp` | – | `MCScreens` | `MUIManagerProofs` |
| `AEEBitmapScale`, `AEERotateBitmap` | `gdi/` | – | `MCScreens` | |
| `GameWorld` | `AEEGameObjectManage.cpp`, `AEEGameWorld.cpp` | – | `MCScreens` | |

`MCLibrary` and `MCScreens` each hold several modules that do not interact: a behaviour is one of a
single part, named by the variable `part`, and the other variables stay as they are.
Most of these parts are a record `task` with a phase: a client writes something step by step, then
the code works on it, one turn of a loop in a step, and the properties compare the result with a
reference definition that knows nothing of the code's way to it.

The variants of an operator with a defect in them (`DecodeLoopNoTake`, `RepaintKeepsId`,
`TakenLongRest`, ...) are no part of the models. Each stands beside the operator it is a variant of
and shows that a property would notice that defect; `PROJECT.json` ("mutants") pairs them.

### AEESocket

`stack` is the heart of the module: the functions that are interrupted, innermost last. `"recv"` is
the loop of `onRecv()`, `"failed"` a read or write error that has called `close()` and will call
`onClose` itself, and `"handler"`, `"closing"`, `"closed"` are user code inside `onHandler`, inside
the `onClose` of `close()`, and inside the second `onClose` after an error. A step is what happens
from one point where user code may run to the next, so `close()` is two steps (before `onClose`, and
the reset after it: `CloseReturns`), and the user's actions are enabled wherever user code runs.

* `mSocket` is the handle with what the platform knows of it; `armed` the events it is registered
  for, each for one event; `resolving` the resolver requests that no code cancels; `timers` the
  connect timers, of which `mTimeId` remembers one.
* `accepted` and `wire` are histories of the current connection: what `send()` took, what was
  written. `resolved = "stale"` records that an answer of an older attempt was used,
  `user = "careless"` that the user connected with the old socket open. Two properties exclude
  these on purpose; without the exclusion they fail, see [Limits](#7-limits).
* `send()`, `onWriteEv` and the loops in them write any number of bytes and may fail
  (`WriteLoop`); `ReadData` brings any bytes that fit.
* A received byte only says if a frame ends with it; `DecodeLoop` is `onRecv()`'s loop over
  `decode()` and `onHandler`.

`SendPipe` has two variables, `accepted` and `wire`, and three kinds of step: a new connection
starts empty, bytes are accepted at the end, bytes go out in order, and no more than `SendMax` of them
wait. The refinement (`PipeSpec`) maps the two histories to these variables: no step of the socket, at any
depth of nesting, may do anything else to the stream.

### PhoneCall

Extends `AEESocket` with the application: `captureTimer`, `sendBuffer`, `sinks` (how often the
transport is in the list: `call()` after `initialize()` adds it a second time), `producing` (the loop
of `produce()`, which is interrupted when a `consume()` fails and closes the socket). `TransportDecode`
takes the place of the general decoder: it compares the magic number and takes nothing, which is
what `TcpTransport.cpp` does. The sink's `consume()` is the `Send` of `AEESocket`. The server sends
any bytes and signals. The application connects once, so the steps of a second attempt are out.
`NewFrame` keeps the field `frame_lenth`, which the code sets to 32 while 1000 bytes follow (`VideoCapture.cpp:46,49,54`):
`WholeFrames` is a promise to a receiver that knows the fixed size, and one that goes by the header is out of
step after the first frame (the `send()` of `TcpTransport.cpp:75` that would set the field has no caller).

### AEEHttp, AEEJsonRpc, RpcCalls

`AEEHttp` is a record and its functions operators on it, so that two modules share it. The order of
the assignments after the callback (`mIdle`, `mReturnType` at `AEEHttp.cpp:97`) is kept: `Answered`
and `Completed` are applied after the handlers have run, over what they may have changed.

In `AEEJsonRpc` a request is the set `sent[h]` of ids in it, `mMethods` a function from the ids that
are pending to the http object (the tag `mUserData`) and the caller's object, and `loop` is the `process()` under way: each handler
is a step (`Process`), inside which it may remove its object's methods or cancel all of them, and, if `Nested`, call methods. The methods of a batch
may belong to different objects (`owner`). Some of these calls leave the interrupted code with memory that is freed: `cancelMethod()` deletes the http object whose
event it is; `removeMethodByDelegateObject()`, or a call that cannot be opened, erases the method that is told of an error, or frees the body whose replies are read.
`loop` is `Freed` then and nothing follows, since what the program does is undefined; the properties say nothing of what comes after.
The list of the code is in the order of ids at all times (a call appends, sending again changes tags, erasing
keeps the order), so a position in it is an id: `loop.pos` is where the iterator of `process()` stands.
How a response ends is one of the seven of `Outcome`.
`RpcCalls` says of each id: unborn, waiting, then answered or dropped, and nothing after that.
It makes no promise that an answer comes, since a server may leave methods out of its replies; what
holds of that is stated in the concrete module (`EveryCallAnswered`), with the history `fate`: a call is `refused` when `callMethod()`
answers `false`, `removed` by its owner or with all others, `lost` when the request it is sent again with, or joins, cannot be
opened and `sendRpcReq()` drops it without a word (`AEEJsonRpc.cpp:178-186`), and `stranded` when the removal of another object's methods
cancels the request they share (line 402): it stays in the list, and is sent again only if a later call happens to take its http object.

### AEEHttpDownload

The files are sequences of pieces of the resource, so that a hole or a piece written twice is visible.
`Kill` is the end of the program between any two steps, also between the `Remove` and the `Rename` of
`OnComplete` (`renaming`). The server may redirect, and stop anywhere. `world` is chosen once: in `"any"`
it may answer with the whole where a range was asked and the user may start from nothing, `"resume"` is a
server that honours ranges and a user who resumes, and in `"errors"` there are error pages too; the
properties say which worlds they are about.

### AEEHeap

`blocks` maps the address of a header to its fields, in true bytes, with `Word` values for an `int`
so that rounding up wraps (`NumBytes`) as it does in C. `Alloc` is a walk: `Coalesce`, `Found`, `GoOn` and
`Fail` are one turn of the loop each, so that the invariant holds in the middle of it too. `Realloc` is
an `Alloc` that frees the old block when it succeeds.

### DUIBitmapTable

An item is its pointer (`NULL`, in the heap, or in the n-th layer), its count, and `bScreenMem`. A
handle is a control (button, animation, wait cursor) or a filler; the code counts at different moments
for them (controls when set, fillers when they paint), which is what `owned` and `Counting`
keep apart. `strayed` records a bitmap that was freed with its layer gone.

### DUIWindows

Windows, each with at most one dialog, handlers by address (`Addr`): the button of a new dialog may
get the address of a deleted one, as an allocator does, so a dangling handler or press meets a
new control. `call` is the control whose handler is called in the middle of an event; until `CallReturns`
the application's operations are enabled. `periods` and `repaints` are the platform's
period handlers, which exist apart from the fields that remember them. `open` and `twice` are histories of presses.

### AEEApplet, AEEMultiMedia

`handler` is whom `AEEAppletExt` gives the platform's events to: the application, or the charge object that
took its place. `pending` is the request of the library that sends short messages; its answer
runs `ChargeCallback`, from inside of which the application may pay again. `untimely` and `misread` record that it did, or that an
answer came in the background, where the code goes wrong. A context is written and
read at any address; fields of several bytes are aligned by hand in the code and in `WriteNext`, `ReadNext`.
`AEEMultiMedia` keeps `mStatus` as the set of its bits, and chooses it at the start: the code never initialises it. The handlers of
voice messages play others from inside `_SoundCB` and `StopSound`; one that stops the sounds there ends the behaviour (`freed`), since it is
deleted while it runs. `forsaken`, `stray` and `unheard` record the three ways in which the code loses held music, a
recording or a message.

### MUIManager

The manager's fields are the record `m`; `refs` and `bmps` are the references and bitmaps of every
transition that was made, `backs` the period handlers of a delayed way back, `stale` whether the screen
shows something else than it should, `cap` and `pushed` the widget that has the pen. `lost` records a bitmap that was
overwritten or given to a transition that was deleted, `missed` a pen that went up unheard while a button had it.

Windows are told of a change in the middle of the function that makes it, and what they call then runs before the rest of it. So each
function is cut where it tells a window: `WindowLeft` ends at `MUI_EV_ON_BACKGROUND`, `WindowPut` at `MUI_EV_ON_CREATE`, `WindowShown`
is the rest of `showWindow`; `DialogPut` and `DialogShown` are the two parts of `showDialog`, `WindowTaken` is the first of `BackInternal`.
`CalledBack` is the handler between two parts: it does nothing, asks for a repaint, delays the way back,
or shows another window or dialog, with a transition of its own or without (`Harmless`, `Change`).

Some properties fail in some lives, so `orderly` is chosen at the start: an orderly life is one of an application that keeps to what `Disciplined` and the guards
of `AppShowWindow` ... `CallAfter` say, and any other does all of what is modelled. `TransformsCounted` and `ClickWhereDown` are about
every life, `NothingDangles` and `RepaintScheduled` about orderly ones; see [Limits](#7-limits) for what is not orderly and what fails then.

### AEEXml, Layouts, ScreenLayout, DUIFocus, RichText

`AEEXml` writes a document with the designer's steps (`phase = "write"`), may cut it, and then parses it
with the states of `AEEXMLParser` and the builder's stack of both libraries. The tree that was meant is kept
while writing, so `BuiltAsWritten` compares two independent constructions.

`Layouts` are the operators of nine layouts on sequences of children. `ScreenLayout` makes a container of
them whose rectangle changes and whose children come and go; `declared` keeps the sizes the
children once had, which the code overwrites: `PlacesForgetThePast` says that a layout gives the
places it would give to fresh children.

`DUIFocus` extends `Layouts` for its lists of visible children. The tree (`Tree`) is fixed by the constants; which children are in it,
hidden or on a turned page is state. Both records of the focus are kept, that of the window and
that of the container that the window is.

`RichText` lays out a text tag by tag and draws it line by line. What each word should look like is gathered
when the text is written, what it does look like when it is drawn.

### LauScroller, DUIListControl, MUITab

`LauScroller` holds the scroller of which each library has a copy, in the same fixed point: `lau_scroller`
with its ways to ease, `lau_velocity_tracker` (64 samples of 100 ms in `mui_scroll.cpp`, 16 of 500 ms in
`dui_scroll.cpp`: `Past`, `MaxAge`), the timer and the handlers of the pen.
`DUIListControl` uses a simpler list (`Pen`, `Drag`) and models what the list and its scroll do with each
other's fields: `mPenDownIndex`, the timer of a long touch, the capture, the repaint that brings the
selected item back (and where it takes the list when the selection is behind the last item: `SelectedTop`). `told` is what the application was told, the property's only witness.
In `MUITab` the window may miss any event of the pen, as it does while a transition plays.

### AEEBitmapScale, AEERotateBitmap

Pixels have the channels of their format and every row of the result is a step. The code goes through a row in runs
(left border, inside, right border) and steps in 16.16 fixed point; the reference definitions in
both modules look at one pixel, with the weights of its neighbours in 256ths, and know neither runs
nor borders. `One <- 256` in the run makes the fixed point of the rotation coarser than the code's 65536.

### AEEStackAlloc, AEEMap, AEESequences

`AEEMap` is the red-black tree with its shared leaf `m_nullNode`, of which `Erase` writes the parent: the
leaf is a node of the model. A node is named by its key: where `erase()` copies a pair to another node the two
change names (`PairCopied`). `it` is an iterator that walks while others insert and erase.
`AEESequences` compares the containers with the sequence a client expects.

### AEEJson, AEEBson, AEEZipPackage, AEEBase64, AEEMd5, AEEDes

The writers have a buffer of fixed room, and the readers stacks of fixed depth. A cell of a text is a
character, an archive's header field is one cell. `Cut` takes the end of a text away: what is damaged must not
be taken for whole. `AEEDes` runs the sixteen rounds on bits with the tables of the
code, compares one block with the result the literature gives, and decrypts all.

### GameWorld

`stack` holds the handlers of the game that run, as in `AEESocket`, and between two steps the game may do
anything inside them: add, delete, deactivate, ask for a map. `told` and `stepped` are histories of the last step.
A map that is asked for in a loop is loaded at its end (`EndLoop`), an object that is deleted in a step is
freed there (`EndStep`).

## 3. The runs

The runs take up to three minutes each; together they take every action and every disjunct of the
next-state relations.

| Run | States | Properties |
|---|---|---|
| `socket_safety` | 346,152 | `TypeOK`, `StreamIntegrity`, `NoLostWakeup`, `DeafOnlyIfFull`, `NoFrameLeft`, `NothingStray`, `PipeSpec` |
| `socket_live` | 17,253 | `AttemptAnswered`, `BytesGoOut`, `CallsReturn` |
| `call_stream` | 81,629 | `WholeFrames`, `CaptureHasBuffer`, `CaptureGoesOn` |
| `call_decode` | finding | `DecodeOkIsComplete` is violated |
| `rpc_wild` | 248,435 | `BusyWhileListening`, `RpcSpec` |
| `rpc_polite` | 138,881 | `NoOrphan`, `InOneRequest`, `EveryCallAnswered` |
| `rpc_nested` | finding | `NoOrphan` is violated |
| `download` | 6,337 | `PrefixKept`, `TargetWhole`, `EventsHaveHandler`, `ResumedGetsDone` |
| `library` | 1,036,224 | `Tiling`, `Granted`, `NoLeak`, `FailsOnlyIfFull`, `ContainersKept`, `CodecsKept` |
| `screens` | 1,681,606 | `LayerAlive`, `Counted`, `AppletKept`, `MediaTakesTurns`, `MuiWindowsKept`, `GameObjectsKept`, `DrawnRight`, `ControlsAnswer` |
| `windows` | 1,058,074 | `HandlersOwned`, `TimeoutOfItsDialog`, `RepaintNotLost`, `OneAnswerPerPress` |
| `windows_modal` | finding | `ModalBlocks` is violated |

The last properties of `library` and `screens` are conjunctions, named in `MCLibrary` and `MCScreens`, of what
the modules of their parts state under "What must hold"; each of those parts has mutants of its own.

What they show, and why the bounds are large enough:

* **`socket_safety`**: what was accepted is what was written and what waits, in order
  (`StreamIntegrity`, `PipeSpec`); bytes on a live connection have `onWriteEv` registered
  (`NoLostWakeup`); a connection stops reading only with its buffer full (`DeafOnlyIfFull`); no complete
  frame is left behind (`NoFrameLeft`); nothing registered or timed survives (`NothingStray`). *Bounds:*
  three attempts, so that answers and timers of the first or second reach a later one, and a
  second reach a third with the first closed; buffers of two bytes: empty, partly full, full, and every
  partial write; frames up to three bytes, one more than fits; a depth of six, which is a `send()` failing
  inside `onHandler` and a `close()` inside its callback.
* **`socket_live`**: the same with two attempts, under fairness: an attempt with a timer ends in an answer,
  accepted bytes are written or the connection goes, and functions return.
* **`call_stream`**: two letters make frames of two kinds, so a frame cut and continued by another is seen;
  the send buffer holds a frame and a part of the next, not two; the server's bytes are any. `MaxAttempts` is 1
  since `PhoneChannel` connects once.
* **`rpc_wild`**: all outcomes, calls and removals from handlers, batches of mixed owners, requests that cannot be opened. Three ids in at
  most two http objects are enough for two calls in a request and a third in the other or in its place.
* **`rpc_polite`**: outcomes that concern all methods of a request, no `callMethod()` from handlers, which may still remove and cancel, and a pool of
  three, so that it never limits three methods. Then no method is forgotten (`NoOrphan`) but the stranded ones, or in two
  requests (`InOneRequest`), and each is answered if it was not removed, refused, lost or stranded (`EveryCallAnswered`). The run `rpc_nested` shows that
  the second restriction is needed.
* **`download`**: three pieces have a first, a middle and a last; a failure can come after each.
* **`library`**: the heap's 52 bytes between the first and the last whole word are three blocks of the
  smallest size, so a block is split, joined on both sides and taken whole; the requests are zero, unaligned,
  the smallest rest, a large one, and one whose rounding overflows the eight-bit `int`. The start is unaligned (1) as the code allows.
  A tree over six keys has every case of the repair after an erasure, for both sides: the sibling of the node is red
  only after six insertions (`AEEMap.h:523-528,560-565`); a vector of two places is
  full with something pushed on it; base64 messages end in each of the three remainders; MD5 pieces end
  before, at and behind the end of a block of four (not sixty-four) bytes; JSON and BSON trees have three and two nodes,
  enough for a node in a node with a neighbour, with values that look like tags; archives have two items of one name,
  comments with pieces of the signatures, and lengths cut off inside every header.
* **`screens`**: each part has its bounds beside its `INSTANCE` in `MCScreens`. Bitmaps: two items, a control of each kind and two fillers, so that any two
  kinds share an item; three layers are two resumptions after a suspension. Applet: two payments, the
  second inside the first one's callback. `MUIManager`: two transitions, so one replaces another that plays; three windows in an orderly life, two in
any other (`WildWindows`), which is enough for a window shown by the handler that is told of another. Scaling: up, down, equal, one pixel wide and one beyond a third of the width.
  Rotation: all quadrants, a clip smaller than the layer. Scroll: down, drag, let go and catch again. Documents:
  three or four elements are a parent, a child, a neighbour and an include. Texts: three words for lines of a few, two tags. Layouts:
  children fixed, by percent, in a corner, more than fit. List: an item higher than half of the page, one that comes or goes.
  Focus: a radio group in a list that scrolls, and two pages. Tabs: every alignment, all places taken. Game: two objects of a group and one of another, three maps of which one is missing, five calls by the game.
* **`windows`**: two windows (interchangeable: symmetry, and no liveness in this run), two dialogs that share
  one address for their buttons. Two are enough for the dialog that replaces another, and for the one shown from a handler.

Deadlock is checked wherever the model has no natural end. It is off where an object is deleted, an application closes or
makes no more calls, or the decoder hangs.

## 4. Fairness

Nothing is assumed of a user, a peer or a resolver unless it is named here.

* `AEESocket!Fairness`: handlers return, the loops run on, and a running connect timer
  fires (weak: once enabled, only their own step or a nested call changes that); a socket has nothing to read
  now and then (strong, since more may arrive in between), which is when `onRecv()` returns; an open connection takes
  bytes now and then (strong: a close may come first). Resolver and peer may be silent for ever, which is
  why `AttemptAnswered` is about attempts with a timer.
* `PhoneFairSpec`: the same for the functions of the program, and the capture timer fires.
* `AEEJsonRpc!FairSpec`: handlers return, the resend timer fires, and every http object that works on a request ends
  with it; strong for the last, since a response that is bad leads to a repetition and must end well at last.
  The code repeats without limit, so this cannot be weaker.
* `AEEHttpDownload!FairSpec`: the user tries again, and each stage of a request is got through now and then (strong). A
  network that always breaks at the same stage would never deliver; the property is that
  progress made before a failure is kept and used.

## 5. What is proved

Every theorem holds for all values of the constants that satisfy the named assumption of the module; TLC
evaluates the assumptions in the runs.

**`AEESocketProofs`** from `SocketAssumption` (capacities at least one byte):

| Theorem | States | Strengthening |
|---|---|---|
| `TypeCorrect` | `[]TypeOK`, including that no buffer exceeds its capacity | inductive itself |
| `StreamCorrect` | `[]StreamIntegrity` | `StreamInv` |
| `WakeupCorrect` | `[]NoLostWakeup` | `WakeInv` |
| `TimersCorrect` | `[]NothingStray` | `TimerInv`, `NullUnarmed` |
| `FramesCorrect` | `[]NoFrameLeft` | `FrameInv` |
| `HearingCorrect` | `[]DeafOnlyIfFull` | `HearInv` |
| `QuietCorrect` | after a close only a resolver request or a new `connect()` leads to a callback | `NullUnarmed`, `TimerInv` |
| `ImplementsSendPipe` | `PipeSpec` | `StreamInv` |

`StreamIntegrity` is not inductive. A `connect()` starts a new history, so the buffer must be empty where it may
run (`IdleEmpty`), and the reset at the end of `close()` empties the buffer *after* user code has run, which
would lose bytes if that code had opened a connection and sent on it. It cannot: a socket opened
inside `onClose` is not connected before the event loop runs again (`ReopenedFresh`). `WakeInv` needs
that a socket that is not up has no bytes; `HearInv` that reading is registered from `connect()` on;
`FrameInv` where in the stack `onRecv()` can be. The step theorem of each invariant has a step per action; the handlers that do the
same thing share a lemma (`DropSocket`, `BeginClose`, `Reset`).

**The telephone call**, in the last sections of `AEESocketProofs`, from `SocketAssumption` and `PhoneAssumption` (letters and magic numbers are bytes): `FramesWhole` from `PhoneInv`,
`CaptureCorrect` from `CaptureInv`. `PhoneNext` is not a special case of `Next`, as the transport's decoder takes nothing, so the invariants of the socket
are not inherited; its lemmas on buffers and on the stack are. `PhoneInv` says that `wire \o mSendBuf` is some number of frames (`Whole`):
`append()` adds all five units or none, and the write loop, wherever it stops, only moves the cut between
the two (`WriteLoopMoves`). What is left is where the buffer is cleared. `ClosedForGood` says that a `close()` under way has no socket any more, since
the application connects once: the reset takes units from no stream. An application that
connected again inside `onClose` would need the socket's `ReopenedFresh` in its place.

**`AEEHeapProofs`** from `HeapAssumption` (the memory ends at a word and holds a block; `int` is a multiple of four
wide): `TypeCorrect`, `TilingCorrect`, `GrantedCorrect`, `NoLeakCorrect`, `FailureCorrect`, all from one
`HeapInv`. Its parts are needed together: that headers chain exactly (`Chained`) gives that a split or a
join has room for what it writes; that sizes and addresses are words (`Shaped`) gives that a rest that is cut
off has room for a header; `HeldOK` ties clients' pointers to used headers; `Passed`, about the walk, says
that behind it no block would do and no two neighbours are free, which at the end of the memory is
`FailsOnlyIfFull`: one pass that joins as it goes misses nothing.

**`AEEHttpDownloadProofs`** from `SizeAssumption` (the resource is not empty), for servers that send no error pages:
`PrefixCorrect` and `TargetCorrect`, and for all servers `HandlerCorrect`, from `DownloadInv`. That the file is a first part of the resource says nothing about the bytes that
come next, so the invariant follows a response that a file waits for: until its first byte (`Begun`) the request starts where
the file ends or at the start, and the position that decides whether the file is truncated agrees with what the server sends, or will
once the header that is still to come is read; from then on (`Flowing`) the file and what is to come make the resource. A redirection
has nothing to come and leaves an address, so that it is not renamed. When `onComplete()` renames, nothing is left to come: the file is the resource.

**`AEEJsonRpcProofs`** from `RpcAssumption` (the bounds are numbers). For every server and all handlers: `TypeCorrect`; `BusyCorrect`,
since a request makes the object busy and whatever ends one leaves `mHttp` empty or `eRelease`; and `ImplementsCalls`, the refinement of
`RpcCalls` step by step: every action either keeps the methods that wait or lets some go, with no handler called (`KeepStep`),
or tells exactly one (`TellStep`), and a method that waits has never been told (`CallsInv`). Under hypotheses on the environment that the
runs share: `OneRequestCorrect`, unless a server answers in a foreign protocol (the timer would send methods again that are in a request
already), from `SentInv`: what a request that is listened to has in it bears the tag of its object; and `NoOrphanCorrect`, if servers answer or fail every method and
handlers call no method (`rpc_nested` shows what happens if they do), from `AttendedInv`: the methods of an object that listens are all in its request, those of one that
does not are ahead of `process()`, or were left stranded by a removal (`RemovedFates`). That needs
`Listening`: an object that is taken for a call has no request, and `sendRpcReq()` sends what was stranded with it along. A step may free what `process()` uses next
only with the method that is being told (`Spared`), so that the refinement holds up to there.

**`DUIWindowsProofs`** from `WindowAssumption` (any set of windows, any number of dialogs and nested calls): `OwnedCorrect`, `TimeoutCorrect`,
`RepaintCorrect`, `AnswerCorrect`, from one `ManagerInv`. Its `WindowOK` says of each window that a period handler runs if and only if
the window knows its number, that the timers of a window that is gone are stopped, that a timeout is that of the dialog shown, and that
the press remembered in `mPenDownCtrl` has not been answered; `ScreenOK` that a repaint has its handler, and that before the first window nothing is
posted. An action replaces the fields of one window and maybe deletes another, so the lemmas are about one window
(`NewWindowOK`, `ClosedOK`, `DeletedOK`, ...) and `OneWindow` puts it back among the others.

**`AppletProofs`** for any sizes of the screen, payments and voice messages. `HandlerCorrect`, `NormalCorrect` and `FlagCorrect`, three
of the four parts of `AppletKept`, come from `AppletInv`: `PayingOK` says that a pending request keeps its kind until its answer,
also when it was made inside the callback of another; `ShownOK`, as long as no request or answer was untimely, that an application is normal exactly where the shell
shows it and nothing is pending, from which follows that the platform and the payment between them never
suspend it twice. The fourth, `ContextKept`, is about what `Written` and `ReadBack` compute for any sequence of values. They are recursive
functions, so that there is such a function at all is proved first (`RecursionDefined`, by well-founded
induction on the numbers, in the form `NatSetInduction` that takes a set and not an operator); then, by induction on how many values have
been written, that a value lies in cells of its own behind the earlier ones (`CellsOfValues`, `WritesApart`) and, on how many have been read, that each is found
where it was written (`FoundIsWritten`, `RoundTrip`). `AppletKeptCorrect` is the four together. `MediaCorrect`, from
`MultiMediaAssumption`, states all of `MediaTakesTurns`; its `MediaInv` says whose handler is still to be called and which were cleared
unheard (`AnsweredOK`), for what music is held (`HeldOK`) and, but for a stray recording, which bits of `mStatus` go with what the player does (`TurnsOK`).

**The bitmaps**, in the last sections of `AppletProofs`, from `TableAssumption` (finitely many handles, each of one kind): `LayerAliveCorrect` and
`CountedCorrect`, from `TableInv`. The two properties need each other: a count is at least the number of handles that
use the item, so a bitmap that is used has not been freed; a bitmap in the layer carries the mark `bScreenMem`, by which
`SuspendAll` finds it before the layer goes; and an item that is wanted but has no bitmap waits with that mark for `ResumeAll`,
which is why a `LoadBitmapHandle` while the application sleeps is not lost.

**`MUIManagerProofs`** from `ManagerAssumption` (any number of windows, transitions and regions): `TransformsCorrect` and `WindowsCorrect`, from
`ManagerInv`. An operation of the manager is a function of its state, and a handler calls several, so the invariant is about a state and about
who holds a transition meanwhile: `CountOK(s, t)` says in every life that a transition has one reference for the
manager and one for a caller that was given it; and, until a window misses that the pen went up, that who has the pen is whom it went
down on (`PenOK`). From these follow `TransformsCounted` and `ClickWhereDown` with whatever handlers call. `NothingDangles` and `RepaintScheduled` are stated, and
proved, of an orderly life only: four parts more are needed for them, and each operation keeps them under what the others promise: `BitmapsOK`, only the transition that plays has bitmaps; `HeldOK`,
the pen is held by the button it went down on, in what is on top; `WayOK`, a delayed way back waits only where nothing plays and no dialog is shown;
`PaintOK`, what is shown wrongly lies in a rectangle to be painted, unless a transition plays, whose end paints all. The
lemmas are one per operation, with what it leaves alone (`SameWindows`, `SamePaint`, ...); `ManagerStep` puts them together.

The tabs, an instance of `MUITab` in the last sections of the same module, from `TabAssumption` (the row has room for all the items there can be): `TabsCorrect` states
the tabs' part of `ControlsAnswer`, from `TabInv`. `TabItems` says that items and pages belong together, which holds whatever
the window hears of the pen; `TabPen`, who has the capture as long as it hears all of it: an item waits exactly while the tabs have it, and
a button only while its page is shown, unless that page was changed meanwhile. `RowKept` is the arithmetic of the three
alignments; that items do not overlap is also why the first one under the pen is the only one (`ItemUnderPen`).

**`LibraryProofs`** has the parts of `util/` that `MCLibrary` puts together, each an instance with constants and variables of its own.
`DesDecrypts`, from `DesAssumption` (blocks and keys are 64 bits), says for every block and key that decrypting gives back what was encrypted. The
invariant looks at the seventeen pairs of halves of an encryption as one sequence of halves (`Rounds`), each made of the two before it with the key of its round;
the rounds of the decryption walk back through that sequence, since what a round adds, another adds away. Nothing is used of the
tables but that they select bits that are there and that `IP_1` undoes `IP`, so it is the way the rounds are put together that is proved; that they are those of DES is for TLC and its known result.
`StackCorrect`, from `StackAssumption`, states `BlocksApart` and `AllGivenBack` for any size of the stack, any blocks and any order of calls: `SideBySide` says that each block
in the stack begins where the ones before it end, blocks from `AEEAlloc` in between or not, `HeldOK` that ids grow and that what a client holds has an entry,
`LifoOK` that the entries of a client that frees in reverse order are those it holds.

`DigestCorrect`, from `Md5Assumption` (a block has room for the counts, and the words wrap at a whole number of blocks), states `DigestOfWhole` for any sizes of a block and of a word. The
invariant `Md5Inv` says after every call how far it has come: `Used`, the whole blocks of what was fed have been used and the
rest lies in the buffer; `CountOf`, the two words hold the number of bits, with the carry of the low one. `FinalPads` shows from it that the
padding ends a block, whether or not the rest leaves room for the count. `SequenceCorrect`, from `SequencesAssumption`, states `SequenceKept`, the sequences' part of
`ContainersKept`. In `SequenceInv` the sequence is a ghost: `Cellular` puts it in the first cells of a vector, and `Ring` names the nodes of a
list one by one from the head back to the head, each used once, linked both ways. `LinkedRing` and `UnlinkedRing` splice
that ring; the erasure of a range is an induction over its turns (`RangeUnlinked`), and so is `find()` (`Found`).
Both modules write their loops as recursive functions of the turn, which `NatSetInduction`, a set in place of a property, can reason about.

`Base64Correct`, from `Base64Assumption` (messages are bytes), states `CodecKeepsBytes`, base64's part of `CodecsKept`, for any bytes, lengths and buffers. `KeptCharacters` says
how many characters of a text are no padding, group by group; `FourBits`, that the four characters of a group have the 24 bits of its bytes, each in its place;
`ThreeOfFour`, that the bytes come out again. `Base64Inv` only remembers of which message and for which buffer a text was made: a text that was damaged is
any characters at all, and `DecodedFits` bounds what `Decode` writes for any, since its loop (`Taken`) never goes behind what it counted (`Unpadded`).

The invariants that the runs check were checked with TLC before they were proved, and so were `AttendedInv`, `SentInv`, `CaptureInv`, `PhoneInv`, `Base64Inv`, and `MUIManagerProofs`' `ManagerInv` and `TabInv`.

## 6. Where code and comments disagree

* **`call_decode`**: `TcpTransport::decode()` (`TcpTransport.cpp:52`) compares the magic number and answers `eOK`, however little has arrived
  and without taking it. `AEESocket.h:16` says `eOK` means a complete packet. Since nothing is
  taken, `onRecv()` never returns once the magic number matches (`call_stream` counts that as the
  one way in which capture may stop).
* **`rpc_nested`**: a `callMethod()` inside a reply handler can take the http object that is just completing;
  when the handler returns, `AEEHttp.cpp:97` writes `mIdle` and the return type over those of the new
  request, whose first event is then refused. `AEEHttp.h:20` promises concurrent callbacks.
* **`windows_modal`**: `dui_window.cpp:81` keeps only the arrow keys from the window under a modal dialog.
  `dui_window.h:59` says that modal means that what is under it cannot be operated.

## 7. Limits

**Only model-checked.** The modules without an entry under Proofs in the [table](#2-the-modules), that is `GameObjectsKept`, `DrawnRight`, `ControlsAnswer`,
`ContainersKept` and `CodecsKept` but for the parts of them that `LibraryProofs` and `MUIManagerProofs` state; all liveness (the prover does no fairness or
`ENABLED`); and what the other recursive definitions compute: those of documents, layouts and the other codecs are `RECURSIVE` operators or
nested folds, for which no backend has an induction.

**Assumed of the user or the platform**, where the code would do something no property can speak of:

* `AEESocket`: `NothingStray` and `QuietCorrect` are about a user who closes before connecting again
  after `E_DNS`; otherwise `mTimeId` is overwritten and its timer runs on. `NoLostWakeup` and `DeafOnlyIfFull` are about
  connections that their own resolver answer led to: a late answer after `close()` sets
  `SOCK_STAT_CONNECTING` with no socket (`AEESocket.cpp:246`), and one in a later attempt connects too early.
* `AEEHeap`: the memory ends at a word, as `ImageAlloc`'s layers do. With an odd end `Free` may not
  recognise the last block as its own.
* `DUIBitmapTable`: a filler releases only what it counted (nobody calls `UnLoadBmp` in the repository).
  `CacheAll`, which nobody calls and which would load into a layer that is gone, and a second `Load` of the table are left out;
  a wait cursor may abandon its count, as the code does.
* `DUIWindows`: a handler for a control of a dialog does not delete its window, and a timeout handler that
  shows a dialog or deletes the window returns `FALSE` (the code would use freed memory);
  modeless dialogs have no control that can take the focus; `OnCreate` and its like do not navigate.
  Left out: scrolling and the capture a scroll takes (`DUIListControl` has both), the monitor of a destroyed dialog, the handler
  that sees keys first, the update dialog.
* `AeeCharge`: a second request while one is pending would make its handler call itself without end, so none is made; the library answers later, not
  inside the call of the request.
* `AEEMultiMedia`: the platform takes every block of a message, and a message's file can be read to its end (or the loop of
  `PlayRealAmr` does not end). Nothing is said after a handler of a message has stopped the sounds.
* `AEEHttpDownload`: writes to files succeed; in the world `"errors"` `TargetWhole` fails, since any
  status but 502 is taken for success (`AEEHttpDownload.cpp:55`).
* `MUIManager`: see *Windows of MUI* below for what `NothingDangles` and `RepaintScheduled` assume. Not modelled: a handler called by what a handler called, and one that takes
  back or replaces the window that is being shown (the function would go on with a window that is freed).
* `AEESequences`: nothing is popped from an empty vector.
* `AEEXml`: a tag has a name and no newline behind it (the newline becomes a part of the name).
* `RichText`: no four-byte characters (the loop does not go on), no newline right behind a start tag (it is drawn).
* `MUITab`: no more pages than places, and none taken away while an item waits for the pen to go up.
* `GameWorld`: an object is deleted once; a handler that takes itself out of the list of listeners answers `TRUE`; an
  `OnDestroy()` asks for no map, and changes no objects while a map is destroyed.

**Where the code departs from what one would expect** and no document says otherwise. The models do what the code does,
and the properties are stated for the rest:

* *Payments.* A request made or answered while the application is in the background, and one accepted inside the callback of another, tell it to resume or to
  suspend out of turn (`AeeCharge.cpp:168-169`): `NormalIsShown` holds until then in each run of the application (`untimely`). Inside the callback of a request that was
  paid, one of the other kind changes `m_bActivate` before it is read (line 172): `FlagForActivation` holds until then (`misread`).
* *Windows of MUI.* In a life that is not orderly `MUIManager` fails in these ways, and `NothingDangles` or `RepaintScheduled` say nothing of it. Windows that change while a
  delayed way back is pending: a `back()` forgets the number of the handler, which goes on and cannot be stopped. Windows or dialogs shown, or a way back delayed, by a
  handler that is told of a change: the interrupted function goes on with a transition that was released, or overwrites its bitmap. A window
  shown over a dialog whose button has the pen: the window below keeps the capture when the dialog goes. A transition, or the window on top, given away for a window that
  cannot be made: the transition that played ends with nothing painted, and the new one is left for a later call. The same for a dialog that cannot be made or is not there.
  A way back that is delayed without a transition while one plays: it goes back with that one, whose bitmap is overwritten.
* *Sounds.* Music that was held for a message with no file, an empty one or no delegate waits for the end of a later message (`AEEMultiMedia.cpp:153-165`, `forsaken`). A recording started by the
  handler that is told of the end of another is not known to `mStatus`, so sounds start over it (line 276, `stray`). A message that a handler plays inside `StopSound()` may be cleared
  without being told (line 201, `unheard`). `StopSound()` sets all bits but the one it means to clear, and `mStatus` starts as what was in memory: no property speaks of
  whether music is heard again after it.
* *Documents.* An unknown element's end ends its parent (DUI), as does an include of a missing file; a MUI handler that
  creates nothing is used all the same; a tab in a tab resets the index. The text of CDATA is lost, a comment ends at
  the first `>`, and a cut document may be read past its end (`skipTo`) or hold the loop (text with no `<`).
* *Archives.* An end of the archive with a comment of more than 23 bytes is taken for an item; signatures of items are
  not compared; unpacking loses the data of a failed write and answers success, and does not end at the end of a file.
* *JSON, BSON.* The nodes of a reply that was cut are never freed; nesting beyond sixteen is not noticed; a text that ends with `/`
  holds the loop; a buffer that is too small loses pieces. One-byte writes to a BSON buffer are unchecked, an index above 255
  wraps, and the first entry of the table of strings is never found.
* *Bitmaps.* A reduction to less than a third of the width skips pixels (`AEEBitmapScale.cpp:3409`); a rotated bitmap cut by the right end of
  the clip keeps the end of the row before (`AEERotateBitmap.cpp:959`); one that is one pixel wide reads outside.
* *Lists.* Removing an item adds its height to the content; a list with pages takes its scrolling off twice when it looks for the item;
  the timer of a long touch goes on during a drag; an item higher than the page is shown by its two ends in turn; a repaint brings a
  thrown list back to its selected item; a list of DUI that is pressed while it springs back stays outside its range.
* *Texts.* `{/u}` does nothing, the colours around a nested one are lost, MUI's tab shifts the words gathered before it, and its last line may be cut.
* *Layouts.* A percent of a container that is full is negative, and a negative size becomes that of the parent for good; a grid's row is as high as its last
  child; columns of a vertical flow are as wide as the last child of the first row; hidden children have room in border,
  grid and flow; MUI scrolls one way only.
* *Focus.* A focus that was hidden or taken away leaves the key down without effect; deleting it leaves two pointers to it; the key that
  goes up is told to the control that the key going down moved the focus to, so the arrows mark radio buttons; a radio button that is
  removed keeps its group unmarked; of scrolls in scrolls the nearest follows the focus only.
* *Tabs.* No key reaches them; a button of a page that changed while it was pressed can be clicked with no pen down on it; the item stays pushed when the pen leaves without a move;
  alignment to the left ignores the place of the row.
* *Games.* `m_bDelete` is not initialised; asking for a map and then to destroy it loads it; an object that deactivates itself in a collision is still told of others, and a deleted
  one is still asked whether it collides.

**Hazards with no property** are in `PROJECT.json` with a note: error pages in downloads, focus left in a modeless dialog, the
timers of animations. Beyond these, `PhoneChannel`'s handler for a rejection is empty (`SignalClient.cpp:28`), and the reference
counts of its parts start at zero, so the `Release()` in its `terminate()` never deletes them (`PhoneChannel.cpp:60`).

**Not modelled.** Drawing (`dui_dc.cpp`, `mui_dc.cpp`, sprites and tile maps of `game`, what a transition paints): pixels with no
protocol. The mixing of MD5: arithmetic on words. The parsing of attributes' values. `AEEFile`: a call of the platform each. Timers of animations. Backwards walks
through `AEEMap`, which nobody uses. The code of `AEEBitmapScale.cpp` before line 1693, which is not compiled. The test servers: `PhoneCall` lets
the server send anything. `TcpReceiver` and `TcpSender` are empty or not compiled.

## 8. Plan

Order: what carries the program's data first, then what the two protocols share, then memory, then
the user interface, then pure algorithms. Done:

1. `AEEFixedBuffer`, `AEESocket`, `SendPipe`, with proofs; `PhoneCall` over `AEESocket`, with proofs.
2. `AEEHttp`, `AEEJsonRpc`, `RpcCalls`, with proofs; `AEEHttpDownload` with proofs.
3. `AEEHeap` with proofs; `DUIBitmapTable` with proofs; `DUIWindows` with proofs.
4. `AEEMultiMedia`, `AeeCharge`, `AEEBaseApp` and `AEEMain`, with proofs; `AEEStackAlloc` with proofs.
5. `MUIManager` with proofs; `MUITab`; scrolling, lists, layouts, focus, documents and texts of both libraries.
6. Containers, with proofs of lists and vectors; MD5, DES and base64 with proofs; JSON, BSON, archives; scaling and rotation of bitmaps; the objects of games.

Left: timers of animations, and a window whose focus is left in a modeless dialog; what sprites and maps redraw; `ParseUrl`.

Abstract specifications still worth stating: a heap as a set of disjoint extents, implemented by
`AEEHeap`; a window history, implemented by `DUIWindows`; a download as one atomic replacement.

Proofs still worth having, in this order: `GameObjectsKept` of `GameWorld`; the red-black tree of
`ContainersKept`, as far as it is about pointers and not about what a recursive definition computes.
