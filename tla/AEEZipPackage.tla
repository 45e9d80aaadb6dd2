--------------------------- MODULE AEEZipPackage ---------------------------
(***************************************************************************)
(* class AEEZipPackage (AEE++/util/AEEZipPackage.cpp): the pictures of an  *)
(* applet in a zip archive, none of them compressed.  A byte, a character  *)
(* and a field of a header are one cell each: the headers are shorter than *)
(* those of the file format, in the same order of lengths.  Offsets count  *)
(* from zero, as in the code.                                              *)
(***************************************************************************)
EXTENDS Integers, Sequences, SequencesExt, FiniteSetsExt

CONSTANTS
    Items,       \* what a packager puts in: [name, kind, data, ext, com]
    Comments,    \* comments of an archive
    Stubs,       \* what may precede the archive in its file
    Cuts,        \* how many cells the end of the file may lack
    MaxItems,    \* bound: items of an archive
    BufferSize,  \* sizeof(buffer)
    MaxComment,  \* 0xFFFF
    Chunk        \* bufSize of UnZipItem

VARIABLE task

LOCHDRSIZ == 6
CENHDRSIZ == 12
ENDHDRSIZ == 7

ZipAssumption ==
    /\ \A i \in Items : /\ i.kind \in {"stored", "deflated", "encrypted"} /\ {i.ext, i.com} \subseteq Nat
                        /\ \A s \in {i.name, i.data} : Range(s) \subseteq Nat
    /\ \A s \in Comments \cup Stubs : Range(s) \subseteq Nat
    /\ Cuts \subseteq Nat /\ {MaxItems, MaxComment, Chunk} \subseteq Nat \ {0}
    /\ BufferSize \in Nat /\ BufferSize > ENDHDRSIZ

-----------------------------------------------------------------------------
(* The file format *)

P == 80
K == 75
Zeros(n) == [k \in 1..n |-> 0]

LocOf(i) == <<P, K, 3, 4, Len(i.name), i.ext>> \o i.name \o Zeros(i.ext) \o i.data
CenOf(i, offset) ==
    <<P, K, 1, 2, IF i.kind = "encrypted" THEN 1 ELSE 0, IF i.kind = "deflated" THEN 8 ELSE 0,
      Len(i.data), Len(i.data), Len(i.name), 0, i.com, offset>> \o i.name \o Zeros(i.com)

Archive(items, comment) ==
    LET locs == [k \in DOMAIN items |-> LocOf(items[k])]
        cens == FlattenSeq([k \in DOMAIN items |->
                    CenOf(items[k], Len(FlattenSeq(SubSeq(locs, 1, k - 1))))])
    IN  FlattenSeq(locs) \o cens
        \o <<P, K, 5, 6, Len(cens), Len(FlattenSeq(locs)), Len(comment)>> \o comment

\* The fields of the headers, at the front of a sequence of cells.
LOCNAM(h) == h[5]
LOCEXT(h) == h[6]
CENFLG(h) == h[5]
CENHOW(h) == h[6]
CENSIZ(h) == h[7]
CENLEN(h) == h[8]
CENNAM(h) == h[9]
CENEXT(h) == h[10]
CENCOM(h) == h[11]
CENOFF(h) == h[12]
ENDSIZ(h) == h[5]
ENDOFF(h) == h[6]
ENDCOM(h) == h[7]

\* The cells that Seek and Read find: fewer than n when the file ends.
Read(offset, n) ==
    IF offset < 0 THEN <<>> ELSE SubSeq(task.file, offset + 1, Min({offset + n, Len(task.file)}))

-----------------------------------------------------------------------------
(* Opening: the end of the directory is searched from the end of the file.   *)
(* A client that knows where the archive begins passes startPos; the other   *)
(* constructor stops the search earlier, and is startPos = 0 otherwise.      *)

length == Len(task.file) - task.startPos
minOffset ==
    IF task.knowsStart THEN 0
    ELSE Max({length - (MaxComment + ENDHDRSIZ), LOCHDRSIZ + CENHDRSIZ})

Init ==
    \E items \in SeqOf(Items, MaxItems) \ {<<>>}, comment \in Comments, stub \in Stubs, cut \in Cuts,
       knows \in BOOLEAN :
        LET whole == stub \o Archive(items, comment)
        IN  task = [ phase |-> "closed", items |-> items, comment |-> comment, stub |-> stub, cut |-> cut,
                     file |-> SubSeq(whole, 1, Len(whole) - cut),
                     knowsStart |-> knows, startPos |-> IF knows THEN Len(stub) ELSE 0 ]

\* Release(): nothing is left of the package.
loadFailed == task' = [task EXCEPT !.phase = "failed"]

Open ==
    /\ task.phase = "closed"
    /\ IF Len(task.file) < ENDHDRSIZ THEN loadFailed
       ELSE task' = [phase |-> "search", buffer |-> Read(Len(task.file) - ENDHDRSIZ, ENDHDRSIZ),
                     bp |-> 0, currentOffset |-> length - ENDHDRSIZ] @@ task

\* A cell before the buffer is whatever lies there on the stack.
Cell(j, outside) == IF j < 0 THEN outside ELSE task.buffer[j + 1]
At(outside) == [j \in 1..ENDHDRSIZ |-> Cell(task.bp + j - 1, outside)]

\* Whether the header at bp is the last of the archive.
EndsHere(h) ==
    /\ SubSeq(h, 1, 4) = <<P, K, 5, 6>>
    /\ task.currentOffset + task.bp + ENDHDRSIZ + ENDCOM(h) = length

\* The header is found: the archive must begin where it says.
Found(h) ==
    LET cenOffset == (task.currentOffset + task.bp) - ENDSIZ(h)
        locOffset == cenOffset - ENDOFF(h)
    IN  IF Read(locOffset + task.startPos, 4) = <<P, K, 3, 4>>
        THEN task' = [phase |-> "count", cenOffset |-> cenOffset, locOffset |-> locOffset,
                      offset |-> cenOffset, mItemCount |-> 0] @@ task
        ELSE loadFailed

\* mutant: the K of the signature is taken for its P
StepTooFar(cell) == CASE cell = 6 -> 3 [] cell = 5 -> 2 [] OTHER -> 4

\* How far back the header must be when a cell of it, or none, is at bp.
StepBack(cell) == CASE cell = 6 -> 3 [] cell = 5 -> 2 [] cell = K -> 1 [] OTHER -> 4

\* The next cells of the file, to the left of those in the buffer.
Refilled(bp) ==
    LET left == task.currentOffset - minOffset
        count == Min({left, (BufferSize - ENDHDRSIZ) - bp})
        cells == Read((task.currentOffset - count) + task.startPos, count)
    IN  IF left <= 0 \/ Len(cells) # count THEN loadFailed
        ELSE task' = [task EXCEPT !.currentOffset = @ - count, !.bp = bp + count,
                                  !.buffer = SubSeq(cells \o @, 1, Min({BufferSize, Len(@) + count}))]

Search ==
    /\ task.phase = "search"
    /\ \E outside \in IF task.bp < 0 THEN {0, 5, 6, K, P} ELSE {0} :
        LET h == At(outside)
            bp == task.bp - StepBack(h[1])
        IN  IF EndsHere(h) THEN Found(h)
            ELSE IF bp < 0 THEN Refilled(bp)
            ELSE task' = [task EXCEPT !.bp = bp]

\* Headers are counted until the file ends: nothing compares their signature.
Count ==
    /\ task.phase = "count"
    /\ LET h == Read(task.offset + task.startPos, CENHDRSIZ)
       IN  IF Len(h) = CENHDRSIZ
           THEN task' = [task EXCEPT !.mItemCount = @ + 1,
                             !.offset = @ + CENHDRSIZ + CENNAM(h) + CENEXT(h) + CENCOM(h)]
           ELSE IF task.mItemCount = 0 THEN loadFailed
           ELSE task' = [mItemName |-> <<>>, mItemSize |-> <<>>, mItemOffset |-> <<>>]
                        @@ [task EXCEPT !.phase = "read", !.offset = task.cenOffset]

\* mutant: the name of the local header is not skipped
SkippedName(loc, at) == at + LOCHDRSIZ + LOCEXT(loc)

\* Where the data of an item begins: behind the name and the extra field of
\* its local header.
DataOffset(loc, at) == at + LOCHDRSIZ + LOCNAM(loc) + LOCEXT(loc)

\* One header of the directory is read, with the name and the local header.
\* With startPos the offset of an item is still one of the whole file.
ReadItem ==
    /\ task.phase = "read"
    /\ LET h == Read(task.offset + task.startPos, CENHDRSIZ)
           name == Read(task.offset + task.startPos + CENHDRSIZ, CENNAM(h))
           locAt == task.locOffset + CENOFF(h) + task.startPos
           loc == Read(locAt, LOCHDRSIZ)
       IN  IF Len(task.mItemName) = task.mItemCount THEN task' = [task EXCEPT !.phase = "loaded"]
           ELSE IF /\ Len(h) = CENHDRSIZ /\ Len(name) = CENNAM(h)
                   /\ CENFLG(h) % 2 = 0 /\ Len(loc) = LOCHDRSIZ
                   /\ CENHOW(h) = 0 /\ CENSIZ(h) = CENLEN(h)
           THEN task' = [task EXCEPT !.mItemName = Append(@, name),
                             !.mItemSize = Append(@, CENLEN(h)),
                             !.mItemOffset = Append(@, DataOffset(loc, locAt)),
                             !.offset = @ + CENHDRSIZ + CENNAM(h) + CENEXT(h) + CENCOM(h)]
           ELSE loadFailed

-----------------------------------------------------------------------------
(* Using the package *)

\* mutant: the first item of a name
GetFirstIndex(name) == Min({k \in DOMAIN task.mItemName : task.mItemName[k] = name})

GetIndex(name) == Max({k \in DOMAIN task.mItemName : task.mItemName[k] = name})

\* The data of an item, or <<>> when it does not fit or is not all there.
GetPackageItem(index, nMaxSize) ==
    LET size == task.mItemSize[index]
        data == Read(task.mItemOffset[index], size)
    IN  IF (nMaxSize > 0 /\ nMaxSize < size) \/ Len(data) # size THEN <<>> ELSE data

\* UnZipItem writes an item to a file of its own, a buffer at a time.  A
\* client may unpack one item after the other.
UnZipItem(name) ==
    /\ task.phase \in {"loaded", "unzipped"} /\ name \in Range(task.mItemName)
    /\ LET index == GetIndex(name)
       IN  task' = [index |-> index, leftSize |-> task.mItemSize[index], at |-> task.mItemOffset[index],
                    target |-> <<>>, lost |-> <<>>, nTry |-> 0]
                   @@ [task EXCEPT !.phase = "unzip"]

\* What was read but not written is not read again: the next try writes what
\* comes after it, and leftSize still counts it.  At the end of the file Read
\* finds nothing and the loop goes on for ever.
UnZipStep ==
    /\ task.phase = "unzip" /\ task.leftSize > 0
    /\ LET cells == Read(task.at, Min({task.leftSize, Chunk}))
       IN  \/ task' = [task EXCEPT !.at = @ + Len(cells), !.target = @ \o cells, !.nTry = 0,
                                   !.leftSize = @ - Len(cells)]
           \/ /\ cells # <<>>
              /\ task' = [task EXCEPT !.at = @ + Len(cells), !.lost = @ \o cells, !.nTry = @ + 1,
                                      !.phase = IF task.nTry = 5 THEN "unzipped" ELSE "unzip"]

UnZipDone ==
    /\ task.phase = "unzip" /\ task.leftSize <= 0
    /\ task' = [task EXCEPT !.phase = "unzipped"]

Next ==
    \/ Open \/ Search \/ Count \/ ReadItem \/ UnZipStep \/ UnZipDone
    \/ \E item \in Items : UnZipItem(item.name)

Spec == Init /\ [][Next]_task

-----------------------------------------------------------------------------
(* What must hold *)

\* A comment shorter than what separates the two headers cannot be taken for
\* an item.
Plain == task.cut = 0 /\ Len(task.comment) < CENHDRSIZ - ENDHDRSIZ
Stored == \A k \in DOMAIN task.items : task.items[k].kind = "stored"

\* An archive of stored items is opened, with a comment or without, behind a
\* stub or not, and gives the names, the sizes and the data it was made of;
\* one with a compressed or encrypted item is refused.
PackageIsArchive ==
    /\ (task.phase = "loaded" /\ Plain) =>
          /\ Stored
          /\ task.mItemName = [k \in DOMAIN task.items |-> task.items[k].name]
          /\ \A k \in DOMAIN task.items : GetPackageItem(k, 0) = task.items[k].data
    /\ (task.phase = "failed" /\ Plain) => ~Stored

\* A file that lost its end, as a download may, is refused.
CutIsRefused == task.phase \in {"loaded", "unzip", "unzipped"} => task.cut = 0

\* The item that is unpacked is the last of its name, and its file holds all
\* of it unless a write failed.
UnzippedIsItem ==
    (task.phase = "unzipped" /\ Plain /\ task.lost = <<>>) =>
        /\ task.target = task.items[task.index].data
        /\ \A k \in DOMAIN task.items :
               task.items[k].name = task.items[task.index].name => k <= task.index
=============================================================================
