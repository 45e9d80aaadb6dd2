----------------------------- MODULE MCLibrary -----------------------------
(***************************************************************************)
(* The parts of util/ and AEEHeap for TLC.  They do not interact: a        *)
(* behaviour is one of a single part, and the variables of the other parts *)
(* stay as they are.  AEEHeap has 55 bytes at an odd address, of which 52  *)
(* are used: room for three small blocks or a small and a large one.       *)
(***************************************************************************)
EXTENDS AEEHeap, Integers, Sequences

VARIABLES
    part,
    m_entries, m_index, m_allocation, m_maxAllocation, stackHeld, allocs, lifo,
    t, keys, it, seen, expected,
    kind, value, vec, list,
    phase, message, room, text, bytes,
    len, fed, bits, in, blocksOfMd5, done,
    step, i, str, password, CD, K, L, R, out,
    task   \* of json, bson and zip

heapVars == <<blocks, walk, held>>
stackVars == <<m_entries, m_index, m_allocation, m_maxAllocation, stackHeld, allocs, lifo>>
mapVars == <<t, keys, it, seen, expected>>
sequenceVars == <<kind, value, vec, list>>
base64Vars == <<phase, message, room, text, bytes>>
md5Vars == <<len, fed, bits, in, blocksOfMd5, done>>
desVars == <<step, i, str, password, CD, K, L, R, out>>

Stack == INSTANCE AEEStackAlloc WITH
    m_stackSize <- 12, m_maxEntryCount <- 3, Size <- {1, 5}, MaxAllocs <- 5, held <- stackHeld
Map == INSTANCE AEEMap WITH Key <- 1..6
Sequence == INSTANCE AEESequences WITH Value <- {1, 2}, Capacity <- 2, MaxSize <- 5
Base64 == INSTANCE AEEBase64 WITH Bytes <- {0, 107, 255}, MaxLen <- 5, Room <- {3, 5, 8}
Md5 == INSTANCE AEEMd5 WITH Block <- 4, Word <- 64, MaxLen <- 14, blocks <- blocksOfMd5

\* The 64 bits of a number of four words of 16 bits
Bits(words) == [b \in 1..64 |-> (words[((b - 1) \div 16) + 1] \div (2 ^ (15 - ((b - 1) % 16)))) % 2]

\* A block and a password of the literature and what DES makes of them, two
\* more blocks and passwords.
Des == INSTANCE AEEDes WITH
    phase <- step,
    Block <- {[b \in 1..64 |-> b % 2], [b \in 1..64 |-> ((b * b) \div 3) % 2]},
    Password <- {[b \in 1..64 |-> 0], [b \in 1..64 |-> (b \div 5) % 2]},
    Known <- {<<Bits(<<291, 17767, 35243, 52719>>), Bits(<<4916, 22393, 39868, 57329>>),
                Bits(<<34280, 4948, 3850, 46085>>)>>}

Json == INSTANCE AEEJson WITH
    Keys <- {<<"x">>}, Words <- {<<"z", "b", "q">>},
    Styles <- {"stream", "spaced", "bare", "commented"},
    Room <- 30, Capacity <- 6, MaxNodes <- 3, MaxValues <- 2

\* Bytes of values that look like the tags of strings, binaries and ends
Bson == INSTANCE AEEBson WITH
    Scalars <- {<<"byte", <<14>>>>, <<"double", <<10, 10, 14, 0, 7, 200, 14, 14>>>>,
                <<"binary", <<10, 14, 0>>>>},
    Strings <- {7, 11, 14}, Table <- <<11, 14>>, Indexes <- 4,
    Room <- 24, MaxNodes <- 2, MaxValues <- 2

ZipItem(name, packed, data, ext, com) ==
    [name |-> name, kind |-> packed, data |-> data, ext |-> ext, com |-> com]

\* Names, data and comments with pieces of the signatures; 80 is "P", 75 "K"
Zip == INSTANCE AEEZipPackage WITH
    Items <- {ZipItem(<<97>>, "stored", <<1, 80, 75>>, 0, 0), ZipItem(<<97>>, "stored", <<5, 6>>, 2, 1),
              ZipItem(<<98, 75>>, "stored", <<>>, 0, 0), ZipItem(<<98>>, "deflated", <<7>>, 1, 0),
              ZipItem(<<98>>, "encrypted", <<7>>, 0, 0)},
    Comments <- {<<>>, <<6>>, <<80, 75, 5>>, <<75, 5, 6, 80>>, <<80, 75, 5, 6>>,
                 <<1, 2, 3, 4, 80, 75, 5, 6, 0, 0, 0>>},
    Stubs <- {<<>>, <<77, 90, 80>>}, Cuts <- {0, 1, 3, 8}, MaxItems <- 2,
    BufferSize <- 14, MaxComment <- 12, Chunk <- 2

ASSUME PartsAssumption ==
    /\ Stack!StackAssumption /\ Map!MapAssumption /\ Sequence!SequencesAssumption
    /\ Base64!Base64Assumption /\ Md5!Md5Assumption /\ Des!DesAssumption
    /\ Json!JsonAssumption /\ Bson!BsonAssumption /\ Zip!ZipAssumption

Parts == {"heap", "stack", "map", "sequences", "base64", "md5", "des",
          "json", "bson", "zip"}

\* Every initial state of the part that moves, any one of the others.
LibraryInit ==
    /\ part \in Parts
    /\ Init /\ Map!Init
    /\ Stack!Init /\ (part = "stack" \/ lifo)
    /\ Sequence!Init /\ (part = "sequences" \/ kind = "list")
    /\ Base64!Init /\ (part = "base64" \/ message = <<>>)
    /\ Md5!Init /\ (part = "md5" \/ len = 0)
    /\ IF part = "des" THEN Des!Init
       ELSE /\ step = "keys" /\ i = 0 /\ str = <<>> /\ password = <<>> /\ CD = <<>> /\ K = <<>>
            /\ L = <<>> /\ R = <<>> /\ out = <<>>
    /\ CASE part = "json" -> Json!Init [] part = "bson" -> Bson!Init [] part = "zip" -> Zip!Init
         [] OTHER -> task = <<>>

HeapMoves ==
    /\ part = "heap" /\ Next
    /\ UNCHANGED <<part, stackVars, mapVars, sequenceVars, base64Vars, md5Vars, desVars, task>>

StackMoves ==
    /\ part = "stack" /\ Stack!Next
    /\ UNCHANGED <<part, heapVars, mapVars, sequenceVars, base64Vars, md5Vars, desVars, task>>

MapMoves ==
    /\ part = "map" /\ Map!Next
    /\ UNCHANGED <<part, heapVars, stackVars, sequenceVars, base64Vars, md5Vars, desVars, task>>

SequenceMoves ==
    /\ part = "sequences" /\ Sequence!Next
    /\ UNCHANGED <<part, heapVars, stackVars, mapVars, base64Vars, md5Vars, desVars, task>>

Base64Moves ==
    /\ part = "base64" /\ Base64!Next
    /\ UNCHANGED <<part, heapVars, stackVars, mapVars, sequenceVars, md5Vars, desVars, task>>

Md5Moves ==
    /\ part = "md5" /\ Md5!Next
    /\ UNCHANGED <<part, heapVars, stackVars, mapVars, sequenceVars, base64Vars, desVars, task>>

DesMoves ==
    /\ part = "des" /\ Des!Next
    /\ UNCHANGED <<part, heapVars, stackVars, mapVars, sequenceVars, base64Vars, md5Vars, task>>

TaskMoves ==
    /\ \/ part = "json" /\ Json!Next
       \/ part = "bson" /\ Bson!Next
       \/ part = "zip" /\ Zip!Next
    /\ UNCHANGED <<part, heapVars, stackVars, mapVars, sequenceVars, base64Vars, md5Vars, desVars>>

LibraryNext ==
    \/ HeapMoves \/ StackMoves \/ MapMoves \/ SequenceMoves \/ Base64Moves \/ Md5Moves \/ DesMoves
    \/ TaskMoves

LibrarySpec == LibraryInit /\ [][LibraryNext]_<<part, heapVars, stackVars, mapVars, sequenceVars,
                                                 base64Vars, md5Vars, desVars, task>>

\* The blocks of AEEStackAlloc lie side by side in it, and those of a client
\* that frees in reverse order are all taken back; AEEMap stays a red-black
\* tree with the keys it should have, and an iterator meets every key that
\* stays; AEEVector, AEEStack and AEEList hold the sequence a client expects.
ContainersKept ==
    /\ Stack!BlocksApart /\ Stack!AllGivenBack
    /\ Map!TreeIsRedBlack /\ Map!WalkMissesNone
    /\ Sequence!SequenceKept

\* base64 keeps the bits of a message; the digest of a message in pieces is
\* that of the whole; DES decrypts what it encrypted; a tree is read from JSON
\* and BSON as it was written, and a part of it is no document; a zip archive
\* gives the items it was made of, and one that was cut is refused.
CodecsKept ==
    /\ Base64!CodecKeepsBytes /\ Md5!DigestOfWhole
    /\ part = "des" => Des!DecryptsWhatItEncrypted
    /\ part = "json" => Json!StreamEnds /\ Json!ReadAsWritten /\ Json!CutIsNoDocument
    /\ part = "bson" => Bson!BsonReadAsWritten /\ Bson!CutIsRefused
    /\ part = "zip" => Zip!PackageIsArchive /\ Zip!CutIsRefused /\ Zip!UnzippedIsItem
=============================================================================
