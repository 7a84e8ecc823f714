----------------------------- MODULE FileWriter -----------------------------
(***************************************************************************)
(* The file behind a store, by each of writer.cpp's four entry points: the *)
(* empty store (writeEmptyPst), loose blocks (writeBlocksPst), one payload *)
(* under an XBLOCK (writeXBlockPst), and the blocks and nodes of the store *)
(* writers (writeM5Pst).  Blocks are encoded for the places where they are *)
(* expected in the file; then the file is laid out in one pass, its pages  *)
(* get BIDs, the page trees are built, and all of it is written in a       *)
(* second pass that looks at the first one's offsets only to pad up to     *)
(* them.  The entry points share this course and differ in what they       *)
(* refuse, in how they number pages and in what they call the next BID.    *)
(*                                                                         *)
(* Lengths and offsets are in units of the block alignment, lengths of     *)
(* payloads in quarters of it, the length of a block's trailer.  A write   *)
(* may come short, fopen and fclose may fail.                              *)
(***************************************************************************)
EXTENDS PageTree, FiniteSets, TLC

CONSTANTS
  Calls,         \* the calls to consider: [entry |-> "Empty"],
                 \* [entry |-> "Blocks", sizes], [entry |-> "XBlock",
                 \* cbPayload, chunkSize], [entry |-> "M5", blocks, nodes]
  MaxBlockPayload,   \* 8176 bytes
  MaxXChildren,      \* 1019, how many blocks writeXBlockPst puts under one
  XBlockPages,       \* 0x100, the index of its first page's BID
  LooseNextP,        \* 0x10, the next one of a file of loose blocks
  HeaderSize,    \* 0x234 bytes, less than IbAMap
  IbAMap,        \* 0x4400, where the first allocation map is
  PageSize,      \* 0x200
  Coverage,      \* kAMapCoverage: how much of the file one map describes
  BbtLeafMax,    \* entries of a leaf page: 20 of the BBT,
  NbtLeafMax     \* 15 of the NBT

\* A block's encoding is never empty: it ends in a trailer.
Block == [bid : Nat, len : Nat \ {0}]
Node  == [nid : Nat, bidData : Nat, bidSub : Nat, nidParent : Nat]

ASSUME CallsAssumption ==
  \A c \in Calls :
    \/ c.entry = "Empty"
    \/ c.entry = "Blocks" /\ c.sizes \in Seq(Nat)
    \/ c.entry = "XBlock" /\ c.cbPayload \in Nat /\ c.chunkSize \in Nat
    \/ c.entry = "M5" /\ c.blocks \in Seq(Block) /\ c.nodes \in Seq(Node)

ASSUME SizesAssumption ==
  /\ HeaderSize \in Nat \ {0} /\ IbAMap \in Nat /\ HeaderSize <= IbAMap
  /\ PageSize \in Nat \ {0} /\ Coverage \in Nat
  /\ BbtLeafMax \in Nat \ {0} /\ NbtLeafMax \in Nat \ {0} /\ XBlockPages \in Nat
  /\ MaxBlockPayload \in Nat

(***************************************************************************)
(* A block: [bid, len], len the length of its encoding, which depends on   *)
(* its body alone; a node: [nid, bidData, bidSub, nidParent].              *)
(***************************************************************************)
VARIABLES
  call,            \* the call and its arguments
  blocks, nodes,   \* what goes into the file, in the order of the blocks there
  encodedAt,       \* the offset each block was encoded for
  phase,           \* "call", "encode", "open", "emit" or how the call ended
  plan, step,      \* the laid out file, and how many of its pieces are behind it
  writtenIb, ok,   \* writeM5Pst's variables of these names
  file             \* the pieces of the file at the path, [ib, len, data]

vars == <<call, blocks, nodes, encodedAt, phase, plan, step, writtenIb, ok, file>>

Outcomes == {"written", "refused", "fopen failed", "fclose failed", "fwrite truncated"}

-----------------------------------------------------------------------------

BlocksStart == IbAMap + PageSize

AlignUp(v, a) == ((v + a - 1) \div a) * a

\* roundBlockSize: payload and trailer, in whole units.
EncodedLen(cb) == AlignUp(cb + 1, 4) \div 4

InternalBid(idx) == 4 * idx + 2

DataBlocks(sizes) ==
  [i \in DOMAIN sizes |-> [bid |-> 4 * i, len |-> EncodedLen(sizes[i])]]

ChunkCount(cbPayload, chunkSize) == (cbPayload + chunkSize - 1) \div chunkSize

\* The chunks and, behind them, the XBLOCK: 8 bytes and 8 for each chunk.
XBlockBlocks(cbPayload, chunkSize) ==
  LET n     == ChunkCount(cbPayload, chunkSize)
      sizes == [i \in 1..n |-> IF i = n THEN cbPayload - (n - 1) * chunkSize ELSE chunkSize]
  IN  Append(DataBlocks(sizes),
             [bid |-> InternalBid(n + 1), len |-> EncodedLen((n + 2) \div 2)])

\* The offsets of the blocks, each right behind the one before it, and the
\* one where the last of them ends.
Offsets(bs) ==
  LET ib[i \in 1..(Len(bs) + 1)] == IF i = 1 THEN BlocksStart ELSE ib[i - 1] + bs[i - 1].len
  IN  ib

BlockIb(i) == Offsets(blocks)[i]

PagesStart == AlignUp(BlockIb(Len(blocks) + 1), PageSize)

BbtPages == PageCount(Len(blocks), BbtLeafMax)
NbtPages == PageCount(Len(nodes), NbtLeafMax)

EofAtNbtRoot ==   \* mutant: the NBT's root is not counted
  PagesStart + (BbtPages + LeafCount(Len(nodes), NbtLeafMax)) * PageSize
IbFileEof == PagesStart + (BbtPages + NbtPages) * PageSize

\* The index of the first page's BID; 1 would be the map's.
PageBids == IF call.entry = "XBlock" THEN XBlockPages ELSE 2

\* Offset and BID of the p-th page behind the blocks.
PageRef(p) == [bid |-> InternalBid(PageBids + p - 1), ib |-> PagesStart + (p - 1) * PageSize]

\* The empty store has the NBT first, the others the BBT.
BbtFirst == IF call.entry = "Empty" THEN NbtPages + 1 ELSE 1

NbtFirstAtBbtRoot ==   \* mutant: the BBT's root is forgotten
  IF call.entry = "Empty" THEN 1 ELSE LeafCount(Len(blocks), BbtLeafMax) + 1
\* The number of the NBT's first page among the BIDs: behind the BBT's leaves
\* and its root.
NbtFirst == IF call.entry = "Empty" THEN 1 ELSE BbtPages + 1

\* ... and its place, which the layout computes apart from that.
NbtPlace == IF call.entry = "Empty" THEN 1 ELSE BbtPages + 1

BbtRefs == [i \in 1..BbtPages |-> PageRef(BbtFirst + i - 1)]
NbtRefs == [i \in 1..NbtPages |->
             [bid |-> PageRef(NbtFirst + i - 1).bid, ib |-> PageRef(NbtPlace + i - 1).ib]]

\* Only writeM5Pst keeps count of the BIDs it gives to pages.
BidNextP ==
  CASE call.entry = "M5"    -> InternalBid(PageBids + NbtFirst + NbtPages - 1)
    [] call.entry = "Empty" -> InternalBid(4)
    [] OTHER                -> InternalBid(LooseNextP)

BbtEntries ==
  [i \in DOMAIN blocks |->
    [key |-> blocks[i].bid, ib |-> BlockIb(i), cb |-> blocks[i].len]]

NbtEntries ==
  [i \in DOMAIN nodes |->
    [key |-> nodes[i].nid, bidData |-> nodes[i].bidData, bidSub |-> nodes[i].bidSub,
     nidParent |-> nodes[i].nidParent]]

BbtTree == TreePages("BBT", BbtEntries, BbtLeafMax, BbtRefs)
NbtTree == TreePages("NBT", NbtEntries, NbtLeafMax, NbtRefs)

\* buildAMap: the map has a bit for each unit from its own place on, and sets
\* those below the end of the file.
MarkedUnits ==
  IbAMap .. ((IF IbFileEof < IbAMap + Coverage THEN IbFileEof ELSE IbAMap + Coverage) - 1)

\* cbAMapFreeFor computes the same range again, for what is left of it.
CbAMapFree ==
  Coverage - (IF IbFileEof < IbAMap + Coverage THEN IbFileEof - IbAMap ELSE Coverage)

\* The header's ROOT: where the trees begin, how long the file is and how much
\* of it the map has free.
Header ==
  [kind |-> "header", brefBbt |-> Last(BbtRefs), brefNbt |-> Last(NbtRefs),
   ibFileEof |-> IbFileEof, ibAMapLast |-> IbAMap, cbAMapFree |-> CbAMapFree,
   bidNextP |-> BidNextP]

\* The file in the order it is written; "at" is the offset up to which
\* padding goes first.  One padTo precedes all blocks; it is repeated here
\* before each of them, where there is nothing to pad.
Layout ==
  LET page(p) == [at |-> p.ref.ib, len |-> PageSize, data |-> [kind |-> "page", page |-> p]]
  IN  << [at |-> 0, len |-> HeaderSize, data |-> Header],
         [at |-> IbAMap, len |-> PageSize, data |-> [kind |-> "amap", marked |-> MarkedUnits]] >>
      \o [i \in DOMAIN blocks |->
           [at |-> BlocksStart, len |-> blocks[i].len,
            data |-> [kind |-> "block", bid |-> blocks[i].bid]]]
      \o (IF call.entry = "Empty"
          THEN [i \in DOMAIN NbtTree |-> page(NbtTree[i])] \o [i \in DOMAIN BbtTree |-> page(BbtTree[i])]
          ELSE [i \in DOMAIN BbtTree |-> page(BbtTree[i])] \o [i \in DOMAIN NbtTree |-> page(NbtTree[i])])

-----------------------------------------------------------------------------

\* What the entry points refuse before they have encoded a block ...
BadArguments ==
  CASE call.entry = "Blocks" -> Len(call.sizes) > BbtLeafMax * BtMax
    [] call.entry = "XBlock" ->
         \/ call.chunkSize \notin 1..MaxBlockPayload
         \/ call.cbPayload = 0
         \/ ChunkCount(call.cbPayload, call.chunkSize) > MaxXChildren
    [] OTHER -> FALSE

\* ... and what writeM5Pst refuses, whose callers come with encoded blocks.
TooManyEntries ==
  /\ call.entry = "M5"
  /\ Len(blocks) > BbtLeafMax * BtMax \/ Len(nodes) > NbtLeafMax * BtMax

Init ==
  /\ call \in Calls
  /\ blocks = <<>> /\ nodes = <<>>
  /\ encodedAt = <<>>
  /\ phase = "call" /\ plan = <<>> /\ step = 0
  /\ writtenIb = 0 /\ ok = TRUE
  /\ file = << [ib |-> 0, len |-> 1, data |-> [kind |-> "previous"]] >>

\* Arguments are checked and BIDs given to the blocks.
Call ==
  /\ phase = "call"
  /\ IF BadArguments
     THEN phase' = "refused" /\ UNCHANGED <<blocks, nodes>>
     ELSE /\ phase' = "encode"
          /\ blocks' = CASE call.entry = "M5"     -> call.blocks
                         [] call.entry = "Blocks" -> DataBlocks(call.sizes)
                         [] call.entry = "XBlock" -> XBlockBlocks(call.cbPayload, call.chunkSize)
                         [] call.entry = "Empty"  -> <<>>
          /\ nodes' = IF call.entry = "M5" THEN call.nodes ELSE <<>>
  /\ UNCHANGED <<call, encodedAt, plan, step, writtenIb, ok, file>>

\* The encode loops of the entry points and of the store writers, which have
\* a kBlocksStart of their own.
EncodeBlock ==
  /\ phase = "encode" /\ Len(encodedAt) < Len(blocks)
  /\ encodedAt' = Append(encodedAt,
       IF encodedAt = <<>> THEN BlocksStart
       ELSE Last(encodedAt) + blocks[Len(encodedAt)].len)
  /\ UNCHANGED <<call, blocks, nodes, phase, plan, step, writtenIb, ok, file>>

LayOut ==
  /\ phase = "encode" /\ Len(encodedAt) = Len(blocks)
  /\ IF TooManyEntries
     THEN phase' = "refused" /\ UNCHANGED plan
     ELSE phase' = "open" /\ plan' = Layout
  /\ UNCHANGED <<call, blocks, nodes, encodedAt, step, writtenIb, ok, file>>

\* Opening the file empties it.
OpenWb ==
  /\ phase = "open" /\ phase' = "emit" /\ file' = <<>>
  /\ UNCHANGED <<call, blocks, nodes, encodedAt, plan, step, writtenIb, ok>>

OpenFails ==
  /\ phase = "open" /\ phase' = "fopen failed"
  /\ UNCHANGED <<call, blocks, nodes, encodedAt, plan, step, writtenIb, ok, file>>

PaddingUnguarded(target) == target - writtenIb   \* mutant
\* What padTo(target) writes.
Padding(target) == IF target > writtenIb THEN target - writtenIb ELSE 0

LastResult(wrote) == wrote   \* mutant: a later write makes up for a short one
\* ok && writeAll(...): after a short write no other is attempted.
Ok(wrote) == ok /\ wrote

FileSize == IF file = <<>> THEN 0 ELSE Last(file).ib + Last(file).len

\* padTo and emit of the next piece.  A write comes short of its end in the
\* padding or in the piece itself.
Emit ==
  /\ phase = "emit" /\ step < Len(plan)
  /\ LET piece == plan[step + 1]
         pad   == Padding(piece.at)
         all   == pad + piece.len
         at(from, len, data) ==
           IF len = 0 THEN <<>> ELSE << [ib |-> FileSize + from, len |-> len, data |-> data] >>
     IN  /\ writtenIb' = writtenIb + all
         /\ \E wrote \in 0..all :
              /\ ok' = Ok(wrote = all)
              /\ file' = file \o
                   (IF ~Ok(TRUE) THEN <<>>
                    ELSE IF wrote < all THEN at(0, wrote, [kind |-> "torn"])
                    ELSE at(0, pad, [kind |-> "zeros"]) \o at(pad, piece.len, piece.data))
  /\ step' = step + 1
  /\ UNCHANGED <<call, blocks, nodes, encodedAt, phase, plan>>

\* fclose writes out what the stream still holds, and may fail to.
Fclose ==
  /\ phase = "emit" /\ step = Len(plan)
  /\ \/ phase' = (IF ok THEN "written" ELSE "fwrite truncated") /\ UNCHANGED file
     \/ /\ phase' = "fclose failed"
        /\ \E kept \in 0..Len(file) : file' = SubSeq(file, 1, kept)
  /\ UNCHANGED <<call, blocks, nodes, encodedAt, plan, step, writtenIb, ok>>

Return == phase \in Outcomes /\ UNCHANGED vars

Next ==
  \/ Call \/ EncodeBlock \/ LayOut \/ OpenWb \/ OpenFails \/ Emit \/ Fclose \/ Return

Spec == Init /\ [][Next]_vars

-----------------------------------------------------------------------------

Data(kind) == {i \in DOMAIN file : file[i].data.kind = kind}

\* The pieces of the plan that are in the file whole, padding aside, and how
\* many of them there are up to the i-th piece of the file.
Whole == {i \in DOMAIN file : file[i].data.kind \notin {"zeros", "torn"}}
Rank(i) == Cardinality(Whole \cap 1..i)

\* The pages of the file by their offset, as the readers see it.
PageAt ==
  [ib \in {file[i].ib : i \in Data("page")} |->
    (CHOOSE i \in Data("page") : file[i].ib = ib)]

\* Type correctness: offsets and lengths are natural numbers, and the pieces
\* of the file follow one another without a gap.
TypeOK ==
  /\ phase \in {"call", "encode", "open", "emit"} \cup Outcomes
  /\ step \in 0..Len(plan) /\ writtenIb \in Nat /\ ok \in BOOLEAN
  /\ encodedAt \in Seq(Nat) /\ Len(encodedAt) <= Len(blocks)
  /\ \A i \in DOMAIN file : /\ file[i].len \in Nat \ {0}
                            /\ file[i].ib = IF i = 1 THEN 0 ELSE file[i - 1].ib + file[i - 1].len

(***************************************************************************)
(* Everything is where the first pass and the callers said it would be:    *)
(* the map at its fixed offset, each page at the offset in its trailer and *)
(* each block at the offset it was encoded for, which its signature        *)
(* depends on; a file written in full ends at the header's ibFileEof, and  *)
(* the map has every block and page in its range allocated and the rest    *)
(* free, as many units as the header says.                                 *)
(***************************************************************************)
PlacedWhereComputed ==
  /\ \A i \in Data("amap") : file[i].ib = IbAMap
  /\ \A i \in Data("page") : file[i].ib = file[i].data.page.ref.ib
  /\ \A i \in Data("block") :
       \E b \in DOMAIN blocks : file[i].data.bid = blocks[b].bid /\ file[i].ib = encodedAt[b]
  /\ phase = "written" =>
       LET covered == IbAMap .. (IbAMap + Coverage - 1)
           used(i) == file[i].ib .. (file[i].ib + file[i].len - 1)
           kept    == Data("amap") \cup Data("page") \cup Data("block")
       IN  /\ FileSize = file[1].data.ibFileEof
           /\ \A i \in Data("amap") :
                /\ \A k \in kept : used(k) \cap covered \subseteq file[i].data.marked
                /\ Cardinality(covered \ file[i].data.marked) = file[1].data.cbAMapFree
                /\ file[i].data.marked \subseteq 0 .. (FileSize - 1)

\* What the header's roots lead to: under every block's BID the offset where
\* the block is, under every node's NID the node, under any other key nothing;
\* and the whole tree in order.
Readable ==
  LET pageAt == [ib \in DOMAIN PageAt |-> file[PageAt[ib]].data.page]
      header == file[1].data
      reads(tree, root, entries) ==
        LET keys == {entries[i].key : i \in DOMAIN entries}
        IN  /\ \A i \in DOMAIN entries :
                 Find(pageAt, tree, root, entries[i].key) = <<entries[i]>>
            /\ \A k \in {key + d : key \in keys, d \in {-1, 1}} \ keys :
                 Find(pageAt, tree, root, k) = <<>>
            /\ ForEach(pageAt, tree, root) = SortedByKey(entries)
  IN  /\ reads("NBT", header.brefNbt.ib, NbtEntries)
      /\ reads("BBT", header.brefBbt.ib,
               [i \in DOMAIN blocks |->
                 [key |-> blocks[i].bid, ib |-> encodedAt[i], cb |-> blocks[i].len]])

\* The chunks of an XBLOCK and itself fit the block tree, which the code does
\* not check.
RoomForXBlock ==
  call.entry = "XBlock" =>
    ChunkCount(call.cbPayload, call.chunkSize) < BbtLeafMax * BtMax

(***************************************************************************)
(* A file reported as written can be read from its header: every block and *)
(* every node of the call is found under its key, where it was put, and no *)
(* other key leads anywhere; as long as the block tree has room for an     *)
(* XBLOCK's chunks.                                                        *)
(***************************************************************************)
ReadableWhereRoom == phase = "written" /\ RoomForXBlock => Readable

(***************************************************************************)
(* No two pages of a file have the same BID, although leaves and roots of  *)
(* the two trees are numbered apart, and the bidNextP that writeM5Pst and  *)
(* writeEmptyPst leave in the header is above all of them.                 *)
(***************************************************************************)
PageBidsDistinct ==
  LET bid(i) == file[i].data.page.ref.bid
  IN  /\ \A i, j \in Data("page") : bid(i) = bid(j) => i = j
      /\ call.entry \in {"M5", "Empty"} =>
           \A i \in Data("page") : bid(i) < file[1].data.bidNextP

(***************************************************************************)
(* Until the file is opened, and when the call is refused, the store that  *)
(* was at the path is untouched.  From then on a short write is the last:  *)
(* whatever is in the file is the beginning of the file that was to be     *)
(* written, with at most its last piece torn, and only a file that has all *)
(* of it is reported as written.                                           *)
(***************************************************************************)
NothingAfterAShortWrite ==
  IF phase \in {"call", "encode", "open", "refused", "fopen failed"}
  THEN Data("previous") = DOMAIN file /\ file # <<>>
  ELSE
    /\ \A i \in Whole : Rank(i) \in DOMAIN plan /\ file[i].data = plan[Rank(i)].data
    /\ Data("torn") \subseteq {Len(file)}
    /\ phase = "written" => Rank(Len(file)) = Len(plan)

-----------------------------------------------------------------------------

(***************************************************************************)
(* What writer.hpp says of writeXBlockPst and the code does not do: the    *)
(* caller must keep the payload within one XBLOCK's addressing range, and  *)
(* that is all.  Any payload within it that is reported as written can be  *)
(* read back, like everything else that is.                                *)
(***************************************************************************)
WrittenIsReadable == phase = "written" => Readable

=============================================================================
