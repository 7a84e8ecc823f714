--------------------------- MODULE BlockScheduler ---------------------------
(***************************************************************************)
(* How a store writer turns byte sequences into blocks: the helpers        *)
(* scheduleDataBlock and schedulePayload of writeM7Pst over a record of    *)
(* the blocks scheduled so far.  A byte sequence is its length; a block's  *)
(* identifier carries its kind in bit 1, with one counter per kind.        *)
(***************************************************************************)
EXTENDS Integers, SequencesExt, FiniteSets

CONSTANTS
  MaxBlockPayload,    \* kMaxBlockPayload: 8176 bytes
  MaxXBlockChildren   \* kXBlockMaxChildren: 1021 child BIDs

ASSUME BlockSchedulerAssumption ==
  MaxBlockPayload \in Nat \ {0} /\ MaxXBlockChildren \in Nat \ {0, 1}

-----------------------------------------------------------------------------

DataBid(idx)     == 4 * idx
InternalBid(idx) == 4 * idx + 2
IsInternal(bid)  == (bid \div 2) % 2 = 1

\* nextDataBidIdx, nextInternalBidIdx and the three lists of scheduled blocks.
NothingScheduled ==
  [nextData |-> 1, nextInternal |-> 1, data |-> <<>>, x |-> <<>>, sl |-> <<>>]

CeilDiv(a, b) == (a + b - 1) \div b

AtMost(a, b) == IF a < b THEN a ELSE b

AddUnderOneBid(s, sizes) ==   \* mutant: the counter does not advance
  [s EXCEPT
    !.data = @ \o [i \in DOMAIN sizes |-> [bid |-> DataBid(s.nextData), size |-> sizes[i]]]]

\* The data blocks for the given sizes, in order, and their BIDs.
AddDataBlocks(s, sizes) ==
  [s EXCEPT
    !.nextData = @ + Len(sizes),
    !.data = @ \o [i \in DOMAIN sizes |->
                    [bid |-> DataBid(s.nextData + i - 1), size |-> sizes[i]]]]

NewDataBids(s, sizes) == [i \in DOMAIN sizes |-> DataBid(s.nextData + i - 1)]

AddDataBlock(s, size) == AddDataBlocks(s, <<size>>)

FullChunks(total) ==   \* mutant: the last chunk is not cut to what is left
  [i \in 1..CeilDiv(total, MaxBlockPayload) |-> MaxBlockPayload]

\* Step 1 of schedulePayload: chunks of at most MaxBlockPayload bytes.
Chunks(total) ==
  [i \in 1..CeilDiv(total, MaxBlockPayload) |->
    AtMost(MaxBlockPayload, total - (i - 1) * MaxBlockPayload)]

SumOf(sizes) == FoldLeft(LAMBDA a, b : a + b, 0, sizes)

\* One XBLOCK (level 1) or XXBLOCK (level 2).
AddXBlock(s, level, children, lcb) ==
  [s EXCEPT
    !.nextInternal = @ + 1,
    !.x = Append(@, [bid |-> InternalBid(s.nextInternal), level |-> level,
                     children |-> children, lcb |-> lcb])]

\* The chunks from number off + 1 on that one XBLOCK takes.
Group(seq, off) == SubSeq(seq, off + 1, AtMost(off + MaxXBlockChildren, Len(seq)))

\* The XBLOCKs over the chunks, one per full group and one for the rest.
AddXBlocks(s, bids, sizes) ==
  LET nGroups == CeilDiv(Len(bids), MaxXBlockChildren)
  IN  [s EXCEPT
        !.nextInternal = @ + nGroups,
        !.x = @ \o [g \in 1..nGroups |->
                     [bid |-> InternalBid(s.nextInternal + g - 1), level |-> 1,
                      children |-> Group(bids, (g - 1) * MaxXBlockChildren),
                      lcb |-> SumOf(Group(sizes, (g - 1) * MaxXBlockChildren))]]]

ScheduleUnderFirstXBlock(s, total) ==   \* mutant: the BID is the first XBLOCK's
  LET sizes == Chunks(total)
      bids  == NewDataBids(s, sizes)
      mids  == AddXBlocks(AddDataBlocks(s, sizes), bids, sizes)
  IN  IF total <= MaxBlockPayload
      THEN [sched |-> AddDataBlock(s, total), bid |-> DataBid(s.nextData)]
      ELSE [sched |-> mids, bid |-> InternalBid(s.nextInternal)]

\* schedulePayload: the blocks for a payload of the given length and the BID
\* that stands for it.
SchedulePayload(s, total) ==
  LET sizes   == Chunks(total)
      bids    == NewDataBids(s, sizes)
      leaves  == AddDataBlocks(s, sizes)
      nGroups == CeilDiv(Len(sizes), MaxXBlockChildren)
      mids    == AddXBlocks(leaves, bids, sizes)
  IN  IF total <= MaxBlockPayload
      THEN [sched |-> AddDataBlock(s, total), bid |-> DataBid(s.nextData)]
      ELSE IF nGroups = 1
      THEN [sched |-> mids, bid |-> InternalBid(leaves.nextInternal)]
      ELSE [sched |-> AddXBlock(mids, 2,
                        [g \in 1..nGroups |-> InternalBid(leaves.nextInternal + g - 1)],
                        total),
            bid |-> InternalBid(mids.nextInternal)]

\* One more of a list of payloads: its blocks, and the entry that refers to them.
AddPiece(acc, piece) ==
  LET payload == SchedulePayload(acc.sched, piece.size)
  IN  [sched   |-> payload.sched,
       entries |-> Append(acc.entries, [nid |-> piece.nid, bid |-> payload.bid])]

\* The payloads of a list of (NID, length) pairs one after the other, and the
\* subnode entries that refer to them.
SchedulePieces(s, pieces) ==
  LET after[i \in 0..Len(pieces)] ==
        IF i = 0 THEN [sched |-> s, entries |-> <<>>]
        ELSE AddPiece(after[i - 1], pieces[i])
  IN  after[Len(pieces)]

\* The place of entry i in the order of NIDs.  std::sort may exchange entries
\* of one NID; here they stay as they are.
PlaceOf(entries, i) ==
  Cardinality({j \in DOMAIN entries : \/ entries[j].nid < entries[i].nid
                                      \/ entries[j].nid = entries[i].nid /\ j <= i})

SortedByNid(entries) ==
  [k \in DOMAIN entries |->
    entries[CHOOSE i \in DOMAIN entries : PlaceOf(entries, i) = k]]

AddSlBlockInPlace(s, entries) ==   \* mutant: the counter stays behind
  [s EXCEPT !.sl = Append(@, [bid |-> InternalBid(s.nextInternal), entries |-> entries])]

\* The SLBLOCK over the entries, sorted by NID.
AddSlBlock(s, entries) ==
  [s EXCEPT
    !.nextInternal = @ + 1,
    !.sl = Append(@, [bid |-> InternalBid(s.nextInternal),
                      entries |-> SortedByNid(entries)])]

\* Every scheduled block in the order of the encode loops: data, X and XX, SL.
AllBids(s) ==
  [i \in DOMAIN s.data |-> s.data[i].bid] \o [i \in DOMAIN s.x |-> s.x[i].bid]
    \o [i \in DOMAIN s.sl |-> s.sl[i].bid]

\* The references from block to block: from where, and to which BID.
BlockReferences(s) ==
  LET Children(i) == {<< <<"child", i, j>>, s.x[i].children[j]>> : j \in DOMAIN s.x[i].children}
      Entries(i)  == {<< <<"entry", i, j>>, s.sl[i].entries[j].bid>> :
                        j \in DOMAIN s.sl[i].entries}
  IN  (UNION {Children(i) : i \in DOMAIN s.x}) \cup (UNION {Entries(i) : i \in DOMAIN s.sl})

-----------------------------------------------------------------------------

(***************************************************************************)
(* What a reader of the blocks sees.                                       *)
(***************************************************************************)
DataSizes(s, bids) ==
  [i \in DOMAIN bids |->
    (CHOOSE b \in ToSet(s.data) : b.bid = bids[i]).size]

XBlockOf(s, bid) == CHOOSE x \in ToSet(s.x) : x.bid = bid

\* The data BIDs below a BID, following one or two levels of XBLOCKs.
LeafBids(s, bid) ==
  IF ~IsInternal(bid) THEN <<bid>>
  ELSE LET top == XBlockOf(s, bid)
       IN  IF top.level = 1 THEN top.children
           ELSE FlattenSeq([i \in DOMAIN top.children |->
                             XBlockOf(s, top.children[i]).children])

LeafSizes(s, bid) == DataSizes(s, LeafBids(s, bid))

=============================================================================
