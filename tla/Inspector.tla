----------------------------- MODULE Inspector -----------------------------
(***************************************************************************)
(* pst_info over the file that the writers leave: the checks runPstInfo    *)
(* makes of the header, of the map and the roots of the two trees, of      *)
(* every block the block tree lists, of every subnode reference of the     *)
(* node tree, and of every data block that looks like a heap.  A page or a *)
(* block has the CRC of its trailer when the file has it whole at that     *)
(* offset.                                                                 *)
(***************************************************************************)
EXTENDS FileWriter

(***************************************************************************)
(* WalkFails(c, bid): in the call c the payload under that BID has room    *)
(* for a heap's header (12 bytes), has the signature of a heap, 0xEC, as   *)
(* its third byte, and does not stand up to walkHnDataBlock.  What a       *)
(* payload holds is left open here; that the walk accepts the contexts     *)
(* that the writers build is for PropertyContext and TableContext to show, *)
(* but a payload may be anything, an attachment or raw text.               *)
(***************************************************************************)
CONSTANT WalkFails(_, _)

\* file.size() in whole units; a torn piece has the length that was written.
InFile(ib, len) == ib + len <= FileSize

\* The pieces that lie at the offset.
At(ib) == {i \in DOMAIN file : file[i].ib = ib}

PagesAt(ib) == {i \in At(ib) : file[i].data.kind \in {"page", "amap"}}

\* checkPageAt: the page is there, and its trailer has its CRC.
PageChecks(ib) == InFile(ib, PageSize) /\ PagesAt(ib) # {}

\* The page of a tree at the offset.
TreePage(ib) == file[CHOOSE i \in PagesAt(ib) : TRUE].data.page

\* A leaf's or a root's child pages.
Children(page) == IF page.level = 0 THEN {} ELSE {e.ref.ib : e \in ToSet(page.entries)}

LeavesUnder(ib) ==
  IF TreePage(ib).level = 0 THEN {ib} ELSE Children(TreePage(ib))

\* verifyLeaf: a block of the entry's length is where the entry has it.  The
\* block's own BID is not looked at.
BlockChecks(entry) ==
  /\ InFile(entry.ib, entry.cb)
  /\ \E i \in At(entry.ib) : file[i].data.kind = "block" /\ file[i].len = entry.cb

\* The walk of the block tree: each child of the root is in the file and has
\* its CRC, and each entry's block checks.
BbtChecks(root) ==
  /\ \A ib \in Children(TreePage(root)) : PageChecks(ib)
  /\ \A ib \in LeavesUnder(root) : \A e \in ToSet(TreePage(ib).entries) : BlockChecks(e)

AllBbtBids(root) ==
  UNION {{e.key : e \in ToSet(TreePage(ib).entries)} : ib \in LeavesUnder(root)}

\* walkNbtPage: a leaf beyond the end of the file is passed over.
NbtChecks(root, bids) ==
  \A ib \in {ib \in LeavesUnder(root) : InFile(ib, PageSize)} :
    \A e \in ToSet(TreePage(ib).entries) : e.bidSub = 0 \/ e.bidSub \in bids

\* A BID's second bit tells the blocks of structure from those of data.
IsData(bid) == bid % 4 < 2

\* The walk of what looks like a heap among the data blocks of the tree.  One
\* that ends behind the end of the file is passed over.
LtpChecks(root) ==
  \A ib \in LeavesUnder(root) : \A e \in ToSet(TreePage(ib).entries) :
    IsData(e.key) /\ InFile(e.ib, e.cb) =>
      \A i \in At(e.ib) : file[i].data.kind = "block" => ~WalkFails(call, file[i].data.bid)

\* runPstInfo ends with "ALL CHECKS PASSED".
PstInfoPasses ==
  /\ FileSize >= HeaderSize /\ file[1].data.kind = "header"
  /\ LET header == file[1].data
         bbt    == header.brefBbt.ib
         nbt    == header.brefNbt.ib
     IN  /\ header.ibFileEof = FileSize
         /\ PageChecks(IbAMap) /\ header.ibAMapLast = IbAMap
         /\ PageChecks(nbt) /\ PageChecks(bbt)
         /\ BbtChecks(bbt)
         /\ NbtChecks(nbt, AllBbtBids(bbt))
         /\ LtpChecks(bbt)

-----------------------------------------------------------------------------

\* What of the plan is in the file whole.
Kept == {file[i].data : i \in Whole}

Complete == \A i \in DOMAIN plan : plan[i].data \in Kept

\* A data block of the call is taken for a heap that is damaged.
TakenForHeap == \E b \in DOMAIN blocks : IsData(blocks[b].bid) /\ WalkFails(call, blocks[b].bid)

(***************************************************************************)
(* pst_info tells a store that was written to its end from what a failing  *)
(* call leaves: once the file has been opened and the call has returned,   *)
(* it passes no file that lacks a piece of the plan, and it passes every   *)
(* file that has them all, also where fclose reports a failure that lost   *)
(* nothing, as long as no payload of the call is taken for a damaged heap. *)
(* It relies on the header, the lengths and the two trees, which are       *)
(* computed apart.                                                         *)
(***************************************************************************)
InspectorTells ==
  phase \in Outcomes \ {"refused", "fopen failed"} =>
    /\ PstInfoPasses => Complete
    /\ Complete /\ ~TakenForHeap => PstInfoPasses

=============================================================================
