----------------------------- MODULE MailStore -----------------------------
(***************************************************************************)
(* writeM7Pst (mail.cpp): the writer for mail.  It numbers all messages    *)
(* before it fills the contents tables that list them, and gives a message *)
(* a tree of subnodes: promoted properties, recipients, attachments.       *)
(***************************************************************************)
EXTENDS StoreWriter

CONSTANTS
  RowsInHeap,     \* contents rows that fit in the table's own heap
  RowsPromoted,   \* and those that fit once the row matrix is a subnode
  RowSize         \* bytes of a row in the matrix (endBm)

ASSUME RowsAssumption == RowSize \in Nat

\* A message of a configuration has, besides kind and body, its attachments:
\* for each the lengths of the properties its PC promotes.
ASSUME MessagesAssumption ==
  \A c \in Configs : \A f \in DOMAIN c.folders : \A i \in DOMAIN c.folders[f].items :
    LET msg == c.folders[f].items[i]
    IN  msg.body \in Seq(Nat) /\ msg.attachments \in Seq(Seq(Nat))

\* The NID of the first promoted property, of the message's PC and of every
\* attachment's alike; the next ones follow at one index each.
SubnodeStart(nid) == 32 * NidIndexOf(nid) + 65536 + 1

Promoted(nid, sizes) ==
  [i \in DOMAIN sizes |-> [nid |-> SubnodeStart(nid) + 32 * (i - 1), size |-> sizes[i]]]

AttachmentPieces(nid, attachments) ==
  FlattenSeq([a \in DOMAIN attachments |->
    <<[nid |-> Nid(Attachment, a), size |-> 1]>> \o Promoted(nid, attachments[a])])

\* The subnodes of a message in the order in which they are scheduled.
Pieces(nid, msg) ==
  Promoted(nid, msg.body) \o <<[nid |-> NID_RECIPIENT_TABLE, size |-> 1]>>
    \o (IF msg.attachments = <<>> THEN <<>>
        ELSE <<[nid |-> NID_ATTACHMENT_TABLE, size |-> 1]>>
               \o AttachmentPieces(nid, msg.attachments))

RowsOfAll(f) == [i \in DOMAIN itemRecs |-> itemRecs[i].nid]   \* mutant: every folder's

\* The rows of a folder's contents table: the NIDs of its messages.
RowsOf(f) ==
  FlattenSeq([i \in DOMAIN itemRecs |->
    IF itemRecs[i].folder = f THEN <<itemRecs[i].nid>> ELSE <<>>])

\* kRowMatrixSubnode, in the contents table's own subnode tree.
RowMatrixSubnode == Nid(Internal, 1)

-----------------------------------------------------------------------------

ContentsTooEarly == <<NormalFolder, HierarchyTable, ContentsTable>>   \* mutant

\* Of a folder first its PC, then the hierarchy and the associated contents
\* table; the contents table has to wait for the messages' NIDs.
FolderNodeTypes == <<NormalFolder, HierarchyTable, AssocContentsTable>>

AllocateMessage ==
  /\ InLoop("messages", Len(AllItems))
  /\ AllocateItem
  /\ IF ret'.ok THEN Iterated ELSE Threw("exhausted")

\* A contents table of which the rows outgrow the heap gets its row matrix as
\* its only subnode, chained through XBLOCKs where that outgrows a block.
ScheduleContents ==
  /\ InLoop("contents", NumFolders)
  /\ LET f      == step + 1
         rows   == RowsOf(f)
         nid    == Store!FolderNode(ContentsTable, folderRecs[f])
         matrix == SchedulePieces(sched,
                     <<[nid |-> RowMatrixSubnode, size |-> Len(rows) * RowSize]>>)
     IN  \/ /\ Len(rows) > RowsPromoted
            /\ Threw("other") /\ UNCHANGED <<nodes, sched, tables>>
         \/ /\ Len(rows) \in (RowsInHeap + 1)..RowsPromoted
            /\ ScheduleNode(AddSlBlock(matrix.sched, matrix.entries), nid, 0,
                            InternalBid(matrix.sched.nextInternal))
            /\ tables' = Append(tables, [nid |-> nid, rows |-> rows])
            /\ Iterated
         \/ /\ Len(rows) <= RowsInHeap
            /\ ScheduleNode(sched, nid, 0, 0)
            /\ tables' = Append(tables, [nid |-> nid, rows |-> rows])
            /\ Iterated
  /\ UNCHANGED <<config, siblings, allocVars, folderRecs, itemRecs>>

\* The subnodes, then the message's own block, then the SLBLOCK that lists the
\* subnodes and the node that refers to both.
ScheduleMessage ==
  /\ InLoop("bodies", Len(itemRecs))
  /\ LET m    == itemRecs[step + 1]
         subs == SchedulePieces(sched, Pieces(m.nid, m.src))
         own  == AddDataBlock(subs.sched, 1)
     IN  IF m.src.kind = "misfit"
         THEN Threw("other") /\ UNCHANGED <<nodes, sched>>
         ELSE /\ sched' = AddSlBlock(own, subs.entries)
              /\ nodes' = Append(nodes, Node(m.nid, folderRecs[m.folder],
                            DataBid(subs.sched.nextData), InternalBid(own.nextInternal)))
              /\ Iterated
  /\ UNCHANGED <<config, siblings, allocVars, folderRecs, itemRecs, tables>>

NextLoop ==
  \/ EndLoop("folders", NumFolders, "folderNodes")
  \/ EndLoop("folderNodes", Len(FolderNodeTypes) * NumFolders, "messages")
  \/ EndLoop("messages", Len(AllItems), "contents")
  \/ EndLoop("contents", NumFolders, "ipm")
  \/ EndLoop("ipm", 1, "bodies")
  \/ EndLoop("bodies", Len(itemRecs), "encode")

Next ==
  \/ RegisterBaselineNids
  \/ AllocateFolder
  \/ RegisterSibling
  \/ ScheduleFolderNode(FolderNodeTypes)
  \/ AllocateMessage
  \/ ScheduleContents
  \/ ScheduleIpmHierarchy
  \/ ScheduleMessage
  \/ NextLoop
  \/ HandOver
  \/ Return

Spec == Init /\ [][Next]_vars

-----------------------------------------------------------------------------

TypeOK ==
  /\ WriterTypeOK
  /\ phase \in {"register", "folders", "folderNodes", "messages", "contents",
                "ipm", "bodies", "encode"} \cup Outcomes

Whole(bid, size) ==
  /\ SumOf(LeafSizes(sched, bid)) = size
  /\ \A i \in DOMAIN LeafSizes(sched, bid) : LeafSizes(sched, bid)[i] <= MaxBlockPayload
  /\ IsInternal(bid) => XBlockOf(sched, bid).lcb = size

Subnode(node, nid) ==
  LET sl == CHOOSE s \in ToSet(sched.sl) : s.bid = node.bidSub
  IN  CHOOSE e \in ToSet(sl.entries) : e.nid = nid

FinishedMessages == {m \in ToSet(itemRecs) : m.nid \in NodeNids}

(***************************************************************************)
(* A reader finds every payload whole: under a finished node, the subnode  *)
(* NID of each promoted property, attachment or row matrix leads through   *)
(* at most two levels of XBLOCKs to chunks that add up to its length, none *)
(* larger than a block, with the totals the XBLOCKs announce.              *)
(***************************************************************************)
PayloadsWhole ==
  /\ \A m \in FinishedMessages : \A p \in ToSet(Pieces(m.nid, m.src)) :
       Whole(Subnode(NodeOf(m.nid), p.nid).bid, p.size)
  /\ \A t \in ToSet(tables) : NodeOf(t.nid).bidSub # 0 =>
       Whole(Subnode(NodeOf(t.nid), RowMatrixSubnode).bid, Len(t.rows) * RowSize)
  /\ \A x \in ToSet(sched.x) :
       /\ Len(x.children) <= MaxXBlockChildren
       /\ x.level = 1 => x.lcb = SumOf(DataSizes(sched, x.children))

IsAscending(rows) == \A i, j \in DOMAIN rows : i < j => rows[i] < rows[j]

(***************************************************************************)
(* The tables and the nodes agree.  Contents tables are written before the *)
(* messages they list and the message nodes name their folder on their     *)
(* own: in a finished store every contents table lists exactly the         *)
(* messages whose node has the folder as parent, in the order of their     *)
(* NIDs, and the IPM subtree's hierarchy lists every configured folder.    *)
(***************************************************************************)
RowsNameTheNodes ==
  phase = "written" =>
    /\ \A folder \in Folders :
         LET rows == RowsOfTable(Store!FolderNode(ContentsTable, folder))
         IN  ToSet(rows) = ChildItems(folder) /\ IsAscending(rows)
    /\ ToSet(RowsOfTable(NID_IPM_HIERARCHY)) = Folders
    /\ Items \subseteq NodeNids

-----------------------------------------------------------------------------

(***************************************************************************)
(* What the documentation says of the writer and its code does not do.     *)
(***************************************************************************)

(***************************************************************************)
(* "every NID (reserved + monotonic-allocated + subnode) MUST be unique"   *)
(* (MILESTONES.md): no SLBLOCK has two entries under one NID.  Every PC of *)
(* a message numbers its promoted properties from the same start.          *)
(***************************************************************************)
SubnodeNidsUnique ==
  \A sl \in ToSet(sched.sl) :
    \A i, j \in DOMAIN sl.entries :
      i # j => sl.entries[i].nid # sl.entries[j].nid

=============================================================================
