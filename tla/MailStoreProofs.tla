--------------------------- MODULE MailStoreProofs ---------------------------
(***************************************************************************)
(* The writer for mail, whatever the configurations, the ceiling on        *)
(* indices, the sizes of blocks and the rows that fit: it implements       *)
(* StoreNodes, leaves no block without its one reference, and its tables   *)
(* agree with its nodes.                                                   *)
(***************************************************************************)
EXTENDS MailStore, StoreWriterProofs

Early == {NormalFolder, HierarchyTable, AssocContentsTable}

(***************************************************************************)
(* Of a folder three nodes are scheduled together, the contents table not  *)
(* among them.                                                             *)
(***************************************************************************)
LEMMA ThreeNodesPerFolder ==
  /\ Distinct(FolderNodeTypes)
  /\ \A i \in DOMAIN FolderNodeTypes : FolderNodeTypes[i] \in Early
  /\ Early \subseteq FolderTypes /\ ContentsTable \in FolderTypes \ Early
BY DEF Distinct, FolderNodeTypes, FolderTypes, Early, NormalFolder, HierarchyTable,
       ContentsTable, AssocContentsTable

(***************************************************************************)
(* The inductive invariant: what the writers share, and that the contents  *)
(* tables of which the iterations are to come are not scheduled.           *)
(***************************************************************************)
ContentsDone == IF phase = "contents" THEN step ELSE 0

ContentsInTurn ==
  phase \in {"messages", "contents"} =>
    OwnNids \subseteq FolderNodesOf(Early)
                        \cup {FolderNode(ContentsTable, folderRecs[j]) : j \in 1..ContentsDone}

IInv ==
  phase \in Running => Common /\ FolderNodesInTurn(FolderNodeTypes) /\ ContentsInTurn

(***************************************************************************)
(* Nothing is scheduled when the writer starts.                            *)
(***************************************************************************)
LEMMA IInvInit ==
  ASSUME Init
  PROVE  IInv /\ Store!Init
<1>1. Store!Init /\ Common /\ phase = "register"
  BY InitIsInit DEF Init
<1> QED BY <1>1 DEF IInv, FolderNodesInTurn, ContentsInTurn

(***************************************************************************)
(* When the folders' nodes are scheduled, no contents table is.            *)
(***************************************************************************)
LEMMA FolderNodesAreEarly ==
  ASSUME Common, FolderNodesInTurn(FolderNodeTypes), phase = "folderNodes"
  PROVE  OwnNids \subseteq FolderNodesOf(Early)
<1> DEFINE types == FolderNodeTypes
           L == Len(types)
<1>1. L \in {3, 4} /\ NumFolders \in Nat /\ step \in Nat /\ step <= L * NumFolders
  BY ThreeNodesPerFolder, Configured DEF Distinct, Common, Control, FolderNodesInTurn
<1>2. DOMAIN folderRecs = 1..NumFolders
  <2>1. PICK S : folderRecs \in Seq(S)
    BY DEF Common, Records, IsSeq
  <2>2. Len(folderRecs) = NumFolders
    BY DEF Common, Control
  <2> QED BY <2>1, <2>2
<1>3. DOMAIN types = 1..L /\ \A i \in 1..L : types[i] \in Early
  BY ThreeNodesPerFolder DEF Distinct
<1> HIDE DEF types, L
<1>4. ASSUME NEW j \in 0..(step - 1)
      PROVE  /\ types[(j % L) + 1] \in Early
             /\ folderRecs[(j \div L) + 1] \in Folders
  <2>1. j \in Nat /\ j < L * NumFolders
    BY <1>1
  <2>2. j \div L \in Nat /\ j % L \in 0..(L - 1) /\ j \div L < NumFolders
    BY <1>1, <2>1, Divisions
  <2>3. (j \div L) + 1 \in DOMAIN folderRecs /\ (j % L) + 1 \in 1..L
    BY <1>1, <1>2, <2>2
  <2> QED BY <1>3, <2>3 DEF Folders, ToSet
<1>5. Enumerated(types, step) \subseteq FolderNodesOf(Early)
  <2> SUFFICES ASSUME NEW j \in 0..(step - 1)
               PROVE  FolderNode(types[(j % L) + 1], folderRecs[(j \div L) + 1])
                        \in FolderNodesOf(Early)
    BY DEF Enumerated, L
  <2> QED BY <1>4 DEF FolderNodesOf
<1> QED BY <1>5 DEF FolderNodesInTurn, types

(***************************************************************************)
(* Every loop begins with nothing scheduled that is its own to schedule.   *)
(***************************************************************************)
LEMMA NextLoopStep ==
  ASSUME Common, FolderNodesInTurn(FolderNodeTypes), ContentsInTurn, NextLoop
  PROVE  UNCHANGED Store!vars /\ IInv'
<1>1. CASE EndLoop("folders", NumFolders, "folderNodes")
  <2>1. phase' = "folderNodes"
    BY <1>1 DEF EndLoop
  <2> QED BY <1>1, <2>1, FolderNodesBegin, ThreeNodesPerFolder DEF IInv, ContentsInTurn
<1>2. CASE EndLoop("folderNodes", Len(FolderNodeTypes) * NumFolders, "messages")
  <2>1. UNCHANGED Store!vars /\ Common'
    BY <1>2, LoopEnded DEF Running, BeforeIpm
  <2>2. phase = "folderNodes" /\ phase' = "messages"
        /\ UNCHANGED <<config, nodes, folderRecs>>
    BY <1>2 DEF EndLoop
  <2>3. OwnNids' \subseteq FolderNodesOf(Early)'
    <3>1. OwnNids \subseteq FolderNodesOf(Early)
      BY <2>2, FolderNodesAreEarly
    <3> QED BY <2>2, <3>1, SMTT(30) DEF OwnNids, FolderNodesOf, Folders
  <2> QED BY <2>1, <2>2, <2>3 DEF IInv, FolderNodesInTurn, ContentsInTurn
<1>3. CASE EndLoop("messages", Len(AllItems), "contents")
  <2>1. UNCHANGED Store!vars /\ Common'
    BY <1>3, LoopEnded DEF Running, BeforeIpm
  <2>2. phase = "messages" /\ phase' = "contents" /\ step' = 0
        /\ UNCHANGED <<config, nodes, folderRecs>>
    BY <1>3 DEF EndLoop
  <2>3. OwnNids \subseteq FolderNodesOf(Early)
    BY <2>2 DEF ContentsInTurn, ContentsDone
  <2>4. OwnNids' \subseteq FolderNodesOf(Early)'
    BY <2>2, <2>3 DEF OwnNids, FolderNodesOf, Folders
  <2> QED BY <2>1, <2>2, <2>4 DEF IInv, FolderNodesInTurn, ContentsInTurn
<1>4. CASE EndLoop("contents", NumFolders, "ipm")
  <2>1. UNCHANGED Store!vars /\ Common'
    BY <1>4, LoopEnded DEF Running, BeforeIpm
  <2> QED BY <1>4, <2>1 DEF EndLoop, IInv, FolderNodesInTurn, ContentsInTurn
<1>5. CASE EndLoop("ipm", 1, "bodies")
  <2>1. UNCHANGED Store!vars /\ Common'
    BY <1>5, LoopEnded DEF Running, BeforeIpm
  <2> QED BY <1>5, <2>1 DEF EndLoop, IInv, FolderNodesInTurn, ContentsInTurn
<1>6. CASE EndLoop("bodies", Len(itemRecs), "encode")
  <2>1. UNCHANGED Store!vars /\ Common'
    BY <1>6, LoopEnded DEF Running, BeforeIpm
  <2> QED BY <1>6, <2>1 DEF EndLoop, IInv, FolderNodesInTurn, ContentsInTurn
<1> QED BY <1>1, <1>2, <1>3, <1>4, <1>5, <1>6 DEF NextLoop

(***************************************************************************)
(* A folder's contents table, scheduled or too large.                      *)
(***************************************************************************)
LEMMA ScheduleContentsStep ==
  ASSUME Common, ContentsInTurn, ScheduleContents
  PROVE  Store!Next /\ IInv'
<1> DEFINE folder == folderRecs[step + 1]
           nid    == Store!FolderNode(ContentsTable, folder)
<1>1. /\ phase = "contents" /\ step < NumFolders /\ step \in Nat /\ NumFolders \in Nat
      /\ UNCHANGED <<config, siblings, allocVars, folderRecs, itemRecs>>
  BY Configured DEF ScheduleContents, InLoop, Common, Control
<1>2. DOMAIN folderRecs = 1..NumFolders
  <2>1. PICK S : folderRecs \in Seq(S)
    BY DEF Common, Records, IsSeq
  <2>2. Len(folderRecs) = NumFolders
    BY <1>1 DEF Common, Control
  <2> QED BY <2>1, <2>2
<1>3. nid = FolderNode(ContentsTable, folder)
  BY SameNames DEF Store!FolderNode, FolderNode
<1>4. CASE \E n : n.nid = nid /\ NodeStep(n)
  <2>1. PICK n : n.nid = nid /\ NodeStep(n)
    BY <1>4
  <2>2. step + 1 \in DOMAIN folderRecs /\ folder \in Folders
    <3>1. step + 1 \in 1..NumFolders
      BY <1>1
    <3> QED BY <1>2, <3>1 DEF Folders, ToSet
  <2>3. FolderNode(ContentsTable, folder) \notin OwnNids
    <3>1. \A g \in Folders : UserNid(NormalFolder, g)
      BY DEF Common, Records, Owners
    <3>2. FolderNode(ContentsTable, folder) \notin FolderNodesOf(Early)
      <4> SUFFICES ASSUME NEW t \in Early, NEW g \in Folders,
                          FolderNode(ContentsTable, folder) = FolderNode(t, g)
                   PROVE  FALSE
        BY DEF FolderNodesOf
      <4>1. t \in FolderTypes /\ ContentsTable \in FolderTypes /\ t # ContentsTable
        BY ThreeNodesPerFolder
      <4> QED BY <2>2, <3>1, <4>1, FolderNodesDiffer
    <3>3. ASSUME NEW j \in 1..step
          PROVE  FolderNode(ContentsTable, folder)
                   # FolderNode(ContentsTable, folderRecs[j])
      <4>1. j \in DOMAIN folderRecs /\ j # step + 1
        BY <1>1, <1>2
      <4>2. folderRecs[j] \in Folders /\ folderRecs[j] # folder
        BY <2>2, <4>1 DEF Folders, ToSet, Common, Records
      <4> QED BY <2>2, <3>1, <4>2, ThreeNodesPerFolder, FolderNodesDiffer
    <3> QED BY <1>1, <3>2, <3>3 DEF ContentsInTurn, ContentsDone
  <2>4. Store!Next /\ Common' /\ OwnNids' = OwnNids \cup {n.nid} /\ Folders' = Folders
    <3>1. ContentsTable \in FolderTypes
      BY ThreeNodesPerFolder
    <3> HIDE DEF folder
    <3> QED BY <1>1, <1>3, <2>1, <2>2, <2>3, <3>1, FolderNodeStep
  <2>5. phase' = "contents" /\ step' = step + 1 /\ folderRecs' = folderRecs
    BY <1>1, <2>1 DEF NodeStep
  <2>6. ContentsInTurn'
    <3> DEFINE Tables(k) == {FolderNode(ContentsTable, folderRecs[j]) : j \in 1..k}
    <3>1. OwnNids \subseteq FolderNodesOf(Early) \cup Tables(step)
      BY <1>1 DEF ContentsInTurn, ContentsDone
    <3>2. Tables(step) \subseteq Tables(step + 1) /\ n.nid \in Tables(step + 1)
      <4>1. \A j \in 1..step : j \in 1..(step + 1)
        BY <1>1
      <4>2. step + 1 \in 1..(step + 1)
        BY <1>1
      <4>3. n.nid = FolderNode(ContentsTable, folderRecs[step + 1])
        BY <1>3, <2>1
      <4> QED BY <4>1, <4>2, <4>3
    <3>3. OwnNids' \subseteq FolderNodesOf(Early) \cup Tables(step + 1)
      BY <2>4, <3>1, <3>2
    <3>4. FolderNodesOf(Early)' = FolderNodesOf(Early)
      BY <2>4 DEF FolderNodesOf
    <3> QED BY <2>5, <3>3, <3>4 DEF ContentsInTurn, ContentsDone
  <2> QED BY <2>4, <2>5, <2>6 DEF IInv, FolderNodesInTurn
<1>5. CASE phase' = "other" /\ UNCHANGED nodes
  <2>1. Store!Next
    BY <1>1, <1>5, Dies
  <2> QED BY <1>5, <2>1 DEF IInv, Running
<1>6. (\E n : n.nid = nid /\ NodeStep(n)) \/ (phase' = "other" /\ UNCHANGED nodes)
  <2> DEFINE rows   == RowsOf(step + 1)
             matrix == SchedulePieces(sched,
                         <<[nid |-> RowMatrixSubnode, size |-> Len(rows) * RowSize]>>)
             withMatrix == AddSlBlock(matrix.sched, matrix.entries)
             promoted == Node(nid, 0, DataBid(withMatrix.nextData),
                              InternalBid(matrix.sched.nextInternal))
             inHeap == Node(nid, 0, DataBid(sched.nextData), 0)
  <2>1. \/ phase' = "other" /\ UNCHANGED nodes
        \/ nodes' = Append(nodes, promoted) /\ step' = step + 1 /\ phase' = phase
        \/ nodes' = Append(nodes, inHeap) /\ step' = step + 1 /\ phase' = phase
    BY DEF ScheduleContents, ScheduleNode, Iterated, Threw
  <2>2. promoted.nid = nid /\ inHeap.nid = nid
    BY DEF Node
  <2> HIDE DEF promoted, inHeap, nid
  <2> QED BY <1>1, <2>1, <2>2 DEF NodeStep
<1> QED BY <1>4, <1>5, <1>6

(***************************************************************************)
(* A message with its subnodes, or one that fits no block.                 *)
(***************************************************************************)
LEMMA ScheduleMessageStep ==
  ASSUME Common, ScheduleMessage
  PROVE  Store!Next /\ IInv'
<1> DEFINE m == itemRecs[step + 1]
<1>1. /\ phase = "bodies" /\ step < Len(itemRecs)
      /\ UNCHANGED <<config, siblings, allocVars, folderRecs, itemRecs>>
  BY DEF ScheduleMessage, InLoop
<1>2. step + 1 \in DOMAIN itemRecs
  <2>1. PICK S : itemRecs \in Seq(S)
    BY DEF Common, Records, IsSeq
  <2>2. step \in Nat
    BY DEF Common, Control
  <2> QED BY <1>1, <2>1, <2>2
<1>3. CASE m.src.kind = "misfit"
  <2>1. phase' = "other" /\ UNCHANGED nodes
    BY <1>3 DEF ScheduleMessage, Threw
  <2>2. Store!Next
    BY <1>1, <2>1, Dies
  <2> QED BY <2>1, <2>2 DEF IInv, Running
<1>4. CASE m.src.kind # "misfit"
  <2> DEFINE subs == SchedulePieces(sched, Pieces(m.nid, m.src))
             own  == AddDataBlock(subs.sched, 1)
             n    == Node(m.nid, folderRecs[m.folder], DataBid(subs.sched.nextData),
                          InternalBid(own.nextInternal))
  <2>1. nodes' = Append(nodes, n) /\ step' = step + 1 /\ phase' = phase
    BY <1>4 DEF ScheduleMessage, Iterated
  <2>2. n.nid = itemRecs[step + 1].nid
    BY DEF Node
  <2> HIDE DEF n
  <2>3. NodeStep(n)
    BY <1>1, <2>1 DEF NodeStep
  <2>4. Store!Next /\ Common'
    BY <1>1, <1>2, <2>2, <2>3, ItemStep
  <2> QED BY <1>1, <2>1, <2>4 DEF IInv, FolderNodesInTurn, ContentsInTurn
<1> QED BY <1>3, <1>4

(***************************************************************************)
(* Every step of a running writer is a step of StoreNodes or none at all.  *)
(***************************************************************************)
LEMMA StepImplements ==
  ASSUME IInv, [Next]_vars
  PROVE  IInv' /\ [Store!Next]_(Store!vars)
<1>1. ASSUME UNCHANGED vars PROVE IInv' /\ UNCHANGED Store!vars
  <2>1. UNCHANGED Store!vars /\ (Common => Common') /\ OwnNids' = OwnNids
        /\ Folders' = Folders
    BY <1>1, Unmoved
  <2>2. UNCHANGED <<config, phase, step, folderRecs>>
    BY <1>1 DEF vars
  <2>3. FolderNodesInTurn(FolderNodeTypes) => FolderNodesInTurn(FolderNodeTypes)'
    BY <2>1, <2>2 DEF FolderNodesInTurn, Enumerated, NumFolders
  <2>4. ContentsInTurn => ContentsInTurn'
    BY <2>1, <2>2 DEF ContentsInTurn, ContentsDone, FolderNodesOf
  <2> QED BY <2>1, <2>2, <2>3, <2>4 DEF IInv
<1>2. ASSUME phase \in Running, Next PROVE IInv' /\ [Store!Next]_(Store!vars)
  <2>0. Common /\ FolderNodesInTurn(FolderNodeTypes) /\ ContentsInTurn
    BY <1>2 DEF IInv
  <2>1. CASE RegisterBaselineNids
    <3>1. Store!Next /\ Common' /\ phase' = "folders"
      BY <2>0, <2>1, BaselineRegistered DEF RegisterBaselineNids
    <3> QED BY <3>1 DEF IInv, FolderNodesInTurn, ContentsInTurn
  <2>2. CASE AllocateFolder
    <3>1. Store!Next /\ (phase' \in Running => Common')
      BY <2>0, <2>2, FolderAllocated
    <3>2. phase' \notin {"folderNodes", "messages", "contents"}
      BY <2>2 DEF AllocateFolder, InLoop, Iterated, Threw
    <3> QED BY <3>1, <3>2 DEF IInv, FolderNodesInTurn, ContentsInTurn
  <2>3. CASE RegisterSibling
    <3>1. Store!Next /\ (phase' \in Running => Common')
      BY <2>0, <2>3, SiblingRegistered
    <3>2. phase' \notin {"folderNodes", "messages", "contents"}
      BY <2>3 DEF RegisterSibling, Threw
    <3> QED BY <3>1, <3>2 DEF IInv, FolderNodesInTurn, ContentsInTurn
  <2>4. CASE ScheduleFolderNode(FolderNodeTypes)
    <3>1. /\ Store!Next /\ Common' /\ FolderNodesInTurn(FolderNodeTypes)'
          /\ phase' = "folderNodes"
      BY <2>0, <2>4, FolderNodeScheduled, ThreeNodesPerFolder
    <3> QED BY <3>1 DEF IInv, ContentsInTurn
  <2>5. CASE AllocateMessage
    <3>1. /\ phase = "messages" /\ AllocateItem
          /\ ret'.ok => phase' = phase /\ step' = step + 1
          /\ ~ret'.ok => phase' = "exhausted" /\ step' = step
      BY <2>5 DEF AllocateMessage, InLoop, Iterated, Threw
    <3>2. step \in Nat /\ step' \in Nat
      BY <2>0, <3>1 DEF Common, Control
    <3>3. Store!Next /\ (phase' \in Running => Common')
      BY <2>0, <3>1, <3>2, ItemAllocated
    <3>4. OwnNids \subseteq FolderNodesOf(Early)
      BY <2>0, <3>1 DEF ContentsInTurn, ContentsDone
    <3>5. OwnNids' \subseteq FolderNodesOf(Early)'
      <4>1. UNCHANGED <<config, nodes, folderRecs>>
        BY <3>1 DEF AllocateItem
      <4>2. OwnNids' = OwnNids /\ Folders' = Folders
        BY <4>1 DEF OwnNids, Folders
      <4> QED BY <3>4, <4>2 DEF FolderNodesOf
    <3>6. phase' # "folderNodes"
      BY <3>1
    <3> QED BY <3>3, <3>5, <3>6 DEF IInv, FolderNodesInTurn, ContentsInTurn
  <2>6. CASE ScheduleContents
    BY <2>0, <2>6, ScheduleContentsStep
  <2>7. CASE ScheduleIpmHierarchy
    <3>1. Store!Next /\ (phase' \in Running => Common')
      BY <2>0, <2>7, IpmHierarchyScheduled
    <3>2. phase' \notin {"folderNodes", "messages", "contents"}
      BY <2>7 DEF ScheduleIpmHierarchy, InLoop, Iterated, Threw
    <3> QED BY <3>1, <3>2 DEF IInv, FolderNodesInTurn, ContentsInTurn
  <2>8. CASE ScheduleMessage
    BY <2>0, <2>8, ScheduleMessageStep
  <2>9. CASE NextLoop
    BY <2>0, <2>9, NextLoopStep
  <2>10. CASE HandOver
    BY <2>0, <2>10, HandedOver DEF IInv
  <2>11. CASE Return
    BY <1>2, <2>11 DEF Return, Outcomes, Running
  <2> QED BY <1>2, <2>1, <2>2, <2>3, <2>4, <2>5, <2>6, <2>7, <2>8, <2>9, <2>10, <2>11 DEF Next
<1>3. ASSUME phase \notin Running, Next PROVE UNCHANGED vars
  <2>1. ~NextLoop
    BY <1>3 DEF NextLoop, EndLoop, Running
  <2>2. Return
    BY <1>3, <2>1 DEF Next, RegisterBaselineNids, AllocateFolder, RegisterSibling,
       ScheduleFolderNode, AllocateMessage, ScheduleContents, ScheduleIpmHierarchy,
       ScheduleMessage, HandOver, InLoop, Running
  <2> QED BY <2>2 DEF Return
<1> QED BY <1>1, <1>2, <1>3

(***************************************************************************)
(* writeM7Pst implements StoreNodes: which NIDs it takes, which nodes it   *)
(* schedules, its contents tables long before the messages they list, and  *)
(* how it fails is one of its behaviours.                                  *)
(***************************************************************************)
THEOREM MailStoreImplementsStoreNodes == Spec => ImplementsStoreNodes
<1>1. Init => IInv /\ Store!Init
  BY IInvInit
<1>2. IInv /\ [Next]_vars => IInv' /\ [Store!Next]_(Store!vars)
  BY StepImplements
<1> QED BY <1>1, <1>2, PTL DEF Spec, ImplementsStoreNodes, Store!Spec

(***************************************************************************)
(* No two nodes of a mail store have one NID, however many folders and     *)
(* messages it is given and wherever the index space ends.                 *)
(***************************************************************************)
THEOREM NodesAreDistinct == Spec => []NodeNidsDistinct
<1> QED BY MailStoreImplementsStoreNodes, NodesApart, PTL

(***************************************************************************)
(* No sibling table of a mail folder is refused its NID.                   *)
(***************************************************************************)
THEOREM SiblingsAreFree == Spec => []SiblingsNeverCollide
<1> QED BY MailStoreImplementsStoreNodes, NodesApart, PTL

-----------------------------------------------------------------------------

(***************************************************************************)
(* What the writer has typed and woven, running or not.  The messages are  *)
(* numbered in their loop and in no other.                                 *)
(***************************************************************************)
Phases ==
  {"register", "folders", "folderNodes", "messages", "contents", "ipm", "bodies", "encode"}
    \cup Outcomes

MessagesInTurn ==
  /\ phase \in {"register", "folders", "folderNodes"} => Len(itemRecs) = 0
  /\ phase = "messages" => Len(itemRecs) = step

TypedStore == Typed /\ phase \in Phases /\ MessagesInTurn

PieceRecord == [nid : Nat, size : Nat]

(***************************************************************************)
(* The promoted properties of a property context.                          *)
(***************************************************************************)
LEMMA PromotedPieces ==
  ASSUME NEW nid \in Nat, NEW sizes \in Seq(Nat)
  PROVE  Promoted(nid, sizes) \in Seq(PieceRecord)
<1> DEFINE n == Len(sizes)
           start == SubnodeStart(nid)
<1>1. n \in Nat /\ DOMAIN sizes = 1..n /\ \A i \in 1..n : sizes[i] \in Nat
  OBVIOUS
<1>2. start \in Nat
  BY DEF SubnodeStart, NidIndexOf
<1> HIDE DEF n, start
<1>3. \A i \in 1..n : start + 32 * (i - 1) \in Nat
  BY <1>1, <1>2
<1>4. Promoted(nid, sizes) = [i \in 1..n |-> [nid |-> start + 32 * (i - 1), size |-> sizes[i]]]
  BY <1>1 DEF Promoted, start
<1>5. Promoted(nid, sizes) \in [1..n -> PieceRecord]
  BY <1>1, <1>3, <1>4 DEF PieceRecord
<1> QED BY <1>1, <1>5

(***************************************************************************)
(* The attachments, each with the properties its context promotes.         *)
(***************************************************************************)
LEMMA AttachmentsArePieces ==
  ASSUME NEW nid \in Nat, NEW attachments \in Seq(Seq(Nat))
  PROVE  AttachmentPieces(nid, attachments) \in Seq(PieceRecord)
<1> DEFINE n == Len(attachments)
           Of(a) == <<[nid |-> Nid(Attachment, a), size |-> 1]>>
                      \o Promoted(nid, attachments[a])
           pieces == [a \in 1..n |-> Of(a)]
<1>1. n \in Nat /\ DOMAIN attachments = 1..n /\ \A a \in 1..n : attachments[a] \in Seq(Nat)
  OBVIOUS
<1>2. ASSUME NEW a \in 1..n PROVE Of(a) \in Seq(PieceRecord)
  <2>1. Promoted(nid, attachments[a]) \in Seq(PieceRecord)
    BY <1>1, PromotedPieces
  <2>2. Nid(Attachment, a) \in Nat
    <3>1. a \in Nat /\ Attachment \in Nat
      BY <1>1 DEF Attachment
    <3> QED BY <3>1, NidIsNat
  <2>3. <<[nid |-> Nid(Attachment, a), size |-> 1]>> \in Seq(PieceRecord)
    BY <2>2 DEF PieceRecord
  <2> QED BY <2>1, <2>3
<1>3. AttachmentPieces(nid, attachments) = FlattenSeq(pieces)
  BY <1>1 DEF AttachmentPieces
<1> HIDE DEF n, Of
<1>4. IsSeq(pieces) /\ Len(pieces) = n
  <2>1. pieces = [a \in 1..n |-> pieces[a]]
    OBVIOUS
  <2> HIDE DEF pieces
  <2> QED BY <1>1, <2>1, FunctionIsVector
<1>5. \A a \in 1..Len(pieces) : pieces[a] \in Seq(PieceRecord)
  BY <1>2, <1>4
<1> HIDE DEF pieces
<1> QED BY <1>3, <1>4, <1>5, Flattened

(***************************************************************************)
(* The subnodes of a message.                                              *)
(***************************************************************************)
LEMMA MessagePieces ==
  ASSUME NEW nid \in Nat, NEW msg, msg.body \in Seq(Nat), msg.attachments \in Seq(Seq(Nat))
  PROVE  Pieces(nid, msg) \in Seq(PieceRecord)
<1> DEFINE props == Promoted(nid, msg.body)
           recipients == <<[nid |-> NID_RECIPIENT_TABLE, size |-> 1]>>
           table == <<[nid |-> NID_ATTACHMENT_TABLE, size |-> 1]>>
           listed == AttachmentPieces(nid, msg.attachments)
           rest == IF msg.attachments = <<>> THEN <<>> ELSE table \o listed
<1>1. props \in Seq(PieceRecord) /\ listed \in Seq(PieceRecord)
  BY PromotedPieces, AttachmentsArePieces
<1>2. recipients \in Seq(PieceRecord) /\ table \in Seq(PieceRecord)
  BY DEF PieceRecord, NID_RECIPIENT_TABLE, NID_ATTACHMENT_TABLE
<1>3. Pieces(nid, msg) = props \o recipients \o rest
  BY DEF Pieces
<1> HIDE DEF props, recipients, table, listed
<1>4. rest \in Seq(PieceRecord)
  BY <1>1, <1>2
<1> HIDE DEF rest
<1> QED BY <1>1, <1>2, <1>3, <1>4

(***************************************************************************)
(* Such a list is what SchedulePieces takes.                               *)
(***************************************************************************)
LEMMA PiecesSchedulable ==
  ASSUME NEW pieces \in Seq(PieceRecord)
  PROVE  /\ IsSeq(pieces)
         /\ \A i \in 1..Len(pieces) : pieces[i].nid \in Nat /\ pieces[i].size \in Nat
<1>1. \A i \in 1..Len(pieces) : pieces[i] \in PieceRecord
  OBVIOUS
<1> QED BY <1>1 DEF IsSeq, PieceRecord

(***************************************************************************)
(* The rows of a contents table.                                           *)
(***************************************************************************)
LEMMA RowsAreNids ==
  ASSUME Typed, NEW f
  PROVE  RowsOf(f) \in Seq(Nat)
<1> DEFINE n == Len(itemRecs)
           Row(i) == IF itemRecs[i].folder = f THEN <<itemRecs[i].nid>> ELSE <<>>
           rows == [i \in 1..n |-> Row(i)]
<1>1. n \in Nat /\ DOMAIN itemRecs = 1..n
  BY Vector DEF Typed, ItemsNumbered
<1>2. ASSUME NEW i \in 1..n PROVE Row(i) \in Seq(Nat)
  <2>1. itemRecs[i].nid \in Nat
    BY DEF Typed, ItemsNumbered
  <2> QED BY <2>1
<1>3. RowsOf(f) = FlattenSeq(rows)
  BY <1>1 DEF RowsOf
<1> HIDE DEF n, Row
<1>4. IsSeq(rows) /\ Len(rows) = n
  <2>1. rows = [i \in 1..n |-> rows[i]]
    OBVIOUS
  <2> HIDE DEF rows
  <2> QED BY <1>1, <2>1, FunctionIsVector
<1>5. \A i \in 1..Len(rows) : rows[i] \in Seq(Nat)
  BY <1>2, <1>4
<1> HIDE DEF rows
<1> QED BY <1>3, <1>4, <1>5, Flattened

-----------------------------------------------------------------------------

(***************************************************************************)
(* Subnodes without their SLBLOCK.                                         *)
(***************************************************************************)
LEMMA PiecesAwaitSlBlock ==
  ASSUME NEW s, NEW waiting, Web(s, waiting), NEW pieces \in Seq(PieceRecord),
         NEW u, NEW entries, u = SchedulePieces(s, pieces).sched,
         entries = SchedulePieces(s, pieces).entries
  PROVE  SubnodesWait(s, waiting, u, entries)
<1> DEFINE acc == SchedulePieces(s, pieces)
<1>1. IsSeq(pieces) /\ \A i \in 1..Len(pieces) : pieces[i].nid \in Nat /\ pieces[i].size \in Nat
  BY PiecesSchedulable
<1>2. PiecesWait(s, waiting, acc)
  BY <1>1, PiecesScheduled
<1> HIDE DEF acc
<1>3. SubnodesWait(s, waiting, acc.sched, acc.entries)
  BY <1>2, PiecesAreSubnodes
<1> QED BY <1>3 DEF acc

(***************************************************************************)
(* A node with one or more subnodes, the SLBLOCK first.                    *)
(***************************************************************************)
LEMMA NodeAfterSubnodes ==
  ASSUME NodesWritten, NEW nid \in Nat, NEW parent \in Nat, NEW pieces \in Seq(PieceRecord),
         NEW u, NEW entries, u = SchedulePieces(sched, pieces).sched,
         entries = SchedulePieces(sched, pieces).entries,
         ScheduleNode(AddSlBlock(u, entries), nid, parent, InternalBid(u.nextInternal))
  PROVE  NodesWritten'
<1> DEFINE waiting == Targets(NodeReferences)
           t == AddSlBlock(u, entries)
           sub == InternalBid(u.nextInternal)
           n == Node(nid, parent, DataBid(t.nextData), sub)
<1>1. Web(sched, waiting) /\ waiting \subseteq Bids(sched) /\ Woven
  BY DEF NodesWritten, Woven, Web
<1> HIDE DEF waiting
<1>2. nodes' = Append(nodes, n)
  BY DEF ScheduleNode
<1>3. SubnodesWait(sched, waiting, u, entries)
  BY <1>1, PiecesAwaitSlBlock
<1>4. SubnodeTree(sched, waiting, t, sub)
  BY <1>1, <1>3, SubnodesListed
<1>5. ScheduleNode(t, nid, parent, sub)
  OBVIOUS
<1> HIDE DEF t, sub
<1>6. /\ Web(t, waiting \cup {sub})
      /\ sub \notin Bids(sched) /\ sub \in Nat \ {0}
      /\ Bids(sched) \cup {sub} \subseteq Bids(t)
  BY <1>4 DEF SubnodeTree
<1>7. Woven'
  <2> DEFINE subs == {sub}
  <2>1. subs = IF sub = 0 THEN {} ELSE {sub}
    BY <1>6
  <2>2. Web(t, waiting \cup subs) /\ Bids(sched) \cup subs \subseteq Bids(t)
        /\ subs \cap Bids(sched) = {}
    BY <1>6
  <2> HIDE DEF subs
  <2>3. Web(t, Targets(NodeReferences) \cup subs)
    BY <2>2 DEF waiting
  <2> QED BY <1>1, <1>5, <2>1, <2>2, <2>3, ScheduleNodeWoven
<1>8. DataBid(t.nextData) \in Nat
  <2> DEFINE nd == Len(t.data)
  <2>1. nd \in Nat /\ t.nextData = nd + 1
    BY <1>6, Vector DEF Web, Tidy
  <2> HIDE DEF nd
  <2> QED BY <2>1 DEF DataBid
<1>9. n \in NodeRecord
  BY <1>6, <1>8 DEF Node, NodeRecord
<1> HIDE DEF n
<1> QED BY <1>2, <1>7, <1>9, NodeWritten

(***************************************************************************)
(* A node with one or more subnodes, its own block before the SLBLOCK.     *)
(***************************************************************************)
LEMMA NodeBeforeSubnodes ==
  ASSUME NodesWritten, NEW nid \in Nat, NEW parent \in Nat, NEW pieces \in Seq(PieceRecord),
         NEW u, NEW entries, u = SchedulePieces(sched, pieces).sched,
         entries = SchedulePieces(sched, pieces).entries,
         NEW own, own = AddDataBlock(u, 1),
         sched' = AddSlBlock(own, entries),
         nodes' = Append(nodes, Node(nid, parent, DataBid(u.nextData),
                                     InternalBid(own.nextInternal)))
  PROVE  NodesWritten'
<1> DEFINE waiting == Targets(NodeReferences)
           data == DataBid(u.nextData)
           sub == InternalBid(own.nextInternal)
           n == Node(nid, parent, data, sub)
<1>1. Web(sched, waiting) /\ waiting \subseteq Bids(sched) /\ Woven
  BY DEF NodesWritten, Woven, Web
<1> HIDE DEF waiting
<1>5. SubnodesWait(sched, waiting, u, entries)
  BY <1>1, PiecesAwaitSlBlock
<1>6. nodes' = Append(nodes, n)
  OBVIOUS
<1>7. data = DataBid(u.nextData) /\ sub = InternalBid(own.nextInternal)
  OBVIOUS
<1> HIDE DEF data, sub
<1>8. /\ Web(sched', (waiting \cup {sub}) \cup {data})
      /\ sub \notin Bids(sched) /\ sub \in Nat \ {0}
      /\ data \notin Bids(sched) /\ data \in Nat /\ data # sub
  BY <1>1, <1>5, <1>7, SubnodesListedLater
<1>9. n \in NodeRecord /\ n.bidData = data /\ n.bidSub = sub
  BY <1>8 DEF Node, NodeRecord
<1> HIDE DEF n
<1>10. Woven'
  <2> DEFINE subs == {sub}
  <2>1. subs = IF n.bidSub = 0 THEN {} ELSE {n.bidSub}
    BY <1>8, <1>9
  <2>2. n.bidData \notin Bids(sched) /\ subs \cap Bids(sched) = {} /\ n.bidData \notin subs
    BY <1>8, <1>9
  <2>3. Web(sched', (Targets(NodeReferences) \cup subs) \cup {n.bidData})
    BY <1>8, <1>9 DEF waiting
  <2> HIDE DEF subs
  <2> QED BY <1>1, <1>6, <2>1, <2>2, <2>3, NodeWoven
<1> QED BY <1>6, <1>9, <1>10, NodeWritten

-----------------------------------------------------------------------------

(***************************************************************************)
(* A message's NID.                                                        *)
(***************************************************************************)
LEMMA AllocateMessageTyped ==
  ASSUME TypedStore, AllocateMessage
  PROVE  TypedStore'
<1>0. Typed /\ phase = "messages" /\ Len(itemRecs) = step /\ step < Len(AllItems)
  BY DEF TypedStore, MessagesInTurn, AllocateMessage, InLoop
<1>1. /\ AllocateItem
      /\ \/ ret'.ok /\ step' = step + 1 /\ phase' = phase
         \/ ~ret'.ok /\ step' = step /\ phase' = "exhausted"
  BY DEF AllocateMessage, Iterated, Threw
<1>2. step' \in Nat
  BY <1>0, <1>1 DEF Typed
<1>3. Typed'
  BY <1>0, <1>1, <1>2, AllocateItemTyped
<1>4. CASE ret'.ok /\ phase' = phase /\ step' = step + 1
  <2>1. \E r : itemRecs' = Append(itemRecs, r)
    BY <1>1, <1>4 DEF AllocateItem
  <2>2. PICK S : itemRecs \in Seq(S)
    BY <1>0 DEF Typed, ItemsNumbered, IsSeq
  <2>3. Len(itemRecs') = Len(itemRecs) + 1
    BY <2>1, <2>2, AppendFacts
  <2> QED BY <1>0, <1>3, <1>4, <2>3 DEF TypedStore, MessagesInTurn, Phases
<1>5. CASE phase' = "exhausted"
  BY <1>3, <1>5 DEF TypedStore, MessagesInTurn, Phases, Outcomes
<1> QED BY <1>1, <1>4, <1>5

(***************************************************************************)
(* A folder's contents table, its row matrix in a subnode or not.          *)
(***************************************************************************)
LEMMA ScheduleContentsTyped ==
  ASSUME Typed, Common, ScheduleContents
  PROVE  Typed' /\ phase' \in {"contents", "other"}
<1> DEFINE f      == step + 1
           rows   == RowsOf(f)
           nid    == Store!FolderNode(ContentsTable, folderRecs[f])
           pieces == <<[nid |-> RowMatrixSubnode, size |-> Len(rows) * RowSize]>>
           u      == SchedulePieces(sched, pieces).sched
           entries == SchedulePieces(sched, pieces).entries
<1>1. /\ phase = "contents" /\ step < NumFolders /\ step \in Nat /\ NumFolders \in Nat
      /\ UNCHANGED <<config, siblings, allocVars, folderRecs, itemRecs>>
  BY Configured DEF ScheduleContents, InLoop, Common, Control
<1>2. \/ step' = step /\ phase' = "other" /\ UNCHANGED <<nodes, sched>>
      \/ /\ ScheduleNode(AddSlBlock(u, entries), nid, 0, InternalBid(u.nextInternal))
         /\ step' = step + 1 /\ phase' = phase
      \/ ScheduleNode(sched, nid, 0, 0) /\ step' = step + 1 /\ phase' = phase
  BY DEF ScheduleContents, Threw, Iterated
<1>3. nid \in Nat
  <2>1. f \in 1..NumFolders /\ Len(folderRecs) = NumFolders
    BY <1>1 DEF Common, Control
  <2> HIDE DEF f
  <2>2. folderRecs[f] \in Nat /\ ContentsTable \in Nat
    BY <2>1, FolderTypedAt DEF ContentsTable
  <2> QED BY <2>2, FolderNodeIsNat
<1>4. pieces \in Seq(PieceRecord)
  <2> DEFINE len == Len(rows)
  <2>1. len \in Nat
    BY RowsAreNids
  <2>2. RowMatrixSubnode \in Nat
    <3>1. Internal \in Nat /\ 1 \in Nat
      BY DEF Internal
    <3> QED BY <3>1, NidIsNat DEF RowMatrixSubnode
  <2> HIDE DEF len
  <2>3. len * RowSize \in Nat
    BY <2>1, RowsAssumption
  <2> QED BY <2>2, <2>3 DEF PieceRecord, len
<1> HIDE DEF f, rows, nid, pieces
<1>5. NodesWritten'
  <2>1. CASE UNCHANGED <<nodes, sched>>
    BY <2>1, NodesKept DEF Typed
  <2>2. CASE ScheduleNode(AddSlBlock(u, entries), nid, 0, InternalBid(u.nextInternal))
    <3>1. u = SchedulePieces(sched, pieces).sched
          /\ entries = SchedulePieces(sched, pieces).entries
      OBVIOUS
    <3>2. 0 \in Nat /\ NodesWritten
      BY DEF Typed
    <3> HIDE DEF u, entries
    <3> QED BY <1>3, <1>4, <2>2, <3>1, <3>2, NodeAfterSubnodes
  <2>3. CASE ScheduleNode(sched, nid, 0, 0)
    <3>1. 0 \in Nat /\ NodesWritten
      BY DEF Typed
    <3> QED BY <1>3, <2>3, <3>1, PlainNodeWritten
  <2> QED BY <1>2, <2>1, <2>2, <2>3
<1>6. step' \in Nat
  BY <1>1, <1>2
<1> QED BY <1>1, <1>2, <1>5, <1>6, NodeDone

(***************************************************************************)
(* A message with its subnodes.                                            *)
(***************************************************************************)
LEMMA ScheduleMessageTyped ==
  ASSUME Typed, Common, ScheduleMessage
  PROVE  Typed' /\ phase' \in {"bodies", "other"}
<1> DEFINE i       == step + 1
           m       == itemRecs[i]
           pieces  == Pieces(m.nid, m.src)
           parent  == folderRecs[m.folder]
           u       == SchedulePieces(sched, pieces).sched
           entries == SchedulePieces(sched, pieces).entries
           own     == AddDataBlock(u, 1)
           n       == Node(m.nid, parent, DataBid(u.nextData), InternalBid(own.nextInternal))
<1>1. /\ phase = "bodies" /\ step < Len(itemRecs) /\ step \in Nat /\ Len(itemRecs) \in Nat
      /\ UNCHANGED <<config, siblings, allocVars, folderRecs, itemRecs>>
  <2>1. Len(itemRecs) \in Nat
    BY Vector DEF Typed, ItemsNumbered
  <2> QED BY <2>1 DEF ScheduleMessage, InLoop, Typed
<1>2. \/ step' = step /\ phase' = "other" /\ UNCHANGED <<nodes, sched>>
      \/ /\ sched' = AddSlBlock(own, entries) /\ nodes' = Append(nodes, n)
         /\ step' = step + 1 /\ phase' = phase
  BY DEF ScheduleMessage, Threw, Iterated
<1>3. i \in 1..Len(itemRecs)
  BY <1>1
<1> HIDE DEF i
<1>4. /\ m.nid \in Nat /\ m.folder \in 1..NumFolders
      /\ \E k \in DOMAIN config.folders[m.folder].items :
           m.src = config.folders[m.folder].items[k]
  BY <1>3, ItemTypedAt
<1>5. m.src.body \in Seq(Nat) /\ m.src.attachments \in Seq(Seq(Nat))
  <2>1. PICK k \in DOMAIN config.folders[m.folder].items :
          m.src = config.folders[m.folder].items[k]
    BY <1>4
  <2>2. config \in Configs /\ m.folder \in DOMAIN config.folders
    BY <1>4, AllItemsFacts DEF Typed
  <2> HIDE DEF m
  <2> QED BY <2>1, <2>2, MessagesAssumption
<1>6. parent \in Nat
  <2>1. Len(folderRecs) = NumFolders
    BY <1>1 DEF Common, Control
  <2> HIDE DEF m
  <2> QED BY <1>4, <2>1, FolderTypedAt
<1>7. pieces \in Seq(PieceRecord)
  <2> HIDE DEF m
  <2> QED BY <1>4, <1>5, MessagePieces
<1> HIDE DEF m, pieces, parent
<1>8. NodesWritten'
  <2>1. CASE UNCHANGED <<nodes, sched>>
    BY <2>1, NodesKept DEF Typed
  <2>2. CASE sched' = AddSlBlock(own, entries) /\ nodes' = Append(nodes, n)
    <3>1. u = SchedulePieces(sched, pieces).sched
          /\ entries = SchedulePieces(sched, pieces).entries
      OBVIOUS
    <3> HIDE DEF u, entries
    <3>2. own = AddDataBlock(u, 1)
      OBVIOUS
    <3> HIDE DEF own
    <3>3. nodes' = Append(nodes, Node(m.nid, parent, DataBid(u.nextData),
                                      InternalBid(own.nextInternal)))
      BY <2>2
    <3>4. NodesWritten /\ sched' = AddSlBlock(own, entries)
      BY <2>2 DEF Typed
    <3>5. m.nid \in Nat
      BY <1>4
    <3> DEFINE id == m.nid
    <3>6. id \in Nat /\ nodes' = Append(nodes, Node(id, parent, DataBid(u.nextData),
                                      InternalBid(own.nextInternal)))
      BY <3>3, <3>5
    <3> HIDE DEF id
    <3> QED BY <1>6, <1>7, <3>1, <3>2, <3>4, <3>6, NodeBeforeSubnodes
  <2> QED BY <1>2, <2>1, <2>2
<1>9. step' \in Nat
  BY <1>1, <1>2
<1> QED BY <1>1, <1>2, <1>8, <1>9, NodeDone

(***************************************************************************)
(* No step leaves a block unreferenced, refers to one twice or makes up a  *)
(* type.                                                                   *)
(***************************************************************************)
LEMMA StoreStaysTyped ==
  ASSUME IInv, TypedStore, [Next]_vars
  PROVE  TypedStore'
<1>0. Typed
  BY DEF TypedStore
<1>1. CASE UNCHANGED vars
  <2>1. Typed'
    BY <1>0, <1>1, UnchangedTyped
  <2> QED BY <1>1, <2>1 DEF TypedStore, vars, Phases, MessagesInTurn
<1>2. CASE phase \notin Running /\ Next
  <2>1. ~NextLoop
    BY <1>2 DEF NextLoop, EndLoop, Running
  <2>2. Return
    BY <1>2, <2>1 DEF Next, RegisterBaselineNids, AllocateFolder, RegisterSibling,
       ScheduleFolderNode, AllocateMessage, ScheduleContents, ScheduleIpmHierarchy,
       ScheduleMessage, HandOver, InLoop, Running
  <2>3. UNCHANGED vars
    BY <2>2 DEF Return
  <2> QED BY <1>1, <2>3
<1>3. CASE phase \in Running /\ Next
  <2>0. Common
    BY <1>3 DEF IInv
  <2>1. CASE RegisterBaselineNids
    <3>1. phase = "register" /\ phase' = "folders" /\ itemRecs' = itemRecs
      BY <2>1 DEF RegisterBaselineNids
    <3>2. Typed'
      BY <1>0, <2>1, RegisterBaselineNidsTyped
    <3> QED BY <3>1, <3>2 DEF TypedStore, Phases, MessagesInTurn
  <2>2. CASE AllocateFolder
    <3>1. phase = "folders" /\ phase' \in {"folders", "exhausted"} /\ itemRecs' = itemRecs
      BY <2>2 DEF AllocateFolder, InLoop, Iterated, Threw
    <3>2. Typed'
      BY <1>0, <2>0, <2>2, AllocateFolderTyped
    <3> QED BY <3>1, <3>2 DEF TypedStore, Phases, Outcomes, MessagesInTurn
  <2>3. CASE RegisterSibling
    <3>1. phase = "folders" /\ phase' \in {"folders", "collision"} /\ itemRecs' = itemRecs
      BY <2>3 DEF RegisterSibling, Threw
    <3>2. Typed'
      BY <1>0, <2>0, <2>3, RegisterSiblingTyped
    <3> QED BY <3>1, <3>2 DEF TypedStore, Phases, Outcomes, MessagesInTurn
  <2>4. CASE ScheduleFolderNode(FolderNodeTypes)
    <3>1. phase = "folderNodes" /\ phase' = "folderNodes" /\ itemRecs' = itemRecs
      BY <2>4 DEF ScheduleFolderNode, InLoop, Iterated
    <3>2. Typed'
      BY <1>0, <2>0, <2>4, ThreeNodesPerFolder, ScheduleFolderNodeTyped
    <3> QED BY <3>1, <3>2 DEF TypedStore, Phases, MessagesInTurn
  <2>5. CASE AllocateMessage
    BY <2>5, AllocateMessageTyped
  <2>6. CASE ScheduleContents
    BY <1>0, <2>0, <2>6, ScheduleContentsTyped DEF TypedStore, Phases, Outcomes, MessagesInTurn
  <2>7. CASE ScheduleIpmHierarchy
    <3>1. phase' \in {"ipm", "other"}
      BY <2>7 DEF ScheduleIpmHierarchy, InLoop, Iterated, Threw
    <3>2. Typed'
      BY <1>0, <2>7, ScheduleIpmHierarchyTyped
    <3> QED BY <3>1, <3>2 DEF TypedStore, Phases, Outcomes, MessagesInTurn
  <2>8. CASE ScheduleMessage
    BY <1>0, <2>0, <2>8, ScheduleMessageTyped DEF TypedStore, Phases, Outcomes, MessagesInTurn
  <2>9. CASE NextLoop
    <3>1. Typed'
      BY <1>0, <2>9, EndLoopTyped DEF NextLoop
    <3>2. phase' \in Phases /\ MessagesInTurn'
      BY <2>9 DEF TypedStore, NextLoop, EndLoop, Phases, MessagesInTurn
    <3> QED BY <3>1, <3>2 DEF TypedStore, Phases
  <2>10. CASE HandOver
    <3>1. phase' \in Outcomes
      BY <2>10 DEF HandOver, Outcomes
    <3>2. Typed'
      BY <1>0, <2>10, HandOverTyped
    <3> QED BY <3>1, <3>2 DEF TypedStore, Phases, Outcomes, MessagesInTurn
  <2>11. CASE Return
    BY <1>3, <2>11 DEF Return, Outcomes, Running
  <2> QED BY <1>3, <2>1, <2>2, <2>3, <2>4, <2>5, <2>6, <2>7, <2>8, <2>9, <2>10, <2>11 DEF Next
<1> QED BY <1>1, <1>2, <1>3

(***************************************************************************)
(* Whatever the configurations, a writer's state has its types and its     *)
(* blocks are woven into its nodes.                                        *)
(***************************************************************************)
LEMMA StoreTypedAlways == Spec => []TypedStore
<1>1. Init => IInv /\ TypedStore
  <2> SUFFICES ASSUME Init PROVE IInv /\ TypedStore
    OBVIOUS
  <2>1. phase = "register" /\ Len(itemRecs) = 0
    BY DEF Init
  <2> QED BY <2>1, IInvInit, InitTyped DEF TypedStore, Phases, MessagesInTurn
<1>2. IInv /\ TypedStore /\ [Next]_vars => IInv' /\ TypedStore'
  BY StepImplements, StoreStaysTyped
<1> QED BY <1>1, <1>2, PTL DEF Spec

(***************************************************************************)
(* Type correctness of the writer for mail.                                *)
(***************************************************************************)
THEOREM TypeCorrect == Spec => []TypeOK
<1>1. TypedStore => TypeOK
  BY TypedIsTypeOK DEF TypedStore, Phases, TypeOK
<1> QED BY <1>1, StoreTypedAlways, PTL

(***************************************************************************)
(* No block of a mail store is lost or shared: between two iterations each *)
(* is referred to once, from a node, an SLBLOCK or an XBLOCK, whatever the *)
(* lengths of bodies, attachments and row matrices.                        *)
(***************************************************************************)
THEOREM NoBlockLostOrShared == Spec => []BlocksReferencedOnce
<1>1. TypedStore => BlocksReferencedOnce
  BY WovenBlocks DEF TypedStore, Typed, NodesWritten
<1> QED BY <1>1, StoreTypedAlways, PTL

(***************************************************************************)
(* The header's bidNextB, computed from the number of blocks alone, is     *)
(* above the BID of every block.                                           *)
(***************************************************************************)
THEOREM HeaderBidIsFree == Spec => []NextBidIsFree
<1>1. TypedStore => NextBidIsFree
  BY WovenBlocks DEF TypedStore, Typed, NodesWritten
<1> QED BY <1>1, StoreTypedAlways, PTL

(***************************************************************************)
(* Items are numbered in ascending order.                                  *)
(***************************************************************************)
NumberedInOrder ==
  /\ \A i \in 1..Len(itemRecs) : \E idx \in Nat :
       idx < nextIndex[NormalMessage] /\ itemRecs[i].nid = Nid(NormalMessage, idx)
  /\ \A i, j \in 1..Len(itemRecs) : i < j => itemRecs[i].nid < itemRecs[j].nid

(***************************************************************************)
(* An allocation that succeeds takes an index from the counter on and      *)
(* leaves the counter above it.                                            *)
(***************************************************************************)
LEMMA CounterPasses ==
  ASSUME AllocatorTyped, NEW nt \in {NormalFolder, NormalMessage},
         Store!Alloc!Allocate(nt), ret'.ok
  PROVE  \E idx \in Nat : /\ nextIndex[nt] <= idx /\ idx < MaxNidIndex
                          /\ ret'.nid = Nid(nt, idx) /\ nextIndex'[nt] = idx + 1
<1>0. nt \in 0..31
  BY DEF NormalFolder, NormalMessage
<1>1. ~Store!Alloc!Exhausted(nt)
  <2>1. ASSUME Store!Alloc!Exhausted(nt) PROVE FALSE
    <3>1. ret' = [ok |-> FALSE, nid |-> 0]
      BY <2>1 DEF Store!Alloc!Exhausted, Store!Alloc!Threw
    <3> QED BY <3>1
  <2> QED BY <2>1
<1>2. Store!Alloc!IsValidNidType(nt)
  BY DEF Store!Alloc!IsValidNidType, Store!Alloc!ValidNidTypes, NormalFolder, NormalMessage
<1>3. PICK idx \in Store!Alloc!Remaining(nt) : Store!Alloc!Take(nt, idx)
  BY <1>1, <1>2 DEF Store!Alloc!Allocate
<1>4. nextIndex[nt] \in Nat
  BY <1>0 DEF AllocatorTyped
<1>5. idx \in Nat /\ nextIndex[nt] <= idx /\ idx < MaxNidIndex
  BY <1>4, Ceiling DEF Store!Alloc!Remaining
<1>6. /\ nextIndex' = [nextIndex EXCEPT ![nt] = idx + 1]
      /\ ret' = [ok |-> TRUE, nid |-> Nid(nt, idx)]
  BY <1>3, SameNames DEF Store!Alloc!Take, Store!Alloc!FirstFree, Store!Alloc!Returned
<1>7. nextIndex'[nt] = idx + 1
  BY <1>0, <1>6 DEF AllocatorTyped
<1> QED BY <1>5, <1>6, <1>7

(***************************************************************************)
(* So each item gets a NID above those of the items before it.             *)
(***************************************************************************)
LEMMA ItemNumberedInOrder ==
  ASSUME AllocatorTyped, IsSeq(itemRecs), NumberedInOrder, AllocateItem, ret'.ok
  PROVE  NumberedInOrder'
<1> DEFINE len == Len(itemRecs)
<1>1. Store!Alloc!Allocate(NormalMessage)
      /\ \E r : r.nid = ret'.nid /\ itemRecs' = Append(itemRecs, r)
  <2> DEFINE m == AllItems[Len(itemRecs) + 1]
             r == [nid |-> ret'.nid, folder |-> m.folder, src |-> m.src]
  <2>1. r.nid = ret'.nid
    OBVIOUS
  <2>2. itemRecs' = Append(itemRecs, r)
    BY DEF AllocateItem
  <2> HIDE DEF r
  <2> QED BY <2>1, <2>2 DEF AllocateItem
<1>2. PICK r : r.nid = ret'.nid /\ itemRecs' = Append(itemRecs, r)
  BY <1>1
<1>3. PICK S : itemRecs \in Seq(S)
  BY DEF IsSeq
<1>4. /\ len \in Nat /\ Len(itemRecs') = len + 1
      /\ \A i \in 1..len : itemRecs'[i] = itemRecs[i]
      /\ itemRecs'[len + 1] = r
  BY <1>2, <1>3, AppendFacts
<1>5. PICK idx \in Nat : /\ nextIndex[NormalMessage] <= idx /\ idx < MaxNidIndex
                         /\ ret'.nid = Nid(NormalMessage, idx)
                         /\ nextIndex'[NormalMessage] = idx + 1
  BY <1>1, CounterPasses
<1>6. NormalMessage \in 0..31 /\ nextIndex[NormalMessage] \in Nat
  BY DEF NormalMessage, AllocatorTyped
<1> DEFINE next == nextIndex[NormalMessage]
           next1 == nextIndex'[NormalMessage]
<1>7. /\ \A i \in 1..len : \E j \in Nat : j < next /\ itemRecs[i].nid = Nid(NormalMessage, j)
      /\ \A i, j \in 1..len : i < j => itemRecs[i].nid < itemRecs[j].nid
      /\ next \in Nat /\ next1 = idx + 1 /\ next <= idx
  BY <1>5, <1>6 DEF NumberedInOrder
<1> HIDE DEF len, next, next1
<1>8. \A i \in 1..(len + 1) : i \in 1..len \/ i = len + 1
  BY <1>4
<1>9. ASSUME NEW i \in 1..(len + 1)
      PROVE  \E j \in Nat : j < next1 /\ itemRecs'[i].nid = Nid(NormalMessage, j)
  <2>1. CASE i \in 1..len
    <3>1. PICK j \in Nat : j < next /\ itemRecs[i].nid = Nid(NormalMessage, j)
      BY <1>7, <2>1
    <3>2. j < next1
      BY <1>7, <3>1
    <3> QED BY <1>4, <2>1, <3>1, <3>2
  <2>2. CASE i = len + 1
    BY <1>2, <1>4, <1>5, <1>7, <2>2
  <2> QED BY <1>8, <2>1, <2>2
<1>10. ASSUME NEW i \in 1..len PROVE itemRecs[i].nid < r.nid
  <2>1. PICK j \in Nat : j < next /\ itemRecs[i].nid = Nid(NormalMessage, j)
    BY <1>7
  <2>2. j < idx /\ j < IndexSpace /\ idx < IndexSpace
    BY <1>5, <1>7, <2>1, Ceiling
  <2>3. /\ Nid(NormalMessage, j) = 32 * j + NormalMessage
        /\ Nid(NormalMessage, idx) = 32 * idx + NormalMessage
    BY <1>6, <2>2, NidEncoding
  <2> QED BY <1>2, <1>5, <1>6, <2>1, <2>2, <2>3
<1>11. ASSUME NEW i \in 1..(len + 1), NEW j \in 1..(len + 1), i < j
       PROVE  itemRecs'[i].nid < itemRecs'[j].nid
  <2>1. i \in 1..len
    BY <1>4, <1>11
  <2>2. CASE j \in 1..len
    BY <1>4, <1>7, <1>11, <2>1, <2>2
  <2>3. CASE j = len + 1
    BY <1>4, <1>10, <2>1, <2>3
  <2> QED BY <1>8, <2>2, <2>3
<1> QED BY <1>4, <1>9, <1>11 DEF NumberedInOrder, next1

(***************************************************************************)
(* The rows of a contents table are the NIDs of the folder's items, in the *)
(* items' order.                                                           *)
(***************************************************************************)
LEMMA RowsAre ==
  ASSUME Typed, NumberedInOrder, NEW f
  PROVE  /\ \A k \in 1..Len(itemRecs) :
              itemRecs[k].folder = f => itemRecs[k].nid \in ToSet(RowsOf(f))
         /\ \A nid \in ToSet(RowsOf(f)) :
              \E k \in 1..Len(itemRecs) : itemRecs[k].folder = f /\ itemRecs[k].nid = nid
         /\ IsAscending(RowsOf(f))
<1> DEFINE n == Len(itemRecs)
           Row(i) == IF itemRecs[i].folder = f THEN <<itemRecs[i].nid>> ELSE <<>>
           seqs == [i \in 1..n |-> Row(i)]
           flat == RowsOf(f)
<1>1. n \in Nat /\ DOMAIN itemRecs = 1..n
  BY Vector DEF Typed, ItemsNumbered
<1>2. flat = FlattenSeq(seqs)
  BY <1>1 DEF RowsOf
<1>3. ASSUME NEW i \in 1..n
      PROVE  /\ IsSeq(Row(i))
             /\ itemRecs[i].folder = f => Len(Row(i)) = 1 /\ Row(i)[1] = itemRecs[i].nid
             /\ itemRecs[i].folder # f => Len(Row(i)) = 0
  <2> DEFINE x == itemRecs[i].nid
             one == <<x>>
             none == <<>>
  <2>1. one \in Seq({x}) /\ Len(one) = 1 /\ one[1] = x
    OBVIOUS
  <2>2. none \in Seq({x}) /\ Len(none) = 0
    OBVIOUS
  <2>3. IsSeq(one) /\ IsSeq(none)
    BY <2>1, <2>2 DEF IsSeq
  <2>4. Row(i) = IF itemRecs[i].folder = f THEN one ELSE none
    OBVIOUS
  <2> HIDE DEF one, none, Row
  <2> QED BY <2>1, <2>2, <2>3, <2>4 DEF x
<1>4. IsSeq(seqs) /\ Len(seqs) = n /\ \A i \in 1..n : seqs[i] = Row(i)
  <2>1. seqs = [i \in 1..n |-> seqs[i]]
    OBVIOUS
  <2>2. \A i \in 1..n : seqs[i] = Row(i)
    OBVIOUS
  <2> HIDE DEF seqs, n
  <2> QED BY <1>1, <2>1, <2>2, FunctionIsVector
<1> HIDE DEF seqs, flat, Row
<1>5. \A a \in 1..Len(seqs) : IsSeq(seqs[a])
  BY <1>3, <1>4
<1>6. IsSeq(flat) /\ \E from, at : Places(seqs, n, flat, from, at)
  BY <1>2, <1>4, <1>5, FlattenedPlaces
<1>7. PICK from, at : Places(seqs, n, flat, from, at)
  BY <1>6
<1>8. DOMAIN flat = 1..Len(flat) /\ Len(flat) \in Nat
  BY <1>6, Vector
<1> HIDE DEF n
<1>9. ASSUME NEW i \in 1..Len(flat)
      PROVE  /\ from[i] \in 1..n /\ at[i] = 1
             /\ itemRecs[from[i]].folder = f /\ flat[i] = itemRecs[from[i]].nid
  <2>1. from[i] \in 1..n /\ at[i] \in 1..Len(seqs[from[i]]) /\ flat[i] = seqs[from[i]][at[i]]
    BY <1>7 DEF Places
  <2>2. itemRecs[from[i]].folder = f
    <3>1. ASSUME itemRecs[from[i]].folder # f PROVE FALSE
      <4>1. Len(seqs[from[i]]) = 0
        BY <1>3, <1>4, <2>1, <3>1
      <4> QED BY <2>1, <4>1
    <3> QED BY <3>1
  <2>3. Len(seqs[from[i]]) = 1 /\ seqs[from[i]][1] = itemRecs[from[i]].nid
    BY <1>3, <1>4, <2>1, <2>2
  <2>4. at[i] = 1
    BY <2>1, <2>3
  <2> QED BY <2>1, <2>2, <2>3, <2>4
<1>10. ASSUME NEW k \in 1..n, itemRecs[k].folder = f
       PROVE  itemRecs[k].nid \in ToSet(flat)
  <2>1. 1 \in 1..Len(seqs[k])
    BY <1>3, <1>4, <1>10
  <2>2. \E i \in 1..Len(flat) : from[i] = k /\ at[i] = 1
    BY <1>7, <2>1 DEF Places
  <2>3. PICK i \in 1..Len(flat) : from[i] = k
    BY <2>2
  <2> QED BY <1>8, <1>9, <2>3 DEF ToSet
<1>11. ASSUME NEW nid \in ToSet(flat)
       PROVE  \E k \in 1..n : itemRecs[k].folder = f /\ itemRecs[k].nid = nid
  <2>1. PICK i \in 1..Len(flat) : nid = flat[i]
    BY <1>8 DEF ToSet
  <2> QED BY <1>9, <2>1
<1>12. IsAscending(flat)
  <2> SUFFICES ASSUME NEW i \in 1..Len(flat), NEW j \in 1..Len(flat), i < j
               PROVE  flat[i] < flat[j]
    BY <1>8 DEF IsAscending
  <2>1. from[i] < from[j] \/ (from[i] = from[j] /\ at[i] < at[j])
    BY <1>7 DEF Places
  <2>2. from[i] < from[j]
    BY <1>9, <2>1
  <2>3. \A a, b \in 1..n : a < b => itemRecs[a].nid < itemRecs[b].nid
    BY DEF NumberedInOrder, n
  <2> QED BY <1>9, <2>2, <2>3
<1> QED BY <1>10, <1>11, <1>12 DEF n, flat

-----------------------------------------------------------------------------

(***************************************************************************)
(* Tables and nodes agree: the contents tables, written once every message *)
(* has its NID, list the folders' messages; no other table passes for one. *)
(***************************************************************************)
Settled == phase \notin {"register", "folders", "folderNodes", "messages"}

ContentsWritten ==
  IF ~Settled THEN 0 ELSE IF phase = "contents" THEN step ELSE NumFolders

ContentsListed ==
  /\ \A k \in 1..Len(tables) : \A f \in 1..Len(folderRecs) :
       tables[k].nid = FolderNode(ContentsTable, folderRecs[f]) =>
         Settled /\ tables[k].rows = RowsOf(f)
  /\ \A f \in 1..ContentsWritten : \E k \in 1..Len(tables) :
       tables[k].nid = FolderNode(ContentsTable, folderRecs[f])

Agreement ==
  phase \in Running \cup {"written"} =>
    /\ FiledUpTo(Scheduled)
    /\ HierarchyListed
    /\ ContentsListed
    /\ NumberedInOrder
    /\ Finished

(***************************************************************************)
(* A step that writes no table and numbers no item once tables have rows.  *)
(***************************************************************************)
LEMMA ContentsKept ==
  ASSUME ContentsListed, UNCHANGED <<tables, folderRecs>>,
         Settled => Settled' /\ itemRecs' = itemRecs,
         ContentsWritten' = ContentsWritten
  PROVE  ContentsListed'
<1>1. \A f : itemRecs' = itemRecs => RowsOf(f)' = RowsOf(f)
  BY DEF RowsOf
<1>2. \A k \in 1..Len(tables) : \A f \in 1..Len(folderRecs) :
        tables[k].nid = FolderNode(ContentsTable, folderRecs[f]) =>
          Settled' /\ tables[k].rows = RowsOf(f)'
  BY <1>1 DEF ContentsListed
<1>3. \A f \in 1..ContentsWritten : \E k \in 1..Len(tables) :
        tables[k].nid = FolderNode(ContentsTable, folderRecs[f])
  BY DEF ContentsListed
<1> QED BY <1>2, <1>3 DEF ContentsListed

(***************************************************************************)
(* A table more that is not a contents table.                              *)
(***************************************************************************)
LEMMA OtherTableAdded ==
  ASSUME ContentsListed, IsSeq(tables), NEW t, tables' = Append(tables, t),
         \A f \in 1..Len(folderRecs) : t.nid # FolderNode(ContentsTable, folderRecs[f]),
         UNCHANGED <<phase, folderRecs, itemRecs>>, ContentsWritten' = ContentsWritten
  PROVE  ContentsListed'
<1> DEFINE len == Len(tables)
<1>1. PICK S : tables \in Seq(S)
  BY DEF IsSeq
<1>2. /\ len \in Nat /\ Len(tables') = len + 1
      /\ \A k \in 1..len : tables'[k] = tables[k]
      /\ tables'[len + 1] = t
  BY <1>1, AppendFacts
<1>3. /\ \A k \in 1..len : \A f \in 1..Len(folderRecs) :
           tables[k].nid = FolderNode(ContentsTable, folderRecs[f]) =>
             Settled /\ tables[k].rows = RowsOf(f)
      /\ \A f \in 1..ContentsWritten : \E k \in 1..len :
           tables[k].nid = FolderNode(ContentsTable, folderRecs[f])
  BY DEF ContentsListed
<1>4. Settled' = Settled /\ \A f : RowsOf(f)' = RowsOf(f)
  BY DEF Settled, RowsOf
<1> HIDE DEF len
<1>5. \A k \in 1..(len + 1) : k \in 1..len \/ k = len + 1
  BY <1>2
<1>6. ASSUME NEW k \in 1..(len + 1), NEW f \in 1..Len(folderRecs),
             tables'[k].nid = FolderNode(ContentsTable, folderRecs[f])
      PROVE  Settled /\ tables'[k].rows = RowsOf(f)
  <2>1. k \in 1..len
    BY <1>2, <1>5, <1>6
  <2> QED BY <1>2, <1>3, <1>6, <2>1
<1>7. ASSUME NEW f \in 1..ContentsWritten
      PROVE  \E k \in 1..(len + 1) :
               tables'[k].nid = FolderNode(ContentsTable, folderRecs[f])
  <2>1. PICK k \in 1..len : tables[k].nid = FolderNode(ContentsTable, folderRecs[f])
    BY <1>3
  <2>2. k \in 1..(len + 1)
    BY <1>2
  <2> QED BY <1>2, <2>1, <2>2
<1> QED BY <1>2, <1>4, <1>6, <1>7 DEF ContentsListed

(***************************************************************************)
(* The next contents table.                                                *)
(***************************************************************************)
LEMMA ContentsTableAdded ==
  ASSUME ContentsListed, IsSeq(tables), NEW t, tables' = Append(tables, t),
         NEW g \in 1..Len(folderRecs), t.nid = FolderNode(ContentsTable, folderRecs[g]),
         t.rows = RowsOf(g),
         \A f \in 1..Len(folderRecs) :
           FolderNode(ContentsTable, folderRecs[f]) = FolderNode(ContentsTable, folderRecs[g])
             => f = g,
         UNCHANGED <<phase, folderRecs, itemRecs>>, Settled,
         ContentsWritten \in Nat, g = ContentsWritten + 1, ContentsWritten' = g
  PROVE  ContentsListed'
<1> DEFINE len == Len(tables)
           old == ContentsWritten
<1>1. PICK S : tables \in Seq(S)
  BY DEF IsSeq
<1>2. /\ len \in Nat /\ Len(tables') = len + 1
      /\ \A k \in 1..len : tables'[k] = tables[k]
      /\ tables'[len + 1] = t
  BY <1>1, AppendFacts
<1>3. /\ \A k \in 1..len : \A f \in 1..Len(folderRecs) :
           tables[k].nid = FolderNode(ContentsTable, folderRecs[f]) =>
             tables[k].rows = RowsOf(f)
      /\ \A f \in 1..old : \E k \in 1..len :
           tables[k].nid = FolderNode(ContentsTable, folderRecs[f])
  BY DEF ContentsListed
<1>4. Settled' /\ \A f : RowsOf(f)' = RowsOf(f)
  BY DEF Settled, RowsOf
<1>5. old \in Nat /\ g = old + 1 /\ ContentsWritten' = old + 1
  OBVIOUS
<1> HIDE DEF len, old
<1>6. /\ \A k \in 1..(len + 1) : k \in 1..len \/ k = len + 1
      /\ \A f \in 1..(old + 1) : f \in 1..old \/ f = g
  BY <1>2, <1>5
<1>7. ASSUME NEW k \in 1..(len + 1), NEW f \in 1..Len(folderRecs),
             tables'[k].nid = FolderNode(ContentsTable, folderRecs[f])
      PROVE  tables'[k].rows = RowsOf(f)
  <2>1. CASE k \in 1..len
    BY <1>2, <1>3, <1>7, <2>1
  <2>2. CASE k = len + 1
    <3>1. f = g
      BY <1>2, <1>7, <2>2
    <3> QED BY <1>2, <2>2, <3>1
  <2> QED BY <1>6, <2>1, <2>2
<1>8. ASSUME NEW f \in 1..(old + 1)
      PROVE  \E k \in 1..(len + 1) :
               tables'[k].nid = FolderNode(ContentsTable, folderRecs[f])
  <2>1. CASE f \in 1..old
    <3>1. PICK k \in 1..len : tables[k].nid = FolderNode(ContentsTable, folderRecs[f])
      BY <1>3, <2>1
    <3>2. k \in 1..(len + 1)
      BY <1>2
    <3> QED BY <1>2, <3>1, <3>2
  <2>2. CASE f = g
    <3>1. len + 1 \in 1..(len + 1)
      BY <1>2
    <3> QED BY <1>2, <2>2, <3>1
  <2> QED BY <1>6, <2>1, <2>2
<1> QED BY <1>2, <1>4, <1>5, <1>7, <1>8 DEF ContentsListed

(***************************************************************************)
(* While folders are numbered there is no table and no item.               *)
(***************************************************************************)
LEMMA NumberingAgrees ==
  ASSUME Agreement, phase \in {"register", "folders"}, Len(itemRecs) = 0,
         phase' \in {"folders", "exhausted", "collision"},
         UNCHANGED <<itemRecs, nodes, tables>>
  PROVE  Agreement'
<1>0. FiledUpTo(Scheduled) /\ HierarchyListed /\ ContentsListed
  BY DEF Agreement, Running
<1>1. CASE phase' # "folders"
  BY <1>1 DEF Agreement, Running
<1>2. CASE phase' = "folders"
  <2>1. Scheduled = 0 /\ Scheduled' = 0
    BY <1>2 DEF Scheduled
  <2>2. FiledUpTo(0)'
    BY <1>0, <2>1, NothingFiled
  <2>3. HierarchyListed'
    <3>1. HierarchyToCome /\ HierarchyToCome'
      BY <1>2 DEF HierarchyToCome, BeforeIpm
    <3> QED BY <1>0, <1>2, <3>1, TablesKept
  <2>4. Len(tables') = 0 /\ Len(itemRecs') = 0 /\ \A k : k \notin 1..0
    BY <1>0 DEF HierarchyListed
  <2>5. ContentsWritten' = 0
    BY <1>2 DEF ContentsWritten, Settled
  <2>6. ContentsListed' /\ NumberedInOrder'
    BY <2>4, <2>5 DEF ContentsListed, NumberedInOrder
  <2> QED BY <1>2, <2>1, <2>2, <2>3, <2>6 DEF Agreement, Finished
<1> QED BY <1>1, <1>2

(***************************************************************************)
(* A message is numbered, before it can be in a table.                     *)
(***************************************************************************)
LEMMA AllocateMessageAgrees ==
  ASSUME Agreement, Common, TypedStore, AllocateMessage
  PROVE  Agreement'
<1>1. /\ phase = "messages" /\ AllocateItem
      /\ \/ ret'.ok /\ phase' = phase
         \/ phase' = "exhausted"
  BY DEF AllocateMessage, InLoop, Iterated, Threw
<1>2. UNCHANGED <<config, folderRecs, nodes, tables>>
  BY <1>1 DEF AllocateItem
<1>3. FiledUpTo(Scheduled) /\ HierarchyListed /\ ContentsListed /\ NumberedInOrder
  BY <1>1 DEF Agreement, Running
<1>4. CASE phase' = "exhausted"
  BY <1>4 DEF Agreement, Running
<1>5. CASE ret'.ok /\ phase' = phase
  <2>1. Scheduled = 0 /\ Scheduled' = 0
    BY <1>1, <1>5 DEF Scheduled
  <2>2. IsSeq(itemRecs) /\ AllocatorTyped
    BY DEF TypedStore, Typed, ItemsNumbered
  <2>3. Len(itemRecs') \in Nat
    <3>1. \E r : itemRecs' = Append(itemRecs, r)
      BY <1>1, <1>5 DEF AllocateItem
    <3>2. PICK S : itemRecs \in Seq(S)
      BY <2>2 DEF IsSeq
    <3> QED BY <3>1, <3>2, AppendFacts
  <2>4. FiledUpTo(0)'
    BY <1>2, <1>3, <2>1, <2>3, NothingFiled
  <2>5. HierarchyListed'
    <3>1. HierarchyToCome'
      BY <1>1, <1>5 DEF HierarchyToCome, BeforeIpm
    <3> QED BY <1>1, <1>2, <1>3, <1>5, <3>1, TablesKept
  <2>6. ContentsListed'
    <3>1. ~Settled /\ ContentsWritten' = ContentsWritten
      BY <1>1, <1>5 DEF Settled, ContentsWritten
    <3> QED BY <1>2, <1>3, <3>1, ContentsKept
  <2>7. NumberedInOrder'
    BY <1>1, <1>3, <1>5, <2>2, ItemNumberedInOrder
  <2> QED BY <1>1, <1>5, <2>1, <2>4, <2>5, <2>6, <2>7 DEF Agreement, Finished
<1> QED BY <1>1, <1>4, <1>5

(***************************************************************************)
(* The folders' nodes come before any contents table and any message.      *)
(***************************************************************************)
LEMMA FolderNodesAgree ==
  ASSUME Agreement, Common, ScheduleFolderNode(FolderNodeTypes)
  PROVE  Agreement'
<1> DEFINE types == FolderNodeTypes
           L == Len(types)
           f == (step \div L) + 1
           t == types[(step % L) + 1]
           nid == Store!FolderNode(t, folderRecs[f])
           pc == Node(nid, config.folders[f].parent, DataBid(sched.nextData), 0)
           of == Node(nid, 0, DataBid(sched.nextData), 0)
           table == [nid |-> nid, rows |-> <<>>]
<1>1. /\ phase = "folderNodes" /\ step < L * NumFolders /\ step \in Nat
      /\ phase' = phase
      /\ UNCHANGED <<config, folderRecs, itemRecs>>
  BY DEF ScheduleFolderNode, InLoop, Iterated, Common, Control
<1>2. \/ nodes' = Append(nodes, pc) /\ tables' = tables
      \/ nodes' = Append(nodes, of) /\ tables' = Append(tables, table)
  BY DEF ScheduleFolderNode, ScheduleNode
<1>3. L \in {3, 4} /\ NumFolders \in Nat /\ Len(folderRecs) = NumFolders
  BY <1>1, ThreeNodesPerFolder, Configured DEF Distinct, Common, Control
<1>4. f \in 1..NumFolders /\ (step % L) + 1 \in 1..L
  <2>1. step \div L \in Nat /\ step % L \in 0..(L - 1) /\ step \div L < NumFolders
    BY <1>1, <1>3, Divisions
  <2> QED BY <1>3, <2>1
<1>5. t \in Early /\ t \in FolderTypes
  BY <1>4, ThreeNodesPerFolder DEF Distinct
<1>6. pc.nid = nid /\ of.nid = nid /\ table.nid = nid
  BY DEF Node
<1> HIDE DEF pc, of, table, f, t, L
<1>7. \A g \in 1..NumFolders : /\ UserNid(NormalFolder, folderRecs[g])
                               /\ folderRecs[g] \in Folders
  BY <1>3, FolderRecsFacts DEF Common
<1>8. nid = FolderNode(t, folderRecs[f])
  BY SameNames DEF Store!FolderNode, FolderNode
<1>9. NidTypeOf(nid) # NormalMessage
  BY <1>4, <1>5, <1>7, <1>8, TypesTellItems
<1>10. ASSUME NEW g \in 1..Len(folderRecs)
       PROVE  nid # FolderNode(ContentsTable, folderRecs[g])
  <2>1. t # ContentsTable /\ ContentsTable \in FolderTypes
    BY <1>5, ThreeNodesPerFolder
  <2> QED BY <1>3, <1>4, <1>5, <1>7, <1>8, <2>1, FolderNodesDiffer
<1>11. nid \in FolderNodesOf(FolderTypes)
  BY <1>4, <1>5, <1>7, <1>8 DEF FolderNodesOf
<1> HIDE DEF nid
<1>12. FiledUpTo(Scheduled) /\ HierarchyListed /\ ContentsListed /\ NumberedInOrder
  BY <1>1 DEF Agreement, Running
<1>13. Scheduled = 0 /\ Scheduled' = 0
  BY <1>1 DEF Scheduled
<1>14. FiledUpTo(0)'
  <2>1. IsSeq(nodes)
    BY DEF Common, Records
  <2> QED BY <1>1, <1>2, <1>6, <1>9, <1>12, <1>13, <2>1, OtherNodeFiled
<1>15. HierarchyToCome /\ HierarchyToCome' /\ phase \in BeforeIpm
  BY <1>1 DEF HierarchyToCome, BeforeIpm
<1>16. ContentsWritten' = ContentsWritten /\ Settled' = Settled /\ ~Settled
  BY <1>1 DEF ContentsWritten, Settled
<1>17. HierarchyListed'
  <2>1. CASE tables' = tables
    BY <1>1, <1>12, <1>15, <2>1, TablesKept
  <2>2. CASE tables' = Append(tables, table)
    BY <1>1, <1>6, <1>11, <1>12, <1>15, <2>2, TableAdded
  <2> QED BY <1>2, <2>1, <2>2
<1>18. ContentsListed'
  <2>1. CASE tables' = tables
    BY <1>1, <1>12, <1>16, <2>1, ContentsKept
  <2>2. CASE tables' = Append(tables, table)
    <3>1. IsSeq(tables)
      BY <1>12 DEF HierarchyListed
    <3> QED BY <1>1, <1>6, <1>10, <1>12, <1>16, <2>2, <3>1, OtherTableAdded
  <2> QED BY <1>2, <2>1, <2>2
<1>19. NumberedInOrder'
  <2>1. nextIndex' = nextIndex
    BY DEF ScheduleFolderNode, allocVars
  <2> QED BY <1>1, <1>12, <2>1 DEF NumberedInOrder
<1> QED BY <1>1, <1>13, <1>14, <1>17, <1>18, <1>19 DEF Agreement, Finished

(***************************************************************************)
(* A contents table has its folder's rows; its node is no message's.       *)
(***************************************************************************)
LEMMA ScheduleContentsAgrees ==
  ASSUME Agreement, Common, ScheduleContents
  PROVE  Agreement'
<1> DEFINE g == step + 1
           rows == RowsOf(g)
           nid == Store!FolderNode(ContentsTable, folderRecs[g])
           table == [nid |-> nid, rows |-> rows]
<1>1. /\ phase = "contents" /\ step < NumFolders /\ step \in Nat /\ NumFolders \in Nat
      /\ UNCHANGED <<config, allocVars, folderRecs, itemRecs>>
  BY Configured DEF ScheduleContents, InLoop, Common, Control
<1>2. \/ phase' = "other"
      \/ /\ \E bidData, bidSub : nodes' = Append(nodes, Node(nid, 0, bidData, bidSub))
         /\ tables' = Append(tables, table) /\ step' = step + 1 /\ phase' = phase
  BY DEF ScheduleContents, ScheduleNode, Iterated, Threw
<1>3. CASE phase' = "other"
  BY <1>3 DEF Agreement, Running
<1>4. CASE phase' = phase /\ step' = step + 1 /\ tables' = Append(tables, table)
           /\ \E bidData, bidSub : nodes' = Append(nodes, Node(nid, 0, bidData, bidSub))
  <2>1. PICK bidData, bidSub : nodes' = Append(nodes, Node(nid, 0, bidData, bidSub))
    BY <1>4
  <2> DEFINE n == Node(nid, 0, bidData, bidSub)
  <2>2. nodes' = Append(nodes, n) /\ n.nid = nid /\ table.nid = nid /\ table.rows = rows
    BY <2>1 DEF Node
  <2> HIDE DEF n, table
  <2>3. Len(folderRecs) = NumFolders
    BY <1>1 DEF Common, Control
  <2>4. g \in 1..NumFolders
    BY <1>1
  <2>5. /\ \A f \in 1..NumFolders : /\ UserNid(NormalFolder, folderRecs[f])
                                    /\ folderRecs[f] \in Folders
        /\ \A f, h \in 1..NumFolders : folderRecs[f] = folderRecs[h] => f = h
    BY <2>3, FolderRecsFacts DEF Common
  <2>6. nid = FolderNode(ContentsTable, folderRecs[g]) /\ ContentsTable \in FolderTypes
    BY SameNames, ThreeNodesPerFolder DEF Store!FolderNode, FolderNode
  <2>7. g = ContentsWritten + 1 /\ ContentsWritten' = g /\ ContentsWritten \in Nat /\ Settled
    BY <1>1, <1>4 DEF ContentsWritten, Settled
  <2> HIDE DEF nid, g
  <2>8. NidTypeOf(nid) # NormalMessage
    BY <2>4, <2>5, <2>6, TypesTellItems
  <2>9. nid \in FolderNodesOf(FolderTypes)
    BY <2>4, <2>5, <2>6 DEF FolderNodesOf
  <2>10. ASSUME NEW f \in 1..Len(folderRecs),
                FolderNode(ContentsTable, folderRecs[f])
                  = FolderNode(ContentsTable, folderRecs[g])
         PROVE  f = g
    <3>1. folderRecs[f] = folderRecs[g]
      BY <2>3, <2>4, <2>5, <2>6, <2>10, FolderNodesDiffer
    <3> QED BY <2>3, <2>4, <2>5, <3>1
  <2>11. FiledUpTo(Scheduled) /\ HierarchyListed /\ ContentsListed /\ NumberedInOrder
    BY <1>1 DEF Agreement, Running
  <2>12. Scheduled = 0 /\ Scheduled' = 0
    BY <1>1, <1>4 DEF Scheduled
  <2>13. FiledUpTo(0)'
    <3>1. IsSeq(nodes)
      BY DEF Common, Records
    <3> QED BY <1>1, <2>2, <2>8, <2>11, <2>12, <3>1, OtherNodeFiled
  <2>14. HierarchyListed'
    <3>1. phase \in BeforeIpm
      BY <1>1 DEF BeforeIpm
    <3> QED BY <1>1, <1>4, <2>2, <2>9, <2>11, <3>1, TableAdded
  <2>15. ContentsListed'
    <3>1. IsSeq(tables)
      BY <2>11 DEF HierarchyListed
    <3>2. g \in 1..Len(folderRecs) /\ table.rows = RowsOf(g)
      BY <2>2, <2>3, <2>4
    <3>3. UNCHANGED <<phase, folderRecs, itemRecs>>
      BY <1>1, <1>4
    <3>4. tables' = Append(tables, table)
          /\ table.nid = FolderNode(ContentsTable, folderRecs[g])
      BY <1>4, <2>2, <2>6
    <3> HIDE DEF rows
    <3> QED BY <2>7, <2>10, <2>11, <3>1, <3>2, <3>3, <3>4, ContentsTableAdded
  <2>16. NumberedInOrder'
    BY <1>1, <2>11 DEF NumberedInOrder, allocVars
  <2> QED BY <1>1, <1>4, <2>12, <2>13, <2>14, <2>15, <2>16 DEF Agreement, Finished
<1> QED BY <1>2, <1>3, <1>4

(***************************************************************************)
(* The IPM subtree's hierarchy lists the folders and is no contents table. *)
(***************************************************************************)
LEMMA ScheduleIpmAgrees ==
  ASSUME Agreement, Common, ScheduleIpmHierarchy
  PROVE  Agreement'
<1> DEFINE table == [nid |-> NID_IPM_HIERARCHY, rows |-> folderRecs]
           n == Node(NID_IPM_HIERARCHY, 0, DataBid(sched.nextData), 0)
<1>1. /\ phase = "ipm" /\ UNCHANGED <<config, allocVars, folderRecs, itemRecs>>
      /\ \/ phase' = "other"
         \/ nodes' = Append(nodes, n) /\ tables' = Append(tables, table) /\ phase' = phase
  BY DEF ScheduleIpmHierarchy, InLoop, ScheduleNode, Iterated, Threw
<1>2. n.nid = NID_IPM_HIERARCHY /\ table.nid = NID_IPM_HIERARCHY /\ table.rows = folderRecs
  BY DEF Node
<1> HIDE DEF n, table
<1>3. CASE phase' = "other"
  BY <1>3 DEF Agreement, Running
<1>4. CASE nodes' = Append(nodes, n) /\ tables' = Append(tables, table) /\ phase' = phase
  <2>1. FiledUpTo(Scheduled) /\ HierarchyListed /\ ContentsListed /\ NumberedInOrder
    BY <1>1 DEF Agreement, Running
  <2>2. Scheduled = 0 /\ Scheduled' = 0
    BY <1>1, <1>4 DEF Scheduled
  <2>3. FiledUpTo(0)'
    <3>1. IsSeq(nodes)
      BY DEF Common, Records
    <3> QED BY <1>1, <1>2, <1>4, <2>1, <2>2, <3>1, TypesTellItems, OtherNodeFiled
  <2>4. HierarchyListed'
    BY <1>1, <1>2, <1>4, <2>1, TableAdded
  <2>5. ContentsListed'
    <3>1. Len(folderRecs) = NumFolders
      BY <1>1 DEF Common, Control
    <3>2. \A f \in 1..Len(folderRecs) : table.nid # FolderNode(ContentsTable, folderRecs[f])
      BY <1>2, <3>1, FolderRecsFacts, ThreeNodesPerFolder, FolderNodeIsNotIpm DEF Common
    <3>3. ContentsWritten' = ContentsWritten /\ IsSeq(tables)
      BY <1>1, <1>4, <2>1 DEF ContentsWritten, Settled, NumFolders, HierarchyListed
    <3> QED BY <1>1, <1>4, <2>1, <3>2, <3>3, OtherTableAdded
  <2>6. NumberedInOrder'
    BY <1>1, <2>1 DEF NumberedInOrder, allocVars
  <2> QED BY <1>1, <1>4, <2>2, <2>3, <2>4, <2>5, <2>6 DEF Agreement, Finished
<1> QED BY <1>1, <1>3, <1>4

(***************************************************************************)
(* A message's node names the folder it was recorded for.                  *)
(***************************************************************************)
LEMMA ScheduleMessageAgrees ==
  ASSUME Agreement, Common, ScheduleMessage
  PROVE  Agreement'
<1> DEFINE m == itemRecs[step + 1]
<1>1. /\ phase = "bodies" /\ step < Len(itemRecs) /\ step \in Nat
      /\ UNCHANGED <<config, allocVars, folderRecs, itemRecs, tables>>
  BY DEF ScheduleMessage, InLoop, Common, Control
<1>2. \/ phase' = "other"
      \/ /\ \E bidData, bidSub :
              nodes' = Append(nodes, Node(m.nid, folderRecs[m.folder], bidData, bidSub))
         /\ step' = step + 1 /\ phase' = phase
  BY DEF ScheduleMessage, Iterated, Threw
<1>3. CASE phase' = "other"
  BY <1>3 DEF Agreement, Running
<1>4. CASE /\ phase' = phase /\ step' = step + 1
           /\ \E bidData, bidSub :
                nodes' = Append(nodes, Node(m.nid, folderRecs[m.folder], bidData, bidSub))
  <2>1. PICK bidData, bidSub :
          nodes' = Append(nodes, Node(m.nid, folderRecs[m.folder], bidData, bidSub))
    BY <1>4
  <2>2. PICK n : /\ nodes' = Append(nodes, n)
                 /\ n.nid = m.nid /\ n.parent = folderRecs[m.folder]
    BY <2>1 DEF Node
  <2>3. PICK k \in Nat : k = step
    BY <1>1
  <2>4. FiledUpTo(k) /\ HierarchyListed /\ ContentsListed /\ NumberedInOrder
    BY <1>1, <2>3 DEF Agreement, Running, Scheduled
  <2>5. IsSeq(nodes) /\ DOMAIN itemRecs = 1..Len(itemRecs) /\ Len(itemRecs) \in Nat
    BY Vector DEF Common, Records
  <2>6. k + 1 \in 1..Len(itemRecs) /\ k + 1 <= Len(itemRecs)
    BY <1>1, <2>3, <2>5
  <2>7. NidTypeOf(n.nid) = NormalMessage
    <3>1. m.nid \in Items
      BY <2>3, <2>5, <2>6 DEF Items
    <3>2. UserNid(NormalMessage, m.nid)
      BY <3>1 DEF Common, Records, Owners
    <3> QED BY <2>2, <3>2, TypesTellItems
  <2>8. FiledUpTo(k + 1)'
    <3>1. n.nid = itemRecs[k + 1].nid /\ n.parent = folderRecs[itemRecs[k + 1].folder]
      BY <2>2, <2>3
    <3>2. UNCHANGED <<folderRecs, itemRecs>> /\ nodes' = Append(nodes, n)
      BY <1>1, <2>2
    <3> QED BY <2>4, <2>5, <2>6, <2>7, <3>1, <3>2, NextItemFiled
  <2>9. Scheduled' = k + 1
    BY <1>1, <1>4, <2>3 DEF Scheduled
  <2>10. HierarchyListed'
    <3>1. ~HierarchyToCome /\ phase' \notin {"register", "folders"}
      BY <1>1, <1>4 DEF HierarchyToCome, BeforeIpm
    <3> QED BY <1>1, <2>4, <3>1, TablesKept
  <2>11. ContentsListed'
    <3>1. Settled' /\ ContentsWritten' = ContentsWritten
      BY <1>1, <1>4 DEF Settled, ContentsWritten, NumFolders
    <3> QED BY <1>1, <2>4, <3>1, ContentsKept
  <2>12. NumberedInOrder'
    BY <1>1, <2>4 DEF NumberedInOrder, allocVars
  <2> QED BY <1>1, <1>4, <2>8, <2>9, <2>10, <2>11, <2>12 DEF Agreement, Finished
<1> QED BY <1>2, <1>3, <1>4

(***************************************************************************)
(* What a step changes that changes phase and step alone.                  *)
(***************************************************************************)
LEMMA AgreementKept ==
  ASSUME Agreement, phase \in Running, phase' \in Running \cup {"written"},
         UNCHANGED <<config, allocVars, folderRecs, itemRecs, nodes, tables>>,
         NEW k, Scheduled = k, Scheduled' = k,
         phase' \in {"register", "folders"} => phase \in {"register", "folders"},
         HierarchyToCome => HierarchyToCome',
         Settled => Settled', ContentsWritten' = ContentsWritten, Finished'
  PROVE  Agreement'
<1>1. FiledUpTo(k) /\ HierarchyListed /\ ContentsListed /\ NumberedInOrder
  BY DEF Agreement
<1>2. FiledUpTo(k)'
  BY <1>1, FilingKept
<1>3. HierarchyListed'
  BY <1>1, TablesKept
<1>4. ContentsListed'
  BY <1>1, ContentsKept
<1>5. NumberedInOrder'
  BY <1>1 DEF NumberedInOrder, allocVars
<1> QED BY <1>2, <1>3, <1>4, <1>5 DEF Agreement

(***************************************************************************)
(* A loop ends with all of its work done.                                  *)
(***************************************************************************)
LEMMA NextLoopAgrees ==
  ASSUME Agreement, Common, TypedStore, NextLoop
  PROVE  Agreement'
<1> USE DEF Running, BeforeIpm, HierarchyToCome, Settled, ContentsWritten, NumFolders,
            Finished, Scheduled
<1>1. UNCHANGED <<config, allocVars, folderRecs, itemRecs, nodes, tables>>
  BY DEF NextLoop, EndLoop
<1>2. Len(itemRecs) \in Nat /\ 0 \in Nat
  BY Vector DEF Common, Records
<1>3. CASE EndLoop("folders", NumFolders, "folderNodes")
  <2>1. phase = "folders" /\ phase' = "folderNodes" /\ Scheduled = 0 /\ Scheduled' = 0
    BY <1>3 DEF EndLoop
  <2> QED BY <1>1, <1>3, <2>1, AgreementKept
<1>4. CASE EndLoop("folderNodes", Len(FolderNodeTypes) * NumFolders, "messages")
  <2>1. phase = "folderNodes" /\ phase' = "messages" /\ Scheduled = 0 /\ Scheduled' = 0
    BY <1>4 DEF EndLoop
  <2> QED BY <1>1, <2>1, AgreementKept
<1>5. CASE EndLoop("messages", Len(AllItems), "contents")
  <2>1. phase = "messages" /\ phase' = "contents" /\ step' = 0
        /\ Scheduled = 0 /\ Scheduled' = 0
    BY <1>5 DEF EndLoop
  <2> QED BY <1>1, <2>1, AgreementKept
<1>6. CASE EndLoop("contents", NumFolders, "ipm")
  <2>1. phase = "contents" /\ phase' = "ipm" /\ step = NumFolders /\ step' = 0
        /\ Scheduled = 0 /\ Scheduled' = 0
    BY <1>6 DEF EndLoop
  <2> QED BY <1>1, <2>1, AgreementKept
<1>7. CASE EndLoop("ipm", 1, "bodies")
  <2>1. phase = "ipm" /\ phase' = "bodies" /\ step = 1 /\ step' = 0
        /\ Scheduled = 0 /\ Scheduled' = 0
    BY <1>7 DEF EndLoop
  <2> QED BY <1>1, <2>1, AgreementKept
<1>8. CASE EndLoop("bodies", Len(itemRecs), "encode")
  <2>1. phase = "bodies" /\ phase' = "encode" /\ step = Len(itemRecs)
    BY <1>8 DEF EndLoop
  <2>2. PICK k : k = Len(itemRecs)
    OBVIOUS
  <2>3. Scheduled = k /\ Scheduled' = k
    BY <1>1, <2>1, <2>2
  <2> QED BY <1>1, <2>1, <2>3, AgreementKept
<1> QED BY <1>3, <1>4, <1>5, <1>6, <1>7, <1>8 DEF NextLoop

(***************************************************************************)
(* Handing over, or a store refused.                                       *)
(***************************************************************************)
LEMMA HandOverAgrees ==
  ASSUME Agreement, Common, HandOver
  PROVE  Agreement'
<1>1. /\ phase = "encode" /\ phase' \in {"written", "other"}
      /\ UNCHANGED <<config, allocVars, folderRecs, itemRecs, nodes, tables>>
  BY DEF HandOver
<1>2. Finished'
  BY HandOverFinishes
<1>3. CASE phase' = "other"
  BY <1>3 DEF Agreement, Running
<1>4. CASE phase' = "written"
  <2>1. PICK k : k = Len(itemRecs)
    OBVIOUS
  <2>2. Scheduled = k /\ Scheduled' = k
    BY <1>1, <1>4, <2>1 DEF Scheduled
  <2>3. Settled /\ Settled' /\ ContentsWritten' = ContentsWritten
    BY <1>1, <1>4 DEF Settled, ContentsWritten, NumFolders
  <2>4. ~HierarchyToCome
    BY <1>1 DEF HierarchyToCome, BeforeIpm
  <2> QED BY <1>1, <1>2, <1>4, <2>2, <2>3, <2>4, AgreementKept DEF Running
<1> QED BY <1>1, <1>3, <1>4

(***************************************************************************)
(* Every step keeps tables and nodes in agreement.                         *)
(***************************************************************************)
LEMMA StepAgrees ==
  ASSUME IInv, TypedStore, Agreement, [Next]_vars
  PROVE  Agreement'
<1>1. CASE UNCHANGED vars
  <2>1. UNCHANGED <<config, phase, step, allocVars, folderRecs, itemRecs, nodes, tables>>
    BY <1>1 DEF vars
  <2>2. Agreement => Agreement'
    BY <2>1 DEF Agreement, FiledUpTo, MessagePairs, ItemPairs, Scheduled, HierarchyListed,
       HierarchyToCome, FolderNodesOf, Folders, ContentsListed, ContentsWritten, Settled,
       RowsOf, NumFolders, NumberedInOrder, allocVars, Finished, Records, Owners, Items,
       BaselineLen, IsSeq
  <2> QED BY <2>2
<1>2. CASE phase \notin Running /\ Next
  <2>1. ~NextLoop
    BY <1>2 DEF NextLoop, EndLoop, Running
  <2>2. Return
    BY <1>2, <2>1 DEF Next, RegisterBaselineNids, AllocateFolder, RegisterSibling,
       ScheduleFolderNode, AllocateMessage, ScheduleContents, ScheduleIpmHierarchy,
       ScheduleMessage, HandOver, InLoop, Running
  <2> QED BY <1>1, <2>2 DEF Return
<1>3. CASE phase \in Running /\ Next
  <2>0. Common
    BY <1>3 DEF IInv
  <2>1. CASE RegisterBaselineNids \/ AllocateFolder \/ RegisterSibling
    <3>1. /\ phase \in {"register", "folders"}
          /\ phase' \in {"folders", "exhausted", "collision"}
          /\ UNCHANGED <<itemRecs, nodes, tables>>
      BY <2>1 DEF RegisterBaselineNids, AllocateFolder, RegisterSibling, InLoop, Iterated, Threw
    <3>2. Len(itemRecs) = 0
      BY <3>1 DEF TypedStore, MessagesInTurn
    <3> QED BY <3>1, <3>2, NumberingAgrees
  <2>2. CASE ScheduleFolderNode(FolderNodeTypes)
    BY <2>0, <2>2, FolderNodesAgree
  <2>3. CASE AllocateMessage
    BY <2>0, <2>3, AllocateMessageAgrees
  <2>4. CASE ScheduleContents
    BY <2>0, <2>4, ScheduleContentsAgrees
  <2>5. CASE ScheduleIpmHierarchy
    BY <2>0, <2>5, ScheduleIpmAgrees
  <2>6. CASE ScheduleMessage
    BY <2>0, <2>6, ScheduleMessageAgrees
  <2>7. CASE NextLoop
    BY <2>0, <2>7, NextLoopAgrees
  <2>8. CASE HandOver
    BY <2>0, <2>8, HandOverAgrees
  <2>9. CASE Return
    BY <1>3, <2>9 DEF Return, Outcomes, Running
  <2> QED BY <1>3, <2>1, <2>2, <2>3, <2>4, <2>5, <2>6, <2>7, <2>8, <2>9 DEF Next
<1> QED BY <1>1, <1>2, <1>3

(***************************************************************************)
(* Nothing is numbered, scheduled or listed when the writer starts.        *)
(***************************************************************************)
LEMMA InitAgrees ==
  ASSUME Init
  PROVE  Agreement
<1>1. phase = "register" /\ itemRecs = <<>> /\ tables = <<>>
  BY DEF Init
<1>2. FiledUpTo(0) /\ Scheduled = 0
  BY <1>1, BaselineFiled DEF Scheduled
<1> DEFINE none == <<>>
<1>3. none \in Seq({}) /\ Len(none) = 0 /\ \A k : k \notin 1..0
  OBVIOUS
<1>4. tables = none /\ itemRecs = none
  BY <1>1
<1> HIDE DEF none
<1>5. HierarchyListed
  BY <1>1, <1>3, <1>4 DEF HierarchyListed, IsSeq, HierarchyToCome, BeforeIpm
<1>6. ContentsListed
  BY <1>1, <1>3, <1>4 DEF ContentsListed, ContentsWritten, Settled
<1>7. NumberedInOrder
  BY <1>3, <1>4 DEF NumberedInOrder
<1> QED BY <1>1, <1>2, <1>5, <1>6, <1>7 DEF Agreement, Finished

(***************************************************************************)
(* In a written store that is what the property says.                      *)
(***************************************************************************)
LEMMA AgreementSuffices ==
  ASSUME TypedStore, Agreement
  PROVE  RowsNameTheNodes
<1> SUFFICES ASSUME phase = "written" PROVE RowsNameTheNodes
  BY DEF RowsNameTheNodes
<1>1. /\ FiledUpTo(Len(itemRecs)) /\ HierarchyListed /\ ContentsListed /\ NumberedInOrder
      /\ Records /\ Len(folderRecs) = NumFolders
  BY DEF Agreement, Finished, Scheduled
<1>2. /\ DOMAIN folderRecs = 1..NumFolders
      /\ \A f, g \in 1..NumFolders : folderRecs[f] = folderRecs[g] => f = g
  BY <1>1, FolderRecsFacts
<1>3. \A k \in 1..Len(itemRecs) : itemRecs[k].folder \in 1..Len(folderRecs)
  BY <1>1, ItemTypedAt DEF TypedStore
<1>4. ASSUME NEW f \in 1..NumFolders
      PROVE  LET rows == RowsOfTable(Store!FolderNode(ContentsTable, folderRecs[f]))
             IN  ToSet(rows) = ChildItems(folderRecs[f]) /\ IsAscending(rows)
  <2> DEFINE nid == Store!FolderNode(ContentsTable, folderRecs[f])
             t == CHOOSE u \in ToSet(tables) : u.nid = nid
             rows == RowsOf(f)
             children == ChildItems(folderRecs[f])
  <2>1. nid = FolderNode(ContentsTable, folderRecs[f])
    BY SameNames DEF Store!FolderNode, FolderNode
  <2> HIDE DEF nid
  <2>2. DOMAIN tables = 1..Len(tables)
    BY <1>1, Vector DEF HierarchyListed
  <2>3. f \in 1..Len(folderRecs) /\ ContentsWritten = NumFolders
    BY <1>1 DEF ContentsWritten, Settled
  <2>4. \E u \in ToSet(tables) : u.nid = nid
    BY <1>1, <2>1, <2>2, <2>3 DEF ContentsListed, ToSet
  <2>5. \A u \in ToSet(tables) : u.nid = nid => u.rows = rows
    BY <1>1, <2>1, <2>2, <2>3 DEF ContentsListed, ToSet
  <2>6. t \in ToSet(tables) /\ t.nid = nid
    BY <2>4
  <2>7. RowsOfTable(nid) = rows
    <3>1. RowsOfTable(nid) = t.rows
      BY DEF RowsOfTable
    <3> HIDE DEF t, rows
    <3> QED BY <2>5, <2>6, <3>1
  <2>8. /\ \A k \in 1..Len(itemRecs) :
             itemRecs[k].folder = f => itemRecs[k].nid \in ToSet(rows)
        /\ \A id \in ToSet(rows) :
             \E k \in 1..Len(itemRecs) : itemRecs[k].folder = f /\ itemRecs[k].nid = id
        /\ IsAscending(rows)
    BY <1>1, RowsAre DEF TypedStore
  <2>9. /\ \A k \in 1..Len(itemRecs) :
             itemRecs[k].folder = f => itemRecs[k].nid \in children
        /\ \A id \in children :
             \E k \in 1..Len(itemRecs) : itemRecs[k].folder = f /\ itemRecs[k].nid = id
    BY <1>1, <1>2, <1>3, <2>3, ChildItemsAre DEF Records
  <2> HIDE DEF rows, children
  <2>10. ASSUME NEW id \in ToSet(rows) PROVE id \in children
    <3>1. PICK k \in 1..Len(itemRecs) : itemRecs[k].folder = f /\ itemRecs[k].nid = id
      BY <2>8
    <3>2. itemRecs[k].nid \in children
      BY <2>9, <3>1
    <3> QED BY <3>1, <3>2
  <2>11. ASSUME NEW id \in children PROVE id \in ToSet(rows)
    <3>1. PICK k \in 1..Len(itemRecs) : itemRecs[k].folder = f /\ itemRecs[k].nid = id
      BY <2>9
    <3>2. itemRecs[k].nid \in ToSet(rows)
      BY <2>8, <3>1
    <3> QED BY <3>1, <3>2
  <2>12. ToSet(rows) = children
    <3> DEFINE listed == ToSet(rows)
    <3>1. \A id \in listed : id \in children
      BY <2>10
    <3>2. \A id \in children : id \in listed
      BY <2>11
    <3> HIDE DEF listed
    <3>3. listed = children
      BY <3>1, <3>2
    <3> QED BY <3>3 DEF listed
  <2> QED BY <2>7, <2>8, <2>12 DEF nid, children
<1>5. ASSUME NEW folder \in Folders
      PROVE  LET rows == RowsOfTable(Store!FolderNode(ContentsTable, folder))
             IN  ToSet(rows) = ChildItems(folder) /\ IsAscending(rows)
  <2>1. PICK f \in 1..NumFolders : folder = folderRecs[f]
    BY <1>2 DEF Folders, ToSet
  <2> QED BY <1>4, <2>1
<1>6. ToSet(RowsOfTable(NID_IPM_HIERARCHY)) = Folders
  <2>1. ~HierarchyToCome /\ Owners
    BY <1>1 DEF HierarchyToCome, BeforeIpm, Records
  <2> QED BY <1>1, <2>1, HierarchyIs DEF Folders
<1>7. Items \subseteq NodeNids
  <2>1. DOMAIN itemRecs = 1..Len(itemRecs)
    BY <1>1, Vector DEF Records
  <2>2. ASSUME NEW k \in 1..Len(itemRecs) PROVE itemRecs[k].nid \in NodeNids
    <3>1. PICK f \in 1..Len(folderRecs) : f = itemRecs[k].folder
      BY <1>3
    <3> QED BY <1>1, <1>2, <1>3, <3>1, ChildItemsAre DEF Records
  <2> QED BY <2>1, <2>2 DEF Items
<1> QED BY <1>5, <1>6, <1>7 DEF RowsNameTheNodes

(***************************************************************************)
(* Every contents table of a finished mail store lists exactly the         *)
(* messages whose nodes name the folder as parent, in ascending order, and *)
(* the IPM subtree's hierarchy the folders, for any configuration, though  *)
(* the tables are written before the messages.                             *)
(***************************************************************************)
THEOREM TablesAgreeWithNodes == Spec => []RowsNameTheNodes
<1>1. Init => IInv /\ TypedStore /\ Agreement
  <2> SUFFICES ASSUME Init PROVE IInv /\ TypedStore /\ Agreement
    OBVIOUS
  <2>1. phase = "register" /\ Len(itemRecs) = 0
    BY DEF Init
  <2> QED BY <2>1, IInvInit, InitTyped, InitAgrees DEF TypedStore, Phases, MessagesInTurn
<1>2. IInv /\ TypedStore /\ Agreement /\ [Next]_vars => IInv' /\ TypedStore' /\ Agreement'
  BY StepImplements, StoreStaysTyped, StepAgrees
<1>3. TypedStore /\ Agreement => RowsNameTheNodes
  BY AgreementSuffices
<1> QED BY <1>1, <1>2, <1>3, PTL DEF Spec

=============================================================================
