---------------------------- MODULE StoreWriter ----------------------------
(***************************************************************************)
(* What writeM7Pst (mail), writeM8Pst (contacts) and writeM9Pst (events)   *)
(* have in common: a configuration of folders and items is turned into     *)
(* scheduled blocks and nodes by loops over folders or items, and a step   *)
(* is one iteration of one loop.  The bytes of a table or of a property    *)
(* context are left out, but for the row identifiers of the tables.        *)
(***************************************************************************)
EXTENDS NidSpace, BlockScheduler

CONSTANTS
  Configs,        \* the configurations the writer is called with
  IpmRowsInHeap,  \* hierarchy rows that fit; their matrix is never promoted
  MaxBlocks,      \* what the page trees of writeM5Pst can hold: 400 blocks
  MaxNodes        \* and 300 nodes

(***************************************************************************)
(* A configuration: [omitRft, folders]; a folder: [parent, items]; an      *)
(* item: [kind, body, ...], where body lists the lengths of the properties *)
(* that the item's PC promotes to subnodes and kind is "null", "item", or  *)
(* "misfit" for one of which a heap fits no block, so that a builder       *)
(* throws.                                                                 *)
(***************************************************************************)
ASSUME ConfigsAssumption ==
  \A c \in Configs :
    /\ c.omitRft \in BOOLEAN
    /\ c.folders \in Seq(ToSet(c.folders))
    /\ \A f \in DOMAIN c.folders :
         /\ c.folders[f].parent \in Nat
         /\ c.folders[f].items \in Seq(ToSet(c.folders[f].items))

VARIABLES
  config,         \* the argument
  phase, step,    \* the running loop and its completed iterations
  siblings,       \* registered siblings of the last folder
  allocated, nextIndex, ret,   \* M5Allocator
  folderRecs,     \* folder NIDs, in the order of config.folders
  itemRecs,       \* [nid, folder, src] per item that has its NID
  nodes,          \* [nid, parent, bidData, bidSub], in scheduling order
  sched,          \* the scheduled blocks
  tables          \* [nid, rows]: the row ids of the folders' tables

allocVars == <<allocated, nextIndex, ret>>
vars == <<config, phase, step, siblings, allocVars, folderRecs, itemRecs, nodes,
          sched, tables>>

\* The baseline's nodes and parents, in buildPstBaselineEntries' order.
BaselineEntries ==
  << <<33, 0>>, <<97, 0>>, <<290, 290>>, <<301, 0>>, <<302, 0>>, <<303, 0>>,
     <<1559, 0>>, <<481, 0>>, <<513, 0>>, <<1549, 0>>, <<1550, 0>>, <<1551, 0>>,
     <<1552, 0>>, <<1649, 0>>, <<1682, 0>>, <<8739, 290>>, <<32802, 290>>,
     <<32834, 290>>, <<32845, 0>>, <<32846, 0>>, <<32847, 0>>, <<32866, 32802>>,
     <<32877, 0>>, <<32878, 0>>, <<32879, 0>> >>

Baseline(omitRft) ==
  SelectSeq(BaselineEntries, LAMBDA e : ~(omitRft /\ e[1] = NID_RECEIVE_FOLDER_TABLE))

\* Each of the baseline's nodes is listed once, with its parent, with and
\* without the receive folder table.
ASSUME BaselineAssumption ==
  \A omitRft \in BOOLEAN :
    LET baseline == Baseline(omitRft)
    IN  /\ Len(baseline) \in Nat /\ DOMAIN baseline = 1..Len(baseline)
        /\ \A i \in DOMAIN baseline : baseline[i] \in Nat \X Nat
        /\ {baseline[i][1] : i \in DOMAIN baseline}
             = BaselineNids \ (IF omitRft THEN {NID_RECEIVE_FOLDER_TABLE} ELSE {})
        /\ \A i, j \in DOMAIN baseline : baseline[i][1] = baseline[j][1] => i = j

\* The minimal store has the tables the baseline leaves to its caller, and no
\* receive folder table.
ASSUME MinimalNidsAssumption ==
  MinimalNids = (BaselineNids \ {NID_RECEIVE_FOLDER_TABLE})
                  \cup {NID_IPM_HIERARCHY, NID_IPM_CONTENTS, NID_IPM_FAI}

NodeNids == {nodes[i].nid : i \in DOMAIN nodes}
Folders  == ToSet(folderRecs)
Items    == {itemRecs[i].nid : i \in DOMAIN itemRecs}

\* The nodes of this configuration's own follow the baseline's.
OwnNids ==
  LET first == Len(Baseline(config.omitRft)) + 1
  IN  {nodes[i].nid : i \in first..Len(nodes)}

RepeatedNids ==
  {nodes[i].nid : i \in {j \in DOMAIN nodes : \E k \in 1..(j - 1) : nodes[k].nid = nodes[j].nid}}

\* What StoreNodes says of these: the folder numbered last, which nodes are
\* scheduled, and what stopped the writer.
Current == IF folderRecs = <<>> THEN 0 ELSE Last(folderRecs)

Placed ==
  [t \in {NormalFolder, HierarchyTable, ContentsTable, AssocContentsTable, NormalMessage} |->
    IF t = NormalMessage THEN Items \cap OwnNids
    ELSE {f \in Folders : Nid(t, NidIndexOf(f)) \in OwnNids}]

Failure == IF phase \in {"exhausted", "collision", "other"} THEN phase ELSE "none"

Store == INSTANCE StoreNodes WITH
  registered <- phase # "register",
  folders    <- Folders,
  current    <- Current,
  items      <- Items,
  placed     <- Placed,
  ipmPlaced  <- NID_IPM_HIERARCHY \in OwnNids,
  nbt        <- NodeNids,
  twice      <- RepeatedNids,
  failure    <- Failure

-----------------------------------------------------------------------------

Node(nid, parent, bidData, bidSub) ==
  [nid |-> nid, parent |-> parent, bidData |-> bidData, bidSub |-> bidSub]

\* scheduleNode on top of the blocks s: one data block, one node.
ScheduleNode(s, nid, parent, bidSub) ==
  /\ sched' = AddDataBlock(s, 1)
  /\ nodes' = Append(nodes, Node(nid, parent, DataBid(s.nextData), bidSub))

NumFolders == Len(config.folders)

AllOfFolder(f) ==   \* mutant: null items are not skipped
  [i \in DOMAIN config.folders[f].items |->
    [folder |-> f, src |-> config.folders[f].items[i]]]
\* The items a folder's loop does not skip.
FolderItems(f) ==
  FlattenSeq([i \in DOMAIN config.folders[f].items |->
    IF config.folders[f].items[i].kind = "null" THEN <<>>
    ELSE <<[folder |-> f, src |-> config.folders[f].items[i]]>>])

AllItems == FlattenSeq([f \in DOMAIN config.folders |-> FolderItems(f)])

-----------------------------------------------------------------------------

Init ==
  /\ config \in Configs
  /\ phase = "register" /\ step = 0 /\ siblings = 3
  /\ Store!Alloc!Init
  /\ folderRecs = <<>> /\ itemRecs = <<>> /\ tables = <<>>
  /\ LET baseline == Baseline(config.omitRft)
     IN  /\ nodes = [i \in DOMAIN baseline |->
                       Node(baseline[i][1], baseline[i][2], DataBid(i), 0)]
         /\ sched = AddDataBlocks(NothingScheduled, [i \in DOMAIN baseline |-> 1])

Outcomes == {"written", "exhausted", "collision", "other"}

InLoop(loop, iterations) == phase = loop /\ step < iterations

\* The iteration ends, or the exception of which it dies ends everything.
Iterated      == step' = step + 1 /\ UNCHANGED phase
Threw(reason) == phase' = reason /\ UNCHANGED step

EndLoop(loop, iterations, next) ==
  /\ phase = loop /\ step = iterations /\ siblings = 3
  /\ phase' = next /\ step' = 0
  /\ UNCHANGED <<config, siblings, allocVars, folderRecs, itemRecs, nodes, sched, tables>>

RegisterBaselineNids ==
  /\ phase = "register" /\ phase' = "folders"
  /\ allocated' = allocated \cup Store!RegisteredBaseline
  /\ UNCHANGED <<config, step, siblings, nextIndex, ret, folderRecs, itemRecs,
                 nodes, sched, tables>>

AllocateFolder ==
  /\ InLoop("folders", NumFolders) /\ siblings = 3
  /\ Store!Alloc!Allocate(NormalFolder)
  /\ IF ret'.ok
     THEN folderRecs' = Append(folderRecs, ret'.nid) /\ siblings' = 0 /\ Iterated
     ELSE Threw("exhausted") /\ UNCHANGED <<folderRecs, siblings>>
  /\ UNCHANGED <<config, itemRecs, nodes, sched, tables>>

RegisterSibling ==
  /\ phase = "folders" /\ siblings < 3
  /\ Store!Alloc!RegisterExternal(
       Store!FolderNode(Store!SiblingType(siblings + 1), Last(folderRecs)))
  /\ siblings' = siblings + 1
  /\ IF ret'.ok THEN UNCHANGED <<phase, step>> ELSE Threw("collision")
  /\ UNCHANGED <<config, folderRecs, itemRecs, nodes, sched, tables>>

\* The next node of a folder, of those the writer schedules together: its PC
\* under the configured parent, or a table without rows and without a parent.
ScheduleFolderNode(types) ==
  /\ InLoop("folderNodes", Len(types) * NumFolders)
  /\ LET f   == (step \div Len(types)) + 1
         t   == types[(step % Len(types)) + 1]
         nid == Store!FolderNode(t, folderRecs[f])
     IN  IF t = NormalFolder
         THEN ScheduleNode(sched, nid, config.folders[f].parent, 0) /\ UNCHANGED tables
         ELSE /\ ScheduleNode(sched, nid, 0, 0)
              /\ tables' = Append(tables, [nid |-> nid, rows |-> <<>>])
  /\ Iterated
  /\ UNCHANGED <<config, siblings, allocVars, folderRecs, itemRecs>>

\* The next item's NID; what follows depends on the writer.
AllocateItem ==
  /\ Store!Alloc!Allocate(NormalMessage)
  /\ LET m == AllItems[Len(itemRecs) + 1]
     IN  itemRecs' = IF ret'.ok
                     THEN Append(itemRecs,
                            [nid |-> ret'.nid, folder |-> m.folder, src |-> m.src])
                     ELSE itemRecs
  /\ UNCHANGED <<config, siblings, folderRecs, nodes, sched, tables>>

\* One row for every folder, whatever its parent.
ScheduleIpmHierarchy ==
  /\ InLoop("ipm", 1)
  /\ IF Len(folderRecs) <= IpmRowsInHeap
     THEN /\ ScheduleNode(sched, NID_IPM_HIERARCHY, 0, 0)
          /\ tables' = Append(tables, [nid |-> NID_IPM_HIERARCHY, rows |-> folderRecs])
          /\ Iterated
     ELSE Threw("other") /\ UNCHANGED <<nodes, sched, tables>>
  /\ UNCHANGED <<config, siblings, allocVars, folderRecs, itemRecs>>

BidNextBOffByOne == DataBid(Len(AllBids(sched)))   \* mutant
\* What writeM5Pst puts into the header as the next block's BID.
BidNextB == DataBid(Len(AllBids(sched)) + 1)

\* Every block encoded, writeM5Pst called: it refuses what its page trees
\* cannot hold.
HandOver ==
  /\ phase = "encode"
  /\ phase' = IF Len(AllBids(sched)) <= MaxBlocks /\ Len(nodes) <= MaxNodes
              THEN "written" ELSE "other"
  /\ UNCHANGED <<config, step, siblings, allocVars, folderRecs, itemRecs, nodes,
                 sched, tables>>

\* The call has returned.  A state without a step before is a loop stuck.
Return == phase \in Outcomes /\ UNCHANGED vars

-----------------------------------------------------------------------------

\* Type correctness of the state the writers share.
WriterTypeOK ==
  /\ config \in Configs
  /\ step \in Nat /\ siblings \in 0..3
  /\ Store!Alloc!TypeOK
  /\ folderRecs \in Seq(Nat) /\ Len(folderRecs) <= NumFolders
  /\ Len(itemRecs) <= Len(AllItems)
  /\ \A i \in DOMAIN itemRecs : /\ itemRecs[i].nid \in Nat
                                /\ itemRecs[i].folder = AllItems[i].folder
  /\ \A n \in ToSet(nodes) : n \in [nid : Nat, parent : Nat, bidData : Nat, bidSub : Nat]
  /\ sched.nextData = Len(sched.data) + 1
  /\ sched.nextInternal = Len(sched.x) + Len(sched.sl) + 1

(***************************************************************************)
(* The writer is one of the runs StoreNodes allows: which NIDs it takes,   *)
(* which nodes it schedules and how it fails.                              *)
(***************************************************************************)
ImplementsStoreNodes == Store!Spec

(***************************************************************************)
(* The nodes of a store have distinct NIDs.  The node tree is built from   *)
(* whatever is scheduled and a reader finds one entry per NID, so a second *)
(* node under a NID would be lost.  Nothing checks a sibling table's NID,  *)
(* or the 0x802D written last, against the baseline's: that they differ    *)
(* rests on where the folder counter starts and on the baseline having     *)
(* been registered before the first folder.                                *)
(***************************************************************************)
NodeNidsDistinct == RepeatedNids = {}

(***************************************************************************)
(* The siblings of a fresh folder are never refused.  registerExternal     *)
(* throws on a NID in use and the writers do not catch that per folder, so *)
(* one collision would lose the whole store.                               *)
(***************************************************************************)
SiblingsNeverCollide == phase # "collision"

\* Every reference to a block, of nodes and of blocks: from where, to which BID.
References ==
  {<< <<"data", i, 0>>, nodes[i].bidData>> : i \in DOMAIN nodes}
    \cup {<< <<"sub", i, 0>>, nodes[i].bidSub>> :
            i \in {j \in DOMAIN nodes : nodes[j].bidSub # 0}}
    \cup BlockReferences(sched)

(***************************************************************************)
(* Between two iterations no block is lost and none is shared: each block  *)
(* has a BID of its own and exactly one reference to it, from a node, an   *)
(* SLBLOCK entry or an XBLOCK.  The block tree carries every block with a  *)
(* fixed reference count and nothing recounts them.                        *)
(***************************************************************************)
BlocksReferencedOnce ==
  /\ IsInjective(AllBids(sched))
  /\ \A p, q \in References : p[2] = q[2] => p = q
  /\ {p[2] : p \in References} = ToSet(AllBids(sched))

(***************************************************************************)
(* The header's bidNextB, computed from the number of blocks, is above the *)
(* BID of every block, though the blocks' BIDs come from two counters.     *)
(***************************************************************************)
NextBidIsFree ==
  phase = "written" => \A bid \in ToSet(AllBids(sched)) : bid < BidNextB

RowsOfTable(nid) == (CHOOSE t \in ToSet(tables) : t.nid = nid).rows

NodeOf(nid) == CHOOSE n \in ToSet(nodes) : n.nid = nid

\* The items below a folder as the node tree has it.
ChildItems(folder) ==
  {n.nid : n \in {m \in ToSet(nodes) : m.parent = folder
                                       /\ NidTypeOf(m.nid) = NormalMessage}}

=============================================================================
