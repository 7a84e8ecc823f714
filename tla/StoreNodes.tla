----------------------------- MODULE StoreNodes -----------------------------
(***************************************************************************)
(* Which nodes a store writer puts in the node tree.  writeM7Pst (mail),   *)
(* writeM8Pst (contacts) and writeM9Pst (events) share this skeleton: the  *)
(* baseline nodes, a folder NID per configured folder with the three       *)
(* sibling tables derived from its index, the IPM subtree's hierarchy      *)
(* table and a NID per item.  The skeleton leaves the contents of nodes    *)
(* and the order in which the writers fill them open.                      *)
(***************************************************************************)
EXTENDS NidSpace

VARIABLES
  allocated, nextIndex, ret,   \* the writer's M5Allocator
  registered,   \* registerBaselineReservedNids has run
  folders,      \* folder NIDs handed out to configured folders
  current,      \* the last of them
  siblings,     \* how many of its sibling NIDs are registered
  items,        \* message, contact or event NIDs handed out
  placed,       \* placed[t]: folders (or items) whose node of type t is scheduled
  ipmPlaced,    \* the IPM subtree's hierarchy table is scheduled
  nbt,          \* NIDs of the nodes scheduled so far
  twice,        \* NIDs scheduled more than once
  failure       \* what stopped the writer, "none" while it runs

Alloc == INSTANCE NidAllocator WITH
  AskedTypes <- {NormalFolder, NormalMessage}, AskedNids <- Nat

allocVars == <<allocated, nextIndex, ret>>
nodeVars  == <<registered, folders, current, siblings, items, placed,
               ipmPlaced, nbt, twice, failure>>
vars      == <<allocated, nextIndex, ret, registered, folders, current, siblings,
               items, placed, ipmPlaced, nbt, twice, failure>>

-----------------------------------------------------------------------------

\* The nodes of a folder: its own and its three tables.
FolderNodeTypes == {NormalFolder, HierarchyTable, ContentsTable, AssocContentsTable}

NodeTypes == FolderNodeTypes \cup {NormalMessage}

\* The sibling tables, in the order in which their NIDs are registered.
SiblingType(k) == 12 + k

\* The node of type t of a folder shares the folder's index.
FolderNode(t, folder) == Nid(t, NidIndexOf(folder))

Schedule(nids) ==
  /\ nbt' = nbt \cup nids
  /\ twice' = twice \cup (nbt \cap nids)

TablesOnly ==   \* mutant: the list names the tables and forgets their folders
  {nid \in kReserved : IsValidNidType(NidTypeOf(nid)) /\ NidTypeOf(nid) # NormalFolder}
InvalidOnly ==   \* mutant: the filter on types is the wrong way round
  {nid \in kReserved : ~IsValidNidType(NidTypeOf(nid))}
RegisteredBaseline == {nid \in kReserved : IsValidNidType(NidTypeOf(nid))}

-----------------------------------------------------------------------------

Init ==
  /\ Alloc!Init
  /\ registered = FALSE
  /\ folders = {} /\ current = 0 /\ siblings = 3 /\ items = {}
  /\ placed = [t \in NodeTypes |-> {}] /\ ipmPlaced = FALSE
  /\ \E omitted \in {{}, {NID_RECEIVE_FOLDER_TABLE}} : nbt = BaselineNids \ omitted
  /\ twice = {}
  /\ failure = "none"

\* registerBaselineReservedNids, which leaves out a NID it finds taken.
RegisterBaselineNids ==
  /\ failure = "none" /\ ~registered
  /\ registered' = TRUE
  /\ allocated' = allocated \cup RegisteredBaseline
  /\ UNCHANGED <<nextIndex, ret, folders, current, siblings, items, placed,
                 ipmPlaced, nbt, twice, failure>>

AllocateFolder ==
  /\ failure = "none" /\ registered /\ siblings = 3
  /\ Alloc!Allocate(NormalFolder)
  /\ IF ret'.ok
     THEN /\ folders' = folders \cup {ret'.nid}
          /\ current' = ret'.nid
          /\ siblings' = 0
          /\ UNCHANGED failure
     ELSE failure' = "exhausted" /\ UNCHANGED <<folders, current, siblings>>
  /\ UNCHANGED <<registered, items, placed, ipmPlaced, nbt, twice>>

\* The registration of the current folder's next sibling NID.
RegisterSibling ==
  /\ failure = "none" /\ siblings < 3
  /\ Alloc!RegisterExternal(FolderNode(SiblingType(siblings + 1), current))
  /\ siblings' = siblings + 1
  /\ failure' = IF ret'.ok THEN "none" ELSE "collision"
  /\ UNCHANGED <<registered, folders, current, items, placed, ipmPlaced, nbt, twice>>

AllocateItem ==
  /\ failure = "none" /\ registered /\ siblings = 3
  /\ Alloc!Allocate(NormalMessage)
  /\ IF ret'.ok
     THEN items' = items \cup {ret'.nid} /\ UNCHANGED failure
     ELSE failure' = "exhausted" /\ UNCHANGED items
  /\ UNCHANGED <<registered, folders, current, siblings, placed, ipmPlaced, nbt, twice>>

\* scheduleNode for a folder's own node or for one of its tables.
PlaceFolderNode(t, folder) ==
  /\ failure = "none" /\ siblings = 3
  /\ folder \in folders \ placed[t]
  /\ placed' = [placed EXCEPT ![t] = @ \cup {folder}]
  /\ Schedule({FolderNode(t, folder)})
  /\ UNCHANGED <<allocVars, registered, folders, current, siblings, items,
                 ipmPlaced, failure>>

\* The IPM subtree's hierarchy table, which the baseline leaves to the writer.
PlaceIpmHierarchy ==
  /\ failure = "none" /\ registered /\ siblings = 3
  /\ ~ipmPlaced /\ ipmPlaced' = TRUE
  /\ Schedule({NID_IPM_HIERARCHY})
  /\ UNCHANGED <<allocVars, registered, folders, current, siblings, items,
                 placed, failure>>

PlaceItem(item) ==
  /\ failure = "none" /\ siblings = 3
  /\ item \in items \ placed[NormalMessage]
  /\ placed' = [placed EXCEPT ![NormalMessage] = @ \cup {item}]
  /\ Schedule({item})
  /\ UNCHANGED <<allocVars, registered, folders, current, siblings, items,
                 ipmPlaced, failure>>

\* An exception from anywhere else: a body that fits no block, say.
GiveUp ==
  /\ failure = "none"
  /\ failure' = "other"
  /\ UNCHANGED <<allocVars, registered, folders, current, siblings, items,
                 placed, ipmPlaced, nbt, twice>>

Next ==
  \/ RegisterBaselineNids
  \/ AllocateFolder
  \/ RegisterSibling
  \/ AllocateItem
  \/ \E t \in FolderNodeTypes, f \in folders : PlaceFolderNode(t, f)
  \/ PlaceIpmHierarchy
  \/ \E i \in items : PlaceItem(i)
  \/ GiveUp

Spec == Init /\ [][Next]_vars

-----------------------------------------------------------------------------

TypeOK ==
  /\ Alloc!TypeOK
  /\ registered \in BOOLEAN
  /\ folders \in SUBSET Nat /\ current \in Nat /\ siblings \in 0..3
  /\ items \in SUBSET Nat
  /\ placed \in [NodeTypes -> SUBSET (folders \cup items)]
  /\ ipmPlaced \in BOOLEAN
  /\ nbt \in SUBSET Nat /\ twice \in SUBSET nbt
  /\ failure \in {"none", "exhausted", "collision", "other"}

(***************************************************************************)
(* The nodes of a store have distinct NIDs.  The node tree is built from   *)
(* whatever is scheduled and finds one entry per NID, so a second node     *)
(* under a NID would be lost to every reader.  Nothing checks a sibling    *)
(* table's NID, or the 0x802D written last, against the baseline's: that   *)
(* they differ rests on where the folder counter starts and on the         *)
(* baseline having been registered before the first folder.                *)
(***************************************************************************)
NodeNidsDistinct == twice = {}

(***************************************************************************)
(* The siblings of a fresh folder are never refused.  registerExternal     *)
(* throws on a NID in use and the writers do not catch that per folder, so *)
(* one collision would lose the whole store.                               *)
(***************************************************************************)
SiblingsNeverCollide == failure # "collision"

=============================================================================
