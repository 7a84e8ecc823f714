--------------------------- MODULE ItemStoreProofs ---------------------------
(***************************************************************************)
(* The writers for contacts and events, whatever the configurations, the   *)
(* ceiling on indices and the sizes of blocks: they implement StoreNodes,  *)
(* leave no block without its one reference, and leave no item out.        *)
(***************************************************************************)
EXTENDS ItemStore, StoreWriterProofs

(***************************************************************************)
(* Of a folder all four nodes are scheduled together, each once.           *)
(***************************************************************************)
LEMMA FourNodesPerFolder == Distinct(FolderNodeTypes)
BY DEF Distinct, FolderNodeTypes, FolderTypes, NormalFolder, HierarchyTable, ContentsTable,
       AssocContentsTable

(***************************************************************************)
(* The inductive invariant: what the writers share, and of the loop over   *)
(* the folders' nodes that it has scheduled those of its iterations.       *)
(***************************************************************************)
IInv == phase \in Running => Common /\ FolderNodesInTurn(FolderNodeTypes)

(***************************************************************************)
(* Nothing is scheduled when a writer starts.                              *)
(***************************************************************************)
LEMMA IInvInit ==
  ASSUME Init
  PROVE  IInv /\ Store!Init
<1>1. Store!Init /\ Common /\ phase = "register"
  BY InitIsInit DEF Init
<1> QED BY <1>1 DEF IInv, FolderNodesInTurn

(***************************************************************************)
(* Every loop but the folders' first begins with nothing in its turn.      *)
(***************************************************************************)
LEMMA NextLoopStep ==
  ASSUME Common, FolderNodesInTurn(FolderNodeTypes), NextLoop
  PROVE  UNCHANGED Store!vars /\ IInv'
<1>1. CASE EndLoop("folders", NumFolders, "folderNodes")
  BY <1>1, FolderNodesBegin, FourNodesPerFolder DEF IInv
<1>2. CASE EndLoop("folderNodes", Len(FolderNodeTypes) * NumFolders, "ipm")
  <2>1. UNCHANGED Store!vars /\ Common'
    BY <1>2, LoopEnded DEF Running, BeforeIpm
  <2> QED BY <1>2, <2>1 DEF EndLoop, IInv, FolderNodesInTurn
<1>3. CASE EndLoop("ipm", 1, "items")
  <2>1. UNCHANGED Store!vars /\ Common'
    BY <1>3, LoopEnded DEF Running, BeforeIpm
  <2> QED BY <1>3, <2>1 DEF EndLoop, IInv, FolderNodesInTurn
<1>4. CASE EndLoop("items", Len(AllItems), "encode")
  <2>1. UNCHANGED Store!vars /\ Common'
    BY <1>4, LoopEnded DEF Running, BeforeIpm
  <2> QED BY <1>4, <2>1 DEF EndLoop, IInv, FolderNodesInTurn
<1> QED BY <1>1, <1>2, <1>3, <1>4 DEF NextLoop

(***************************************************************************)
(* The second half of an iteration over an item.                           *)
(***************************************************************************)
LEMMA ScheduleItemStep ==
  ASSUME Common, ScheduleItem
  PROVE  Store!Next /\ (phase' \in Running => Common' /\ phase' = "items")
<1>1. /\ phase = "items" /\ Len(itemRecs) = step + 1
      /\ UNCHANGED <<config, siblings, allocVars, folderRecs, itemRecs>>
  BY DEF ScheduleItem, InLoop
<1>2. step + 1 \in DOMAIN itemRecs /\ Last(itemRecs) = itemRecs[step + 1]
  <2>1. PICK S : itemRecs \in Seq(S)
    BY DEF Common, Records, IsSeq
  <2>2. step \in Nat
    BY DEF Common, Control
  <2> QED BY <1>1, <2>1, <2>2 DEF Last
<1> DEFINE m == Last(itemRecs)
<1>3. CASE m.src.kind = "misfit"
  <2>1. phase' = "other" /\ UNCHANGED nodes
    BY <1>3 DEF ScheduleItem, Threw
  <2> QED BY <1>1, <2>1, Dies DEF Running
<1>4. CASE m.src.kind # "misfit"
  <2> DEFINE n == Node(m.nid, folderRecs[m.folder], DataBid(sched.nextData), 0)
  <2>1. NodeStep(n)
    BY <1>1, <1>4 DEF ScheduleItem, ScheduleNode, Iterated, NodeStep
  <2>2. n.nid = itemRecs[step + 1].nid
    BY <1>2 DEF Node
  <2> HIDE DEF n
  <2>3. Store!Next /\ Common'
    BY <1>1, <1>2, <2>1, <2>2, ItemStep
  <2> QED BY <1>1, <2>1, <2>3 DEF NodeStep
<1> QED BY <1>3, <1>4

(***************************************************************************)
(* Every step of a running writer is a step of StoreNodes or none at all.  *)
(***************************************************************************)
LEMMA StepImplements ==
  ASSUME IInv, [Next]_vars
  PROVE  IInv' /\ [Store!Next]_(Store!vars)
<1>1. ASSUME UNCHANGED vars PROVE IInv' /\ UNCHANGED Store!vars
  <2>1. UNCHANGED Store!vars /\ (Common => Common') /\ OwnNids' = OwnNids
    BY <1>1, Unmoved
  <2>2. UNCHANGED <<config, phase, step, folderRecs>>
    BY <1>1 DEF vars
  <2>3. FolderNodesInTurn(FolderNodeTypes) => FolderNodesInTurn(FolderNodeTypes)'
    BY <2>1, <2>2 DEF FolderNodesInTurn, Enumerated, NumFolders
  <2> QED BY <2>1, <2>2, <2>3 DEF IInv
<1>3. ASSUME phase \in Running, Next PROVE IInv' /\ [Store!Next]_(Store!vars)
  <2>0. Common /\ FolderNodesInTurn(FolderNodeTypes)
    BY <1>3 DEF IInv
  <2>1. CASE RegisterBaselineNids
    <3>1. Store!Next /\ Common' /\ phase' = "folders"
      BY <2>0, <2>1, BaselineRegistered DEF RegisterBaselineNids
    <3> QED BY <3>1 DEF IInv, FolderNodesInTurn
  <2>2. CASE AllocateFolder
    <3>1. Store!Next /\ (phase' \in Running => Common')
      BY <2>0, <2>2, FolderAllocated
    <3>2. phase' # "folderNodes"
      BY <2>2 DEF AllocateFolder, InLoop, Iterated, Threw
    <3> QED BY <3>1, <3>2 DEF IInv, FolderNodesInTurn
  <2>3. CASE RegisterSibling
    <3>1. Store!Next /\ (phase' \in Running => Common')
      BY <2>0, <2>3, SiblingRegistered
    <3>2. phase' # "folderNodes"
      BY <2>3 DEF RegisterSibling, Threw
    <3> QED BY <3>1, <3>2 DEF IInv, FolderNodesInTurn
  <2>4. CASE ScheduleFolderNode(FolderNodeTypes)
    BY <2>0, <2>4, FolderNodeScheduled, FourNodesPerFolder DEF IInv
  <2>5. CASE ScheduleIpmHierarchy
    <3>1. Store!Next /\ (phase' \in Running => Common')
      BY <2>0, <2>5, IpmHierarchyScheduled
    <3>2. phase' # "folderNodes"
      BY <2>5 DEF ScheduleIpmHierarchy, InLoop, Iterated, Threw
    <3> QED BY <3>1, <3>2 DEF IInv, FolderNodesInTurn
  <2>6. CASE NumberItem
    <3>1. /\ phase = "items" /\ AllocateItem
          /\ ret'.ok => phase' = phase /\ step' = step
          /\ ~ret'.ok => phase' = "exhausted" /\ step' = step
      BY <2>6 DEF NumberItem, InLoop, Threw
    <3>2. step' \in Nat
      BY <2>0, <3>1 DEF Common, Control
    <3>3. Store!Next /\ (phase' \in Running => Common')
      BY <2>0, <3>1, <3>2, ItemAllocated
    <3> QED BY <3>1, <3>3 DEF IInv, FolderNodesInTurn
  <2>7. CASE ScheduleItem
    <3>1. Store!Next /\ (phase' \in Running => Common' /\ phase' = "items")
      BY <2>0, <2>7, ScheduleItemStep
    <3> QED BY <3>1 DEF IInv, FolderNodesInTurn
  <2>8. CASE NextLoop
    BY <2>0, <2>8, NextLoopStep
  <2>9. CASE HandOver
    BY <2>0, <2>9, HandedOver DEF IInv
  <2>10. CASE Return
    BY <1>3, <2>10 DEF Return, Outcomes, Running
  <2> QED BY <1>3, <2>1, <2>2, <2>3, <2>4, <2>5, <2>6, <2>7, <2>8, <2>9, <2>10 DEF Next
<1>4. ASSUME phase \notin Running, Next PROVE UNCHANGED vars
  <2>1. ~NextLoop
    BY <1>4 DEF NextLoop, EndLoop, Running
  <2>2. Return
    BY <1>4, <2>1 DEF Next, RegisterBaselineNids, AllocateFolder, RegisterSibling,
       ScheduleFolderNode, ScheduleIpmHierarchy, NumberItem, ScheduleItem, HandOver,
       InLoop, Running
  <2> QED BY <2>2 DEF Return
<1> QED BY <1>1, <1>3, <1>4

(***************************************************************************)
(* writeM8Pst and writeM9Pst implement StoreNodes: which NIDs they take,   *)
(* which nodes they schedule and how they fail is one of its behaviours.   *)
(***************************************************************************)
THEOREM ItemStoreImplementsStoreNodes == Spec => ImplementsStoreNodes
<1>1. Init => IInv /\ Store!Init
  BY IInvInit
<1>2. IInv /\ [Next]_vars => IInv' /\ [Store!Next]_(Store!vars)
  BY StepImplements
<1> QED BY <1>1, <1>2, PTL DEF Spec, ImplementsStoreNodes, Store!Spec

(***************************************************************************)
(* No two nodes of a contact or event store have one NID, and no sibling   *)
(* table of a folder is refused its own.                                   *)
(***************************************************************************)
THEOREM NodesStayApart == Spec => [](NodeNidsDistinct /\ SiblingsNeverCollide)
<1> QED BY ItemStoreImplementsStoreNodes, NodesApart, PTL

-----------------------------------------------------------------------------

(***************************************************************************)
(* What the writer has typed and woven, running or not.                    *)
(***************************************************************************)
Phases ==
  {"register", "folders", "folderNodes", "ipm", "items", "encode"} \cup Outcomes

TypedStore == Typed /\ phase \in Phases

(***************************************************************************)
(* An item in the loop that numbers and schedules it.                      *)
(***************************************************************************)
LEMMA NumberItemTyped ==
  ASSUME Typed, Common, NumberItem
  PROVE  Typed' /\ phase' \in {"items", "exhausted"}
<1>1. /\ phase = "items" /\ step < Len(AllItems) /\ Len(itemRecs) = step
      /\ AllocateItem
      /\ step' = step /\ phase' \in {phase, "exhausted"}
  BY DEF NumberItem, InLoop, Threw
<1>2. Len(itemRecs) < Len(AllItems) /\ step' \in Nat
  BY <1>1 DEF Typed
<1> QED BY <1>1, <1>2, AllocateItemTyped

(***************************************************************************)
(* An item's body blocks, property context and node: well-typed, and no    *)
(* block without its reference.                                            *)
(***************************************************************************)
LEMMA ScheduleItemTyped ==
  ASSUME Typed, Common, ScheduleItem
  PROVE  Typed' /\ phase' \in {"items", "other"}
<1> DEFINE i == step + 1
           m == Last(itemRecs)
           parent == folderRecs[m.folder]
<1>1. /\ phase = "items" /\ Len(itemRecs) = i
      /\ UNCHANGED <<config, siblings, allocVars, folderRecs, itemRecs>>
  BY DEF ScheduleItem, InLoop
<1>2. \/ /\ step' = step /\ phase' = "other" /\ UNCHANGED <<nodes, sched>>
      \/ /\ ScheduleNode(sched, m.nid, parent, 0)
         /\ step' = step + 1 /\ phase' = phase
  BY DEF ScheduleItem, Threw, Iterated
<1>3. step' \in Nat
  BY <1>2 DEF Typed
<1>4. i \in 1..Len(itemRecs) /\ m = itemRecs[i]
  <2>1. step \in Nat
    BY DEF Typed
  <2> QED BY <1>1, <2>1 DEF Last
<1> HIDE DEF i, m
<1>5. m.nid \in Nat /\ m.folder \in 1..NumFolders
  BY <1>4, ItemTypedAt
<1>6. parent \in Nat
  <2>1. Len(folderRecs) = NumFolders
    BY <1>1 DEF Common, Control
  <2> QED BY <1>5, <2>1, FolderTypedAt
<1> HIDE DEF parent
<1>7. NodesWritten'
  <2>1. CASE UNCHANGED <<nodes, sched>>
    BY <2>1, NodesKept DEF Typed
  <2>2. CASE ScheduleNode(sched, m.nid, parent, 0)
    BY <1>5, <1>6, <2>2, PlainNodeWritten DEF Typed
  <2> QED BY <1>2, <2>1, <2>2
<1> QED BY <1>1, <1>2, <1>3, <1>7, NodeDone

(***************************************************************************)
(* No step leaves a block unreferenced, refers to one twice or makes up a  *)
(* type.                                                                   *)
(***************************************************************************)
LEMMA StoreStaysTyped ==
  ASSUME IInv, TypedStore, [Next]_vars
  PROVE  TypedStore'
<1>0. Typed
  BY DEF TypedStore
<1>1. CASE UNCHANGED vars
  <2>1. Typed'
    BY <1>0, <1>1, UnchangedTyped
  <2> QED BY <1>1, <2>1 DEF TypedStore, vars, Phases
<1>2. CASE phase \notin Running /\ Next
  <2>1. ~NextLoop
    BY <1>2 DEF NextLoop, EndLoop, Running
  <2>2. Return
    BY <1>2, <2>1 DEF Next, RegisterBaselineNids, AllocateFolder, RegisterSibling,
       ScheduleFolderNode, ScheduleIpmHierarchy, NumberItem, ScheduleItem, HandOver,
       InLoop, Running
  <2>3. UNCHANGED vars
    BY <2>2 DEF Return
  <2> QED BY <1>1, <2>3
<1>3. CASE phase \in Running /\ Next
  <2>0. Common
    BY <1>3 DEF IInv
  <2>1. CASE RegisterBaselineNids
    <3>1. phase' \in Phases
      BY <2>1 DEF RegisterBaselineNids, Phases
    <3> QED BY <1>0, <2>1, <3>1, RegisterBaselineNidsTyped DEF TypedStore
  <2>2. CASE AllocateFolder
    <3>1. phase' \in Phases
      BY <2>2 DEF AllocateFolder, InLoop, Iterated, Threw, Phases, Outcomes
    <3> QED BY <1>0, <2>0, <2>2, <3>1, AllocateFolderTyped DEF TypedStore
  <2>3. CASE RegisterSibling
    <3>1. phase' \in Phases
      BY <2>3 DEF RegisterSibling, Threw, Phases, Outcomes
    <3> QED BY <1>0, <2>0, <2>3, <3>1, RegisterSiblingTyped DEF TypedStore
  <2>4. CASE ScheduleFolderNode(FolderNodeTypes)
    <3>1. phase' \in Phases
      BY <2>4 DEF ScheduleFolderNode, InLoop, Iterated, Phases
    <3> QED BY <1>0, <2>0, <2>4, <3>1, FourNodesPerFolder, ScheduleFolderNodeTyped
            DEF TypedStore
  <2>5. CASE ScheduleIpmHierarchy
    <3>1. phase' \in Phases
      BY <2>5 DEF ScheduleIpmHierarchy, InLoop, Iterated, Threw, Phases, Outcomes
    <3> QED BY <1>0, <2>5, <3>1, ScheduleIpmHierarchyTyped DEF TypedStore
  <2>6. CASE NumberItem
    BY <1>0, <2>0, <2>6, NumberItemTyped DEF TypedStore, Phases, Outcomes
  <2>7. CASE ScheduleItem
    BY <1>0, <2>0, <2>7, ScheduleItemTyped DEF TypedStore, Phases, Outcomes
  <2>8. CASE NextLoop
    <3>1. phase' \in Phases
      BY <2>8 DEF NextLoop, EndLoop, Phases
    <3>2. Typed'
      BY <1>0, <2>8, EndLoopTyped DEF NextLoop
    <3> QED BY <3>1, <3>2 DEF TypedStore
  <2>9. CASE HandOver
    <3>1. phase' \in Phases
      BY <2>9 DEF HandOver, Phases, Outcomes
    <3> QED BY <1>0, <2>9, <3>1, HandOverTyped DEF TypedStore
  <2>10. CASE Return
    BY <1>3, <2>10 DEF Return, Outcomes, Running
  <2> QED BY <1>3, <2>1, <2>2, <2>3, <2>4, <2>5, <2>6, <2>7, <2>8, <2>9, <2>10 DEF Next
<1> QED BY <1>1, <1>2, <1>3

(***************************************************************************)
(* Types, blocks and phases through every step of the contact and event    *)
(* writers.                                                                *)
(***************************************************************************)
LEMMA StoreTypedAlways == Spec => []TypedStore
<1>1. Init => IInv /\ TypedStore
  BY IInvInit, InitTyped DEF TypedStore, Init, Phases
<1>2. IInv /\ TypedStore /\ [Next]_vars => IInv' /\ TypedStore'
  BY StepImplements, StoreStaysTyped
<1> QED BY <1>1, <1>2, PTL DEF Spec

(***************************************************************************)
(* Type correctness of the writers for contacts and events.                *)
(***************************************************************************)
THEOREM TypeCorrect == Spec => []TypeOK
<1>1. TypedStore => TypeOK
  BY TypedIsTypeOK DEF TypedStore, Phases, TypeOK
<1> QED BY <1>1, StoreTypedAlways, PTL

(***************************************************************************)
(* No block of a contact or event store is lost or shared, and the header  *)
(* announces a block number above all of them.                             *)
(***************************************************************************)
THEOREM BlocksWellReferenced == Spec => [](BlocksReferencedOnce /\ NextBidIsFree)
<1>1. TypedStore => BlocksReferencedOnce /\ NextBidIsFree
  BY WovenBlocks DEF TypedStore, Typed, NodesWritten
<1> QED BY <1>1, StoreTypedAlways, PTL

-----------------------------------------------------------------------------

(***************************************************************************)
(* Sets whose elements are matched one to one have as many.                *)
(***************************************************************************)
LEMMA SameNumber ==
  ASSUME NEW S, NEW T, IsFiniteSet(S), NEW f,
         \A x \in S : f[x] \in T,
         \A y \in T : \E x \in S : f[x] = y,
         \A x, y \in S : f[x] = f[y] => x = y
  PROVE  IsFiniteSet(T) /\ Cardinality(T) = Cardinality(S)
<1> DEFINE g == [x \in S |-> f[x]]
<1>1. g \in [S -> T] /\ DOMAIN g = S /\ \A x \in S : g[x] = f[x]
  OBVIOUS
<1> HIDE DEF g
<1>2. IsInjective(g)
  BY <1>1 DEF IsInjective
<1>3. \A y \in T : \E x \in S : g[x] = y
  BY <1>1
<1>4. g \in Bijection(S, T)
  BY <1>1, <1>2, <1>3 DEF Bijection, Injection, Surjection
<1>5. ExistsBijection(S, T)
  BY <1>4 DEF ExistsBijection
<1> QED BY <1>5, FS_Bijection

(***************************************************************************)
(* In a concatenation a vector takes as many places as it has elements.    *)
(***************************************************************************)
LEMMA PlacesTaken ==
  ASSUME NEW seqs, NEW m, NEW flat, NEW from, NEW at, Len(flat) \in Nat,
         Places(seqs, m, flat, from, at), NEW a \in 1..m, Len(seqs[a]) \in Nat,
         m \in Nat, NEW taken, taken = {i \in 1..Len(flat) : from[i] = a}
  PROVE  IsFiniteSet(taken) /\ Cardinality(taken) = Len(seqs[a])
<1> DEFINE len == Len(seqs[a])
<1>1. IsFiniteSet(taken)
  <2>1. IsFiniteSet(1..Len(flat))
    BY FS_Interval
  <2> QED BY <2>1, FS_Subset
<1>2. \A i \in taken : at[i] \in 1..len
  BY DEF Places
<1>3. ASSUME NEW b \in 1..len PROVE \E i \in taken : at[i] = b
  <2>1. PICK i \in 1..Len(flat) : from[i] = a /\ at[i] = b
    BY DEF Places
  <2> QED BY <2>1
<1>4. ASSUME NEW i \in taken, NEW j \in taken, at[i] = at[j] PROVE i = j
  <2>1. /\ i \in 1..Len(flat) /\ j \in 1..Len(flat) /\ from[i] = a /\ from[j] = a
        /\ at[i] \in Nat
    BY <1>2
  <2>2. /\ i < j => from[i] < from[j] \/ (from[i] = from[j] /\ at[i] < at[j])
        /\ j < i => from[j] < from[i] \/ (from[j] = from[i] /\ at[j] < at[i])
    BY <2>1 DEF Places
  <2> QED BY <1>4, <2>1, <2>2
<1> HIDE DEF len
<1>5. Cardinality(1..len) = Cardinality(taken)
  <2> DEFINE T == 1..len
  <2>1. \A i \in taken : at[i] \in T
    BY <1>2
  <2>2. \A b \in T : \E i \in taken : at[i] = b
    BY <1>3
  <2>3. \A i, j \in taken : at[i] = at[j] => i = j
    BY <1>4
  <2> HIDE DEF T
  <2>4. Cardinality(T) = Cardinality(taken)
    BY ONLY <1>1, <2>1, <2>2, <2>3, SameNumber
  <2> QED BY <2>4 DEF T
<1>6. Cardinality(1..len) = len
  <2>1. len \in Nat
    BY DEF len
  <2>2. Cardinality(1..len) = IF 1 > len THEN 0 ELSE len - 1 + 1
    BY <2>1, FS_Interval
  <2> QED BY <2>1, <2>2
<1> QED BY <1>1, <1>5, <1>6 DEF len

(***************************************************************************)
(* A concatenation of vectors of at most one element is as long as there   *)
(* are vectors that have one.                                              *)
(***************************************************************************)
LEMMA SingletonsCounted ==
  ASSUME NEW seqs, NEW m, NEW flat, NEW from, NEW at, Len(flat) \in Nat,
         Places(seqs, m, flat, from, at), m \in Nat,
         \A a \in 1..m : Len(seqs[a]) \in {0, 1}
  PROVE  Cardinality({a \in 1..m : Len(seqs[a]) = 1}) = Len(flat)
<1> DEFINE len == Len(flat)
           ones == {a \in 1..m : Len(seqs[a]) = 1}
<1>1. ASSUME NEW i \in 1..len PROVE from[i] \in ones /\ at[i] = 1
  <2>1. from[i] \in 1..m /\ at[i] \in 1..Len(seqs[from[i]])
    BY DEF Places
  <2>2. Len(seqs[from[i]]) \in {0, 1}
    BY <2>1
  <2>3. Len(seqs[from[i]]) = 1 /\ at[i] = 1
    <3>1. Len(seqs[from[i]]) # 0
      BY <2>1
    <3>2. Len(seqs[from[i]]) = 1
      BY <2>2, <3>1
    <3>3. at[i] \in 1..1
      BY <2>1, <3>2
    <3> QED BY <3>2, <3>3
  <2> QED BY <2>1, <2>3
<1>2. ASSUME NEW a \in ones PROVE \E i \in 1..len : from[i] = a
  <2>1. a \in 1..m /\ Len(seqs[a]) = 1
    OBVIOUS
  <2>2. 1 \in 1..Len(seqs[a])
    BY <2>1
  <2>3. PICK i \in 1..Len(flat) : from[i] = a /\ at[i] = 1
    BY <2>1, <2>2 DEF Places
  <2> QED BY <2>3
<1>3. ASSUME NEW i \in 1..len, NEW j \in 1..len, from[i] = from[j] PROVE i = j
  <2>1. at[i] = 1 /\ at[j] = 1 /\ from[i] \in 1..m
    BY <1>1
  <2>2. /\ i < j => from[i] < from[j] \/ (from[i] = from[j] /\ at[i] < at[j])
        /\ j < i => from[j] < from[i] \/ (from[j] = from[i] /\ at[j] < at[i])
    BY DEF Places
  <2> QED BY <1>3, <2>1, <2>2
<1> HIDE DEF ones, len
<1>4. IsFiniteSet(1..len)
  BY FS_Interval DEF len
<1>5. Cardinality(ones) = Cardinality(1..len)
  BY <1>1, <1>2, <1>3, <1>4, SameNumber
<1>6. Cardinality(1..len) = len
  <2>1. len \in Nat
    BY DEF len
  <2>2. Cardinality(1..len) = IF 1 > len THEN 0 ELSE len - 1 + 1
    BY <2>1, FS_Interval
  <2> QED BY <2>1, <2>2
<1> QED BY <1>5, <1>6 DEF ones, len

\* The items a folder is given, null ones apart.
Given(f) ==
  {i \in DOMAIN config.folders[f].items : config.folders[f].items[i].kind # "null"}

(***************************************************************************)
(* They are as many as a folder's loop meets.                              *)
(***************************************************************************)
LEMMA FolderItemsCounted ==
  ASSUME config \in Configs, NEW f \in 1..NumFolders
  PROVE  /\ IsSeq(FolderItems(f)) /\ Len(FolderItems(f)) = Cardinality(Given(f))
         /\ \A b \in 1..Len(FolderItems(f)) : FolderItems(f)[b].folder = f
<1> DEFINE items == config.folders[f].items
           n == Len(items)
           item(i) == [folder |-> f, src |-> items[i]]
           Piece(i) == IF items[i].kind = "null" THEN <<>> ELSE <<item(i)>>
           pieces == [i \in DOMAIN items |-> Piece(i)]
           flat == FolderItems(f)
<1>1. n \in Nat /\ DOMAIN items = 1..n
  <2>1. items \in Seq(ToSet(items))
    BY AllItemsFacts, ConfigsAssumption
  <2> HIDE DEF items
  <2> QED BY <2>1
<1>2. flat = FlattenSeq(pieces)
  BY DEF FolderItems
<1>3. ASSUME NEW i \in 1..n
      PROVE  /\ IsSeq(Piece(i))
             /\ items[i].kind # "null" => Len(Piece(i)) = 1 /\ Piece(i)[1].folder = f
             /\ items[i].kind = "null" => Len(Piece(i)) = 0
  <2> DEFINE x == item(i)
             one == <<x>>
             none == <<>>
  <2>1. one \in Seq({x}) /\ Len(one) = 1 /\ one[1] = x /\ x.folder = f
    OBVIOUS
  <2>2. none \in Seq({x}) /\ Len(none) = 0
    OBVIOUS
  <2>3. IsSeq(one) /\ IsSeq(none)
    BY <2>1, <2>2 DEF IsSeq
  <2>4. Piece(i) = IF items[i].kind = "null" THEN none ELSE one
    OBVIOUS
  <2>5. one[1].folder = f
    BY <2>1
  <2> HIDE DEF one, none, Piece
  <2> QED BY <2>1, <2>2, <2>3, <2>4, <2>5
<1>4. IsSeq(pieces) /\ Len(pieces) = n /\ \A i \in 1..n : pieces[i] = Piece(i)
  <2>1. pieces = [i \in 1..n |-> Piece(i)]
    BY <1>1
  <2> HIDE DEF pieces, n, Piece
  <2>2. \A i \in 1..n : pieces[i] = Piece(i)
    BY <2>1
  <2>3. pieces = [i \in 1..n |-> pieces[i]]
    BY <2>1
  <2> QED BY <1>1, <2>2, <2>3, FunctionIsVector
<1>5. Given(f) = {i \in 1..n : items[i].kind # "null"}
  BY <1>1 DEF Given
<1> HIDE DEF items, n, item, Piece, pieces, flat
<1>6. \A a \in 1..Len(pieces) : IsSeq(pieces[a])
  BY <1>3, <1>4
<1>7. IsSeq(flat) /\ \E from, at : Places(pieces, n, flat, from, at)
  BY <1>2, <1>4, <1>6, FlattenedPlaces
<1>8. PICK from, at : Places(pieces, n, flat, from, at)
  BY <1>7
<1>9. Len(flat) \in Nat
  BY <1>7, Vector
<1>10. \A a \in 1..n : /\ Len(pieces[a]) \in {0, 1}
                       /\ Len(pieces[a]) = 1 <=> items[a].kind # "null"
  BY <1>3, <1>4
<1>11. Given(f) = {a \in 1..n : Len(pieces[a]) = 1}
  BY <1>5, <1>10
<1>12. Cardinality(Given(f)) = Len(flat)
  <2>1. \A a \in 1..n : Len(pieces[a]) \in {0, 1}
    BY <1>10
  <2> QED BY <1>1, <1>8, <1>9, <1>11, <2>1, SingletonsCounted
<1>13. ASSUME NEW b \in 1..Len(flat) PROVE flat[b].folder = f
  <2>1. from[b] \in 1..n /\ at[b] \in 1..Len(pieces[from[b]]) /\ flat[b] = pieces[from[b]][at[b]]
    BY <1>8 DEF Places
  <2>2. Len(pieces[from[b]]) \in {0, 1}
    BY <1>10, <2>1
  <2>3. at[b] = 1 /\ Len(pieces[from[b]]) = 1
    BY <2>1, <2>2
  <2>4. items[from[b]].kind # "null" /\ pieces[from[b]] = Piece(from[b])
    BY <1>4, <1>10, <2>1, <2>3
  <2>5. Piece(from[b])[1].folder = f
    BY <1>3, <2>1, <2>4
  <2> QED BY <2>1, <2>3, <2>4, <2>5
<1> QED BY <1>7, <1>12, <1>13 DEF flat

(***************************************************************************)
(* The loops over all items meet each folder's as often.                   *)
(***************************************************************************)
LEMMA AllItemsCounted ==
  ASSUME config \in Configs, NEW f \in 1..NumFolders
  PROVE  \E places : /\ places = {k \in 1..Len(AllItems) : AllItems[k].folder = f}
                     /\ IsFiniteSet(places) /\ Cardinality(places) = Cardinality(Given(f))
<1> DEFINE n == NumFolders
           lists == [g \in DOMAIN config.folders |-> FolderItems(g)]
           flat == AllItems
<1>1. n \in Nat /\ DOMAIN config.folders = 1..n
  BY AllItemsFacts, Configured
<1>2. flat = FlattenSeq(lists)
  BY DEF AllItems
<1>3. ASSUME NEW g \in 1..n
      PROVE  /\ IsSeq(FolderItems(g)) /\ Len(FolderItems(g)) = Cardinality(Given(g))
             /\ Len(FolderItems(g)) \in Nat
             /\ \A b \in 1..Len(FolderItems(g)) : FolderItems(g)[b].folder = g
  BY FolderItemsCounted, Vector
<1>4. IsSeq(lists) /\ Len(lists) = n /\ \A g \in 1..n : lists[g] = FolderItems(g)
  <2>1. lists = [g \in 1..n |-> FolderItems(g)]
    BY <1>1
  <2> HIDE DEF lists, n
  <2>2. \A g \in 1..n : lists[g] = FolderItems(g)
    BY <2>1
  <2>3. lists = [g \in 1..n |-> lists[g]]
    BY <2>1
  <2> QED BY <1>1, <2>2, <2>3, FunctionIsVector
<1> HIDE DEF lists, flat
<1>5. \A a \in 1..Len(lists) : IsSeq(lists[a])
  BY <1>3, <1>4
<1>6. IsSeq(flat) /\ \E from, at : Places(lists, n, flat, from, at)
  BY <1>2, <1>4, <1>5, FlattenedPlaces
<1>7. PICK from, at : Places(lists, n, flat, from, at)
  BY <1>6
<1>8. Len(flat) \in Nat
  BY <1>6, Vector
<1>9. ASSUME NEW k \in 1..Len(flat) PROVE flat[k].folder = from[k]
  <2>1. from[k] \in 1..n /\ at[k] \in 1..Len(lists[from[k]]) /\ flat[k] = lists[from[k]][at[k]]
    BY <1>7 DEF Places
  <2> QED BY <1>3, <1>4, <2>1
<1> DEFINE places == {k \in 1..Len(flat) : flat[k].folder = f}
           taken == {k \in 1..Len(flat) : from[k] = f}
<1>10. places = taken
  BY <1>9
<1>11. Len(lists[f]) \in Nat /\ Len(lists[f]) = Cardinality(Given(f))
  BY <1>3, <1>4
<1>12. IsFiniteSet(taken) /\ Cardinality(taken) = Len(lists[f])
  <2>1. PICK S : S = taken
    OBVIOUS
  <2>2. IsFiniteSet(S) /\ Cardinality(S) = Len(lists[f])
    <3> HIDE DEF n
    <3>1. S = {i \in 1..Len(flat) : from[i] = f} /\ f \in 1..n
      BY <2>1 DEF n
    <3> QED BY <1>1, <1>7, <1>8, <1>11, <3>1, PlacesTaken
  <2> HIDE DEF taken
  <2> QED BY <2>1, <2>2
<1>13. IsFiniteSet(places) /\ Cardinality(places) = Cardinality(Given(f))
  <2> HIDE DEF places, taken
  <2> QED BY <1>10, <1>11, <1>12
<1> QED BY <1>13 DEF flat, places

(***************************************************************************)
(* In a written store a folder has as many items as the configuration      *)
(* gives it: each has a node of its own, which names its folder.           *)
(***************************************************************************)
LEMMA ChildItemsCounted ==
  ASSUME Typed, Records, FiledUpTo(Len(itemRecs)), Len(folderRecs) = NumFolders,
         Len(itemRecs) = Len(AllItems), NEW f \in 1..NumFolders
  PROVE  Cardinality(ChildItems(folderRecs[f])) = Cardinality(Given(f))
<1> DEFINE n == Len(AllItems)
           children == ChildItems(folderRecs[f])
           Of(k) == itemRecs[k].nid
<1>1. /\ Len(itemRecs) = n /\ DOMAIN itemRecs = 1..n
      /\ \A k \in 1..n : itemRecs[k].folder = AllItems[k].folder
      /\ \A k, l \in 1..n : Of(k) = Of(l) => k = l
  BY Vector DEF Typed, ItemsNumbered, Records
<1>2. PICK places : /\ places = {k \in 1..n : AllItems[k].folder = f}
                    /\ IsFiniteSet(places) /\ Cardinality(places) = Cardinality(Given(f))
  BY AllItemsCounted DEF Typed
<1>3. /\ \A i, j \in 1..Len(folderRecs) : folderRecs[i] = folderRecs[j] => i = j
      /\ \A k \in 1..Len(itemRecs) : itemRecs[k].folder \in 1..Len(folderRecs)
      /\ IsSeq(nodes) /\ f \in 1..Len(folderRecs)
  BY FolderRecsFacts, ItemTypedAt DEF Records
<1>4. /\ \A k \in 1..n : itemRecs[k].folder = f => Of(k) \in children
      /\ \A nid \in children : \E k \in 1..n : itemRecs[k].folder = f /\ Of(k) = nid
  BY <1>1, <1>3, ChildItemsAre
<1> DEFINE g == [k \in places |-> Of(k)]
<1>5. \A k \in places : k \in 1..n /\ itemRecs[k].folder = f /\ g[k] = Of(k)
  BY <1>1, <1>2
<1> HIDE DEF Of, children, g, n
<1>6. \A k \in places : g[k] \in children
  BY <1>4, <1>5
<1>7. ASSUME NEW nid \in children PROVE \E k \in places : g[k] = nid
  <2>1. PICK k \in 1..n : itemRecs[k].folder = f /\ Of(k) = nid
    BY <1>4
  <2>2. k \in places
    BY <1>1, <1>2, <2>1
  <2> QED BY <1>5, <2>1, <2>2
<1>8. \A k, l \in places : g[k] = g[l] => k = l
  BY <1>1, <1>5
<1>9. Cardinality(children) = Cardinality(places)
  BY ONLY <1>2, <1>6, <1>7, <1>8, SameNumber
<1> QED BY <1>2, <1>9 DEF children

(***************************************************************************)
(* What a store has on its way to being complete.  The loop over the       *)
(* folders' nodes has scheduled those of its iterations, so that after it  *)
(* none is missing; the loop over the items is at most an item behind its  *)
(* numbering and has filed all before.                                     *)
(***************************************************************************)
FoldersFurnished ==
  /\ phase = "folderNodes" => Enumerated(FolderNodeTypes, step) \subseteq NodeNids
  /\ phase \in {"ipm", "items", "encode", "written"} =>
       FolderNodesOf(FolderTypes) \subseteq NodeNids

ItemsInTurn ==
  /\ phase \in BeforeIpm \cup {"ipm"} => Len(itemRecs) = 0
  /\ phase = "items" => Len(itemRecs) \in {step, step + 1}
  /\ phase \in {"encode", "written"} => Len(itemRecs) = Len(AllItems)

Completion ==
  phase \in Running \cup {"written"} =>
    /\ FiledUpTo(Scheduled)
    /\ HierarchyListed
    /\ FoldersFurnished
    /\ ItemsInTurn
    /\ Finished

(***************************************************************************)
(* Where the loop over the folders' nodes ends each folder has its four.   *)
(***************************************************************************)
LEMMA FoldersComplete ==
  ASSUME Len(FolderNodeTypes) * NumFolders = step, NumFolders \in Nat, IsSeq(folderRecs),
         Len(folderRecs) = NumFolders, Enumerated(FolderNodeTypes, step) \subseteq NodeNids
  PROVE  FolderNodesOf(FolderTypes) \subseteq NodeNids
<1>1. Len(FolderNodeTypes) = 4 /\ \A t \in FolderTypes : \E i \in 1..4 : FolderNodeTypes[i] = t
  BY DEF FolderNodeTypes, FolderTypes, NormalFolder, HierarchyTable, ContentsTable,
     AssocContentsTable
<1>2. DOMAIN folderRecs = 1..NumFolders
  BY Vector
<1>3. ASSUME NEW t \in FolderTypes, NEW folder \in Folders
      PROVE  FolderNode(t, folder) \in NodeNids
  <2>1. PICK i \in 1..4 : FolderNodeTypes[i] = t
    BY <1>1
  <2>2. PICK g \in 1..NumFolders : folderRecs[g] = folder
    BY <1>2 DEF Folders, ToSet
  <2> DEFINE j == 4 * (g - 1) + (i - 1)
  <2>3. j \in 0..(step - 1) /\ (j % 4) + 1 = i /\ (j \div 4) + 1 = g
    BY <1>1, SMT
  <2> HIDE DEF j
  <2>4. FolderNode(t, folder) \in Enumerated(FolderNodeTypes, step)
    BY <1>1, <2>1, <2>2, <2>3 DEF Enumerated
  <2> QED BY <2>4
<1> QED BY <1>3 DEF FolderNodesOf

(***************************************************************************)
(* The next node of a folder.                                              *)
(***************************************************************************)
LEMMA FolderNodeCompletes ==
  ASSUME Completion, Common, ScheduleFolderNode(FolderNodeTypes)
  PROVE  Completion'
<1> DEFINE types == FolderNodeTypes
           L == Len(types)
           f == (step \div L) + 1
           t == types[(step % L) + 1]
           nid == Store!FolderNode(t, folderRecs[f])
           pc == Node(nid, config.folders[f].parent, DataBid(sched.nextData), 0)
           of == Node(nid, 0, DataBid(sched.nextData), 0)
           table == [nid |-> nid, rows |-> <<>>]
<1>1. /\ phase = "folderNodes" /\ step < L * NumFolders /\ step \in Nat
      /\ phase' = phase /\ step' = step + 1
      /\ UNCHANGED <<config, folderRecs, itemRecs>>
  BY DEF ScheduleFolderNode, InLoop, Iterated, Common, Control
<1>2. \/ nodes' = Append(nodes, pc) /\ tables' = tables
      \/ nodes' = Append(nodes, of) /\ tables' = Append(tables, table)
  BY DEF ScheduleFolderNode, ScheduleNode
<1>3. L \in {3, 4} /\ NumFolders \in Nat /\ Len(folderRecs) = NumFolders
  BY <1>1, FourNodesPerFolder, Configured DEF Distinct, Common, Control
<1>4. f \in 1..NumFolders /\ (step % L) + 1 \in 1..L
  <2>1. step \div L \in Nat /\ step % L \in 0..(L - 1) /\ step \div L < NumFolders
    BY <1>1, <1>3, Divisions
  <2> QED BY <1>3, <2>1
<1>5. t \in FolderTypes
  BY <1>4, FourNodesPerFolder DEF Distinct
<1>6. pc.nid = nid /\ of.nid = nid /\ table.nid = nid
  BY DEF Node
<1>7. \A g \in 1..NumFolders : /\ UserNid(NormalFolder, folderRecs[g])
                               /\ folderRecs[g] \in Folders
  BY <1>3, FolderRecsFacts DEF Common
<1>8. nid = FolderNode(t, folderRecs[f])
  BY SameNames DEF Store!FolderNode, FolderNode
<1> HIDE DEF pc, of, table
<1>9. Enumerated(types, step + 1) = Enumerated(types, step) \cup {nid}
  <2>1. 0..((step + 1) - 1) = 0..(step - 1) \cup {step}
    BY <1>1
  <2> HIDE DEF nid
  <2> QED BY <1>8, <2>1 DEF Enumerated
<1>10. Enumerated(types, step)' = Enumerated(types, step + 1)
  BY <1>1 DEF Enumerated
<1> HIDE DEF f, t, L
<1>11. NidTypeOf(nid) # NormalMessage
  BY <1>4, <1>5, <1>7, <1>8, TypesTellItems
<1>12. nid \in FolderNodesOf(FolderTypes)
  BY <1>4, <1>5, <1>7, <1>8 DEF FolderNodesOf
<1> HIDE DEF nid
<1>13. /\ FiledUpTo(Scheduled) /\ HierarchyListed
       /\ Enumerated(types, step) \subseteq NodeNids /\ Len(itemRecs) = 0
  BY <1>1 DEF Completion, Running, FoldersFurnished, ItemsInTurn, BeforeIpm
<1>14. IsSeq(nodes)
  BY DEF Common, Records
<1>15. PICK n : nodes' = Append(nodes, n) /\ n.nid = nid
  BY <1>2, <1>6
<1>16. Scheduled = 0 /\ Scheduled' = 0 /\ HierarchyToCome /\ HierarchyToCome' /\ phase \in BeforeIpm
  BY <1>1 DEF Scheduled, HierarchyToCome, BeforeIpm
<1>17. FiledUpTo(0)'
  BY <1>1, <1>11, <1>13, <1>14, <1>15, <1>16, OtherNodeFiled
<1>18. HierarchyListed'
  <2>1. CASE tables' = tables
    BY <1>1, <1>13, <1>16, <2>1, TablesKept
  <2>2. CASE tables' = Append(tables, table)
    BY <1>1, <1>6, <1>12, <1>13, <1>16, <2>2, TableAdded
  <2> QED BY <1>2, <2>1, <2>2
<1>19. NodeNids' = NodeNids \cup {nid}
  <2>1. PICK S : nodes \in Seq(S)
    BY <1>14 DEF IsSeq
  <2>2. BaselineLen \in Nat /\ BaselineLen <= Len(nodes) /\ config' = config
    BY <1>1, Configured DEF Common, Records
  <2> QED BY <1>15, <2>1, <2>2, NodeScheduled
<1>20. Enumerated(types, step)' \subseteq NodeNids'
  BY <1>9, <1>10, <1>13, <1>19
<1> QED BY <1>1, <1>13, <1>16, <1>17, <1>18, <1>20
        DEF Completion, FoldersFurnished, ItemsInTurn, BeforeIpm, Finished

(***************************************************************************)
(* What is furnished stays so.                                             *)
(***************************************************************************)
LEMMA StaysFurnished ==
  ASSUME FoldersFurnished, phase \in {"ipm", "items", "encode"},
         phase' \in {"ipm", "items", "encode", "written"},
         folderRecs' = folderRecs, config' = config, Common,
         nodes' = nodes \/ \E n : nodes' = Append(nodes, n)
  PROVE  FoldersFurnished'
<1>1. NodeNids \subseteq NodeNids'
  <2>1. CASE nodes' = nodes
    BY <2>1 DEF NodeNids
  <2>2. CASE \E n : nodes' = Append(nodes, n)
    <3>1. PICK n : nodes' = Append(nodes, n)
      BY <2>2
    <3>2. PICK S : nodes \in Seq(S)
      BY DEF Common, Records, IsSeq
    <3>3. BaselineLen \in Nat /\ BaselineLen <= Len(nodes)
      BY Configured DEF Common, Records
    <3>4. NodeNids' = NodeNids \cup {n.nid}
      BY <3>1, <3>2, <3>3, NodeScheduled
    <3> QED BY <3>4
  <2> QED BY <2>1, <2>2
<1>2. FolderNodesOf(FolderTypes)' = FolderNodesOf(FolderTypes)
  BY DEF FolderNodesOf, Folders
<1> QED BY <1>1, <1>2 DEF FoldersFurnished

(***************************************************************************)
(* Numbering the folders.                                                  *)
(***************************************************************************)
LEMMA NumberingCompletes ==
  ASSUME Completion, phase \in {"register", "folders"},
         phase' \in {"folders", "exhausted", "collision"},
         UNCHANGED <<itemRecs, nodes, tables>>
  PROVE  Completion'
<1>0. FiledUpTo(Scheduled) /\ HierarchyListed /\ Len(itemRecs) = 0
  BY DEF Completion, Running, ItemsInTurn, BeforeIpm
<1>1. CASE phase' # "folders"
  BY <1>1 DEF Completion, Running
<1>2. CASE phase' = "folders"
  <2>1. Scheduled = 0 /\ Scheduled' = 0
    BY <1>2 DEF Scheduled
  <2>2. FiledUpTo(0)'
    BY <1>0, <2>1, NothingFiled
  <2>3. HierarchyListed'
    <3>1. HierarchyToCome /\ HierarchyToCome'
      BY <1>2 DEF HierarchyToCome, BeforeIpm
    <3> QED BY <1>0, <1>2, <3>1, TablesKept
  <2>4. FoldersFurnished' /\ ItemsInTurn'
    BY <1>0, <1>2 DEF FoldersFurnished, ItemsInTurn, BeforeIpm
  <2> QED BY <1>2, <2>1, <2>2, <2>3, <2>4 DEF Completion, Finished
<1> QED BY <1>1, <1>2

(***************************************************************************)
(* The IPM subtree's hierarchy.                                            *)
(***************************************************************************)
LEMMA IpmHierarchyCompletes ==
  ASSUME Completion, Common, ScheduleIpmHierarchy
  PROVE  Completion'
<1> DEFINE table == [nid |-> NID_IPM_HIERARCHY, rows |-> folderRecs]
           n == Node(NID_IPM_HIERARCHY, 0, DataBid(sched.nextData), 0)
<1>1. /\ phase = "ipm" /\ UNCHANGED <<config, folderRecs, itemRecs>>
      /\ \/ phase' = "other"
         \/ nodes' = Append(nodes, n) /\ tables' = Append(tables, table) /\ phase' = phase
  BY DEF ScheduleIpmHierarchy, InLoop, ScheduleNode, Iterated, Threw
<1>2. n.nid = NID_IPM_HIERARCHY /\ table.nid = NID_IPM_HIERARCHY /\ table.rows = folderRecs
  BY DEF Node
<1> HIDE DEF n, table
<1>3. CASE phase' = "other"
  BY <1>3 DEF Completion, Running
<1>4. CASE nodes' = Append(nodes, n) /\ tables' = Append(tables, table) /\ phase' = phase
  <2>1. FiledUpTo(Scheduled) /\ HierarchyListed /\ FoldersFurnished /\ Len(itemRecs) = 0
    BY <1>1 DEF Completion, Running, ItemsInTurn
  <2>2. Scheduled = 0 /\ Scheduled' = 0
    BY <1>1, <1>4 DEF Scheduled
  <2>3. FiledUpTo(0)'
    <3>1. IsSeq(nodes)
      BY DEF Common, Records
    <3> QED BY <1>1, <1>2, <1>4, <2>1, <2>2, <3>1, TypesTellItems, OtherNodeFiled
  <2>4. HierarchyListed'
    BY <1>1, <1>2, <1>4, <2>1, TableAdded
  <2>5. FoldersFurnished'
    BY <1>1, <1>4, <2>1, StaysFurnished
  <2>6. ItemsInTurn'
    BY <1>1, <1>4, <2>1 DEF ItemsInTurn
  <2> QED BY <1>1, <1>4, <2>2, <2>3, <2>4, <2>5, <2>6 DEF Completion, Finished
<1> QED BY <1>1, <1>3, <1>4

(***************************************************************************)
(* Numbering an item.                                                      *)
(***************************************************************************)
LEMMA NumberItemCompletes ==
  ASSUME Completion, Common, NumberItem
  PROVE  Completion'
<1>1. /\ phase = "items" /\ step \in Nat /\ Len(itemRecs) = step /\ step' = step
      /\ UNCHANGED <<config, folderRecs, nodes, tables>>
      /\ \/ phase' = "exhausted"
         \/ phase' = phase /\ \E r : itemRecs' = Append(itemRecs, r)
  BY DEF NumberItem, InLoop, AllocateItem, Threw, Common, Control
<1>2. CASE phase' = "exhausted"
  BY <1>2 DEF Completion, Running
<1>3. CASE phase' = phase /\ \E r : itemRecs' = Append(itemRecs, r)
  <2>1. PICK r : itemRecs' = Append(itemRecs, r)
    BY <1>3
  <2>2. PICK k \in Nat : k = step
    BY <1>1
  <2>3. FiledUpTo(k) /\ HierarchyListed /\ FoldersFurnished
    BY <1>1, <2>2 DEF Completion, Running, Scheduled
  <2>4. IsSeq(itemRecs) /\ Len(itemRecs') = k + 1
    <3>1. PICK S : itemRecs \in Seq(S)
      BY DEF Common, Records, IsSeq
    <3>2. Len(itemRecs') = Len(itemRecs) + 1
      BY <2>1, <3>1, AppendFacts
    <3> QED BY <1>1, <2>2, <3>1, <3>2 DEF IsSeq
  <2>5. FiledUpTo(k)'
    BY <1>1, <2>1, <2>3, <2>4, NumberingKeepsFiling
  <2>6. Scheduled' = k
    BY <1>1, <1>3, <2>2 DEF Scheduled
  <2>7. HierarchyListed'
    <3>1. ~HierarchyToCome /\ phase' \notin {"register", "folders"}
      BY <1>1, <1>3 DEF HierarchyToCome, BeforeIpm
    <3> QED BY <1>1, <2>3, <3>1, TablesKept
  <2>8. FoldersFurnished'
    BY <1>1, <1>3, <2>3, StaysFurnished
  <2>9. ItemsInTurn'
    BY <1>1, <1>3, <2>2, <2>4 DEF ItemsInTurn, BeforeIpm
  <2> QED BY <1>1, <1>3, <2>5, <2>6, <2>7, <2>8, <2>9 DEF Completion, Finished
<1> QED BY <1>1, <1>2, <1>3

(***************************************************************************)
(* Scheduling it, under its folder.                                        *)
(***************************************************************************)
LEMMA ScheduleItemCompletes ==
  ASSUME Completion, Common, ScheduleItem
  PROVE  Completion'
<1> DEFINE m == Last(itemRecs)
           n == Node(m.nid, folderRecs[m.folder], DataBid(sched.nextData), 0)
<1>1. /\ phase = "items" /\ step \in Nat /\ Len(itemRecs) = step + 1
      /\ UNCHANGED <<config, folderRecs, itemRecs, tables>>
      /\ \/ phase' = "other"
         \/ phase' = phase /\ step' = step + 1 /\ nodes' = Append(nodes, n)
  BY DEF ScheduleItem, InLoop, ScheduleNode, Iterated, Threw, Common, Control
<1>2. CASE phase' = "other"
  BY <1>2 DEF Completion, Running
<1>3. CASE phase' = phase /\ step' = step + 1 /\ nodes' = Append(nodes, n)
  <2>1. PICK k \in Nat : k = step
    BY <1>1
  <2>2. FiledUpTo(k) /\ HierarchyListed /\ FoldersFurnished
    BY <1>1, <2>1 DEF Completion, Running, Scheduled
  <2>3. IsSeq(nodes) /\ DOMAIN itemRecs = 1..Len(itemRecs)
    BY Vector DEF Common, Records
  <2>4. k + 1 \in DOMAIN itemRecs /\ m = itemRecs[k + 1] /\ k + 1 <= Len(itemRecs)
    BY <1>1, <2>1, <2>3 DEF Last
  <2>5. n.nid = itemRecs[k + 1].nid /\ n.parent = folderRecs[itemRecs[k + 1].folder]
    BY <2>4 DEF Node
  <2> HIDE DEF m, n
  <2>6. NidTypeOf(n.nid) = NormalMessage
    <3>1. n.nid \in Items
      BY <2>4, <2>5 DEF Items
    <3> QED BY <3>1, TypesTellItems DEF Common, Records, Owners
  <2>7. FiledUpTo(k + 1)'
    BY <1>1, <1>3, <2>2, <2>3, <2>4, <2>5, <2>6, NextItemFiled
  <2>8. Scheduled' = k + 1
    BY <1>1, <1>3, <2>1 DEF Scheduled
  <2>9. HierarchyListed'
    <3>1. ~HierarchyToCome /\ phase' \notin {"register", "folders"}
      BY <1>1, <1>3 DEF HierarchyToCome, BeforeIpm
    <3> QED BY <1>1, <2>2, <3>1, TablesKept
  <2>10. FoldersFurnished'
    BY <1>1, <1>3, <2>2, StaysFurnished
  <2>11. ItemsInTurn'
    BY <1>1, <1>3 DEF ItemsInTurn, BeforeIpm
  <2> QED BY <1>1, <1>3, <2>7, <2>8, <2>9, <2>10, <2>11 DEF Completion, Finished
<1> QED BY <1>1, <1>2, <1>3

(***************************************************************************)
(* A loop ends with all of its work done.                                  *)
(***************************************************************************)
LEMMA NextLoopCompletes ==
  ASSUME Completion, Common, Typed, NextLoop
  PROVE  Completion'
<1>0. /\ UNCHANGED <<config, folderRecs, itemRecs, nodes, tables>> /\ step' = 0
      /\ phase \in Running
  BY DEF NextLoop, EndLoop, Running
<1>1. FiledUpTo(Scheduled) /\ HierarchyListed /\ FoldersFurnished /\ ItemsInTurn
  BY <1>0 DEF Completion
<1>2. IsSeq(folderRecs) /\ IsSeq(nodes) /\ NumFolders \in Nat /\ Len(itemRecs) \in Nat
  BY Vector, Configured DEF Common, Records
<1>3. CASE EndLoop("folders", NumFolders, "folderNodes")
  <2>1. phase = "folders" /\ phase' = "folderNodes"
    BY <1>3 DEF EndLoop
  <2>2. Scheduled = 0 /\ Scheduled' = 0 /\ HierarchyToCome /\ HierarchyToCome'
    BY <2>1 DEF Scheduled, HierarchyToCome, BeforeIpm
  <2>3. FiledUpTo(0)' /\ HierarchyListed'
    BY <1>0, <1>1, <2>1, <2>2, FilingKept, TablesKept
  <2>4. Enumerated(FolderNodeTypes, step)' = {}
    <3>1. \A j : j \notin 0..(0 - 1)
      OBVIOUS
    <3> QED BY <1>0, <3>1 DEF Enumerated
  <2>5. FoldersFurnished' /\ ItemsInTurn'
    BY <1>0, <1>1, <2>1, <2>4 DEF FoldersFurnished, ItemsInTurn, BeforeIpm
  <2> QED BY <2>1, <2>2, <2>3, <2>5 DEF Completion, Finished
<1>4. CASE EndLoop("folderNodes", Len(FolderNodeTypes) * NumFolders, "ipm")
  <2>1. /\ phase = "folderNodes" /\ phase' = "ipm"
        /\ Len(FolderNodeTypes) * NumFolders = step /\ Len(folderRecs) = NumFolders
    BY <1>4 DEF EndLoop, Common, Control
  <2>2. Scheduled = 0 /\ Scheduled' = 0 /\ HierarchyToCome /\ HierarchyToCome'
    BY <1>0, <2>1 DEF Scheduled, HierarchyToCome, BeforeIpm
  <2>3. FiledUpTo(0)' /\ HierarchyListed'
    BY <1>0, <1>1, <2>1, <2>2, FilingKept, TablesKept
  <2>4. FolderNodesOf(FolderTypes) \subseteq NodeNids
    BY <1>1, <1>2, <2>1, FoldersComplete DEF FoldersFurnished
  <2>5. FoldersFurnished'
    BY <1>0, <2>1, <2>4 DEF FoldersFurnished, FolderNodesOf, Folders, NodeNids
  <2>6. ItemsInTurn'
    BY <1>0, <1>1, <2>1 DEF ItemsInTurn, BeforeIpm
  <2> QED BY <2>1, <2>2, <2>3, <2>5, <2>6 DEF Completion, Finished
<1>5. CASE EndLoop("ipm", 1, "items")
  <2>1. phase = "ipm" /\ step = 1 /\ phase' = "items" /\ Len(itemRecs) = 0
    BY <1>1, <1>5 DEF EndLoop, ItemsInTurn
  <2>2. Scheduled = 0 /\ Scheduled' = 0 /\ ~HierarchyToCome
    BY <1>0, <2>1 DEF Scheduled, HierarchyToCome, BeforeIpm
  <2>3. FiledUpTo(0)' /\ HierarchyListed'
    BY <1>0, <1>1, <2>1, <2>2, FilingKept, TablesKept
  <2>4. FoldersFurnished' /\ ItemsInTurn'
    BY <1>0, <1>1, <2>1, StaysFurnished DEF ItemsInTurn, BeforeIpm
  <2> QED BY <2>1, <2>2, <2>3, <2>4 DEF Completion, Finished
<1>6. CASE EndLoop("items", Len(AllItems), "encode")
  <2>1. phase = "items" /\ step = Len(AllItems) /\ phase' = "encode"
    BY <1>6 DEF EndLoop
  <2>2. Len(itemRecs) = Len(AllItems)
    <3>1. Len(itemRecs) \in {step, step + 1} /\ Len(itemRecs) <= Len(AllItems)
      BY <1>1, <2>1 DEF ItemsInTurn, Typed, ItemsNumbered
    <3> QED BY <1>2, <2>1, <3>1
  <2>3. PICK k : k = Len(itemRecs)
    OBVIOUS
  <2>4. Scheduled = k /\ Scheduled' = k /\ ~HierarchyToCome
    BY <1>0, <2>1, <2>2, <2>3 DEF Scheduled, HierarchyToCome, BeforeIpm
  <2>5. FiledUpTo(k)' /\ HierarchyListed'
    BY <1>0, <1>1, <2>1, <2>4, FilingKept, TablesKept
  <2>6. FoldersFurnished' /\ ItemsInTurn'
    BY <1>0, <1>1, <2>1, <2>2, StaysFurnished
       DEF ItemsInTurn, BeforeIpm, AllItems, FolderItems
  <2> QED BY <2>1, <2>4, <2>5, <2>6 DEF Completion, Finished
<1> QED BY <1>3, <1>4, <1>5, <1>6 DEF NextLoop

(***************************************************************************)
(* Handing over, or a store refused.                                       *)
(***************************************************************************)
LEMMA HandOverCompletes ==
  ASSUME Completion, Common, HandOver
  PROVE  Completion'
<1>1. /\ phase = "encode" /\ phase' \in {"written", "other"}
      /\ UNCHANGED <<config, folderRecs, itemRecs, nodes, tables>>
  BY DEF HandOver
<1>2. CASE phase' = "other"
  BY <1>2 DEF Completion, Running
<1>3. CASE phase' = "written"
  <2>1. PICK k : k = Len(itemRecs)
    OBVIOUS
  <2>2. FiledUpTo(k) /\ HierarchyListed /\ FoldersFurnished /\ ItemsInTurn
    BY <1>1, <2>1 DEF Completion, Running, Scheduled
  <2>3. Scheduled' = k /\ ~HierarchyToCome
    BY <1>1, <1>3, <2>1 DEF Scheduled, HierarchyToCome, BeforeIpm
  <2>4. FiledUpTo(k)' /\ HierarchyListed'
    BY <1>1, <1>3, <2>2, <2>3, FilingKept, TablesKept
  <2>5. FoldersFurnished' /\ ItemsInTurn'
    BY <1>1, <1>3, <2>2, StaysFurnished DEF ItemsInTurn, BeforeIpm, AllItems, FolderItems
  <2>6. Finished'
    BY HandOverFinishes
  <2> QED BY <2>3, <2>4, <2>5, <2>6 DEF Completion
<1> QED BY <1>1, <1>2, <1>3

(***************************************************************************)
(* No step leaves anything out.                                            *)
(***************************************************************************)
LEMMA StepCompletes ==
  ASSUME IInv, TypedStore, Completion, [Next]_vars
  PROVE  Completion'
<1>1. CASE UNCHANGED vars
  <2>1. UNCHANGED <<config, phase, step, allocVars, folderRecs, itemRecs, nodes, tables>>
    BY <1>1 DEF vars
  <2>2. AllItems' = AllItems /\ NodeNids' = NodeNids /\ NumFolders' = NumFolders
    BY <2>1 DEF AllItems, FolderItems, NodeNids, NumFolders
  <2>3. /\ FolderNodesOf(FolderTypes)' = FolderNodesOf(FolderTypes)
        /\ Enumerated(FolderNodeTypes, step)' = Enumerated(FolderNodeTypes, step)
    BY <2>1 DEF FolderNodesOf, Folders, Enumerated
  <2>4. FoldersFurnished => FoldersFurnished'
    BY <2>1, <2>2, <2>3 DEF FoldersFurnished
  <2>5. ItemsInTurn => ItemsInTurn'
    BY <2>1, <2>2 DEF ItemsInTurn
  <2>6. FiledUpTo(Scheduled) => FiledUpTo(Scheduled)'
    BY <2>1 DEF FiledUpTo, MessagePairs, ItemPairs, Scheduled
  <2>7. HierarchyListed => HierarchyListed'
    BY <2>1, <2>3 DEF HierarchyListed, HierarchyToCome
  <2>8. Finished => Finished'
    BY <2>1, <2>2 DEF Finished, Records, Owners, Folders, Items, BaselineLen, allocVars
  <2> QED BY <2>1, <2>4, <2>5, <2>6, <2>7, <2>8 DEF Completion
<1>2. CASE phase \notin Running /\ Next
  <2>1. ~NextLoop
    BY <1>2 DEF NextLoop, EndLoop, Running
  <2>2. Return
    BY <1>2, <2>1 DEF Next, RegisterBaselineNids, AllocateFolder, RegisterSibling,
       ScheduleFolderNode, ScheduleIpmHierarchy, NumberItem, ScheduleItem, HandOver,
       InLoop, Running
  <2> QED BY <1>1, <2>2 DEF Return
<1>3. CASE phase \in Running /\ Next
  <2>0. Common /\ Typed
    BY <1>3 DEF IInv, TypedStore
  <2>1. CASE RegisterBaselineNids \/ AllocateFolder \/ RegisterSibling
    <3>1. /\ phase \in {"register", "folders"}
          /\ phase' \in {"folders", "exhausted", "collision"}
          /\ UNCHANGED <<itemRecs, nodes, tables>>
      BY <2>1 DEF RegisterBaselineNids, AllocateFolder, RegisterSibling, InLoop, Iterated, Threw
    <3> QED BY <3>1, NumberingCompletes
  <2>2. CASE ScheduleFolderNode(FolderNodeTypes)
    BY <2>0, <2>2, FolderNodeCompletes
  <2>3. CASE ScheduleIpmHierarchy
    BY <2>0, <2>3, IpmHierarchyCompletes
  <2>4. CASE NumberItem
    BY <2>0, <2>4, NumberItemCompletes
  <2>5. CASE ScheduleItem
    BY <2>0, <2>5, ScheduleItemCompletes
  <2>6. CASE NextLoop
    BY <2>0, <2>6, NextLoopCompletes
  <2>7. CASE HandOver
    BY <2>0, <2>7, HandOverCompletes
  <2>8. CASE Return
    BY <1>3, <2>8 DEF Return, Outcomes, Running
  <2> QED BY <1>3, <2>1, <2>2, <2>3, <2>4, <2>5, <2>6, <2>7, <2>8 DEF Next
<1> QED BY <1>1, <1>2, <1>3

(***************************************************************************)
(* Nothing is to be complete when the writer starts.                       *)
(***************************************************************************)
LEMMA InitCompletes ==
  ASSUME Init
  PROVE  Completion
<1>1. phase = "register" /\ itemRecs = <<>> /\ tables = <<>>
  BY DEF Init
<1>2. FiledUpTo(0) /\ Scheduled = 0
  BY <1>1, BaselineFiled DEF Scheduled
<1> DEFINE none == <<>>
<1>3. none \in Seq({}) /\ Len(none) = 0 /\ \A k : k \notin 1..0
  OBVIOUS
<1>4. tables = none /\ itemRecs = none
  BY <1>1
<1> HIDE DEF none
<1>5. HierarchyListed
  BY <1>1, <1>3, <1>4 DEF HierarchyListed, IsSeq, HierarchyToCome, BeforeIpm
<1>6. FoldersFurnished /\ ItemsInTurn
  BY <1>1, <1>3, <1>4 DEF FoldersFurnished, ItemsInTurn
<1> QED BY <1>1, <1>2, <1>5, <1>6 DEF Completion, Finished

(***************************************************************************)
(* A written store is complete.                                            *)
(***************************************************************************)
LEMMA CompletionSuffices ==
  ASSUME TypedStore, Completion
  PROVE  StoreComplete
<1> SUFFICES ASSUME phase = "written" PROVE StoreComplete
  BY DEF StoreComplete
<1>1. /\ FiledUpTo(Len(itemRecs)) /\ HierarchyListed /\ Typed
      /\ FolderNodesOf(FolderTypes) \subseteq NodeNids
      /\ Len(itemRecs) = Len(AllItems) /\ Records /\ Len(folderRecs) = NumFolders
  BY DEF Completion, Scheduled, FoldersFurnished, ItemsInTurn, Finished, TypedStore
<1>2. ASSUME NEW f \in 1..NumFolders
      PROVE  Cardinality(ChildItems(folderRecs[f])) =
               Cardinality({i \in DOMAIN config.folders[f].items :
                              config.folders[f].items[i].kind # "null"})
  BY <1>1, ChildItemsCounted DEF Given
<1>3. ASSUME NEW f \in 1..NumFolders, NEW t \in Store!FolderNodeTypes
      PROVE  Store!FolderNode(t, folderRecs[f]) \in NodeNids
  <2>1. t \in FolderTypes /\ folderRecs[f] \in Folders
    <3>1. t \in FolderTypes
      BY DEF Store!FolderNodeTypes, FolderTypes, Store!NormalFolder, NormalFolder,
         Store!HierarchyTable, HierarchyTable, Store!ContentsTable, ContentsTable,
         Store!AssocContentsTable, AssocContentsTable
    <3> QED BY <1>1, <3>1, FolderRecsFacts
  <2>2. Store!FolderNode(t, folderRecs[f]) = FolderNode(t, folderRecs[f])
    BY SameNames DEF Store!FolderNode, FolderNode
  <2> QED BY <1>1, <2>1, <2>2 DEF FolderNodesOf
<1>4. RowsOfTable(NID_IPM_HIERARCHY) = folderRecs
  <2>1. ~HierarchyToCome /\ Owners
    BY <1>1 DEF HierarchyToCome, BeforeIpm, Records
  <2> QED BY <1>1, <2>1, HierarchyIs
<1> QED BY <1>2, <1>3, <1>4 DEF StoreComplete

(***************************************************************************)
(* A written contact or event store is complete, for any configuration:    *)
(* below every folder as many items as it was given, null ones apart, its  *)
(* nodes, and the IPM subtree's hierarchy that lists it.                   *)
(***************************************************************************)
THEOREM NothingLeftOut == Spec => []StoreComplete
<1>1. Init => IInv /\ TypedStore /\ Completion
  BY IInvInit, InitTyped, InitCompletes DEF TypedStore, Init, Phases
<1>2. IInv /\ TypedStore /\ Completion /\ [Next]_vars => IInv' /\ TypedStore' /\ Completion'
  BY StepImplements, StoreStaysTyped, StepCompletes
<1>3. TypedStore /\ Completion => StoreComplete
  BY CompletionSuffices
<1> QED BY <1>1, <1>2, <1>3, PTL DEF Spec

=============================================================================
