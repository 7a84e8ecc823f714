----------------------------- MODULE ItemStore -----------------------------
(***************************************************************************)
(* writeM8Pst (contact.cpp) and writeM9Pst (event.cpp), the writers for    *)
(* contacts and events, which differ in the property contexts they build   *)
(* and in nothing modelled here.  An item is numbered and scheduled in one *)
(* iteration, after every folder is complete, and is a single block: the   *)
(* subnodes its PC may ask for are not scheduled.                          *)
(***************************************************************************)
EXTENDS StoreWriter

FolderWithoutFai ==   \* mutant: one table of the three is forgotten
  <<NormalFolder, HierarchyTable, HierarchyTable, ContentsTable>>
FolderNodeTypes ==
  <<NormalFolder, HierarchyTable, ContentsTable, AssocContentsTable>>

\* The first half of an iteration over an item,
NumberItem ==
  /\ InLoop("items", Len(AllItems)) /\ Len(itemRecs) = step
  /\ AllocateItem
  /\ IF ret'.ok THEN UNCHANGED <<phase, step>> ELSE Threw("exhausted")

\* and the second.
ScheduleItem ==
  /\ InLoop("items", Len(AllItems)) /\ Len(itemRecs) = step + 1
  /\ LET m == Last(itemRecs)
     IN  IF m.src.kind = "misfit"
         THEN Threw("other") /\ UNCHANGED <<nodes, sched>>
         ELSE ScheduleNode(sched, m.nid, folderRecs[m.folder], 0) /\ Iterated
  /\ UNCHANGED <<config, siblings, allocVars, folderRecs, itemRecs, tables>>

NextLoop ==
  \/ EndLoop("folders", NumFolders, "folderNodes")
  \/ EndLoop("folderNodes", Len(FolderNodeTypes) * NumFolders, "ipm")
  \/ EndLoop("ipm", 1, "items")
  \/ EndLoop("items", Len(AllItems), "encode")

Next ==
  \/ RegisterBaselineNids
  \/ AllocateFolder
  \/ RegisterSibling
  \/ ScheduleFolderNode(FolderNodeTypes)
  \/ ScheduleIpmHierarchy
  \/ NumberItem
  \/ ScheduleItem
  \/ NextLoop
  \/ HandOver
  \/ Return

Spec == Init /\ [][Next]_vars

-----------------------------------------------------------------------------

TypeOK ==
  /\ WriterTypeOK
  /\ phase \in {"register", "folders", "folderNodes", "ipm", "items", "encode"}
               \cup Outcomes

(***************************************************************************)
(* A written store is complete: below every configured folder the node     *)
(* tree has as many items as the configuration, the skipped null ones      *)
(* apart, the folder's three tables are there, and the IPM subtree's       *)
(* hierarchy lists the folder.  The counts come from three loops over the  *)
(* configuration that have to skip the same items.                         *)
(***************************************************************************)
StoreComplete ==
  phase = "written" =>
    /\ \A f \in 1..NumFolders :
         /\ Cardinality(ChildItems(folderRecs[f])) =
              Cardinality({i \in DOMAIN config.folders[f].items :
                             config.folders[f].items[i].kind # "null"})
         /\ \A t \in Store!FolderNodeTypes :
              Store!FolderNode(t, folderRecs[f]) \in NodeNids
    /\ RowsOfTable(NID_IPM_HIERARCHY) = folderRecs

-----------------------------------------------------------------------------

(***************************************************************************)
(* What the documentation says of the writers and their code does not do.  *)
(***************************************************************************)

(***************************************************************************)
(* "contact PC has no subnodes" (contact.cpp), "No subnodes" (event.cpp):  *)
(* a PC that refers to a promoted property belongs to a node with a        *)
(* subnode tree.  A long event body is promoted like a mail's and lost.    *)
(***************************************************************************)
PromotedPropertiesStored ==
  \A m \in ToSet(itemRecs) :
    m.nid \in NodeNids /\ m.src.body # <<>> => NodeOf(m.nid).bidSub # 0

=============================================================================
