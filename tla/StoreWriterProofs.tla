------------------------- MODULE StoreWriterProofs --------------------------
(***************************************************************************)
(* What the proofs about the mail writer and the item writers have in      *)
(* common: that both number folders and items as StoreNodes promises, that *)
(* what they schedule is well-typed, that every block is referenced        *)
(* exactly once (Woven: by then referenced or still to be), that the items *)
(* of a store are filed one after the other and that its tables list them. *)
(***************************************************************************)
EXTENDS StoreWriter, FiniteSetTheorems, WellFoundedInduction, TLAPS

(***************************************************************************)
(* The identifiers are M5Allocator's: what was proved of their encoding    *)
(* holds here.  It depends neither on the calls nor on the variables.      *)
(***************************************************************************)
Space == INSTANCE NidAllocatorProofs WITH AskedTypes <- {}, AskedNids <- {}

(***************************************************************************)
(* The assumptions under which they were proved.                           *)
(***************************************************************************)
LEMMA SpaceAssumed ==
  /\ MaxNidIndex \in 1025..Space!IndexSpace
  /\ {} \subseteq 0..31 /\ {} \subseteq Nat
  /\ Space!IndexSpace = IndexSpace
<1>1. Space!IndexSpace = IndexSpace
  BY SMT DEF Space!IndexSpace, IndexSpace
<1> QED BY <1>1, MaxNidIndexAssumption

(***************************************************************************)
(* The ceiling kMaxNidIndex fits the 27 bits and leaves user indices.      *)
(***************************************************************************)
LEMMA Ceiling ==
  /\ IndexSpace \in Nat /\ IndexSpace > 0
  /\ MaxNidIndex \in Nat /\ MaxNidIndex > 1024 /\ MaxNidIndex <= IndexSpace
BY Space!Ceiling, SpaceAssumed

(***************************************************************************)
(* The encoding (Nid, types.hpp): below the 27-bit ceiling a NID is a      *)
(* natural number that gives its type and its index back.                  *)
(***************************************************************************)
LEMMA NidEncoding ==
  ASSUME NEW nt \in 0..31, NEW idx \in Nat, idx < IndexSpace
  PROVE  /\ Nid(nt, idx) = 32 * idx + nt
         /\ Nid(nt, idx) \in Nat
         /\ NidTypeOf(Nid(nt, idx)) = nt
         /\ NidIndexOf(Nid(nt, idx)) = idx
<1>1. Nid(nt, idx) = Space!Nid(nt, idx)
  BY SpaceAssumed DEF Nid, Space!Nid
<1>2. /\ Space!Nid(nt, idx) = 32 * idx + nt
      /\ Space!Nid(nt, idx) \in Nat
      /\ Space!NidTypeOf(Space!Nid(nt, idx)) = nt
      /\ Space!NidIndexOf(Space!Nid(nt, idx)) = idx
  BY Space!NidEncoding, SpaceAssumed
<1> QED
  BY <1>1, <1>2 DEF NidTypeOf, NidIndexOf, Space!NidTypeOf, Space!NidIndexOf

(***************************************************************************)
(* Every counter of M5Allocator() starts below the ceiling.                *)
(***************************************************************************)
LEMMA StartsAreNat ==
  ASSUME NEW nt \in 0..31
  PROVE  StartIndex(nt) \in Nat /\ StartIndex(nt) < MaxNidIndex
<1>1. StartIndex(nt) = Space!StartIndex(nt)
  BY DEF StartIndex, Space!StartIndex, kUserAllocStart, Space!kUserAllocStart,
         HID, Internal, Space!HID, Space!Internal
<1> QED BY <1>1, Space!StartsAreNat, SpaceAssumed

(***************************************************************************)
(* A NID determines its type and its index, so that folders with distinct  *)
(* indices have distinct nodes of every type.                              *)
(***************************************************************************)
LEMMA NidInjective ==
  ASSUME NEW t1 \in 0..31, NEW t2 \in 0..31, NEW i1 \in Nat, NEW i2 \in Nat,
         i1 < IndexSpace, i2 < IndexSpace, Nid(t1, i1) = Nid(t2, i2)
  PROVE  t1 = t2 /\ i1 = i2
<1>1. NidTypeOf(Nid(t1, i1)) = t1 /\ NidIndexOf(Nid(t1, i1)) = i1
  BY NidEncoding
<1>2. NidTypeOf(Nid(t2, i2)) = t2 /\ NidIndexOf(Nid(t2, i2)) = i2
  BY NidEncoding
<1> QED BY <1>1, <1>2

(***************************************************************************)
(* A vector after push_back.                                               *)
(***************************************************************************)
LEMMA AppendFacts ==
  ASSUME NEW S, NEW s \in Seq(S), NEW e
  PROVE  /\ Append(s, e) \in Seq(S \cup {e})
         /\ Len(s) \in Nat /\ DOMAIN s = 1..Len(s)
         /\ Len(Append(s, e)) = Len(s) + 1
         /\ DOMAIN Append(s, e) = 1..(Len(s) + 1)
         /\ \A i \in 1..Len(s) : Append(s, e)[i] = s[i]
         /\ Append(s, e)[Len(s) + 1] = e
         /\ Append(s, e) # <<>>
<1>1. s \in Seq(S \cup {e}) /\ e \in S \cup {e}
  OBVIOUS
<1>2. Append(s, e) \in Seq(S \cup {e})
  BY <1>1
<1>3. Len(s) \in Nat /\ DOMAIN s = 1..Len(s) /\ Len(Append(s, e)) = Len(s) + 1
  BY <1>1
<1>4. \A i \in 1..Len(s) : Append(s, e)[i] = s[i]
  BY <1>1
<1>5. Append(s, e)[Len(s) + 1] = e
  BY <1>1
<1> QED BY <1>2, <1>3, <1>4, <1>5

(***************************************************************************)
(* push_back adds one element to the values of a vector and makes it the   *)
(* last.                                                                   *)
(***************************************************************************)
LEMMA AppendSets ==
  ASSUME NEW S, NEW s \in Seq(S), NEW e
  PROVE  ToSet(Append(s, e)) = ToSet(s) \cup {e} /\ Last(Append(s, e)) = e
<1>1. ToSet(Append(s, e)) \subseteq ToSet(s) \cup {e}
  <2> SUFFICES ASSUME NEW i \in 1..(Len(s) + 1)
               PROVE  Append(s, e)[i] \in ToSet(s) \cup {e}
    BY AppendFacts DEF ToSet
  <2>1. CASE i = Len(s) + 1
    BY <2>1, AppendFacts
  <2>2. CASE i # Len(s) + 1
    <3>1. i \in 1..Len(s)
      BY <2>2, AppendFacts
    <3> QED BY <3>1, AppendFacts DEF ToSet
  <2> QED BY <2>1, <2>2
<1>2. ToSet(s) \subseteq ToSet(Append(s, e))
  <2> SUFFICES ASSUME NEW i \in 1..Len(s) PROVE s[i] \in ToSet(Append(s, e))
    BY AppendFacts DEF ToSet
  <2>1. Append(s, e)[i] = s[i] /\ i \in DOMAIN Append(s, e)
    BY AppendFacts
  <2> QED BY <2>1 DEF ToSet
<1>3. e \in ToSet(Append(s, e))
  <2>1. Len(s) + 1 \in DOMAIN Append(s, e) /\ Append(s, e)[Len(s) + 1] = e
    BY AppendFacts
  <2> QED BY <2>1 DEF ToSet
<1>4. Last(Append(s, e)) = e
  BY AppendFacts DEF Last
<1> QED BY <1>1, <1>2, <1>3, <1>4

(***************************************************************************)
(* What scheduleNode does to the sets of NIDs StoreNodes speaks of.        *)
(***************************************************************************)
BaselineLen == Len(Baseline(config.omitRft))

(***************************************************************************)
(* scheduleNode adds the node's NID to those in the node tree and to the   *)
(* configuration's own; the NID is repeated if a node had it before.       *)
(***************************************************************************)
LEMMA NodeScheduled ==
  ASSUME NEW S, nodes \in Seq(S), NEW n, nodes' = Append(nodes, n),
         config' = config, BaselineLen \in Nat, BaselineLen <= Len(nodes)
  PROVE  /\ NodeNids' = NodeNids \cup {n.nid}
         /\ OwnNids' = OwnNids \cup {n.nid}
         /\ RepeatedNids' = RepeatedNids \cup (NodeNids \cap {n.nid})
         /\ BaselineLen' <= Len(nodes')
<1> DEFINE len == Len(nodes)
<1>1. /\ len \in Nat /\ DOMAIN nodes = 1..len
      /\ Len(nodes') = len + 1 /\ DOMAIN nodes' = 1..(len + 1)
      /\ \A i \in 1..len : nodes'[i] = nodes[i]
      /\ nodes'[len + 1] = n
  BY AppendFacts
<1> HIDE DEF len
<1>2. NodeNids' = NodeNids \cup {n.nid}
  <2>1. NodeNids' = {nodes'[i].nid : i \in 1..(len + 1)}
    BY <1>1 DEF NodeNids
  <2>2. NodeNids = {nodes[i].nid : i \in 1..len}
    BY <1>1 DEF NodeNids
  <2>3. 1..(len + 1) = 1..len \cup {len + 1}
    BY <1>1
  <2> QED BY <1>1, <2>1, <2>2, <2>3
<1>3. BaselineLen' = BaselineLen
  BY DEF BaselineLen
<1>4. OwnNids' = OwnNids \cup {n.nid}
  <2>1. OwnNids' = {nodes'[i].nid : i \in (BaselineLen + 1)..(len + 1)}
    BY <1>1, <1>3 DEF OwnNids, BaselineLen
  <2>2. OwnNids = {nodes[i].nid : i \in (BaselineLen + 1)..len}
    BY DEF OwnNids, BaselineLen, len
  <2>3. (BaselineLen + 1)..(len + 1) = (BaselineLen + 1)..len \cup {len + 1}
    BY <1>1 DEF len
  <2>4. \A i \in (BaselineLen + 1)..len : i \in 1..len
    BY <1>1
  <2> QED BY <1>1, <2>1, <2>2, <2>3, <2>4
<1>5. RepeatedNids' = RepeatedNids \cup (NodeNids \cap {n.nid})
  <2> DEFINE rep == {j \in 1..len : \E k \in 1..(j - 1) : nodes[k].nid = nodes[j].nid}
             rep1 == {j \in 1..(len + 1) :
                       \E k \in 1..(j - 1) : nodes'[k].nid = nodes'[j].nid}
  <2>1. RepeatedNids = {nodes[i].nid : i \in rep}
    BY <1>1 DEF RepeatedNids
  <2>2. RepeatedNids' = {nodes'[i].nid : i \in rep1}
    BY <1>1 DEF RepeatedNids
  <2>3. \A j \in 1..len : j \in rep1 <=> j \in rep
    <3> SUFFICES ASSUME NEW j \in 1..len PROVE j \in rep1 <=> j \in rep
      OBVIOUS
    <3>1. j \in 1..(len + 1) /\ \A k \in 1..(j - 1) : k \in 1..len
      BY <1>1
    <3> QED BY <1>1, <3>1
  <2>4. len + 1 \in rep1 <=> n.nid \in NodeNids
    <3>1. len + 1 \in 1..(len + 1) /\ (len + 1) - 1 = len
      BY <1>1
    <3>2. NodeNids = {nodes[i].nid : i \in 1..len}
      BY <1>1 DEF NodeNids
    <3> QED BY <1>1, <3>1, <3>2
  <2>5. rep \subseteq 1..len /\ rep1 \subseteq 1..len \cup {len + 1}
    BY <1>1
  <2> HIDE DEF rep, rep1
  <2>6. RepeatedNids' \subseteq RepeatedNids \cup (NodeNids \cap {n.nid})
    BY <1>1, <2>1, <2>2, <2>3, <2>4, <2>5
  <2>7. RepeatedNids \subseteq RepeatedNids'
    BY <1>1, <2>1, <2>2, <2>3, <2>5
  <2>8. NodeNids \cap {n.nid} \subseteq RepeatedNids'
    BY <1>1, <2>2, <2>4
  <2> QED BY <2>6, <2>7, <2>8
<1> QED BY <1>1, <1>2, <1>3, <1>4, <1>5 DEF len

-----------------------------------------------------------------------------

(***************************************************************************)
(* The names of StoreNodes and of its allocator are those of NidSpace.     *)
(***************************************************************************)
LEMMA SameNames ==
  /\ \A t, i : Store!Alloc!Nid(t, i) = Nid(t, i) /\ Store!Nid(t, i) = Nid(t, i)
  /\ \A n : Store!NidIndexOf(n) = NidIndexOf(n)
  /\ \A t : Store!Alloc!StartIndex(t) = StartIndex(t)
  /\ Store!Alloc!ReservedTable = ReservedTable
<1>1. Store!Alloc!IndexSpace = IndexSpace /\ Store!IndexSpace = IndexSpace
  BY SMT DEF Store!Alloc!IndexSpace, Store!IndexSpace, IndexSpace
<1>2. \A t, i : Store!Alloc!Nid(t, i) = Nid(t, i) /\ Store!Nid(t, i) = Nid(t, i)
  BY <1>1 DEF Store!Alloc!Nid, Store!Nid, Nid
<1>3. \A n : Store!NidIndexOf(n) = NidIndexOf(n)
  BY DEF Store!NidIndexOf, NidIndexOf
<1>4. \A t : Store!Alloc!StartIndex(t) = StartIndex(t)
  BY DEF Store!Alloc!StartIndex, StartIndex, Store!Alloc!HID, HID, Store!Alloc!Internal,
         Internal, Store!Alloc!kUserAllocStart, kUserAllocStart
<1>5. Store!Alloc!ReservedTable = ReservedTable
  BY DEF Store!Alloc!ReservedTable, ReservedTable
<1> QED BY <1>2, <1>3, <1>4, <1>5

(***************************************************************************)
(* The allocator's counters stay above the system's indices, and a call of *)
(* allocate that succeeds returns a NID that was free.                     *)
(***************************************************************************)
Counters ==
  /\ nextIndex \in [0..31 -> Nat]
  /\ \A nt \in 0..31 : StartIndex(nt) <= nextIndex[nt]

UserNid(nt, nid) ==
  \E idx \in Nat : 1024 <= idx /\ idx < IndexSpace /\ nid = Nid(nt, idx)

(***************************************************************************)
(* allocate for a folder or an item: the counters stay in place, and a NID *)
(* it returns was free, is taken now and lies past the system's indices.   *)
(***************************************************************************)
LEMMA Allocated ==
  ASSUME Counters, NEW nt \in {NormalFolder, NormalMessage}, Store!Alloc!Allocate(nt)
  PROVE  /\ Counters'
         /\ ret'.ok = TRUE \/ ret'.ok = FALSE
         /\ allocated \subseteq allocated'
         /\ ret'.ok => /\ ret'.nid \notin allocated /\ ret'.nid \in allocated'
                       /\ UserNid(nt, ret'.nid)
<1>0. nt \in 0..31 /\ StartIndex(nt) = 1024
  BY DEF NormalFolder, NormalMessage, StartIndex, kUserAllocStart, HID, Internal
<1>1. ASSUME NEW idx \in Store!Alloc!Remaining(nt), Store!Alloc!Take(nt, idx)
      PROVE  /\ Counters' /\ ret'.ok = TRUE /\ allocated \subseteq allocated'
             /\ ret'.nid \notin allocated /\ ret'.nid \in allocated'
             /\ UserNid(nt, ret'.nid)
  <2>1. idx \in Nat /\ nextIndex[nt] <= idx /\ 1024 <= idx /\ idx < IndexSpace
    BY <1>0, Ceiling DEF Counters, Store!Alloc!Remaining
  <2>2. /\ nextIndex' = [nextIndex EXCEPT ![nt] = idx + 1]
        /\ ret' = [ok |-> TRUE, nid |-> Nid(nt, idx)]
        /\ allocated' = allocated \cup {Nid(nt, idx)}
        /\ Nid(nt, idx) \notin allocated
    BY <1>1, SameNames DEF Store!Alloc!Take, Store!Alloc!FirstFree, Store!Alloc!Returned
  <2>3. Counters'
    <3>1. nextIndex' \in [0..31 -> Nat]
      <4>1. nextIndex' = [nextIndex EXCEPT ![nt] = idx + 1] /\ idx + 1 \in Nat
        BY <2>1, <2>2
      <4> QED BY <4>1 DEF Counters
    <3>2. ASSUME NEW u \in 0..31 PROVE StartIndex(u) <= nextIndex'[u]
      <4>1. nextIndex' = [nextIndex EXCEPT ![nt] = idx + 1] /\ DOMAIN nextIndex = 0..31
        BY <2>2 DEF Counters
      <4>2. nextIndex'[u] = IF u = nt THEN idx + 1 ELSE nextIndex[u]
        BY <1>0, <4>1
      <4> QED BY <1>0, <2>1, <4>2 DEF Counters
    <3> QED BY <3>1, <3>2 DEF Counters
  <2> QED BY <2>1, <2>2, <2>3 DEF UserNid
<1>2. ASSUME Store!Alloc!Exhausted(nt)
      PROVE  Counters' /\ ret'.ok = FALSE /\ allocated' = allocated
  <2>1. /\ nextIndex' = [nextIndex EXCEPT ![nt] = MaxNidIndex]
        /\ ret' = [ok |-> FALSE, nid |-> 0] /\ allocated' = allocated
    BY <1>2 DEF Store!Alloc!Exhausted, Store!Alloc!Threw
  <2>2. nextIndex' \in [0..31 -> Nat]
    BY <2>1, Ceiling DEF Counters
  <2>3. ASSUME NEW u \in 0..31 PROVE StartIndex(u) <= nextIndex'[u]
    <3>1. nextIndex'[u] = IF u = nt THEN MaxNidIndex ELSE nextIndex[u]
      BY <2>1 DEF Counters
    <3> QED BY <1>0, <3>1, Ceiling DEF Counters
  <2> QED BY <2>1, <2>2, <2>3 DEF Counters
<1>3. Store!Alloc!IsValidNidType(nt)
  BY DEF Store!Alloc!IsValidNidType, Store!Alloc!ValidNidTypes, NormalFolder, NormalMessage
<1> QED BY <1>1, <1>2, <1>3 DEF Store!Alloc!Allocate

(***************************************************************************)
(* A registration takes the NID or nothing.                                *)
(***************************************************************************)
LEMMA Registered ==
  ASSUME NEW nid, Store!Alloc!RegisterExternal(nid)
  PROVE  /\ nextIndex' = nextIndex /\ allocated \subseteq allocated'
         /\ ret'.ok = TRUE \/ ret'.ok = FALSE
<1>1. CASE Store!Alloc!Registrable(nid)
  <2>1. ret' = [ok |-> TRUE, nid |-> nid] /\ nextIndex' = nextIndex
        /\ allocated' = allocated \cup {nid}
    BY <1>1 DEF Store!Alloc!RegisterExternal, Store!Alloc!Returned
  <2> QED BY <2>1
<1>2. CASE ~Store!Alloc!Registrable(nid)
  <2>1. ret' = [ok |-> FALSE, nid |-> 0] /\ nextIndex' = nextIndex /\ allocated' = allocated
    BY <1>2 DEF Store!Alloc!RegisterExternal, Store!Alloc!Throw, Store!Alloc!Threw
  <2> QED BY <2>1
<1> QED BY <1>1, <1>2

-----------------------------------------------------------------------------

(***************************************************************************)
(* The nodes of a folder: its own and its three tables.                    *)
(***************************************************************************)
FolderTypes == {NormalFolder, HierarchyTable, ContentsTable, AssocContentsTable}

FolderNode(t, folder) == Nid(t, NidIndexOf(folder))

(***************************************************************************)
(* The types of a folder's nodes are five-bit types and differ from a      *)
(* message's.                                                              *)
(***************************************************************************)
LEMMA FolderTypesAreTypes == \A t \in FolderTypes : t \in 0..31 /\ t # NormalMessage
BY DEF FolderTypes, NormalFolder, HierarchyTable, ContentsTable, AssocContentsTable,
       NormalMessage

(***************************************************************************)
(* A folder's tables have the folder's index.                              *)
(***************************************************************************)
LEMMA FolderNodeNid ==
  ASSUME NEW t \in 0..31, NEW idx \in Nat, idx < IndexSpace
  PROVE  FolderNode(t, Nid(NormalFolder, idx)) = Nid(t, idx)
<1>1. NormalFolder \in 0..31
  BY DEF NormalFolder
<1> QED BY <1>1, NidEncoding DEF FolderNode

(***************************************************************************)
(* Folders past the system's indices share no node with each other, with   *)
(* an item or, unless it is the IPM subtree, with the IPM subtree's table. *)
(***************************************************************************)
LEMMA FolderNodesDiffer ==
  ASSUME NEW t1 \in FolderTypes, NEW f1, UserNid(NormalFolder, f1),
         NEW t2 \in FolderTypes, NEW f2, UserNid(NormalFolder, f2),
         FolderNode(t1, f1) = FolderNode(t2, f2)
  PROVE  t1 = t2 /\ f1 = f2
<1>1. PICK i1 \in Nat : i1 < IndexSpace /\ f1 = Nid(NormalFolder, i1)
  BY DEF UserNid
<1>2. PICK i2 \in Nat : i2 < IndexSpace /\ f2 = Nid(NormalFolder, i2)
  BY DEF UserNid
<1>3. t1 \in 0..31 /\ t2 \in 0..31
  BY FolderTypesAreTypes
<1>4. Nid(t1, i1) = Nid(t2, i2)
  BY <1>1, <1>2, <1>3, FolderNodeNid
<1> QED BY <1>1, <1>2, <1>3, <1>4, NidInjective, ZenonT(30)

(***************************************************************************)
(* No node of a folder has the NID of an item.                             *)
(***************************************************************************)
LEMMA FolderNodeIsNoItem ==
  ASSUME NEW t \in FolderTypes, NEW f, UserNid(NormalFolder, f),
         NEW item, UserNid(NormalMessage, item)
  PROVE  FolderNode(t, f) # item
<1>1. PICK i1 \in Nat : i1 < IndexSpace /\ f = Nid(NormalFolder, i1)
  BY DEF UserNid
<1>2. PICK i2 \in Nat : i2 < IndexSpace /\ item = Nid(NormalMessage, i2)
  BY DEF UserNid
<1>3. t \in 0..31 /\ NormalMessage \in 0..31 /\ t # NormalMessage
  BY FolderTypesAreTypes DEF NormalMessage
<1>4. FolderNode(t, f) = Nid(t, i1)
  BY <1>1, <1>3, FolderNodeNid
<1> QED BY <1>1, <1>2, <1>3, <1>4, NidInjective

(***************************************************************************)
(* 0x802D, the hierarchy table that the writers schedule last, is the      *)
(* sibling of the IPM subtree, 0x8022, at the index 0x401.                 *)
(***************************************************************************)
LEMMA IpmHierarchyNid ==
  /\ NID_IPM_HIERARCHY = Nid(HierarchyTable, 1025)
  /\ NID_IPM_SUBTREE = Nid(NormalFolder, 1025)
  /\ 1025 < IndexSpace
BY SMT DEF NID_IPM_HIERARCHY, NID_IPM_SUBTREE, Nid, HierarchyTable, NormalFolder, IndexSpace

(***************************************************************************)
(* No node of a configured folder has the NID of the IPM subtree's         *)
(* hierarchy table, as long as no configured folder is the IPM subtree     *)
(* itself.                                                                 *)
(***************************************************************************)
LEMMA FolderNodeIsNotIpm ==
  ASSUME NEW t \in FolderTypes, NEW f, UserNid(NormalFolder, f), f # NID_IPM_SUBTREE
  PROVE  FolderNode(t, f) # NID_IPM_HIERARCHY
<1>1. PICK i \in Nat : i < IndexSpace /\ f = Nid(NormalFolder, i)
  BY DEF UserNid
<1>2. t \in 0..31 /\ HierarchyTable \in 0..31
  BY FolderTypesAreTypes DEF HierarchyTable
<1>3. FolderNode(t, f) = Nid(t, i) /\ i # 1025
  BY <1>1, <1>2, FolderNodeNid, IpmHierarchyNid
<1>4. Nid(t, i) # Nid(HierarchyTable, 1025)
  <2> SUFFICES ASSUME NEW ipm \in Nat, ipm < IndexSpace, i # ipm
               PROVE  Nid(t, i) # Nid(HierarchyTable, ipm)
    BY <1>3, IpmHierarchyNid
  <2> QED BY <1>1, <1>2, NidInjective
<1> QED BY <1>3, <1>4, IpmHierarchyNid

(***************************************************************************)
(* Nor has an item.                                                        *)
(***************************************************************************)
LEMMA ItemIsNotIpm ==
  ASSUME NEW item, UserNid(NormalMessage, item)
  PROVE  item # NID_IPM_HIERARCHY
<1>1. PICK i \in Nat : i < IndexSpace /\ item = Nid(NormalMessage, i)
  BY DEF UserNid
<1>2. NormalMessage \in 0..31 /\ HierarchyTable \in 0..31 /\ NormalMessage # HierarchyTable
  BY DEF NormalMessage, HierarchyTable
<1>3. Nid(NormalMessage, i) # Nid(HierarchyTable, 1025)
  <2> SUFFICES ASSUME NEW ipm \in Nat, ipm < IndexSpace
               PROVE  Nid(NormalMessage, i) # Nid(HierarchyTable, ipm)
    BY IpmHierarchyNid
  <2> QED BY <1>1, <1>2, NidInjective
<1> QED BY <1>1, <1>3, IpmHierarchyNid

-----------------------------------------------------------------------------

(***************************************************************************)
(* Steps of StoreNodes, from what a step of a writer does to the mapped    *)
(* state.  SameView: nothing that StoreNodes sees of folders, items and    *)
(* nodes has changed.                                                      *)
(***************************************************************************)
SameView == /\ Folders' = Folders /\ Items' = Items /\ Current' = Current
            /\ OwnNids' = OwnNids /\ NodeNids' = NodeNids /\ RepeatedNids' = RepeatedNids
            /\ Placed' = Placed

(***************************************************************************)
(* StoreNodes sees folders, items and nodes only through the records.      *)
(***************************************************************************)
LEMMA SameRecords ==
  ASSUME UNCHANGED <<config, folderRecs, itemRecs, nodes>>
  PROVE  SameView
<1>1. Folders' = Folders /\ Items' = Items /\ Current' = Current
  BY DEF Folders, Items, Current
<1>2. NodeNids' = NodeNids /\ RepeatedNids' = RepeatedNids /\ OwnNids' = OwnNids
  BY DEF NodeNids, RepeatedNids, OwnNids
<1>3. Placed' = Placed
  BY <1>1, <1>2 DEF Placed
<1> QED BY <1>1, <1>2, <1>3 DEF SameView

(***************************************************************************)
(* A step that StoreNodes does not see.                                    *)
(***************************************************************************)
LEMMA Stutters ==
  ASSUME UNCHANGED <<allocVars, siblings>>, SameView, Failure' = Failure,
         (phase' # "register") = (phase # "register")
  PROVE  UNCHANGED Store!vars
BY DEF Store!vars, allocVars, SameView

(***************************************************************************)
(* An exception of the writer's own is GiveUp.                             *)
(***************************************************************************)
LEMMA GivesUp ==
  ASSUME UNCHANGED <<allocVars, siblings>>, SameView, Failure = "none", Failure' = "other",
         phase # "register", phase' # "register"
  PROVE  Store!Next
<1>1. Store!GiveUp
  BY DEF Store!GiveUp, Store!allocVars, allocVars, SameView
<1> QED BY <1>1 DEF Store!Next

(***************************************************************************)
(* A registration of the baseline is RegisterBaselineNids.                 *)
(***************************************************************************)
LEMMA Registers ==
  ASSUME allocated' = allocated \cup Store!RegisteredBaseline,
         UNCHANGED <<nextIndex, ret, siblings>>, SameView,
         Failure = "none", Failure' = "none", phase = "register", phase' = "folders"
  PROVE  Store!Next
<1>1. Store!RegisterBaselineNids
  BY DEF Store!RegisterBaselineNids, SameView
<1> QED BY <1>1 DEF Store!Next

(***************************************************************************)
(* A folder's numbering, successful or not, is AllocateFolder.             *)
(***************************************************************************)
LEMMA AllocatesFolder ==
  ASSUME Store!Alloc!Allocate(NormalFolder), siblings = 3,
         Failure = "none", phase # "register", phase' # "register",
         ret'.ok = TRUE \/ ret'.ok = FALSE,
         UNCHANGED <<Items, Placed, OwnNids, NodeNids, RepeatedNids>>,
         ret'.ok => /\ Folders' = Folders \cup {ret'.nid} /\ Current' = ret'.nid
                    /\ siblings' = 0 /\ Failure' = "none",
         ~ret'.ok => /\ UNCHANGED <<Folders, Current, siblings>> /\ Failure' = "exhausted"
  PROVE  Store!Next
<1>1. Store!NormalFolder = NormalFolder
  BY DEF Store!NormalFolder, NormalFolder
<1>2. Store!AllocateFolder
  BY <1>1 DEF Store!AllocateFolder
<1> QED BY <1>2 DEF Store!Next

(***************************************************************************)
(* The registration of a sibling of the current folder is RegisterSibling. *)
(***************************************************************************)
LEMMA RegistersSibling ==
  ASSUME Store!Alloc!RegisterExternal(
           Store!FolderNode(Store!SiblingType(siblings + 1), Current)),
         siblings < 3, siblings' = siblings + 1, SameView,
         Failure = "none", phase # "register", phase' # "register",
         Failure' = IF ret'.ok THEN "none" ELSE "collision"
  PROVE  Store!Next
<1>1. Store!RegisterSibling
  BY DEF Store!RegisterSibling, SameView
<1> QED BY <1>1 DEF Store!Next

(***************************************************************************)
(* An item's numbering, successful or not, is AllocateItem.                *)
(***************************************************************************)
LEMMA AllocatesItem ==
  ASSUME Store!Alloc!Allocate(NormalMessage), siblings = 3, siblings' = 3,
         Failure = "none", phase # "register", phase' # "register",
         ret'.ok = TRUE \/ ret'.ok = FALSE,
         UNCHANGED <<Folders, Current, Placed, OwnNids, NodeNids, RepeatedNids>>,
         ret'.ok => Items' = Items \cup {ret'.nid} /\ Failure' = "none",
         ~ret'.ok => Items' = Items /\ Failure' = "exhausted"
  PROVE  Store!Next
<1>1. Store!NormalMessage = NormalMessage
  BY DEF Store!NormalMessage, NormalMessage
<1>2. Store!AllocateItem
  BY <1>1 DEF Store!AllocateItem
<1> QED BY <1>2 DEF Store!Next

(***************************************************************************)
(* Who owns the nodes: folders and items past the system's indices, the    *)
(* IPM subtree not among them.                                             *)
(***************************************************************************)
Owners ==
  /\ \A f \in Folders : UserNid(NormalFolder, f) /\ f # NID_IPM_SUBTREE
  /\ \A i \in Items : UserNid(NormalMessage, i)

\* A step that schedules one node and changes nothing else StoreNodes sees.
Schedules(nid) ==
  /\ siblings = 3 /\ siblings' = 3
  /\ phase # "register" /\ phase' # "register"
  /\ Failure = "none" /\ Failure' = "none"
  /\ UNCHANGED <<allocVars, Folders, Items, Current>>
  /\ OwnNids' = OwnNids \cup {nid}
  /\ NodeNids' = NodeNids \cup {nid}
  /\ RepeatedNids' = RepeatedNids \cup (NodeNids \cap {nid})

AllTypes == FolderTypes \cup {NormalMessage}

(***************************************************************************)
(* What is placed, by the names of this module.                            *)
(***************************************************************************)
LEMMA PlacedIs ==
  Placed = [t \in AllTypes |->
             IF t = NormalMessage THEN Items \cap OwnNids
             ELSE {f \in Folders : FolderNode(t, f) \in OwnNids}]
<1>1. AllTypes = {NormalFolder, HierarchyTable, ContentsTable, AssocContentsTable,
                  NormalMessage}
  BY DEF AllTypes, FolderTypes
<1> QED BY <1>1 DEF Placed, FolderNode

(***************************************************************************)
(* One more scheduled node: it is placed for whoever owns it.              *)
(***************************************************************************)
LEMMA PlacedAfter ==
  ASSUME Owners, UNCHANGED <<Folders, Items>>, NEW nid, OwnNids' = OwnNids \cup {nid}
  PROVE  Placed' = [t \in AllTypes |->
                     IF t = NormalMessage THEN Placed[t] \cup (Items \cap {nid})
                     ELSE Placed[t] \cup {f \in Folders : FolderNode(t, f) = nid}]
<1>1. Placed' = [t \in AllTypes |->
                  IF t = NormalMessage THEN Items \cap (OwnNids \cup {nid})
                  ELSE {f \in Folders : FolderNode(t, f) \in OwnNids \cup {nid}}]
  <2>1. AllTypes = {NormalFolder, HierarchyTable, ContentsTable, AssocContentsTable,
                    NormalMessage}
    BY DEF AllTypes, FolderTypes
  <2> QED BY <2>1 DEF Placed, FolderNode
<1>2. ASSUME NEW t \in AllTypes
      PROVE  (IF t = NormalMessage THEN Items \cap (OwnNids \cup {nid})
              ELSE {f \in Folders : FolderNode(t, f) \in OwnNids \cup {nid}})
             = IF t = NormalMessage THEN Placed[t] \cup (Items \cap {nid})
               ELSE Placed[t] \cup {f \in Folders : FolderNode(t, f) = nid}
  BY PlacedIs
<1> QED BY <1>1, <1>2

(***************************************************************************)
(* A folder's node that was not scheduled before is PlaceFolderNode:       *)
(* nobody else owns its NID.                                               *)
(***************************************************************************)
LEMMA PlacesFolderNode ==
  ASSUME Owners, NEW t \in FolderTypes, NEW f \in Folders,
         FolderNode(t, f) \notin OwnNids, Schedules(FolderNode(t, f))
  PROVE  Store!Next
<1>1. f \in Folders \ Placed[t]
  <2>1. t \in AllTypes /\ t # NormalMessage
    BY FolderTypesAreTypes DEF AllTypes
  <2>2. Placed[t] = {g \in Folders : FolderNode(t, g) \in OwnNids}
    BY <2>1, PlacedIs
  <2> QED BY <2>2
<1>2. Placed' = [Placed EXCEPT ![t] = @ \cup {f}]
  <2>1. ASSUME NEW u \in AllTypes
        PROVE  (IF u = NormalMessage THEN Placed[u] \cup (Items \cap {FolderNode(t, f)})
                ELSE Placed[u] \cup {g \in Folders : FolderNode(u, g) = FolderNode(t, f)})
               = IF u = t THEN Placed[t] \cup {f} ELSE Placed[u]
    <3>1. CASE u = NormalMessage
      <4>1. FolderNode(t, f) \notin Items
        BY FolderNodeIsNoItem DEF Owners
      <4> QED BY <3>1, <4>1, FolderTypesAreTypes
    <3>2. CASE u # NormalMessage
      <4>1. u \in FolderTypes
        BY <3>2 DEF AllTypes
      <4>2. \A g \in Folders : FolderNode(u, g) = FolderNode(t, f) => u = t /\ g = f
        BY <4>1, FolderNodesDiffer DEF Owners
      <4> QED BY <3>2, <4>2
    <3> QED BY <3>1, <3>2
  <2>2. DOMAIN Placed = AllTypes /\ Placed = [u \in AllTypes |-> Placed[u]]
    BY PlacedIs
  <2>3. Placed' = [u \in AllTypes |->
                    IF u = NormalMessage THEN Placed[u] \cup (Items \cap {FolderNode(t, f)})
                    ELSE Placed[u] \cup {g \in Folders : FolderNode(u, g) = FolderNode(t, f)}]
    BY PlacedAfter DEF Schedules
  <2>5. Placed' = [u \in AllTypes |-> IF u = t THEN Placed[t] \cup {f} ELSE Placed[u]]
    BY <2>1, <2>3
  <2>4. t \in AllTypes
    BY DEF AllTypes
  <2> QED BY <2>2, <2>4, <2>5
<1>3. Store!FolderNode(t, f) = FolderNode(t, f)
  BY SameNames DEF Store!FolderNode, FolderNode
<1>4. Store!PlaceFolderNode(t, f)
  <2>1. FolderNode(t, f) # NID_IPM_HIERARCHY
    BY FolderNodeIsNotIpm DEF Owners
  <2> QED BY <1>1, <1>2, <1>3, <2>1 DEF Store!PlaceFolderNode, Store!Schedule,
             Store!allocVars, allocVars, Schedules
<1>5. t \in Store!FolderNodeTypes
  BY DEF Store!FolderNodeTypes, FolderTypes, Store!NormalFolder, Store!HierarchyTable,
     Store!ContentsTable, Store!AssocContentsTable, NormalFolder, HierarchyTable,
     ContentsTable, AssocContentsTable
<1> QED BY <1>4, <1>5 DEF Store!Next

(***************************************************************************)
(* An item's node that was not scheduled before is PlaceItem.              *)
(***************************************************************************)
LEMMA PlacesItem ==
  ASSUME Owners, NEW item \in Items, item \notin OwnNids, Schedules(item)
  PROVE  Store!Next
<1>1. item \in Items \ Placed[NormalMessage]
  BY PlacedIs DEF AllTypes
<1>2. Placed' = [Placed EXCEPT ![NormalMessage] = @ \cup {item}]
  <2>1. ASSUME NEW u \in AllTypes
        PROVE  (IF u = NormalMessage THEN Placed[u] \cup (Items \cap {item})
                ELSE Placed[u] \cup {g \in Folders : FolderNode(u, g) = item})
               = IF u = NormalMessage THEN Placed[NormalMessage] \cup {item} ELSE Placed[u]
    <3>1. CASE u # NormalMessage
      <4>1. u \in FolderTypes
        BY <3>1 DEF AllTypes
      <4>2. \A g \in Folders : FolderNode(u, g) # item
        BY <4>1, FolderNodeIsNoItem DEF Owners
      <4> QED BY <3>1, <4>2
    <3> QED BY <3>1
  <2>2. DOMAIN Placed = AllTypes /\ Placed = [u \in AllTypes |-> Placed[u]]
    BY PlacedIs
  <2>3. Placed' = [u \in AllTypes |->
                    IF u = NormalMessage THEN Placed[u] \cup (Items \cap {item})
                    ELSE Placed[u] \cup {g \in Folders : FolderNode(u, g) = item}]
    BY PlacedAfter DEF Schedules
  <2>5. Placed' = [u \in AllTypes |->
                    IF u = NormalMessage THEN Placed[NormalMessage] \cup {item} ELSE Placed[u]]
    BY <2>1, <2>3
  <2>4. NormalMessage \in AllTypes
    BY DEF AllTypes
  <2> QED BY <2>2, <2>4, <2>5
<1>3. Store!NormalMessage = NormalMessage
  BY DEF Store!NormalMessage, NormalMessage
<1>4. Store!PlaceItem(item)
  <2>1. item # NID_IPM_HIERARCHY
    BY ItemIsNotIpm DEF Owners
  <2> QED BY <1>1, <1>2, <1>3, <2>1 DEF Store!PlaceItem, Store!Schedule, Store!allocVars,
             allocVars, Schedules
<1> QED BY <1>4 DEF Store!Next

(***************************************************************************)
(* The first scheduling of 0x802D is PlaceIpmHierarchy.                    *)
(***************************************************************************)
LEMMA PlacesIpmHierarchy ==
  ASSUME Owners, NID_IPM_HIERARCHY \notin OwnNids, Schedules(NID_IPM_HIERARCHY)
  PROVE  Store!Next
<1>1. Placed' = Placed
  <2>1. ASSUME NEW u \in AllTypes
        PROVE  (IF u = NormalMessage THEN Placed[u] \cup (Items \cap {NID_IPM_HIERARCHY})
                ELSE Placed[u]
                       \cup {g \in Folders : FolderNode(u, g) = NID_IPM_HIERARCHY})
               = Placed[u]
    <3>1. CASE u = NormalMessage
      <4>1. NID_IPM_HIERARCHY \notin Items
        BY ItemIsNotIpm DEF Owners
      <4> QED BY <3>1, <4>1
    <3>2. CASE u # NormalMessage
      <4>1. u \in FolderTypes
        BY <3>2 DEF AllTypes
      <4>2. \A g \in Folders : FolderNode(u, g) # NID_IPM_HIERARCHY
        BY <4>1, FolderNodeIsNotIpm DEF Owners
      <4> QED BY <3>2, <4>2
    <3> QED BY <3>1, <3>2
  <2>2. Placed = [u \in AllTypes |-> Placed[u]]
    BY PlacedIs
  <2>3. Placed' = [u \in AllTypes |-> Placed[u]]
    BY <2>1, PlacedAfter DEF Schedules
  <2> QED BY <2>2, <2>3
<1>2. Store!NID_IPM_HIERARCHY = NID_IPM_HIERARCHY
  BY DEF Store!NID_IPM_HIERARCHY, NID_IPM_HIERARCHY
<1>3. Store!PlaceIpmHierarchy
  BY <1>1, <1>2 DEF Store!PlaceIpmHierarchy, Store!Schedule, Store!allocVars, allocVars, Schedules
<1> QED BY <1>3 DEF Store!Next

-----------------------------------------------------------------------------

(***************************************************************************)
(* The invariant that the writers share while they run: records have NIDs  *)
(* of their own, past the system's indices (the IPM subtree was registered *)
(* before the first folder); what is scheduled are nodes of folders, the   *)
(* IPM subtree's table and items; nothing is scheduled before its turn.    *)
(***************************************************************************)
IsSeq(s) == \E S : s \in Seq(S)

Running == {"register", "folders", "folderNodes", "messages", "contents", "ipm", "items",
            "bodies", "encode"}

BeforeIpm == {"register", "folders", "folderNodes", "messages", "contents"}

FolderNodesOf(types) == {FolderNode(t, f) : t \in types, f \in Folders}

\* How many of the items are scheduled.
Done == IF phase \in {"items", "bodies"} THEN step ELSE 0

Records ==
  /\ IsSeq(folderRecs) /\ IsSeq(itemRecs) /\ IsSeq(nodes)
  /\ BaselineLen <= Len(nodes)
  /\ \A i, j \in DOMAIN folderRecs : folderRecs[i] = folderRecs[j] => i = j
  /\ \A i, j \in DOMAIN itemRecs : itemRecs[i].nid = itemRecs[j].nid => i = j
  /\ Folders \cup Items \subseteq allocated
  /\ Owners

Control ==
  /\ phase \in Running /\ step \in Nat /\ siblings \in 0..3
  /\ siblings < 3 => phase = "folders" /\ folderRecs # <<>>
  /\ phase = "register" => folderRecs = <<>> /\ step = 0
  /\ phase # "register" => NID_IPM_SUBTREE \in allocated
  /\ phase = "folders" => Len(folderRecs) = step
  /\ phase \in {"register", "folders"} => OwnNids = {}
  /\ phase \notin {"register", "folders"} => Len(folderRecs) = NumFolders

InTurn ==
  /\ OwnNids \subseteq FolderNodesOf(FolderTypes) \cup {NID_IPM_HIERARCHY} \cup Items
  /\ phase \in BeforeIpm \/ (phase = "ipm" /\ step = 0) => NID_IPM_HIERARCHY \notin OwnNids
  /\ phase # "encode" =>
       \A i \in DOMAIN itemRecs : i > Done => itemRecs[i].nid \notin OwnNids

Common == config \in Configs /\ Counters /\ Records /\ Control /\ InTurn

(***************************************************************************)
(* Every configuration has finitely many folders after a baseline that     *)
(* does not depend on them.                                                *)
(***************************************************************************)
LEMMA Configured ==
  ASSUME config \in Configs
  PROVE  /\ BaselineLen \in Nat /\ NumFolders \in Nat
         /\ config.omitRft \in BOOLEAN
BY ConfigsAssumption, BaselineAssumption DEF BaselineLen, NumFolders

(***************************************************************************)
(* A writer starts as StoreNodes does, with the baseline's nodes, which    *)
(* have distinct NIDs.                                                     *)
(***************************************************************************)
LEMMA InitIsInit ==
  ASSUME Init
  PROVE  Store!Init /\ Common
<1> DEFINE b == Baseline(config.omitRft)
<1>0. config \in Configs /\ phase = "register" /\ step = 0 /\ siblings = 3
      /\ folderRecs = <<>> /\ itemRecs = <<>> /\ Store!Alloc!Init
  BY DEF Init
<1>1. /\ Len(b) \in Nat /\ DOMAIN b = 1..Len(b)
      /\ {b[i][1] : i \in DOMAIN b}
           = BaselineNids \ (IF config.omitRft THEN {NID_RECEIVE_FOLDER_TABLE} ELSE {})
      /\ \A i, j \in DOMAIN b : b[i][1] = b[j][1] => i = j
  BY <1>0, Configured, BaselineAssumption
<1>2. nodes = [i \in 1..Len(b) |-> Node(b[i][1], b[i][2], DataBid(i), 0)]
  BY <1>1 DEF Init
<1> HIDE DEF b
<1>3. /\ Len(nodes) = Len(b) /\ DOMAIN nodes = 1..Len(b)
      /\ \A i \in 1..Len(b) : nodes[i].nid = b[i][1]
  BY <1>1, <1>2 DEF Node
<1>4. IsSeq(nodes)
  <2> DEFINE S == {Node(b[i][1], b[i][2], DataBid(i), 0) : i \in 1..Len(b)}
  <2>1. nodes \in Seq(S)
    BY <1>1, <1>2
  <2> QED BY <2>1 DEF IsSeq
<1>5. NodeNids = BaselineNids \ (IF config.omitRft THEN {NID_RECEIVE_FOLDER_TABLE} ELSE {})
  BY <1>1, <1>3 DEF NodeNids
<1>6. RepeatedNids = {}
  <2>1. ASSUME NEW j \in 1..Len(b), NEW k \in 1..(j - 1) PROVE nodes[k].nid # nodes[j].nid
    <3>1. k \in 1..Len(b) /\ k # j
      BY <1>1
    <3> QED BY <1>1, <1>3, <3>1
  <2> QED BY <1>3, <2>1 DEF RepeatedNids
<1>7. OwnNids = {}
  BY <1>1, <1>3 DEF OwnNids, b
<1>8. Folders = {} /\ Items = {} /\ Current = 0
  BY <1>0 DEF Folders, Items, Current, ToSet
<1>9. Placed = [t \in Store!NodeTypes |-> {}]
  <2>1. Store!NodeTypes = {NormalFolder, HierarchyTable, ContentsTable, AssocContentsTable,
                           NormalMessage}
    BY DEF Store!NodeTypes, Store!FolderNodeTypes, Store!NormalFolder, NormalFolder,
       Store!HierarchyTable, HierarchyTable, Store!ContentsTable, ContentsTable,
       Store!AssocContentsTable, AssocContentsTable, Store!NormalMessage, NormalMessage
  <2> QED BY <1>8, <2>1 DEF Placed
<1>10. Store!Init
  <2>1. Store!BaselineNids = BaselineNids
    BY DEF Store!BaselineNids, BaselineNids
  <2>2. Store!NID_RECEIVE_FOLDER_TABLE = NID_RECEIVE_FOLDER_TABLE
    BY DEF Store!NID_RECEIVE_FOLDER_TABLE, NID_RECEIVE_FOLDER_TABLE
  <2>3. \E omitted \in {{}, {Store!NID_RECEIVE_FOLDER_TABLE}} :
          NodeNids = Store!BaselineNids \ omitted
    BY <1>5, <2>1, <2>2
  <2>4. Failure = "none" /\ ~(phase # "register") /\ NID_IPM_HIERARCHY \notin OwnNids
    BY <1>0, <1>7 DEF Failure
  <2> QED BY <1>0, <1>6, <1>7, <1>8, <1>9, <2>3, <2>4 DEF Store!Init
<1>11. Counters
  <2>1. nextIndex = [nt \in 0..31 |-> StartIndex(nt)]
    BY <1>0, SameNames DEF Store!Alloc!Init
  <2> QED BY <2>1, StartsAreNat DEF Counters
<1>12. Records
  <2>1. IsSeq(<<>>)
    <3>1. <<>> \in Seq({})
      OBVIOUS
    <3> QED BY <3>1 DEF IsSeq
  <2>2. BaselineLen = Len(b)
    BY DEF BaselineLen, b
  <2> QED BY <1>0, <1>1, <1>3, <1>4, <1>8, <2>1, <2>2 DEF Records, Owners
<1>13. Control
  BY <1>0, <1>7 DEF Control, Running
<1>14. InTurn
  BY <1>0, <1>7 DEF InTurn
<1> QED BY <1>0, <1>10, <1>11, <1>12, <1>13, <1>14 DEF Common

-----------------------------------------------------------------------------

(***************************************************************************)
(* What a step that leaves the records and the nodes alone keeps of the    *)
(* invariant, registrations included.                                      *)
(***************************************************************************)
LEMMA RecordsKept ==
  ASSUME Records, UNCHANGED <<config, folderRecs, itemRecs, nodes>>,
         allocated \subseteq allocated'
  PROVE  Records' /\ SameView
<1>1. SameView
  BY SameRecords
<1>2. BaselineLen' = BaselineLen
  BY DEF BaselineLen
<1> QED BY <1>1, <1>2 DEF Records, SameView, Owners

(***************************************************************************)
(* Outside the loop over the folders all siblings are registered, and a    *)
(* writer that runs has not failed.                                        *)
(***************************************************************************)
LEMMA NotFailed ==
  ASSUME Control
  PROVE  Failure = "none" /\ (phase # "folders" => siblings = 3)
<1>1. Failure = "none"
  BY DEF Control, Running, Failure
<1>2. phase # "folders" => siblings = 3
  BY DEF Control
<1> QED BY <1>1, <1>2

(***************************************************************************)
(* registerBaselineReservedNids: the IPM subtree's NID is taken before any *)
(* folder is numbered.                                                     *)
(***************************************************************************)
LEMMA BaselineRegistered ==
  ASSUME Common, RegisterBaselineNids
  PROVE  Store!Next /\ Common'
<1>1. /\ phase = "register" /\ phase' = "folders"
      /\ allocated' = allocated \cup Store!RegisteredBaseline
      /\ UNCHANGED <<config, step, siblings, nextIndex, ret, folderRecs, itemRecs, nodes>>
  BY DEF RegisterBaselineNids
<1>2. Records' /\ SameView
  BY <1>1, RecordsKept DEF Common
<1>3. Failure = "none" /\ Failure' = "none"
  BY <1>1 DEF Failure
<1>4. Store!Next
  BY <1>1, <1>2, <1>3, Registers
<1>5. NID_IPM_SUBTREE \in Store!RegisteredBaseline
  BY DEF Store!RegisteredBaseline, Store!kReserved, Store!IsValidNidType,
         Store!ValidNidTypes, Store!NidTypeOf, NID_IPM_SUBTREE
<1>6. Control'
  <2>1. folderRecs = <<>> /\ step = 0 /\ siblings = 3 /\ OwnNids = {}
    BY <1>1 DEF Common, Control
  <2> QED BY <1>1, <1>2, <1>5, <2>1 DEF Control, Running, SameView
<1>7. InTurn'
  <2>1. OwnNids' = {}
    BY <1>1, <1>2 DEF Common, Control, SameView
  <2> QED BY <2>1 DEF InTurn
<1>8. Counters'
  BY <1>1 DEF Common, Counters
<1> QED BY <1>1, <1>2, <1>4, <1>6, <1>7, <1>8 DEF Common

(***************************************************************************)
(* allocate(NormalFolder): the folder is new and is not the IPM subtree.   *)
(***************************************************************************)
LEMMA FolderAllocated ==
  ASSUME Common, AllocateFolder
  PROVE  Store!Next /\ (phase' \in Running => Common')
<1>1. /\ phase = "folders" /\ siblings = 3 /\ step < NumFolders
      /\ Store!Alloc!Allocate(NormalFolder)
      /\ UNCHANGED <<config, itemRecs, nodes>>
  BY DEF AllocateFolder, InLoop
<1>2. /\ Counters' /\ allocated \subseteq allocated'
      /\ ret'.ok = TRUE \/ ret'.ok = FALSE
      /\ ret'.ok => /\ ret'.nid \notin allocated /\ ret'.nid \in allocated'
                    /\ UserNid(NormalFolder, ret'.nid)
  <2>1. NormalFolder \in {NormalFolder, NormalMessage} /\ Counters
    BY DEF Common
  <2> QED BY <1>1, <2>1, Allocated
<1>3. OwnNids = {} /\ OwnNids' = {} /\ UNCHANGED <<Items, OwnNids, NodeNids, RepeatedNids>>
  <2>1. OwnNids = {}
    BY <1>1 DEF Common, Control
  <2>2. UNCHANGED <<Items, OwnNids, NodeNids, RepeatedNids>>
    BY <1>1 DEF Items, OwnNids, NodeNids, RepeatedNids
  <2> QED BY <2>1, <2>2
<1>4. Placed' = Placed
  BY <1>3 DEF Placed
<1>5. CASE ret'.ok
  <2>1. /\ folderRecs' = Append(folderRecs, ret'.nid) /\ siblings' = 0
        /\ step' = step + 1 /\ phase' = phase
    BY <1>5 DEF AllocateFolder, Iterated
  <2>2. PICK S : folderRecs \in Seq(S)
    BY DEF Common, Records, IsSeq
  <2>3. Folders' = Folders \cup {ret'.nid} /\ Current' = ret'.nid
    BY <2>1, <2>2, AppendFacts, AppendSets DEF Folders, Current
  <2>4. Failure = "none" /\ Failure' = "none"
    BY <1>1, <2>1 DEF Failure
  <2>5. Store!Next
    BY <1>1, <1>2, <1>3, <1>4, <1>5, <2>1, <2>3, <2>4, AllocatesFolder
  <2>6. Records'
    <3>1. /\ IsSeq(folderRecs') /\ Len(folderRecs') = Len(folderRecs) + 1
          /\ \A i, j \in DOMAIN folderRecs' : folderRecs'[i] = folderRecs'[j] => i = j
      <4>1. IsSeq(folderRecs')
        BY <2>1, <2>2, AppendFacts DEF IsSeq
      <4>2. /\ Len(folderRecs) \in Nat /\ DOMAIN folderRecs = 1..Len(folderRecs)
            /\ Len(folderRecs') = Len(folderRecs) + 1
            /\ DOMAIN folderRecs' = 1..(Len(folderRecs) + 1)
            /\ \A i \in 1..Len(folderRecs) : folderRecs'[i] = folderRecs[i]
            /\ folderRecs'[Len(folderRecs) + 1] = ret'.nid
        BY <2>1, <2>2, AppendFacts
      <4>3. \A i \in 1..Len(folderRecs) : folderRecs[i] # ret'.nid
        <5>1. \A i \in 1..Len(folderRecs) : folderRecs[i] \in Folders
          BY <4>2 DEF Folders, ToSet
        <5> QED BY <1>2, <1>5, <5>1 DEF Common, Records
      <4>4. \A i \in 1..(Len(folderRecs) + 1) :
              i \in 1..Len(folderRecs) \/ i = Len(folderRecs) + 1
        BY <4>2
      <4>5. \A i, j \in 1..Len(folderRecs) : folderRecs[i] = folderRecs[j] => i = j
        BY <4>2 DEF Common, Records
      <4> QED BY <4>1, <4>2, <4>3, <4>4, <4>5
    <3>2. BaselineLen' = BaselineLen
      BY <1>1 DEF BaselineLen
    <3>3. ret'.nid # NID_IPM_SUBTREE
      BY <1>1, <1>2, <1>5 DEF Common, Control
    <3>4. Owners'
      BY <1>2, <1>3, <1>5, <2>3, <3>3 DEF Owners, Common, Records
    <3>5. (Folders \cup Items)' \subseteq allocated'
      BY <1>2, <1>3, <1>5, <2>3 DEF Common, Records
    <3> QED BY <1>1, <3>1, <3>2, <3>4, <3>5 DEF Common, Records
  <2>7. Control'
    <3>1. Len(folderRecs') = step' /\ folderRecs' # <<>> /\ step' \in Nat
      BY <1>1, <2>1, <2>2, AppendFacts DEF Common, Control
    <3> QED BY <1>1, <1>2, <1>3, <2>1, <3>1 DEF Common, Control, Running
  <2>8. InTurn'
    BY <1>3 DEF InTurn
  <2> QED BY <1>1, <1>2, <2>5, <2>6, <2>7, <2>8 DEF Common
<1>6. CASE ~ret'.ok
  <2>1. phase' = "exhausted" /\ UNCHANGED <<folderRecs, siblings>>
    BY <1>6 DEF AllocateFolder, Threw
  <2>2. UNCHANGED <<Folders, Current, siblings>> /\ Failure = "none"
        /\ Failure' = "exhausted"
    BY <1>1, <2>1 DEF Folders, Current, Failure
  <2>3. Store!Next
    BY <1>1, <1>2, <1>3, <1>4, <1>6, <2>1, <2>2, AllocatesFolder
  <2> QED BY <2>1, <2>3 DEF Running
<1> QED BY <1>2, <1>5, <1>6

(***************************************************************************)
(* registerExternal for a folder's sibling, refused or not.                *)
(***************************************************************************)
LEMMA SiblingRegistered ==
  ASSUME Common, RegisterSibling
  PROVE  Store!Next /\ (phase' \in Running => Common')
<1>1. /\ phase = "folders" /\ siblings < 3 /\ siblings' = siblings + 1
      /\ Store!Alloc!RegisterExternal(
           Store!FolderNode(Store!SiblingType(siblings + 1), Last(folderRecs)))
      /\ UNCHANGED <<config, folderRecs, itemRecs, nodes>>
  BY DEF RegisterSibling
<1>2. /\ nextIndex' = nextIndex /\ allocated \subseteq allocated'
      /\ ret'.ok = TRUE \/ ret'.ok = FALSE
  BY <1>1, Registered
<1>3. Records' /\ SameView
  BY <1>1, <1>2, RecordsKept DEF Common
<1>4. Current = Last(folderRecs)
  BY <1>1 DEF Common, Control, Current
<1>5. phase' = (IF ret'.ok THEN phase ELSE "collision") /\ (ret'.ok => step' = step)
  BY DEF RegisterSibling, Threw
<1>6. Failure = "none" /\ Failure' = IF ret'.ok THEN "none" ELSE "collision"
  BY <1>1, <1>2, <1>5 DEF Failure
<1>7. phase' # "register" /\ phase # "register"
  BY <1>1, <1>2, <1>5
<1>8. Store!Next
  BY <1>1, <1>3, <1>4, <1>6, <1>7, RegistersSibling
<1>9. ASSUME phase' \in Running PROVE Common'
  <2>1. phase' = phase /\ step' = step
    BY <1>2, <1>5, <1>9 DEF Running
  <2>2. Control'
    BY <1>1, <1>2, <1>3, <2>1 DEF Common, Control, SameView, Running, NumFolders
  <2>3. InTurn'
    BY <1>1, <1>3, <2>1 DEF Common, Control, InTurn, SameView
  <2>4. Counters'
    BY <1>2 DEF Common, Counters
  <2> QED BY <1>1, <1>3, <2>2, <2>3, <2>4 DEF Common
<1> QED BY <1>8, <1>9

(***************************************************************************)
(* allocate(NormalMessage): the item is new and its node not scheduled.    *)
(***************************************************************************)
LEMMA ItemAllocated ==
  ASSUME Common, AllocateItem, phase \in {"messages", "items"}, step' \in Nat,
         ret'.ok => phase' = phase /\ (phase = "items" => step' = step),
         ~ret'.ok => phase' = "exhausted"
  PROVE  Store!Next /\ (phase' \in Running => Common')
<1>1. /\ Store!Alloc!Allocate(NormalMessage)
      /\ UNCHANGED <<config, siblings, folderRecs, nodes>>
      /\ \E r : r.nid = ret'.nid
                 /\ itemRecs' = IF ret'.ok THEN Append(itemRecs, r) ELSE itemRecs
  <2> DEFINE m == AllItems[Len(itemRecs) + 1]
             r == [nid |-> ret'.nid, folder |-> m.folder, src |-> m.src]
  <2>1. r.nid = ret'.nid
    OBVIOUS
  <2>2. itemRecs' = IF ret'.ok THEN Append(itemRecs, r) ELSE itemRecs
    BY DEF AllocateItem
  <2> HIDE DEF r
  <2> QED BY <2>1, <2>2 DEF AllocateItem
<1>2. /\ Counters' /\ allocated \subseteq allocated'
      /\ ret'.ok = TRUE \/ ret'.ok = FALSE
      /\ ret'.ok => /\ ret'.nid \notin allocated /\ ret'.nid \in allocated'
                    /\ UserNid(NormalMessage, ret'.nid)
  <2>1. NormalMessage \in {NormalFolder, NormalMessage} /\ Counters
    BY DEF Common
  <2> QED BY <1>1, <2>1, Allocated
<1>3. UNCHANGED <<Folders, Current, OwnNids, NodeNids, RepeatedNids>>
  BY <1>1 DEF Folders, Current, OwnNids, NodeNids, RepeatedNids
<1>4. siblings = 3 /\ siblings' = 3 /\ Failure = "none" /\ phase # "register"
  BY <1>1, NotFailed DEF Common
<1>5. CASE ret'.ok
  <2>0. phase' = phase /\ Failure' = "none"
    BY <1>4, <1>5 DEF Failure
  <2>1. PICK r : r.nid = ret'.nid /\ itemRecs' = Append(itemRecs, r)
    BY <1>1, <1>5
  <2>2. PICK S : itemRecs \in Seq(S)
    BY DEF Common, Records, IsSeq
  <2> DEFINE len == Len(itemRecs)
  <2>3. /\ len \in Nat /\ DOMAIN itemRecs = 1..len
        /\ DOMAIN itemRecs' = 1..(len + 1)
        /\ \A i \in 1..len : itemRecs'[i] = itemRecs[i]
        /\ itemRecs'[len + 1].nid = ret'.nid
        /\ IsSeq(itemRecs')
    <3>1. /\ len \in Nat /\ DOMAIN itemRecs = 1..len
          /\ DOMAIN itemRecs' = 1..(len + 1)
          /\ \A i \in 1..len : itemRecs'[i] = itemRecs[i]
          /\ itemRecs'[len + 1] = r
      BY <2>1, <2>2, AppendFacts
    <3>2. itemRecs' \in Seq(S \cup {r})
      BY <2>1, <2>2, AppendFacts
    <3> QED BY <2>1, <3>1, <3>2 DEF IsSeq
  <2> HIDE DEF len
  <2>4. \A i \in 1..(len + 1) : i \in 1..len \/ i = len + 1
    BY <2>3
  <2>5. Items = {itemRecs[i].nid : i \in 1..len}
    BY <2>3 DEF Items
  <2>6. Items' = Items \cup {ret'.nid}
    <3>1. Items' = {itemRecs'[i].nid : i \in 1..(len + 1)}
      BY <2>3 DEF Items
    <3>2. 1..(len + 1) = 1..len \cup {len + 1}
      BY <2>3
    <3> QED BY <2>3, <2>5, <3>1, <3>2
  <2>7. ret'.nid \notin Items /\ ret'.nid \notin OwnNids
    <3>1. ret'.nid \notin Items
      BY <1>2, <1>5 DEF Common, Records
    <3>2. ret'.nid \notin FolderNodesOf(FolderTypes)
      BY <1>2, <1>5, FolderNodeIsNoItem DEF Common, Records, Owners, FolderNodesOf
    <3>3. ret'.nid # NID_IPM_HIERARCHY
      BY <1>2, <1>5, ItemIsNotIpm
    <3> QED BY <3>1, <3>2, <3>3 DEF Common, InTurn
  <2>8. Placed' = Placed
    BY <1>3, <2>6, <2>7 DEF Placed
  <2>9. Store!Next
    BY <1>1, <1>2, <1>3, <1>4, <1>5, <2>0, <2>6, <2>8, AllocatesItem
  <2>10. Records'
    <3>1. \A i, j \in DOMAIN itemRecs' : itemRecs'[i].nid = itemRecs'[j].nid => i = j
      <4>1. \A i \in 1..len : itemRecs[i].nid # ret'.nid
        BY <2>5, <2>7
      <4>2. \A i, j \in 1..len : itemRecs[i].nid = itemRecs[j].nid => i = j
        BY <2>3 DEF Common, Records
      <4> QED BY <2>3, <2>4, <4>1, <4>2
    <3>2. BaselineLen' = BaselineLen
      BY <1>1 DEF BaselineLen
    <3>3. Owners'
      BY <1>2, <1>3, <1>5, <2>6 DEF Owners, Common, Records
    <3>4. (Folders \cup Items)' \subseteq allocated'
      BY <1>2, <1>3, <1>5, <2>6 DEF Common, Records
    <3> QED BY <1>1, <2>3, <3>1, <3>2, <3>3, <3>4 DEF Common, Records
  <2>11. Control'
    BY <1>1, <1>2, <1>3, <1>4, <2>0 DEF Common, Control, NumFolders
  <2>12. InTurn'
    <3>1. Done' = Done
      BY <1>5, <2>0 DEF Done
    <3>2. FolderNodesOf(FolderTypes)' = FolderNodesOf(FolderTypes)
      BY <1>3 DEF FolderNodesOf
    <3>3. NID_IPM_HIERARCHY \notin OwnNids' \/ phase = "items"
      <4>1. phase = "messages" \/ phase = "items"
        OBVIOUS
      <4>2. InTurn
        BY DEF Common
      <4>3. phase = "messages" => NID_IPM_HIERARCHY \notin OwnNids
        BY <4>2 DEF InTurn, BeforeIpm
      <4> QED BY <1>3, <4>1, <4>3
    <3>4. \A i \in DOMAIN itemRecs' : i > Done' => itemRecs'[i].nid \notin OwnNids'
      BY <1>3, <2>3, <2>4, <2>7, <3>1 DEF Common, InTurn
    <3> QED BY <1>3, <2>0, <2>6, <3>2, <3>3, <3>4 DEF Common, InTurn, BeforeIpm
  <2> QED BY <1>1, <1>2, <2>9, <2>10, <2>11, <2>12 DEF Common
<1>6. CASE ~ret'.ok
  <2>1. phase' = "exhausted" /\ itemRecs' = itemRecs
    BY <1>1, <1>6
  <2>2. Items' = Items /\ Failure' = "exhausted" /\ phase' # "register"
    BY <2>1 DEF Items, Failure
  <2>3. Placed' = Placed
    BY <1>3, <2>2 DEF Placed
  <2>4. Store!Next
    BY <1>1, <1>2, <1>3, <1>4, <1>6, <2>2, <2>3, AllocatesItem
  <2> QED BY <2>1, <2>4 DEF Running
<1> QED BY <1>2, <1>5, <1>6

-----------------------------------------------------------------------------

(***************************************************************************)
(* An iteration that schedules one node after the folders are numbered;    *)
(* what it needs of the node's NID depends on whose node it is.            *)
(***************************************************************************)
NodeStep(n) ==
  /\ nodes' = Append(nodes, n) /\ step' = step + 1 /\ phase' = phase
  /\ UNCHANGED <<config, siblings, allocVars, folderRecs, itemRecs>>

(***************************************************************************)
(* Such an iteration schedules the node and keeps what does not depend on  *)
(* whose node it is.                                                       *)
(***************************************************************************)
LEMMA NodeStepKeeps ==
  ASSUME Common, phase \notin {"register", "folders"}, NEW n, NodeStep(n)
  PROVE  /\ Schedules(n.nid)
         /\ config' \in Configs /\ Counters' /\ Records' /\ Control'
         /\ Folders' = Folders /\ Items' = Items
<1>1. PICK S : nodes \in Seq(S)
  BY DEF Common, Records, IsSeq
<1>2. BaselineLen \in Nat /\ BaselineLen <= Len(nodes)
  BY Configured DEF Common, Records
<1>3. /\ NodeNids' = NodeNids \cup {n.nid}
      /\ OwnNids' = OwnNids \cup {n.nid}
      /\ RepeatedNids' = RepeatedNids \cup (NodeNids \cap {n.nid})
      /\ BaselineLen' <= Len(nodes')
  <2>1. nodes' = Append(nodes, n) /\ config' = config
    BY DEF NodeStep
  <2> QED BY <1>1, <1>2, <2>1, NodeScheduled
<1>4. Folders' = Folders /\ Items' = Items /\ Current' = Current
  BY DEF NodeStep, Folders, Items, Current
<1>5. IsSeq(nodes')
  <2>1. nodes' \in Seq(S \cup {n})
    BY <1>1, AppendFacts DEF NodeStep
  <2> QED BY <2>1 DEF IsSeq
<1>6. Failure = "none" /\ siblings = 3
  BY NotFailed DEF Common
<1>7. Schedules(n.nid)
  <2>1. /\ siblings' = 3 /\ phase # "register" /\ phase' # "register"
        /\ Failure' = "none" /\ UNCHANGED allocVars
    BY <1>6 DEF NodeStep, Failure
  <2> QED BY <1>3, <1>4, <1>6, <2>1 DEF Schedules
<1>8. Records'
  <2>1. UNCHANGED <<folderRecs, itemRecs, allocated>>
    BY DEF NodeStep, allocVars
  <2>2. Owners'
    BY <1>4 DEF Common, Records, Owners
  <2> QED BY <1>3, <1>4, <1>5, <2>1, <2>2 DEF Common, Records
<1>9. Control'
  <2>1. phase' = phase /\ step' \in Nat
        /\ UNCHANGED <<config, siblings, folderRecs, allocated>>
    BY DEF NodeStep, Common, Control, allocVars
  <2> QED BY <2>1 DEF Common, Control, NumFolders
<1>10. Counters' /\ config' \in Configs
  BY DEF Common, Counters, NodeStep, allocVars
<1> QED BY <1>4, <1>7, <1>8, <1>9, <1>10

(***************************************************************************)
(* A folder's own node or one of its tables.                               *)
(***************************************************************************)
LEMMA FolderNodeStep ==
  ASSUME Common, phase \in {"folderNodes", "contents"},
         NEW t \in FolderTypes, NEW f \in Folders, FolderNode(t, f) \notin OwnNids,
         NEW n, n.nid = FolderNode(t, f), NodeStep(n)
  PROVE  Store!Next /\ Common' /\ OwnNids' = OwnNids \cup {n.nid} /\ Folders' = Folders
<1>1. /\ Schedules(FolderNode(t, f))
      /\ config' \in Configs /\ Counters' /\ Records' /\ Control'
      /\ Folders' = Folders /\ Items' = Items
  BY NodeStepKeeps
<1>2. Store!Next
  BY <1>1, PlacesFolderNode DEF Common, Records
<1>3. OwnNids' = OwnNids \cup {FolderNode(t, f)}
  BY <1>1 DEF Schedules
<1>4. InTurn'
  <2>1. FolderNode(t, f) \in FolderNodesOf(FolderTypes)
    BY DEF FolderNodesOf
  <2>2. FolderNode(t, f) # NID_IPM_HIERARCHY
    BY FolderNodeIsNotIpm DEF Common, Records, Owners
  <2>3. FolderNode(t, f) \notin Items
    BY FolderNodeIsNoItem DEF Common, Records, Owners
  <2>4. FolderNodesOf(FolderTypes)' = FolderNodesOf(FolderTypes)
    BY <1>1 DEF FolderNodesOf
  <2>5. phase' = phase /\ itemRecs' = itemRecs /\ Done' = Done
    BY DEF NodeStep, Done
  <2>6. \A i \in DOMAIN itemRecs : itemRecs[i].nid \in Items
    BY DEF Items
  <2>7. NID_IPM_HIERARCHY \notin OwnNids
        /\ (\A i \in DOMAIN itemRecs : i > Done => itemRecs[i].nid \notin OwnNids)
        /\ OwnNids \subseteq FolderNodesOf(FolderTypes) \cup {NID_IPM_HIERARCHY} \cup Items
    BY DEF Common, InTurn, BeforeIpm
  <2>8. \A i \in DOMAIN itemRecs' : i > Done' => itemRecs'[i].nid \notin OwnNids'
    BY <1>3, <2>3, <2>5, <2>6, <2>7
  <2>9. OwnNids' \subseteq (FolderNodesOf(FolderTypes) \cup {NID_IPM_HIERARCHY} \cup Items)'
    BY <1>1, <1>3, <2>1, <2>4, <2>7
  <2> QED BY <1>3, <2>2, <2>7, <2>8, <2>9 DEF InTurn
<1> QED BY <1>1, <1>2, <1>3, <1>4 DEF Common

(***************************************************************************)
(* The IPM subtree's hierarchy table, in its loop of one iteration.        *)
(***************************************************************************)
LEMMA IpmHierarchyStep ==
  ASSUME Common, phase = "ipm", step = 0, NEW n, n.nid = NID_IPM_HIERARCHY, NodeStep(n)
  PROVE  Store!Next /\ Common'
<1>1. /\ Schedules(NID_IPM_HIERARCHY)
      /\ config' \in Configs /\ Counters' /\ Records' /\ Control'
      /\ Folders' = Folders /\ Items' = Items
  <2>1. phase \notin {"register", "folders"}
    OBVIOUS
  <2> QED BY <2>1, NodeStepKeeps
<1>2. Store!Next
  <2>1. NID_IPM_HIERARCHY \notin OwnNids /\ Owners
    BY DEF Common, InTurn, Records
  <2> QED BY <1>1, <2>1, PlacesIpmHierarchy
<1>3. OwnNids' = OwnNids \cup {NID_IPM_HIERARCHY}
  BY <1>1 DEF Schedules
<1>4. InTurn'
  <2>1. phase' = "ipm" /\ step' = 1 /\ itemRecs' = itemRecs /\ Done' = Done
    BY DEF NodeStep, Done
  <2>2. FolderNodesOf(FolderTypes)' = FolderNodesOf(FolderTypes)
    BY <1>1 DEF FolderNodesOf
  <2>3. \A i \in DOMAIN itemRecs : itemRecs[i].nid # NID_IPM_HIERARCHY
    BY ItemIsNotIpm DEF Items, Common, Records, Owners
  <2>4. \A i \in DOMAIN itemRecs' : i > Done' => itemRecs'[i].nid \notin OwnNids'
    BY <1>3, <2>1, <2>3 DEF Common, InTurn
  <2>5. OwnNids' \subseteq (FolderNodesOf(FolderTypes) \cup {NID_IPM_HIERARCHY} \cup Items)'
    BY <1>1, <1>3, <2>2 DEF Common, InTurn
  <2> QED BY <2>1, <2>4, <2>5 DEF InTurn, BeforeIpm
<1> QED BY <1>1, <1>2, <1>4 DEF Common

(***************************************************************************)
(* The node of the next item.                                              *)
(***************************************************************************)
LEMMA ItemStep ==
  ASSUME Common, phase \in {"items", "bodies"}, step + 1 \in DOMAIN itemRecs,
         NEW n, n.nid = itemRecs[step + 1].nid, NodeStep(n)
  PROVE  Store!Next /\ Common'
<1> DEFINE item == itemRecs[step + 1].nid
<1>1. /\ Schedules(item)
      /\ config' \in Configs /\ Counters' /\ Records' /\ Control'
      /\ Folders' = Folders /\ Items' = Items
  BY NodeStepKeeps
<1>2. step \in Nat /\ Done = step
  BY DEF Common, Control, Done
<1>3. item \in Items /\ item \notin OwnNids /\ Owners
  <2>1. item \in Items /\ Owners
    BY DEF Items, Common, Records
  <2>2. item \notin OwnNids
    BY <1>2 DEF Common, InTurn
  <2> QED BY <2>1, <2>2
<1>4. Store!Next
  BY <1>1, <1>3, PlacesItem
<1>5. OwnNids' = OwnNids \cup {item}
  BY <1>1 DEF Schedules
<1>6. InTurn'
  <2>1. phase' = phase /\ itemRecs' = itemRecs /\ Done' = step + 1
    BY DEF NodeStep, Done
  <2>2. FolderNodesOf(FolderTypes)' = FolderNodesOf(FolderTypes)
    BY <1>1 DEF FolderNodesOf
  <2>3. \A i \in DOMAIN itemRecs : i > step + 1 => itemRecs[i].nid \notin OwnNids'
    <3> SUFFICES ASSUME NEW i \in DOMAIN itemRecs, i > step + 1
                 PROVE  itemRecs[i].nid \notin OwnNids'
      OBVIOUS
    <3>1. i \in Nat
      <4>1. PICK S : itemRecs \in Seq(S)
        BY DEF Common, Records, IsSeq
      <4> QED BY <4>1
    <3>2. itemRecs[i].nid # item
      BY <1>2, <3>1 DEF Common, Records
    <3>3. itemRecs[i].nid \notin OwnNids
      BY <1>2, <3>1 DEF Common, InTurn
    <3> QED BY <1>5, <3>2, <3>3
  <2>4. OwnNids' \subseteq (FolderNodesOf(FolderTypes) \cup {NID_IPM_HIERARCHY} \cup Items)'
    BY <1>1, <1>3, <1>5, <2>2 DEF Common, InTurn
  <2> QED BY <2>1, <2>3, <2>4 DEF InTurn, BeforeIpm
<1> QED BY <1>1, <1>4, <1>6 DEF Common

(***************************************************************************)
(* A writer dies of an exception of its own.                               *)
(***************************************************************************)
LEMMA Dies ==
  ASSUME Common, phase # "register", phase' = "other",
         UNCHANGED <<config, siblings, allocVars, folderRecs, itemRecs, nodes>>
  PROVE  Store!Next
<1>1. SameView
  BY SameRecords
<1>2. Failure = "none" /\ Failure' = "other" /\ phase' # "register"
  BY NotFailed DEF Failure, Common
<1> QED BY <1>1, <1>2, GivesUp

(***************************************************************************)
(* From one loop to the next nothing of StoreNodes happens.                *)
(***************************************************************************)
LEMMA LoopEnded ==
  ASSUME Common, NEW loop \in Running \ {"register", "encode"}, NEW iterations,
         NEW next \in Running \ {"register", "folders"},
         EndLoop(loop, iterations, next),
         loop = "folders" => iterations = NumFolders,
         next \in BeforeIpm \cup {"ipm"} => loop \in BeforeIpm,
         next # "encode" => loop \notin {"items", "bodies"}
  PROVE  UNCHANGED Store!vars /\ Common'
<1>1. /\ phase = loop /\ phase' = next /\ step = iterations /\ step' = 0 /\ siblings = 3
      /\ UNCHANGED <<config, siblings, allocVars, folderRecs, itemRecs, nodes>>
  BY DEF EndLoop
<1>2. allocated' = allocated /\ Counters'
  BY <1>1 DEF allocVars, Common, Counters
<1>3. Records' /\ SameView
  BY <1>1, <1>2, RecordsKept DEF Common
<1>4. Failure = "none" /\ Failure' = "none"
  BY <1>1 DEF Running, Failure
<1>5. UNCHANGED Store!vars
  <2>1. phase # "register" /\ phase' # "register"
    BY <1>1
  <2> QED BY <1>1, <1>3, <1>4, <2>1, Stutters
<1>6. Control'
  <2>1. Len(folderRecs) = NumFolders
    BY <1>1 DEF Common, Control
  <2>2. NumFolders' = NumFolders /\ folderRecs' = folderRecs /\ siblings' = 3
        /\ allocated' = allocated
    BY <1>1, <1>2 DEF NumFolders
  <2> QED BY <1>1, <2>1, <2>2 DEF Common, Control
<1>7. InTurn'
  <2>1. FolderNodesOf(FolderTypes)' = FolderNodesOf(FolderTypes)
        /\ OwnNids' = OwnNids /\ Items' = Items /\ itemRecs' = itemRecs
    BY <1>1, <1>3 DEF FolderNodesOf, SameView
  <2>2. next # "encode" => Done = 0 /\ Done' = 0
    BY <1>1 DEF Done
  <2>3. phase' \in BeforeIpm \/ (phase' = "ipm" /\ step' = 0) => NID_IPM_HIERARCHY \notin OwnNids
    BY <1>1 DEF Common, InTurn
  <2>4. phase' # "encode" =>
          \A i \in DOMAIN itemRecs' : i > Done' => itemRecs'[i].nid \notin OwnNids'
    BY <1>1, <2>1, <2>2 DEF Common, InTurn
  <2> QED BY <2>1, <2>3, <2>4 DEF Common, InTurn
<1> QED BY <1>1, <1>2, <1>3, <1>5, <1>6, <1>7 DEF Common

(***************************************************************************)
(* writeM5Pst takes the blocks and the nodes or refuses them.              *)
(***************************************************************************)
LEMMA HandedOver ==
  ASSUME Common, HandOver
  PROVE  [Store!Next]_(Store!vars) /\ phase' \notin Running
<1>1. /\ phase = "encode" /\ phase' \in {"written", "other"}
      /\ UNCHANGED <<config, siblings, allocVars, folderRecs, itemRecs, nodes>>
  BY DEF HandOver
<1>2. ASSUME phase' = "other" PROVE Store!Next
  <2>1. phase # "register"
    BY <1>1
  <2> QED BY <1>1, <1>2, <2>1, Dies
<1>3. ASSUME phase' = "written" PROVE UNCHANGED Store!vars
  <2>1. SameView
    BY <1>1, SameRecords
  <2>2. Failure' = Failure
    BY <1>1, <1>3 DEF Failure
  <2> QED BY <1>1, <1>3, <2>1, <2>2, Stutters
<1>4. phase' \notin Running
  BY <1>1 DEF Running
<1> QED BY <1>1, <1>2, <1>3, <1>4

(***************************************************************************)
(* ScheduleIpmHierarchy, whether the rows fit or not.                      *)
(***************************************************************************)
LEMMA IpmHierarchyScheduled ==
  ASSUME Common, ScheduleIpmHierarchy
  PROVE  Store!Next /\ (phase' \in Running => Common')
<1>1. /\ phase = "ipm" /\ step < 1
      /\ UNCHANGED <<config, siblings, allocVars, folderRecs, itemRecs>>
  BY DEF ScheduleIpmHierarchy, InLoop
<1>2. step = 0
  BY <1>1 DEF Common, Control
<1>3. CASE Len(folderRecs) <= IpmRowsInHeap
  <2> DEFINE n == Node(NID_IPM_HIERARCHY, 0, DataBid(sched.nextData), 0)
  <2>1. NodeStep(n)
    BY <1>1, <1>3 DEF ScheduleIpmHierarchy, ScheduleNode, Iterated, NodeStep
  <2>2. n.nid = NID_IPM_HIERARCHY
    BY DEF Node
  <2> HIDE DEF n
  <2> QED BY <1>1, <1>2, <2>1, <2>2, IpmHierarchyStep
<1>4. CASE ~(Len(folderRecs) <= IpmRowsInHeap)
  <2>1. phase' = "other" /\ UNCHANGED nodes
    BY <1>4 DEF ScheduleIpmHierarchy, Threw
  <2> QED BY <1>1, <2>1, Dies DEF Running
<1> QED BY <1>3, <1>4

-----------------------------------------------------------------------------

(***************************************************************************)
(* The loop over the folders' nodes as one sequence of steps: the step     *)
(* determines the folder and the node's type and is determined by them.    *)
(***************************************************************************)
LEMMA Divisions ==
  ASSUME NEW L \in {3, 4}, NEW n \in Nat
  PROVE  /\ \A j \in Nat : /\ j \div L \in Nat /\ j % L \in 0..(L - 1)
                            /\ j < L * n => j \div L < n
         /\ \A j, k \in Nat : j \div L = k \div L /\ j % L = k % L => j = k
<1>1. CASE L = 3
  BY <1>1, SMT
<1>2. CASE L = 4
  BY <1>2, SMT
<1> QED BY <1>1, <1>2

\* The nodes of the folders of which the first steps take care.
Enumerated(types, steps) ==
  {FolderNode(types[(j % Len(types)) + 1], folderRecs[(j \div Len(types)) + 1]) :
     j \in 0..(steps - 1)}

FolderNodesInTurn(types) ==
  phase = "folderNodes" => /\ OwnNids \subseteq Enumerated(types, step)
                           /\ step <= Len(types) * NumFolders

Distinct(types) ==
  /\ Len(types) \in {3, 4} /\ DOMAIN types = 1..Len(types)
  /\ \A i \in DOMAIN types : types[i] \in FolderTypes
  /\ \A i, j \in DOMAIN types : types[i] = types[j] => i = j

(***************************************************************************)
(* The loop over the folders' nodes schedules each of them once.           *)
(***************************************************************************)
LEMMA FolderNodeScheduled ==
  ASSUME Common, NEW types, Distinct(types), FolderNodesInTurn(types),
         ScheduleFolderNode(types)
  PROVE  Store!Next /\ Common' /\ FolderNodesInTurn(types)' /\ phase' = "folderNodes"
<1> DEFINE L == Len(types)
           f == (step \div L) + 1
           t == types[(step % L) + 1]
           folder == folderRecs[f]
<1>1. phase = "folderNodes" /\ step < L * NumFolders /\ step \in Nat
  BY DEF ScheduleFolderNode, InLoop, Common, Control
<1>2. L \in {3, 4} /\ NumFolders \in Nat
  BY Configured DEF Distinct, Common
<1>3. /\ step \div L \in Nat /\ step % L \in 0..(L - 1) /\ step \div L < NumFolders
  BY <1>1, <1>2, Divisions
<1>4. DOMAIN folderRecs = 1..NumFolders
  <2>1. PICK S : folderRecs \in Seq(S)
    BY DEF Common, Records, IsSeq
  <2>2. Len(folderRecs) = NumFolders
    BY <1>1 DEF Common, Control
  <2> QED BY <2>1, <2>2
<1>5. /\ f \in DOMAIN folderRecs /\ (step % L) + 1 \in DOMAIN types
      /\ t \in FolderTypes /\ folder \in Folders
  <2>1. f \in 1..NumFolders /\ (step % L) + 1 \in 1..L
    BY <1>2, <1>3
  <2> QED BY <1>4, <2>1 DEF Distinct, Folders, ToSet
<1>6. FolderNode(t, folder) \notin OwnNids
  <2> SUFFICES ASSUME NEW j \in 0..(step - 1),
                      FolderNode(t, folder)
                        = FolderNode(types[(j % L) + 1], folderRecs[(j \div L) + 1])
               PROVE  FALSE
    BY <1>1 DEF FolderNodesInTurn, Enumerated
  <2>1. j \in Nat /\ j < step /\ j < L * NumFolders
    BY <1>1, <1>2
  <2>2. j \div L \in Nat /\ j % L \in 0..(L - 1) /\ j \div L < NumFolders
    BY <1>2, <2>1, Divisions, SMTT(30)
  <2>3. (j \div L) + 1 \in DOMAIN folderRecs /\ (j % L) + 1 \in DOMAIN types
    <3>1. (j \div L) + 1 \in 1..NumFolders /\ (j % L) + 1 \in 1..L
      BY <1>2, <2>2
    <3> QED BY <1>4, <3>1 DEF Distinct
  <2>4. /\ types[(j % L) + 1] \in FolderTypes
        /\ folderRecs[(j \div L) + 1] \in Folders
    BY <2>3 DEF Distinct, Folders, ToSet
  <2>5. \A g \in Folders : UserNid(NormalFolder, g)
    BY DEF Common, Records, Owners
  <2>6. t = types[(j % L) + 1] /\ folder = folderRecs[(j \div L) + 1]
    <3> HIDE DEF t, folder
    <3> QED BY <1>5, <2>4, <2>5, FolderNodesDiffer
  <2>7. (step % L) + 1 = (j % L) + 1 /\ (step \div L) + 1 = (j \div L) + 1
    BY <1>5, <2>3, <2>6 DEF Distinct, Common, Records
  <2>8. step % L = j % L /\ step \div L = j \div L
    BY <1>2, <1>3, <2>2, <2>7
  <2>9. step = j
    <3> HIDE DEF L
    <3>1. \A m, k \in Nat : m \div L = k \div L /\ m % L = k % L => m = k
      BY <1>2, Divisions
    <3> QED BY <1>1, <2>1, <2>8, <3>1, Zenon
  <2> QED BY <1>1, <2>1, <2>9
<1>7. Store!FolderNode(t, folder) = FolderNode(t, folder)
  BY SameNames DEF Store!FolderNode, FolderNode
<1>8. \E n : n.nid = FolderNode(t, folder) /\ NodeStep(n)
  <2> DEFINE pc == Node(Store!FolderNode(t, folder), config.folders[f].parent,
                        DataBid(sched.nextData), 0)
             table == Node(Store!FolderNode(t, folder), 0, DataBid(sched.nextData), 0)
  <2>1. NodeStep(pc) \/ NodeStep(table)
    <3>1. step' = step + 1 /\ phase' = phase
          /\ UNCHANGED <<config, siblings, allocVars, folderRecs, itemRecs>>
      BY DEF ScheduleFolderNode, Iterated
    <3>2. nodes' = Append(nodes, pc) \/ nodes' = Append(nodes, table)
      BY DEF ScheduleFolderNode, ScheduleNode
    <3> QED BY <3>1, <3>2 DEF NodeStep
  <2>2. pc.nid = FolderNode(t, folder) /\ table.nid = FolderNode(t, folder)
    BY <1>7 DEF Node
  <2> HIDE DEF pc, table
  <2> QED BY <2>1, <2>2
<1> HIDE DEF t, folder
<1>9. PICK n : n.nid = FolderNode(t, folder) /\ NodeStep(n)
  BY <1>8
<1>10. Store!Next /\ Common' /\ OwnNids' = OwnNids \cup {n.nid} /\ Folders' = Folders
  BY <1>1, <1>5, <1>6, <1>9, FolderNodeStep
<1>11. phase' = "folderNodes" /\ step' = step + 1 /\ folderRecs' = folderRecs
       /\ NumFolders' = NumFolders
  BY <1>1, <1>9 DEF NodeStep, NumFolders
<1>12. FolderNodesInTurn(types)'
  <2>1. step + 1 <= L * NumFolders
    BY <1>1, <1>2
  <2>2. /\ \A j \in 0..(step - 1) : j \in 0..((step + 1) - 1)
        /\ step \in 0..((step + 1) - 1)
    BY <1>1
  <2>3. OwnNids' \subseteq Enumerated(types, step + 1)
    <3>1. OwnNids \subseteq Enumerated(types, step)
      BY <1>1 DEF FolderNodesInTurn
    <3>2. Enumerated(types, step) \subseteq Enumerated(types, step + 1)
      BY <2>2 DEF Enumerated
    <3>3. n.nid \in Enumerated(types, step + 1)
      BY <1>9, <2>2 DEF Enumerated, t, folder
    <3> QED BY <1>10, <3>1, <3>2, <3>3
  <2>4. Enumerated(types, step)' = Enumerated(types, step + 1)
    BY <1>11 DEF Enumerated
  <2> QED BY <1>11, <2>1, <2>3, <2>4 DEF FolderNodesInTurn
<1> QED BY <1>10, <1>11, <1>12

(***************************************************************************)
(* That loop begins after the folders' and with no node scheduled.         *)
(***************************************************************************)
LEMMA FolderNodesBegin ==
  ASSUME Common, NEW types, Distinct(types), EndLoop("folders", NumFolders, "folderNodes")
  PROVE  UNCHANGED Store!vars /\ Common' /\ FolderNodesInTurn(types)'
<1>1. UNCHANGED Store!vars /\ Common'
  BY LoopEnded DEF Running, BeforeIpm
<1>2. phase = "folders" /\ step' = 0 /\ UNCHANGED <<config, nodes>>
  BY DEF EndLoop
<1>3. OwnNids' = {}
  BY <1>2 DEF Common, Control, OwnNids
<1>4. step' <= Len(types) * NumFolders
  <2>1. NumFolders \in Nat /\ Len(types) \in {3, 4}
    BY Configured DEF Common, Distinct
  <2>2. 0 <= 3 * NumFolders /\ 0 <= 4 * NumFolders
    BY <2>1
  <2> QED BY <1>2, <2>1, <2>2
<1>5. NumFolders' = NumFolders
  BY <1>2 DEF NumFolders
<1> QED BY <1>1, <1>3, <1>4, <1>5 DEF FolderNodesInTurn

(***************************************************************************)
(* A step that changes no variable.                                        *)
(***************************************************************************)
LEMMA Unmoved ==
  ASSUME UNCHANGED vars
  PROVE  /\ UNCHANGED Store!vars /\ (Common => Common')
         /\ OwnNids' = OwnNids /\ Folders' = Folders
<1>1. UNCHANGED <<config, phase, step, siblings, allocVars, folderRecs, itemRecs, nodes>>
  BY DEF vars
<1>2. SameView
  BY <1>1, SameRecords
<1>3. Failure' = Failure
  BY <1>1 DEF Failure
<1>4. UNCHANGED Store!vars
  BY <1>1, <1>2, <1>3, Stutters
<1>5. ASSUME Common PROVE Common'
  <2>1. Records'
    BY <1>1, <1>5, RecordsKept DEF Common, allocVars
  <2>2. Control'
    BY <1>1, <1>2, <1>5 DEF Common, Control, SameView, NumFolders, allocVars
  <2>3. InTurn'
    BY <1>1, <1>2, <1>5 DEF Common, InTurn, SameView, Done, FolderNodesOf
  <2> QED BY <1>1, <1>5, <2>1, <2>2, <2>3 DEF Common, Counters, allocVars
<1> QED BY <1>2, <1>4, <1>5 DEF SameView

-----------------------------------------------------------------------------

(***************************************************************************)
(* The blocks.  What the lists of scheduled blocks have in common, however *)
(* they came about: data blocks are numbered in the order of their list,   *)
(* XBLOCKs and SLBLOCKs share the numbers of the other counter.            *)
(***************************************************************************)
DataBids(s)     == {DataBid(i) : i \in 1..(s.nextData - 1)}
InternalBids(s) == {InternalBid(k) : k \in 1..(s.nextInternal - 1)}
Bids(s)         == DataBids(s) \cup InternalBids(s)

BidsIn(list) == {list[i].bid : i \in 1..Len(list)}

OwnBids(list) == \A i, j \in 1..Len(list) : list[i].bid = list[j].bid => i = j

Tidy(s) ==
  /\ DOMAIN s = {"nextData", "nextInternal", "data", "x", "sl"}
  /\ IsSeq(s.data) /\ IsSeq(s.x) /\ IsSeq(s.sl)
  /\ s.nextData = Len(s.data) + 1
  /\ s.nextInternal = Len(s.x) + Len(s.sl) + 1
  /\ \A i \in 1..Len(s.data) : s.data[i].bid = DataBid(i)
  /\ OwnBids(s.x) /\ OwnBids(s.sl)
  /\ BidsIn(s.x) \cap BidsIn(s.sl) = {}
  /\ BidsIn(s.x) \cup BidsIn(s.sl) = InternalBids(s)

Once(refs)    == \A p, q \in refs : p[2] = q[2] => p = q
Targets(refs) == {p[2] : p \in refs}

\* The blocks refer to each other, each once, but for those that wait for a
\* reference.
Web(s, waiting) ==
  /\ Tidy(s)
  /\ waiting \subseteq Bids(s)
  /\ Once(BlockReferences(s))
  /\ Targets(BlockReferences(s)) = Bids(s) \ waiting

(***************************************************************************)
(* A vector has as many elements as its length says.                       *)
(***************************************************************************)
LEMMA Vector ==
  ASSUME NEW s, IsSeq(s)
  PROVE  Len(s) \in Nat /\ DOMAIN s = 1..Len(s)
BY DEF IsSeq

(***************************************************************************)
(* A function over an initial piece of the positive numbers is a vector.   *)
(***************************************************************************)
LEMMA FunctionIsVector ==
  ASSUME NEW n \in Nat, NEW f, f = [i \in 1..n |-> f[i]]
  PROVE  IsSeq(f) /\ Len(f) = n /\ DOMAIN f = 1..n
<1>1. f \in [1..n -> {f[i] : i \in 1..n}]
  OBVIOUS
<1>2. f \in Seq({f[i] : i \in 1..n}) /\ Len(f) = n /\ DOMAIN f = 1..n
  BY <1>1
<1> QED BY <1>2 DEF IsSeq

(***************************************************************************)
(* Concatenation of vectors, whatever is in them.                          *)
(***************************************************************************)
LEMMA Concatenated ==
  ASSUME NEW s, IsSeq(s), NEW t, IsSeq(t)
  PROVE  /\ IsSeq(s \o t)
         /\ Len(s) \in Nat /\ Len(t) \in Nat
         /\ Len(s \o t) = Len(s) + Len(t)
         /\ DOMAIN (s \o t) = 1..(Len(s) + Len(t))
         /\ \A i \in 1..Len(s) : (s \o t)[i] = s[i]
         /\ \A i \in 1..Len(t) : (s \o t)[Len(s) + i] = t[i]
<1>1. PICK S : s \in Seq(S)
  BY DEF IsSeq
<1>2. PICK T : t \in Seq(T)
  BY DEF IsSeq
<1>3. s \in Seq(S \cup T) /\ t \in Seq(S \cup T)
  BY <1>1, <1>2
<1>4. s \o t \in Seq(S \cup T) /\ Len(s \o t) = Len(s) + Len(t)
  BY <1>3
<1>5. Len(s) \in Nat /\ Len(t) \in Nat /\ DOMAIN (s \o t) = 1..(Len(s) + Len(t))
  BY <1>3, <1>4
<1>6. \A i \in 1..Len(s) : (s \o t)[i] = s[i]
  BY <1>3
<1>7. \A i \in 1..Len(t) : (s \o t)[Len(s) + i] = t[i]
  BY <1>3
<1>8. IsSeq(s \o t)
  BY <1>4 DEF IsSeq
<1> QED BY <1>4, <1>5, <1>6, <1>7, <1>8

(***************************************************************************)
(* BIDs of different blocks differ.                                        *)
(***************************************************************************)
LEMMA BidsDiffer ==
  /\ \A i, j \in Nat : DataBid(i) = DataBid(j) => i = j
  /\ \A i, j \in Nat : InternalBid(i) = InternalBid(j) => i = j
  /\ \A i, j \in Nat : DataBid(i) # InternalBid(j)
  /\ \A i \in Nat \ {0} : DataBid(i) \in Nat \ {0}
  /\ \A i \in Nat : InternalBid(i) \in Nat \ {0}
BY DEF DataBid, InternalBid

(***************************************************************************)
(* One more list of references to blocks that had none.                    *)
(***************************************************************************)
LEMMA OnceMore ==
  ASSUME NEW R, NEW N, Once(R), Once(N), Targets(R) \cap Targets(N) = {}
  PROVE  Once(R \cup N) /\ Targets(R \cup N) = Targets(R) \cup Targets(N)
<1>1. Targets(R \cup N) = Targets(R) \cup Targets(N)
  BY DEF Targets
<1>2. \A p \in R, q \in N : p[2] # q[2]
  BY DEF Targets
<1> QED BY <1>1, <1>2 DEF Once

(***************************************************************************)
(* The encode loops list every scheduled block, each with a BID of its own *)
(* and none above the number of blocks.                                    *)
(***************************************************************************)
LEMMA AllBidsFacts ==
  ASSUME NEW s, Tidy(s)
  PROVE  /\ IsInjective(AllBids(s))
         /\ ToSet(AllBids(s)) = Bids(s)
         /\ Len(AllBids(s)) \in Nat
         /\ \A bid \in Bids(s) : bid < DataBid(Len(AllBids(s)) + 1)
<1> DEFINE d == [i \in DOMAIN s.data |-> s.data[i].bid]
           x == [i \in DOMAIN s.x |-> s.x[i].bid]
           l == [i \in DOMAIN s.sl |-> s.sl[i].bid]
           nd == Len(s.data)
           nx == Len(s.x)
           nl == Len(s.sl)
<1>1. /\ nd \in Nat /\ DOMAIN s.data = 1..nd
      /\ nx \in Nat /\ DOMAIN s.x = 1..nx
      /\ nl \in Nat /\ DOMAIN s.sl = 1..nl
  BY Vector DEF Tidy
<1>2. /\ IsSeq(d) /\ Len(d) = nd /\ DOMAIN d = 1..nd
      /\ IsSeq(x) /\ Len(x) = nx /\ DOMAIN x = 1..nx
      /\ IsSeq(l) /\ Len(l) = nl /\ DOMAIN l = 1..nl
  <2> HIDE DEF nd, nx, nl
  <2>1. IsSeq(d) /\ Len(d) = nd /\ DOMAIN d = 1..nd
    BY <1>1, FunctionIsVector
  <2>2. IsSeq(x) /\ Len(x) = nx /\ DOMAIN x = 1..nx
    BY <1>1, FunctionIsVector
  <2>3. IsSeq(l) /\ Len(l) = nl /\ DOMAIN l = 1..nl
    BY <1>1, FunctionIsVector
  <2> QED BY <2>1, <2>2, <2>3
<1>3. /\ \A i \in 1..nd : d[i] = DataBid(i)
      /\ \A i \in 1..nx : x[i] = s.x[i].bid
      /\ \A i \in 1..nl : l[i] = s.sl[i].bid
  BY <1>1 DEF Tidy
<1>4. AllBids(s) = (d \o x) \o l
  BY DEF AllBids
<1> HIDE DEF d, x, l
<1> DEFINE all == AllBids(s)
<1>5. /\ Len(all) = nd + nx + nl /\ DOMAIN all = 1..(nd + nx + nl)
      /\ \A i \in 1..nd : all[i] = d[i]
      /\ \A i \in 1..nx : all[nd + i] = x[i]
      /\ \A i \in 1..nl : all[nd + nx + i] = l[i]
  <2> HIDE DEF nd, nx, nl, all
  <2> DEFINE dx == d \o x
  <2>0. IsSeq(d) /\ IsSeq(x) /\ IsSeq(l)
    BY <1>2
  <2>1. /\ IsSeq(dx) /\ Len(dx) = nd + nx /\ DOMAIN dx = 1..(nd + nx)
        /\ \A i \in 1..nd : dx[i] = d[i]
        /\ \A i \in 1..nx : dx[nd + i] = x[i]
    <3>1. /\ IsSeq(dx) /\ Len(dx) = Len(d) + Len(x) /\ DOMAIN dx = 1..(Len(d) + Len(x))
          /\ \A i \in 1..Len(d) : dx[i] = d[i]
          /\ \A i \in 1..Len(x) : dx[Len(d) + i] = x[i]
      BY <2>0, Concatenated
    <3> QED BY <1>2, <3>1
  <2>2. all = dx \o l
    BY <1>4 DEF all
  <2> HIDE DEF dx
  <2>3. /\ Len(all) = nd + nx + nl /\ DOMAIN all = 1..(nd + nx + nl)
        /\ \A i \in 1..(nd + nx) : all[i] = dx[i]
        /\ \A i \in 1..nl : all[nd + nx + i] = l[i]
    <3>1. IsSeq(dx)
      BY <2>1
    <3>2. /\ Len(dx \o l) = Len(dx) + Len(l) /\ DOMAIN (dx \o l) = 1..(Len(dx) + Len(l))
          /\ \A i \in 1..Len(dx) : (dx \o l)[i] = dx[i]
          /\ \A i \in 1..Len(l) : (dx \o l)[Len(dx) + i] = l[i]
      BY <2>0, <3>1, Concatenated
    <3> QED BY <1>2, <2>1, <2>2, <3>2
  <2>4. \A i \in 1..nd : i \in 1..(nd + nx)
    BY <1>1
  <2>5. \A i \in 1..nx : nd + i \in 1..(nd + nx)
    BY <1>1
  <2> QED BY <2>1, <2>3, <2>4, <2>5
<1> HIDE DEF all
<1>6. \A i \in DOMAIN all : \/ i \in 1..nd
                            \/ \E k \in 1..nx : i = nd + k
                            \/ \E k \in 1..nl : i = nd + nx + k
  <2> HIDE DEF nd, nx, nl
  <2> SUFFICES ASSUME NEW i \in 1..(nd + nx + nl), i \notin 1..nd,
                      ~ \E k \in 1..nx : i = nd + k
               PROVE  \E k \in 1..nl : i = nd + nx + k
    BY <1>5
  <2>1. i > nd
    BY <1>1
  <2>2. i > nd + nx
    <3> SUFFICES ASSUME i <= nd + nx PROVE FALSE
      BY <1>1
    <3>1. i - nd \in 1..nx /\ i = nd + (i - nd)
      BY <1>1, <2>1
    <3> QED BY <3>1
  <2>3. i - (nd + nx) \in 1..nl /\ i = nd + nx + (i - (nd + nx))
    BY <1>1, <2>2
  <2> QED BY <2>3
<1>7. /\ \A i \in 1..nd : all[i] = DataBid(i)
      /\ \A k \in 1..nx : all[nd + k] = s.x[k].bid
      /\ \A k \in 1..nl : all[nd + nx + k] = s.sl[k].bid
  BY <1>3, <1>5
<1>8. DataBids(s) = {DataBid(i) : i \in 1..nd}
  <2>1. s.nextData - 1 = nd
    BY <1>1 DEF Tidy
  <2> QED BY <2>1 DEF DataBids
<1>9. BidsIn(s.x) \cup BidsIn(s.sl) = InternalBids(s) /\ BidsIn(s.x) \cap BidsIn(s.sl) = {}
  BY DEF Tidy
<1>10. ToSet(all) = Bids(s)
  <2>1. ToSet(all) \subseteq Bids(s)
    <3> SUFFICES ASSUME NEW i \in DOMAIN all PROVE all[i] \in Bids(s)
      BY DEF ToSet
    <3>1. ASSUME i \in 1..nd PROVE all[i] \in Bids(s)
      BY <1>7, <1>8, <3>1 DEF Bids
    <3>2. ASSUME NEW k \in 1..nx, i = nd + k PROVE all[i] \in Bids(s)
      BY <1>7, <1>9, <3>2 DEF Bids, BidsIn, nx
    <3>3. ASSUME NEW k \in 1..nl, i = nd + nx + k PROVE all[i] \in Bids(s)
      BY <1>7, <1>9, <3>3 DEF Bids, BidsIn, nl
    <3> QED BY <1>6, <3>1, <3>2, <3>3
  <2>2. Bids(s) \subseteq ToSet(all)
    <3>0. Bids(s) = {DataBid(i) : i \in 1..nd} \cup {s.x[k].bid : k \in 1..nx}
                      \cup {s.sl[k].bid : k \in 1..nl}
      BY <1>8, <1>9 DEF Bids, BidsIn
    <3> HIDE DEF nd, nx, nl
    <3>1. ASSUME NEW i \in 1..nd PROVE DataBid(i) \in ToSet(all)
      <4>1. i \in DOMAIN all /\ all[i] = DataBid(i)
        BY <1>1, <1>5, <1>7
      <4> QED BY <4>1 DEF ToSet
    <3>2. ASSUME NEW k \in 1..nx PROVE s.x[k].bid \in ToSet(all)
      <4>1. nd + k \in DOMAIN all /\ all[nd + k] = s.x[k].bid
        BY <1>1, <1>5, <1>7
      <4> QED BY <4>1 DEF ToSet
    <3>3. ASSUME NEW k \in 1..nl PROVE s.sl[k].bid \in ToSet(all)
      <4>1. nd + nx + k \in DOMAIN all /\ all[nd + nx + k] = s.sl[k].bid
        BY <1>1, <1>5, <1>7
      <4> QED BY <4>1 DEF ToSet
    <3> QED BY <3>0, <3>1, <3>2, <3>3
  <2> QED BY <2>1, <2>2
<1>11. ASSUME NEW i \in DOMAIN all, NEW j \in DOMAIN all, all[i] = all[j] PROVE i = j
  <2>0. \A b \in InternalBids(s) : \A k \in 1..nd : b # DataBid(k)
    <3>1. s.nextInternal - 1 \in Nat
      BY <1>1 DEF Tidy
    <3>2. \A k \in 1..(s.nextInternal - 1) : k \in Nat
      BY <3>1
    <3>3. \A k \in 1..nd : k \in Nat
      BY <1>1
    <3> QED BY <3>2, <3>3, BidsDiffer DEF InternalBids
  <2>1. \A k \in 1..nx : s.x[k].bid \in BidsIn(s.x)
    BY DEF BidsIn, nx
  <2>2. \A k \in 1..nl : s.sl[k].bid \in BidsIn(s.sl)
    BY DEF BidsIn, nl
  <2>3. \A k, h \in 1..nd : DataBid(k) = DataBid(h) => k = h
    <3>1. \A k \in 1..nd : k \in Nat
      BY <1>1
    <3> QED BY <3>1, BidsDiffer
  <2>4. \A k, h \in 1..nx : s.x[k].bid = s.x[h].bid => k = h
    BY DEF Tidy, OwnBids, nx
  <2>5. \A k, h \in 1..nl : s.sl[k].bid = s.sl[h].bid => k = h
    BY DEF Tidy, OwnBids, nl
  <2> HIDE DEF nd, nx, nl
  <2>6. CASE i \in 1..nd
    BY <1>6, <1>7, <1>9, <1>11, <2>0, <2>1, <2>2, <2>3, <2>6
  <2>7. CASE \E k \in 1..nx : i = nd + k
    BY <1>6, <1>7, <1>9, <1>11, <2>0, <2>1, <2>2, <2>4, <2>7
  <2>8. CASE \E k \in 1..nl : i = nd + nx + k
    BY <1>6, <1>7, <1>9, <1>11, <2>0, <2>1, <2>2, <2>5, <2>8
  <2> QED BY <1>6, <2>6, <2>7, <2>8
<1>12. ASSUME NEW bid \in Bids(s) PROVE bid < DataBid(nd + nx + nl + 1)
  <2> HIDE DEF nd, nx, nl
  <2>1. ASSUME NEW i \in 1..nd PROVE DataBid(i) < DataBid(nd + nx + nl + 1)
    BY <1>1 DEF DataBid
  <2>2. s.nextInternal - 1 = nx + nl
    BY <1>1 DEF Tidy, nx, nl
  <2>3. ASSUME NEW k \in 1..(nx + nl) PROVE InternalBid(k) < DataBid(nd + nx + nl + 1)
    BY <1>1 DEF DataBid, InternalBid
  <2> QED BY <1>8, <2>1, <2>2, <2>3 DEF Bids, InternalBids
<1>13. Len(all) \in Nat
  <2> HIDE DEF nd, nx, nl
  <2> QED BY <1>1, <1>5
<1> QED BY <1>5, <1>10, <1>11, <1>12, <1>13 DEF IsInjective, all

\* The BIDs that the blocks scheduled next will have, of either kind.
NextDataBids(s, n)     == {DataBid(s.nextData + i - 1) : i \in 1..n}
NextInternalBids(s, n) == {InternalBid(s.nextInternal + g - 1) : g \in 1..n}

(***************************************************************************)
(* New data blocks: they wait for a reference, and nothing else changes.   *)
(***************************************************************************)
LEMMA DataAdded ==
  ASSUME NEW s, NEW waiting, Web(s, waiting), NEW sizes, IsSeq(sizes),
         NEW t, t = AddDataBlocks(s, sizes),
         NEW new, new = NextDataBids(s, Len(sizes))
  PROVE  /\ Web(t, waiting \cup new)
         /\ new \cap Bids(s) = {} /\ Bids(t) = Bids(s) \cup new
         /\ t.nextData = s.nextData + Len(sizes) /\ t.nextInternal = s.nextInternal
         /\ t.x = s.x /\ t.sl = s.sl
<1> DEFINE n == Len(sizes)
           nd == Len(s.data)
           added == [i \in DOMAIN sizes |-> [bid |-> DataBid(s.nextData + i - 1),
                                             size |-> sizes[i]]]
<1>1. Tidy(s) /\ waiting \subseteq Bids(s) /\ Once(BlockReferences(s))
      /\ Targets(BlockReferences(s)) = Bids(s) \ waiting
  BY DEF Web
<1>2. /\ n \in Nat /\ DOMAIN sizes = 1..n
      /\ nd \in Nat /\ DOMAIN s.data = 1..nd
      /\ Len(s.x) \in Nat /\ Len(s.sl) \in Nat
  BY <1>1, Vector DEF Tidy
<1>3. s.nextData = nd + 1 /\ s.nextInternal = Len(s.x) + Len(s.sl) + 1
  BY <1>1 DEF Tidy
<1>4. /\ IsSeq(added) /\ Len(added) = n
      /\ \A i \in 1..n : added[i].bid = DataBid(s.nextData + i - 1)
  <2>1. IsSeq(added) /\ Len(added) = n
    <3> HIDE DEF n
    <3> QED BY <1>2, FunctionIsVector
  <2> QED BY <1>2, <2>1
<1>5. /\ t.nextData = s.nextData + n /\ t.nextInternal = s.nextInternal
      /\ t.x = s.x /\ t.sl = s.sl
      /\ t.data = s.data \o added
      /\ DOMAIN t = {"nextData", "nextInternal", "data", "x", "sl"}
  <2>1. DOMAIN s = {"nextData", "nextInternal", "data", "x", "sl"}
    BY <1>1 DEF Tidy
  <2>2. t = [s EXCEPT !.nextData = s.nextData + n, !.data = s.data \o added]
    BY DEF AddDataBlocks
  <2> HIDE DEF n, added
  <2> QED BY <2>1, <2>2
<1> HIDE DEF n, nd, added
<1>6. /\ IsSeq(t.data) /\ Len(t.data) = nd + n
      /\ \A i \in 1..(nd + n) : t.data[i].bid = DataBid(i)
  <2>1. IsSeq(s.data) /\ IsSeq(added)
    BY <1>1, <1>4 DEF Tidy
  <2>2. /\ IsSeq(s.data \o added) /\ Len(s.data \o added) = nd + n
        /\ \A i \in 1..nd : (s.data \o added)[i] = s.data[i]
        /\ \A i \in 1..n : (s.data \o added)[nd + i] = added[i]
    <3> DEFINE data == s.data
    <3>0. IsSeq(data) /\ nd = Len(data)
      BY <2>1 DEF nd
    <3> HIDE DEF data
    <3>1. /\ IsSeq(data \o added) /\ Len(data \o added) = Len(data) + Len(added)
          /\ \A i \in 1..Len(data) : (data \o added)[i] = data[i]
          /\ \A i \in 1..Len(added) : (data \o added)[Len(data) + i] = added[i]
      BY <2>1, <3>0, Concatenated
    <3> QED BY <1>4, <3>0, <3>1 DEF data
  <2>3. ASSUME NEW i \in 1..(nd + n) PROVE t.data[i].bid = DataBid(i)
    <3>1. CASE i <= nd
      <4>1. i \in 1..nd
        BY <1>2, <3>1
      <4> QED BY <1>1, <1>5, <2>2, <4>1 DEF Tidy, nd
    <3>2. CASE i > nd
      <4>1. i - nd \in 1..n /\ i = nd + (i - nd) /\ s.nextData + (i - nd) - 1 = i
        BY <1>2, <1>3, <3>2
      <4> DEFINE k == i - nd
      <4>2. k \in 1..n /\ i = nd + k /\ s.nextData + k - 1 = i
        BY <4>1
      <4> HIDE DEF k
      <4>3. t.data[nd + k] = added[k] /\ added[k].bid = DataBid(s.nextData + k - 1)
        BY <1>4, <1>5, <2>2, <4>2
      <4> QED BY <4>2, <4>3
    <3> QED BY <1>2, <3>1, <3>2
  <2> QED BY <1>5, <2>2, <2>3
<1>7. t.nextData = Len(t.data) + 1
  BY <1>2, <1>3, <1>5, <1>6
<1>8. Tidy(t)
  BY <1>1, <1>5, <1>6, <1>7 DEF Tidy, InternalBids
<1>9. new = {DataBid(i) : i \in (nd + 1)..(nd + n)}
  <2>1. ASSUME NEW i \in 1..n PROVE \E k \in (nd + 1)..(nd + n) : s.nextData + i - 1 = k
    BY <1>2, <1>3
  <2>2. ASSUME NEW k \in (nd + 1)..(nd + n) PROVE \E i \in 1..n : s.nextData + i - 1 = k
    <3>1. k - nd \in 1..n /\ s.nextData + (k - nd) - 1 = k
      BY <1>2, <1>3
    <3> QED BY <3>1
  <2>3. new = {DataBid(s.nextData + i - 1) : i \in 1..n}
    BY DEF n, NextDataBids
  <2> QED BY <2>1, <2>2, <2>3
<1>10. DataBids(s) = {DataBid(i) : i \in 1..nd} /\ DataBids(t) = {DataBid(i) : i \in 1..(nd + n)}
  <2>1. s.nextData - 1 = nd /\ t.nextData - 1 = nd + n
    BY <1>2, <1>3, <1>5
  <2> QED BY <2>1 DEF DataBids
<1>11. 1..(nd + n) = 1..nd \cup (nd + 1)..(nd + n)
  BY <1>2
<1>12. DataBids(t) = DataBids(s) \cup new
  BY <1>9, <1>10, <1>11
<1>13. new \cap Bids(s) = {}
  <2>1. ASSUME NEW k \in (nd + 1)..(nd + n), NEW i \in 1..nd PROVE DataBid(k) # DataBid(i)
    <3>1. k \in Nat /\ i \in Nat /\ k # i
      BY <1>2
    <3> QED BY <3>1, BidsDiffer
  <2>2. ASSUME NEW k \in (nd + 1)..(nd + n), NEW i \in 1..(s.nextInternal - 1)
        PROVE  DataBid(k) # InternalBid(i)
    <3>1. k \in Nat /\ i \in Nat
      BY <1>2, <1>3
    <3> QED BY <3>1, BidsDiffer
  <2> QED BY <1>9, <1>10, <2>1, <2>2 DEF Bids, InternalBids
<1>14. Bids(t) = Bids(s) \cup new
  BY <1>5, <1>12 DEF Bids, InternalBids
<1>15. BlockReferences(t) = BlockReferences(s)
  BY <1>5 DEF BlockReferences
<1>16. Web(t, waiting \cup new)
  BY <1>1, <1>8, <1>13, <1>14, <1>15 DEF Web
<1> QED BY <1>5, <1>13, <1>14, <1>16 DEF n

(***************************************************************************)
(* The counter of internal blocks moves on by the number of new ones.      *)
(***************************************************************************)
LEMMA InternalBidsGrow ==
  ASSUME NEW s, Tidy(s), NEW n \in Nat,
         NEW t, t.nextInternal = s.nextInternal + n, t.nextData = s.nextData
  PROVE  /\ InternalBids(t) = InternalBids(s) \cup NextInternalBids(s, n)
         /\ Bids(t) = Bids(s) \cup NextInternalBids(s, n)
         /\ NextInternalBids(s, n) \cap Bids(s) = {}
<1> DEFINE m == s.nextInternal
<1>1. m \in Nat /\ m > 0 /\ s.nextData \in Nat
  <2>1. /\ Len(s.x) \in Nat /\ Len(s.sl) \in Nat /\ Len(s.data) \in Nat
        /\ m = Len(s.x) + Len(s.sl) + 1 /\ s.nextData = Len(s.data) + 1
    BY Vector DEF Tidy
  <2> DEFINE nx == Len(s.x)
             nl == Len(s.sl)
             nd == Len(s.data)
  <2>2. nx \in Nat /\ nl \in Nat /\ nd \in Nat /\ m = nx + nl + 1 /\ s.nextData = nd + 1
    BY <2>1
  <2> HIDE DEF m, nx, nl, nd
  <2> QED BY <2>2
<1> HIDE DEF m
<1>2. NextInternalBids(s, n) = {InternalBid(k) : k \in m..(m + n - 1)}
  <2>1. ASSUME NEW i \in 1..n PROVE m + i - 1 \in m..(m + n - 1)
    BY <1>1
  <2>2. ASSUME NEW k \in m..(m + n - 1) PROVE k - m + 1 \in 1..n /\ m + (k - m + 1) - 1 = k
    BY <1>1
  <2>3. NextInternalBids(s, n) = {InternalBid(m + i - 1) : i \in 1..n}
    BY DEF NextInternalBids, m
  <2> QED BY <2>1, <2>2, <2>3
<1>3. /\ InternalBids(s) = {InternalBid(k) : k \in 1..(m - 1)}
      /\ InternalBids(t) = {InternalBid(k) : k \in 1..(m + n - 1)}
  <2>1. s.nextInternal - 1 = m - 1 /\ t.nextInternal - 1 = m + n - 1
    BY <1>1 DEF m
  <2> QED BY <2>1 DEF InternalBids
<1>4. 1..(m + n - 1) = 1..(m - 1) \cup m..(m + n - 1)
  BY <1>1
<1>5. InternalBids(t) = InternalBids(s) \cup NextInternalBids(s, n)
  BY <1>2, <1>3, <1>4
<1>6. ASSUME NEW k \in m..(m + n - 1), NEW i \in 1..(m - 1) PROVE InternalBid(k) # InternalBid(i)
  <2>1. k \in Nat /\ i \in Nat /\ k # i
    BY <1>1
  <2> QED BY <2>1, BidsDiffer
<1>7. ASSUME NEW k \in m..(m + n - 1), NEW i \in 1..(s.nextData - 1)
      PROVE  InternalBid(k) # DataBid(i)
  <2>1. k \in Nat /\ i \in Nat
    BY <1>1
  <2> QED BY <2>1, BidsDiffer
<1>8. NextInternalBids(s, n) \cap Bids(s) = {}
  BY <1>2, <1>3, <1>6, <1>7 DEF Bids, DataBids
<1> QED BY <1>5, <1>8 DEF Bids, DataBids

(***************************************************************************)
(* The lists of internal blocks after more of them.                        *)
(***************************************************************************)
LEMMA ListGrows ==
  ASSUME NEW list, IsSeq(list), OwnBids(list), NEW more, IsSeq(more), OwnBids(more),
         BidsIn(list) \cap BidsIn(more) = {}
  PROVE  /\ IsSeq(list \o more) /\ OwnBids(list \o more)
         /\ Len(list \o more) = Len(list) + Len(more)
         /\ DOMAIN (list \o more) = 1..(Len(list) + Len(more))
         /\ \A i \in 1..Len(list) : (list \o more)[i] = list[i]
         /\ \A i \in 1..Len(more) : (list \o more)[Len(list) + i] = more[i]
         /\ BidsIn(list \o more) = BidsIn(list) \cup BidsIn(more)
<1> DEFINE n == Len(list)
           m == Len(more)
           all == list \o more
<1>1. /\ n \in Nat /\ m \in Nat /\ IsSeq(all) /\ Len(all) = n + m
      /\ DOMAIN all = 1..(n + m)
      /\ \A i \in 1..n : all[i] = list[i]
      /\ \A i \in 1..m : all[n + i] = more[i]
  BY Concatenated
<1>2. /\ \A i, j \in 1..n : list[i].bid = list[j].bid => i = j
      /\ \A i, j \in 1..m : more[i].bid = more[j].bid => i = j
      /\ \A i \in 1..n, j \in 1..m : list[i].bid # more[j].bid
  BY DEF OwnBids, BidsIn
<1>3. BidsIn(all) = {all[i].bid : i \in 1..Len(all)}
  BY DEF BidsIn
<1>4. BidsIn(list) = {list[i].bid : i \in 1..n} /\ BidsIn(more) = {more[i].bid : i \in 1..m}
  BY DEF BidsIn
<1>5. OwnBids(all) <=> \A i, j \in 1..Len(all) : all[i].bid = all[j].bid => i = j
  BY DEF OwnBids
<1> HIDE DEF n, m, all
<1>6. ASSUME NEW i \in 1..(n + m), i \notin 1..n PROVE \E k \in 1..m : i = n + k
  <2>1. i - n \in 1..m /\ i = n + (i - n)
    BY <1>1, <1>6
  <2> QED BY <2>1
<1>7. \A k \in 1..n : k \in 1..(n + m)
  BY <1>1
<1>8. \A k \in 1..m : n + k \in 1..(n + m)
  BY <1>1
<1>9. OwnBids(all)
  <2> SUFFICES ASSUME NEW i \in 1..(n + m), NEW j \in 1..(n + m), all[i].bid = all[j].bid
               PROVE  i = j
    BY <1>1, <1>5
  <2>1. CASE i \in 1..n /\ j \in 1..n
    BY <1>1, <1>2, <2>1
  <2>2. CASE i \in 1..n /\ j \notin 1..n
    <3>1. PICK k \in 1..m : j = n + k
      BY <1>6, <2>2
    <3>2. list[i].bid = more[k].bid
      BY <1>1, <2>2, <3>1
    <3> QED BY <1>2, <2>2, <3>2
  <2>3. CASE i \notin 1..n /\ j \in 1..n
    <3>1. PICK k \in 1..m : i = n + k
      BY <1>6, <2>3
    <3>2. list[j].bid = more[k].bid
      BY <1>1, <2>3, <3>1
    <3> QED BY <1>2, <2>3, <3>2
  <2>4. CASE i \notin 1..n /\ j \notin 1..n
    <3>1. PICK k \in 1..m : i = n + k
      BY <1>6, <2>4
    <3>2. PICK h \in 1..m : j = n + h
      BY <1>6, <2>4
    <3>3. more[k].bid = more[h].bid
      BY <1>1, <3>1, <3>2
    <3> QED BY <1>2, <3>1, <3>2, <3>3
  <2> QED BY <2>1, <2>2, <2>3, <2>4
<1>10. BidsIn(all) = BidsIn(list) \cup BidsIn(more)
  <2>1. ASSUME NEW i \in 1..(n + m) PROVE all[i].bid \in BidsIn(list) \cup BidsIn(more)
    <3>1. CASE i \in 1..n
      BY <1>1, <1>4, <3>1
    <3>2. CASE i \notin 1..n
      <4>1. PICK k \in 1..m : i = n + k
        BY <1>6, <3>2
      <4> QED BY <1>1, <1>4, <4>1
    <3> QED BY <3>1, <3>2
  <2>2. ASSUME NEW i \in 1..n PROVE list[i].bid \in BidsIn(all)
    BY <1>1, <1>3, <1>7
  <2>3. ASSUME NEW i \in 1..m PROVE more[i].bid \in BidsIn(all)
    BY <1>1, <1>3, <1>8
  <2>4. BidsIn(all) = {all[i].bid : i \in 1..(n + m)}
    BY <1>1, <1>3
  <2>5. BidsIn(all) \subseteq BidsIn(list) \cup BidsIn(more)
    BY <2>1, <2>4
  <2>6. BidsIn(list) \subseteq BidsIn(all) /\ BidsIn(more) \subseteq BidsIn(all)
    BY <1>4, <2>2, <2>3
  <2> QED BY <2>5, <2>6
<1> QED BY <1>1, <1>9, <1>10 DEF all, n, m

(***************************************************************************)
(* Which BIDs a list of XBLOCKs has as children, and that none is twice.   *)
(***************************************************************************)
ChildrenOf(blocks) ==
  UNION {{blocks[g].children[j] : j \in DOMAIN blocks[g].children} : g \in 1..Len(blocks)}

ChildrenOnce(blocks) ==
  \A g, h \in 1..Len(blocks) :
    \A i \in DOMAIN blocks[g].children, j \in DOMAIN blocks[h].children :
      blocks[g].children[i] = blocks[h].children[j] => g = h /\ i = j

\* The references of those XBLOCKs behind n others.
ChildReferences(blocks, n) ==
  UNION {{<< <<"child", n + g, j>>, blocks[g].children[j]>> : j \in DOMAIN blocks[g].children} :
           g \in 1..Len(blocks)}

WithXBlocks(s, blocks) ==
  [s EXCEPT !.nextInternal = s.nextInternal + Len(blocks), !.x = s.x \o blocks]

\* XBLOCKs under the next internal BIDs over blocks that wait.
NewXBlocks(s, waiting, blocks) ==
  /\ IsSeq(blocks) /\ ChildrenOnce(blocks) /\ ChildrenOf(blocks) \subseteq waiting
  /\ \A g \in 1..Len(blocks) : blocks[g].bid = InternalBid(s.nextInternal + g - 1)

\* They wait in t in their children's stead.
XBlocksWait(s, waiting, blocks, t) ==
  /\ Web(t, (waiting \ ChildrenOf(blocks)) \cup NextInternalBids(s, Len(blocks)))
  /\ NextInternalBids(s, Len(blocks)) \cap Bids(s) = {}
  /\ Bids(t) = Bids(s) \cup NextInternalBids(s, Len(blocks))
  /\ t.nextData = s.nextData /\ t.nextInternal = s.nextInternal + Len(blocks)

(***************************************************************************)
(* New XBLOCKs: their children wait no longer, but they do themselves.     *)
(***************************************************************************)
LEMMA XBlocksAdded ==
  ASSUME NEW s, NEW waiting, Web(s, waiting), NEW blocks, NewXBlocks(s, waiting, blocks)
  PROVE  XBlocksWait(s, waiting, blocks, WithXBlocks(s, blocks))
<1> DEFINE t == WithXBlocks(s, blocks)
<1> t = WithXBlocks(s, blocks)
  OBVIOUS
<1> HIDE DEF t
<1> SUFFICES XBlocksWait(s, waiting, blocks, t)
  BY DEF t
<1> /\ IsSeq(blocks) /\ ChildrenOnce(blocks) /\ ChildrenOf(blocks) \subseteq waiting
    /\ \A g \in 1..Len(blocks) : blocks[g].bid = InternalBid(s.nextInternal + g - 1)
  BY DEF NewXBlocks
<1> DEFINE n == Len(blocks)
           nx == Len(s.x)
           new == NextInternalBids(s, n)
<1>1. Tidy(s) /\ waiting \subseteq Bids(s) /\ Once(BlockReferences(s))
      /\ Targets(BlockReferences(s)) = Bids(s) \ waiting
  BY DEF Web
<1>2. /\ n \in Nat /\ nx \in Nat /\ DOMAIN s.x = 1..nx /\ DOMAIN blocks = 1..n
      /\ Len(s.sl) \in Nat /\ IsSeq(s.x)
  BY <1>1, Vector DEF Tidy
<1>3. /\ t.nextData = s.nextData /\ t.nextInternal = s.nextInternal + n
      /\ t.data = s.data /\ t.sl = s.sl /\ t.x = s.x \o blocks
      /\ DOMAIN t = {"nextData", "nextInternal", "data", "x", "sl"}
  <2>1. DOMAIN s = {"nextData", "nextInternal", "data", "x", "sl"}
    BY <1>1 DEF Tidy
  <2>2. t = [s EXCEPT !.nextInternal = s.nextInternal + n, !.x = s.x \o blocks]
    BY DEF WithXBlocks
  <2> HIDE DEF n
  <2> QED BY <2>1, <2>2
<1>4. /\ InternalBids(t) = InternalBids(s) \cup new
      /\ Bids(t) = Bids(s) \cup new
      /\ new \cap Bids(s) = {}
  <2> HIDE DEF n
  <2> QED BY <1>1, <1>2, <1>3, InternalBidsGrow
<1>5. BidsIn(blocks) = new /\ OwnBids(blocks)
  <2>1. BidsIn(blocks) = new
    BY DEF BidsIn, NextInternalBids
  <2>2. s.nextInternal \in Nat /\ s.nextInternal > 0
    <3> DEFINE nl == Len(s.sl)
    <3>1. s.nextInternal = nx + nl + 1 /\ nl \in Nat
      BY <1>1, <1>2 DEF Tidy
    <3> HIDE DEF nx, nl
    <3> QED BY <1>2, <3>1
  <2>3. ASSUME NEW g \in 1..n, NEW h \in 1..n, blocks[g].bid = blocks[h].bid PROVE g = h
    <3> HIDE DEF n
    <3>1. s.nextInternal + g - 1 \in Nat /\ s.nextInternal + h - 1 \in Nat
      BY <1>2, <2>2
    <3>2. InternalBid(s.nextInternal + g - 1) = InternalBid(s.nextInternal + h - 1)
      BY <2>3 DEF n
    <3>3. s.nextInternal + g - 1 = s.nextInternal + h - 1
      BY <3>1, <3>2, BidsDiffer
    <3> QED BY <1>2, <2>2, <3>3
  <2> QED BY <2>1, <2>3 DEF OwnBids
<1>6. BidsIn(s.x) \cup BidsIn(s.sl) = InternalBids(s) /\ BidsIn(s.x) \cap BidsIn(s.sl) = {}
      /\ OwnBids(s.x) /\ InternalBids(s) \subseteq Bids(s)
  BY <1>1 DEF Tidy, Bids
<1> HIDE DEF n, nx, new
<1>7. /\ IsSeq(t.x) /\ OwnBids(t.x) /\ BidsIn(t.x) = BidsIn(s.x) \cup new
      /\ Len(t.x) = nx + n /\ DOMAIN t.x = 1..(nx + n)
      /\ \A i \in 1..nx : t.x[i] = s.x[i]
      /\ \A i \in 1..n : t.x[nx + i] = blocks[i]
  <2>1. BidsIn(s.x) \cap BidsIn(blocks) = {}
    BY <1>4, <1>5, <1>6
  <2> DEFINE list == s.x
  <2>2. IsSeq(list) /\ OwnBids(list) /\ BidsIn(list) \cap BidsIn(blocks) = {}
    BY <1>2, <1>6, <2>1
  <2>3. nx = Len(list)
    BY DEF nx
  <2> HIDE DEF list
  <2>4. /\ IsSeq(list \o blocks) /\ OwnBids(list \o blocks)
        /\ BidsIn(list \o blocks) = BidsIn(list) \cup BidsIn(blocks)
        /\ Len(list \o blocks) = nx + n /\ DOMAIN (list \o blocks) = 1..(nx + n)
        /\ \A i \in 1..nx : (list \o blocks)[i] = list[i]
        /\ \A i \in 1..n : (list \o blocks)[nx + i] = blocks[i]
    BY <1>5, <2>2, <2>3, ListGrows DEF n
  <2> QED BY <1>3, <1>5, <2>4 DEF list
<1>8. /\ Len(t.x) = nx + n /\ DOMAIN t.x = 1..(nx + n)
      /\ \A i \in 1..nx : t.x[i] = s.x[i]
      /\ \A i \in 1..n : t.x[nx + i] = blocks[i]
  BY <1>7
<1>9. Tidy(t)
  <2>1. BidsIn(t.x) \cup BidsIn(t.sl) = InternalBids(t) /\ BidsIn(t.x) \cap BidsIn(t.sl) = {}
    BY <1>3, <1>4, <1>6, <1>7
  <2>2. t.nextInternal = Len(t.x) + Len(t.sl) + 1
    <3> DEFINE nl == Len(s.sl)
    <3>1. s.nextInternal = nx + nl + 1 /\ nl \in Nat
      BY <1>1, <1>2 DEF Tidy, nx
    <3>2. Len(t.sl) = nl
      BY <1>3
    <3> HIDE DEF nl
    <3> QED BY <1>2, <1>3, <1>8, <3>1, <3>2
  <2> QED BY <1>1, <1>3, <1>7, <2>1, <2>2 DEF Tidy
<1> DEFINE refs == ChildReferences(blocks, nx)
<1>10. BlockReferences(t) = BlockReferences(s) \cup refs
  <2> DEFINE Of(x, i) == {<< <<"child", i, j>>, x[i].children[j]>> : j \in DOMAIN x[i].children}
             Entries(sl) == UNION {{<< <<"entry", i, j>>, sl[i].entries[j].bid>> :
                                     j \in DOMAIN sl[i].entries} : i \in DOMAIN sl}
  <2>1. /\ BlockReferences(s) = (UNION {Of(s.x, i) : i \in 1..nx}) \cup Entries(s.sl)
        /\ BlockReferences(t) = (UNION {Of(t.x, i) : i \in 1..(nx + n)}) \cup Entries(t.sl)
    BY <1>2, <1>8 DEF BlockReferences
  <2>2. Entries(t.sl) = Entries(s.sl)
    BY <1>3
  <2>3. ASSUME NEW i \in 1..nx PROVE Of(t.x, i) = Of(s.x, i)
    <3>1. t.x[i] = s.x[i]
      BY <1>8
    <3> QED BY <3>1
  <2>4. refs = UNION {Of(t.x, nx + g) : g \in 1..n}
    <3> DEFINE Child(g) == {<< <<"child", nx + g, j>>, blocks[g].children[j]>> :
                             j \in DOMAIN blocks[g].children}
    <3>1. ASSUME NEW g \in 1..n PROVE Of(t.x, nx + g) = Child(g)
      <4>1. t.x[nx + g] = blocks[g]
        BY <1>8
      <4> QED BY <4>1
    <3>2. refs = UNION {Child(g) : g \in 1..n}
      BY DEF ChildReferences, n
    <3> HIDE DEF refs, Of, Child
    <3> QED BY <3>1, <3>2
  <2> HIDE DEF Of, Entries, refs
  <2>5. \A i \in 1..(nx + n) : i \in 1..nx \/ \E g \in 1..n : i = nx + g
    <3> SUFFICES ASSUME NEW i \in 1..(nx + n), i \notin 1..nx
                 PROVE  \E g \in 1..n : i = nx + g
      OBVIOUS
    <3>1. i - nx \in 1..n /\ i = nx + (i - nx)
      BY <1>2
    <3> QED BY <3>1
  <2>6. (\A i \in 1..nx : i \in 1..(nx + n)) /\ \A g \in 1..n : nx + g \in 1..(nx + n)
    BY <1>2
  <2>7. UNION {Of(t.x, i) : i \in 1..(nx + n)} = (UNION {Of(s.x, i) : i \in 1..nx}) \cup refs
    BY <2>3, <2>4, <2>5, <2>6
  <2> QED BY <2>1, <2>2, <2>7
<1>11. Once(refs) /\ Targets(refs) = ChildrenOf(blocks)
  <2>1. Targets(refs) = ChildrenOf(blocks)
    <3>1. ASSUME NEW p \in refs PROVE p[2] \in ChildrenOf(blocks)
      BY DEF refs, ChildReferences, ChildrenOf
    <3>2. ASSUME NEW c \in ChildrenOf(blocks) PROVE \E p \in refs : c = p[2]
      <4>1. PICK g \in 1..n : \E j \in DOMAIN blocks[g].children : c = blocks[g].children[j]
        BY DEF ChildrenOf, n
      <4>2. PICK j \in DOMAIN blocks[g].children : c = blocks[g].children[j]
        BY <4>1
      <4>3. << <<"child", nx + g, j>>, blocks[g].children[j]>> \in refs
        BY DEF refs, ChildReferences, n
      <4> QED BY <4>2, <4>3
    <3> QED BY <3>1, <3>2 DEF Targets
  <2>2. ASSUME NEW p \in refs, NEW q \in refs, p[2] = q[2] PROVE p = q
    <3>1. PICK g \in 1..n : \E i \in DOMAIN blocks[g].children :
            p = << <<"child", nx + g, i>>, blocks[g].children[i]>>
      BY DEF refs, ChildReferences, n
    <3>2. PICK h \in 1..n : \E j \in DOMAIN blocks[h].children :
            q = << <<"child", nx + h, j>>, blocks[h].children[j]>>
      BY DEF refs, ChildReferences, n
    <3>3. PICK i \in DOMAIN blocks[g].children :
            p = << <<"child", nx + g, i>>, blocks[g].children[i]>>
      BY <3>1
    <3>4. PICK j \in DOMAIN blocks[h].children :
            q = << <<"child", nx + h, j>>, blocks[h].children[j]>>
      BY <3>2
    <3>5. blocks[g].children[i] = blocks[h].children[j]
      BY <2>2, <3>3, <3>4
    <3>6. g = h /\ i = j
      BY <3>5 DEF ChildrenOnce, n
    <3> QED BY <3>3, <3>4, <3>6
  <2> QED BY <2>1, <2>2 DEF Once
<1> HIDE DEF refs
<1>12. Once(BlockReferences(t))
       /\ Targets(BlockReferences(t)) = (Bids(s) \ waiting) \cup ChildrenOf(blocks)
  <2>1. Targets(BlockReferences(s)) \cap Targets(refs) = {}
    BY <1>1, <1>11
  <2>2. /\ Once(BlockReferences(s) \cup refs)
        /\ Targets(BlockReferences(s) \cup refs) = Targets(BlockReferences(s)) \cup Targets(refs)
    BY <1>1, <1>11, <2>1, OnceMore
  <2> QED BY <1>1, <1>10, <1>11, <2>2
<1>13. (Bids(s) \ waiting) \cup ChildrenOf(blocks)
         = Bids(t) \ ((waiting \ ChildrenOf(blocks)) \cup new)
  BY <1>1, <1>4
<1>14. Web(t, (waiting \ ChildrenOf(blocks)) \cup new)
  BY <1>1, <1>4, <1>9, <1>12, <1>13 DEF Web
<1> QED BY <1>3, <1>4, <1>14 DEF new, n, XBlocksWait

(***************************************************************************)
(* Sorting by NID exchanges the entries and loses none: their places are   *)
(* the numbers from 1 to their count.                                      *)
(***************************************************************************)
LEMMA Sorted ==
  ASSUME NEW entries, IsSeq(entries), \A i \in 1..Len(entries) : entries[i].nid \in Nat
  PROVE  /\ IsSeq(SortedByNid(entries)) /\ Len(SortedByNid(entries)) = Len(entries)
         /\ \E p \in [1..Len(entries) -> 1..Len(entries)] :
              /\ \A k \in 1..Len(entries) : SortedByNid(entries)[k] = entries[p[k]]
              /\ \A k, h \in 1..Len(entries) : p[k] = p[h] => k = h
              /\ \A i \in 1..Len(entries) : \E k \in 1..Len(entries) : p[k] = i
<1> DEFINE n == Len(entries)
           Below(i) == {j \in 1..n : \/ entries[j].nid < entries[i].nid
                                     \/ entries[j].nid = entries[i].nid /\ j <= i}
<1>1. n \in Nat /\ DOMAIN entries = 1..n
  BY Vector
<1>2. \A i \in 1..n : entries[i].nid \in Nat
  OBVIOUS
<1>3. \A i : PlaceOf(entries, i) = Cardinality(Below(i))
  BY <1>1 DEF PlaceOf
<1>4. SortedByNid(entries)
        = [k \in 1..n |-> entries[CHOOSE i \in 1..n : PlaceOf(entries, i) = k]]
  BY <1>1 DEF SortedByNid
<1> HIDE DEF n
<1>5. IsFiniteSet(1..n) /\ Cardinality(1..n) = n
  BY <1>1, FS_Interval
<1>6. ASSUME NEW i \in 1..n
      PROVE  IsFiniteSet(Below(i)) /\ i \in Below(i) /\ Cardinality(Below(i)) \in 1..n
  <2>1. Below(i) \in SUBSET (1..n) /\ i \in Below(i)
    BY <1>1, <1>2
  <2> HIDE DEF Below
  <2>2. IsFiniteSet(Below(i)) /\ Cardinality(Below(i)) <= n
    BY <1>5, <2>1, FS_Subset
  <2>3. Cardinality(Below(i)) \in Nat /\ Cardinality(Below(i)) # 0
    BY <2>1, <2>2, FS_CardinalityType, FS_EmptySet
  <2> QED BY <1>1, <2>1, <2>2, <2>3
<1>7. ASSUME NEW i \in 1..n, NEW j \in 1..n, i # j
      PROVE  Cardinality(Below(i)) # Cardinality(Below(j))
  <2>1. ASSUME NEW a \in 1..n, NEW b \in 1..n, a # b, entries[a].nid <= entries[b].nid,
               entries[a].nid = entries[b].nid => a < b
        PROVE  Cardinality(Below(a)) # Cardinality(Below(b))
    <3>1. Below(a) \subseteq Below(b)
      BY <1>1, <1>2, <2>1
    <3>2. b \notin Below(a)
      BY <1>1, <1>2, <2>1
    <3>3. Below(a) # Below(b)
      BY <1>6, <3>2
    <3> HIDE DEF Below
    <3>4. Below(a) \in SUBSET Below(b)
      BY <3>1
    <3> QED BY <1>6, <3>3, <3>4, FS_Subset
  <2> DEFINE Before(a, b) == \/ entries[a].nid < entries[b].nid
                             \/ entries[a].nid = entries[b].nid /\ a < b
  <2>2. Before(i, j) \/ Before(j, i)
    BY <1>1, <1>2, <1>7
  <2>3. CASE Before(i, j)
    <3>1. entries[i].nid <= entries[j].nid /\ (entries[i].nid = entries[j].nid => i < j)
      BY <1>1, <1>2, <2>3
    <3> HIDE DEF Below
    <3> QED BY <1>7, <2>1, <3>1
  <2>4. CASE Before(j, i)
    <3>1. entries[j].nid <= entries[i].nid /\ (entries[j].nid = entries[i].nid => j < i)
      BY <1>1, <1>2, <2>4
    <3> HIDE DEF Below
    <3> QED BY <1>7, <2>1, <3>1
  <2> HIDE DEF Below, Before
  <2> QED BY <2>2, <2>3, <2>4
<1> DEFINE place == [i \in 1..n |-> Cardinality(Below(i))]
<1>8. place \in Injection(1..n, 1..n)
  <2> HIDE DEF Below
  <2>1. place \in [1..n -> 1..n]
    BY <1>6
  <2>2. \A i, j \in 1..n : place[i] = place[j] => i = j
    BY <1>7
  <2> HIDE DEF place
  <2> QED BY <2>1, <2>2 DEF Injection, IsInjective
<1>9. \A k \in 1..n : \E i \in 1..n : place[i] = k
  <2> HIDE DEF place
  <2>1. place \in Surjection(1..n, 1..n)
    BY <1>5, <1>8, FS_Injection
  <2> QED BY <2>1 DEF Surjection
<1> DEFINE p == [k \in 1..n |-> CHOOSE i \in 1..n : PlaceOf(entries, i) = k]
<1>10. \A i \in 1..n : PlaceOf(entries, i) = place[i]
  <2> HIDE DEF Below
  <2> QED BY <1>3
<1>11. \A k \in 1..n : p[k] \in 1..n /\ place[p[k]] = k
  <2> HIDE DEF place
  <2> SUFFICES ASSUME NEW k \in 1..n PROVE p[k] \in 1..n /\ place[p[k]] = k
    OBVIOUS
  <2>1. \E i \in 1..n : PlaceOf(entries, i) = k
    BY <1>9, <1>10
  <2>2. p[k] \in 1..n /\ PlaceOf(entries, p[k]) = k
    BY <2>1
  <2> HIDE DEF p
  <2> QED BY <1>10, <2>2
<1>12. \A k \in 1..n : SortedByNid(entries)[k] = entries[p[k]]
  BY <1>4
<1>13. IsSeq(SortedByNid(entries)) /\ Len(SortedByNid(entries)) = n
  <2> DEFINE f == SortedByNid(entries)
  <2>1. f = [k \in 1..n |-> f[k]]
    BY <1>4
  <2> HIDE DEF f
  <2> QED BY <1>1, <2>1, FunctionIsVector DEF f
<1>14. p \in [1..n -> 1..n]
  BY <1>11
<1> HIDE DEF p
<1>15. \A k, h \in 1..n : p[k] = p[h] => k = h
  <2> HIDE DEF place
  <2> QED BY <1>11
<1>16. \A i \in 1..n : \E k \in 1..n : p[k] = i
  <2> SUFFICES ASSUME NEW i \in 1..n PROVE \E k \in 1..n : p[k] = i
    OBVIOUS
  <2>1. place[i] \in 1..n /\ \A a, b \in 1..n : place[a] = place[b] => a = b
    <3> HIDE DEF place
    <3> QED BY <1>8 DEF Injection, IsInjective
  <2> HIDE DEF place
  <2>2. place[p[place[i]]] = place[i] /\ p[place[i]] \in 1..n
    BY <1>11, <2>1
  <2>3. p[place[i]] = i
    BY <2>1, <2>2
  <2> QED BY <2>1, <2>3
<1> QED BY <1>12, <1>13, <1>14, <1>15, <1>16 DEF n

(***************************************************************************)
(* push_back is a concatenation.                                           *)
(***************************************************************************)
LEMMA AppendIsConcatenation ==
  ASSUME NEW s, IsSeq(s), NEW e
  PROVE  Append(s, e) = s \o <<e>> /\ IsSeq(<<e>>) /\ Len(<<e>>) = 1 /\ <<e>>[1] = e
<1>1. PICK S : s \in Seq(S)
  BY DEF IsSeq
<1>2. s \in Seq(S \cup {e}) /\ <<e>> \in Seq(S \cup {e})
  BY <1>1
<1>3. Append(s, e) = s \o <<e>> /\ Len(<<e>>) = 1 /\ <<e>>[1] = e
  BY <1>2
<1> QED BY <1>2, <1>3 DEF IsSeq

\* The entries of a subnode list: each has a NID and a block of its own.
SubnodeEntries(entries) ==
  /\ IsSeq(entries) /\ OwnBids(entries)
  /\ \A i \in 1..Len(entries) : entries[i].nid \in Nat

(***************************************************************************)
(* A new SLBLOCK: its entries' payloads wait no longer, but it does.       *)
(***************************************************************************)
LEMMA SlBlockAdded ==
  ASSUME NEW s, NEW waiting, Web(s, waiting),
         NEW entries, SubnodeEntries(entries), BidsIn(entries) \subseteq waiting,
         NEW t, t = AddSlBlock(s, entries)
  PROVE  /\ Web(t, (waiting \ BidsIn(entries)) \cup {InternalBid(s.nextInternal)})
         /\ InternalBid(s.nextInternal) \notin Bids(s)
         /\ Bids(t) = Bids(s) \cup {InternalBid(s.nextInternal)}
         /\ t.nextData = s.nextData /\ t.nextInternal = s.nextInternal + 1
<1> DEFINE n == Len(entries)
           nl == Len(s.sl)
           new == InternalBid(s.nextInternal)
           sorted == SortedByNid(entries)
           block == [bid |-> InternalBid(s.nextInternal), entries |-> sorted]
<1>0. /\ IsSeq(entries) /\ OwnBids(entries)
      /\ \A i \in 1..Len(entries) : entries[i].nid \in Nat
  BY DEF SubnodeEntries
<1>1. Tidy(s) /\ waiting \subseteq Bids(s) /\ Once(BlockReferences(s))
      /\ Targets(BlockReferences(s)) = Bids(s) \ waiting
  BY DEF Web
<1>2. /\ nl \in Nat /\ DOMAIN s.sl = 1..nl /\ n \in Nat
      /\ Len(s.x) \in Nat /\ IsSeq(s.sl)
  BY <1>1, Vector DEF Tidy
<1>3. /\ t.nextData = s.nextData /\ t.nextInternal = s.nextInternal + 1
      /\ t.data = s.data /\ t.x = s.x /\ t.sl = Append(s.sl, block)
      /\ DOMAIN t = {"nextData", "nextInternal", "data", "x", "sl"}
  <2>1. DOMAIN s = {"nextData", "nextInternal", "data", "x", "sl"}
    BY <1>1 DEF Tidy
  <2>2. t = [s EXCEPT !.nextInternal = s.nextInternal + 1, !.sl = Append(s.sl, block)]
    BY DEF AddSlBlock
  <2> HIDE DEF block
  <2> QED BY <2>1, <2>2
<1>4. DOMAIN sorted = 1..n /\ Len(sorted) = n
      /\ \E p \in [1..n -> 1..n] :
           /\ \A k \in 1..n : sorted[k] = entries[p[k]]
           /\ \A k, h \in 1..n : p[k] = p[h] => k = h
           /\ \A i \in 1..n : \E k \in 1..n : p[k] = i
  <2>1. IsSeq(sorted) /\ Len(sorted) = n
    BY <1>0, Sorted
  <2> HIDE DEF sorted
  <2>2. DOMAIN sorted = 1..n
    BY <2>1, Vector
  <2> QED BY <1>0, <2>1, <2>2, Sorted DEF sorted
<1>5. block.bid = new /\ block.entries = sorted
  OBVIOUS
<1>6. /\ InternalBids(t) = InternalBids(s) \cup {new}
      /\ Bids(t) = Bids(s) \cup {new}
      /\ new \notin Bids(s)
  <2>1. NextInternalBids(s, 1) = {InternalBid(s.nextInternal + g - 1) : g \in 1..1}
    BY DEF NextInternalBids
  <2>2. s.nextInternal \in Nat
    <3> DEFINE nx == Len(s.x)
    <3>1. s.nextInternal = nx + nl + 1 /\ nx \in Nat
      BY <1>1, <1>2 DEF Tidy
    <3> HIDE DEF nx, nl
    <3> QED BY <1>2, <3>1
  <2>3. NextInternalBids(s, 1) = {new}
    <3>1. s.nextInternal + 1 - 1 = s.nextInternal /\ 1..1 = {1}
      BY <2>2
    <3> QED BY <2>1, <3>1
  <2>4. /\ InternalBids(t) = InternalBids(s) \cup NextInternalBids(s, 1)
        /\ Bids(t) = Bids(s) \cup NextInternalBids(s, 1)
        /\ NextInternalBids(s, 1) \cap Bids(s) = {}
    BY <1>1, <1>3, InternalBidsGrow
  <2> QED BY <2>3, <2>4
<1>7. BidsIn(s.x) \cup BidsIn(s.sl) = InternalBids(s) /\ BidsIn(s.x) \cap BidsIn(s.sl) = {}
      /\ OwnBids(s.sl) /\ InternalBids(s) \subseteq Bids(s)
  BY <1>1 DEF Tidy, Bids
<1> HIDE DEF n, nl, new, sorted, block
<1>8. /\ IsSeq(t.sl) /\ OwnBids(t.sl) /\ BidsIn(t.sl) = BidsIn(s.sl) \cup {new}
      /\ Len(t.sl) = nl + 1 /\ DOMAIN t.sl = 1..(nl + 1)
      /\ \A i \in 1..nl : t.sl[i] = s.sl[i]
      /\ t.sl[nl + 1] = block
  <2> DEFINE list == s.sl
             one == <<block>>
  <2>1. IsSeq(one) /\ Len(one) = 1 /\ one[1] = block /\ Append(list, block) = list \o one
    BY <1>2, AppendIsConcatenation
  <2>2. IsSeq(list) /\ OwnBids(list) /\ nl = Len(list)
    BY <1>2, <1>7 DEF nl
  <2> HIDE DEF one
  <2>3. OwnBids(one) /\ BidsIn(one) = {new}
    BY <1>5, <2>1 DEF OwnBids, BidsIn
  <2>4. BidsIn(list) \cap BidsIn(one) = {}
    BY <1>6, <1>7, <2>3
  <2>5. t.sl = list \o one
    BY <1>3, <2>1
  <2> HIDE DEF list
  <2>6. /\ IsSeq(list \o one) /\ OwnBids(list \o one)
        /\ BidsIn(list \o one) = BidsIn(list) \cup BidsIn(one)
        /\ Len(list \o one) = nl + 1 /\ DOMAIN (list \o one) = 1..(nl + 1)
        /\ \A i \in 1..nl : (list \o one)[i] = list[i]
        /\ (list \o one)[nl + 1] = one[1]
    BY <2>1, <2>2, <2>3, <2>4, ListGrows
  <2> QED BY <2>1, <2>3, <2>5, <2>6 DEF list
<1>9. Tidy(t)
  <2>1. BidsIn(t.x) \cup BidsIn(t.sl) = InternalBids(t) /\ BidsIn(t.x) \cap BidsIn(t.sl) = {}
    BY <1>3, <1>6, <1>7, <1>8
  <2>2. t.nextInternal = Len(t.x) + Len(t.sl) + 1
    <3> DEFINE nx == Len(s.x)
    <3>1. s.nextInternal = nx + nl + 1 /\ nx \in Nat
      BY <1>1, <1>2 DEF Tidy, nl
    <3>2. Len(t.x) = nx /\ Len(t.sl) = nl + 1 /\ t.nextInternal = s.nextInternal + 1
      BY <1>3, <1>8
    <3> HIDE DEF nx
    <3> QED BY <1>2, <3>1, <3>2
  <2> QED BY <1>1, <1>3, <1>8, <2>1, <2>2 DEF Tidy
<1> DEFINE refs == {<< <<"entry", nl + 1, j>>, sorted[j].bid>> : j \in 1..n}
<1>10. BlockReferences(t) = BlockReferences(s) \cup refs
  <2> DEFINE Of(sl, i) == {<< <<"entry", i, j>>, sl[i].entries[j].bid>> :
                             j \in DOMAIN sl[i].entries}
             Children(x) == UNION {{<< <<"child", i, j>>, x[i].children[j]>> :
                                     j \in DOMAIN x[i].children} : i \in DOMAIN x}
  <2>1. /\ BlockReferences(s) = Children(s.x) \cup (UNION {Of(s.sl, i) : i \in 1..nl})
        /\ BlockReferences(t) = Children(t.x) \cup (UNION {Of(t.sl, i) : i \in 1..(nl + 1)})
    BY <1>2, <1>8 DEF BlockReferences
  <2>2. Children(t.x) = Children(s.x)
    BY <1>3
  <2>3. ASSUME NEW i \in 1..nl PROVE Of(t.sl, i) = Of(s.sl, i)
    <3>1. t.sl[i] = s.sl[i]
      BY <1>8
    <3> QED BY <3>1
  <2>4. Of(t.sl, nl + 1) = refs
    <3>1. t.sl[nl + 1].entries = sorted
      BY <1>5, <1>8
    <3> QED BY <1>4, <3>1, SMTT(30)
  <2> HIDE DEF Of, Children, refs
  <2>5. 1..(nl + 1) = 1..nl \cup {nl + 1}
    BY <1>2
  <2>6. UNION {Of(t.sl, i) : i \in 1..(nl + 1)} = (UNION {Of(s.sl, i) : i \in 1..nl}) \cup refs
    BY <2>3, <2>4, <2>5
  <2> QED BY <2>1, <2>2, <2>6
<1>11. Once(refs) /\ Targets(refs) = BidsIn(entries)
  <2>1. PICK p \in [1..n -> 1..n] :
          /\ \A k \in 1..n : sorted[k] = entries[p[k]]
          /\ \A k, h \in 1..n : p[k] = p[h] => k = h
          /\ \A i \in 1..n : \E k \in 1..n : p[k] = i
    BY <1>4
  <2>2. BidsIn(entries) = {entries[i].bid : i \in 1..n}
        /\ \A i, j \in 1..n : entries[i].bid = entries[j].bid => i = j
    BY <1>0 DEF BidsIn, OwnBids, n
  <2>3. Targets(refs) = {sorted[j].bid : j \in 1..n}
    <3>1. ASSUME NEW a \in refs PROVE \E j \in 1..n : a[2] = sorted[j].bid
      OBVIOUS
    <3>2. ASSUME NEW j \in 1..n PROVE \E a \in refs : sorted[j].bid = a[2]
      <4>1. << <<"entry", nl + 1, j>>, sorted[j].bid>> \in refs
        OBVIOUS
      <4> QED BY <4>1
    <3> QED BY <3>1, <3>2, SMTT(30) DEF Targets
  <2>4. Targets(refs) = BidsIn(entries)
    <3>1. \A k \in 1..n : sorted[k].bid \in BidsIn(entries)
      BY <2>1, <2>2
    <3>2. \A i \in 1..n : entries[i].bid \in {sorted[j].bid : j \in 1..n}
      BY <2>1
    <3> QED BY <2>2, <2>3, <3>1, <3>2, SMTT(30)
  <2>5. ASSUME NEW k \in 1..n, NEW h \in 1..n, sorted[k].bid = sorted[h].bid PROVE k = h
    <3>1. p[k] \in 1..n /\ p[h] \in 1..n
      BY <2>1
    <3>2. entries[p[k]].bid = entries[p[h]].bid
      BY <2>1, <2>5
    <3>3. p[k] = p[h]
      BY <2>2, <3>1, <3>2
    <3> QED BY <2>1, <3>3
  <2>6. ASSUME NEW a \in refs, NEW b \in refs, a[2] = b[2] PROVE a = b
    <3>1. PICK k \in 1..n : a = << <<"entry", nl + 1, k>>, sorted[k].bid>>
      OBVIOUS
    <3>2. PICK h \in 1..n : b = << <<"entry", nl + 1, h>>, sorted[h].bid>>
      OBVIOUS
    <3>3. sorted[k].bid = sorted[h].bid
      BY <2>6, <3>1, <3>2
    <3> QED BY <2>5, <3>1, <3>2, <3>3
  <2> QED BY <2>4, <2>6 DEF Once
<1> HIDE DEF refs
<1>12. Once(BlockReferences(t))
       /\ Targets(BlockReferences(t)) = (Bids(s) \ waiting) \cup BidsIn(entries)
  <2>1. Targets(BlockReferences(s)) \cap Targets(refs) = {}
    BY <1>1, <1>11
  <2>2. /\ Once(BlockReferences(s) \cup refs)
        /\ Targets(BlockReferences(s) \cup refs) = Targets(BlockReferences(s)) \cup Targets(refs)
    BY <1>1, <1>11, <2>1, OnceMore
  <2> QED BY <1>1, <1>10, <1>11, <2>2
<1>13. (Bids(s) \ waiting) \cup BidsIn(entries)
         = Bids(t) \ ((waiting \ BidsIn(entries)) \cup {new})
  BY <1>1, <1>6
<1>14. Web(t, (waiting \ BidsIn(entries)) \cup {new})
  BY <1>1, <1>6, <1>9, <1>12, <1>13 DEF Web
<1> QED BY <1>3, <1>6, <1>14 DEF new

(***************************************************************************)
(* Division of natural numbers by a positive one.                          *)
(***************************************************************************)
LEMMA QuotientAndRest ==
  ASSUME NEW n \in Nat, NEW a \in Nat \ {0}
  PROVE  /\ n \div a \in Nat /\ n % a \in 0..(a - 1)
         /\ n = a * (n \div a) + (n % a)
OBVIOUS

(***************************************************************************)
(* The number of groups of b that hold a.                                  *)
(***************************************************************************)
LEMMA CeilDivFacts ==
  ASSUME NEW a \in Nat, NEW b \in Nat \ {0}
  PROVE  CeilDiv(a, b) \in Nat /\ a <= CeilDiv(a, b) * b
<1> DEFINE q == (a + b - 1) \div b
           r == (a + b - 1) % b
<1>1. q \in Nat /\ r \in 0..(b - 1) /\ a + b - 1 = b * q + r
  <2>1. a + b - 1 \in Nat
    OBVIOUS
  <2> QED BY <2>1
<1>2. CeilDiv(a, b) = q
  BY DEF CeilDiv
<1> HIDE DEF q, r
<1>3. b * q = q * b /\ b * q \in Nat
  BY <1>1
<1> QED BY <1>1, <1>2, <1>3

(***************************************************************************)
(* A place in a vector and its place in a group determine each other.      *)
(***************************************************************************)
LEMMA PlaceInGroup ==
  ASSUME NEW k \in Nat \ {0}, NEW g \in Nat, NEW h \in Nat, NEW i \in 1..k, NEW j \in 1..k,
         g * k + i = h * k + j
  PROVE  g = h /\ i = j
<1>1. ASSUME NEW a \in Nat, NEW b \in Nat, a < b PROVE a * k + k <= b * k
  <2>1. PICK d \in Nat : b = a + 1 + d
    <3>1. b - a - 1 \in Nat /\ b = a + 1 + (b - a - 1)
      BY <1>1
    <3> QED BY <3>1
  <2>2. b * k = a * k + k + d * k /\ d * k \in Nat
    BY <2>1
  <2>3. a * k \in Nat
    OBVIOUS
  <2> QED BY <2>2, <2>3
<1> DEFINE gk == g * k
           hk == h * k
<1>2. gk \in Nat /\ hk \in Nat /\ gk + i = hk + j
  OBVIOUS
<1>3. (g < h => gk + k <= hk) /\ (h < g => hk + k <= gk) /\ (g = h => gk = hk)
  BY <1>1
<1> HIDE DEF gk, hk
<1>4. ~(g < h) /\ ~(h < g)
  BY <1>2, <1>3
<1>5. g = h
  BY <1>4
<1> QED BY <1>2, <1>3, <1>5

(***************************************************************************)
(* The part of a vector that one XBLOCK takes.                             *)
(***************************************************************************)
LEMMA GroupFacts ==
  ASSUME NEW seq, IsSeq(seq), NEW off \in Nat
  PROVE  /\ DOMAIN Group(seq, off)
              = {i \in 1..MaxXBlockChildren : off + i \in 1..Len(seq)}
         /\ \A i \in DOMAIN Group(seq, off) : Group(seq, off)[i] = seq[off + i]
<1> DEFINE k == MaxXBlockChildren
           n == Len(seq)
           last == AtMost(off + k, n)
<1>1. PICK S : seq \in Seq(S)
  BY DEF IsSeq
<1>2. k \in Nat \ {0} /\ n \in Nat
  BY <1>1, BlockSchedulerAssumption
<1>3. Group(seq, off) = [i \in 1..(last - (off + 1) + 1) |-> seq[(off + 1) + i - 1]]
  <2>1. last \in Nat
    <3> HIDE DEF k, n
    <3> QED BY <1>2 DEF AtMost
  <2> HIDE DEF last
  <2>2. SubSeq(seq, off + 1, last) = [i \in 1..(last - (off + 1) + 1) |-> seq[(off + 1) + i - 1]]
    BY <1>1, <2>1
  <2> QED BY <2>2 DEF Group, last, k, n
<1> HIDE DEF n, k
<1>4. 1..(last - (off + 1) + 1) = {i \in 1..k : off + i \in 1..n}
  BY <1>2 DEF AtMost
<1>5. \A i \in 1..k : (off + 1) + i - 1 = off + i
  BY <1>2
<1> HIDE DEF last
<1>6. DOMAIN Group(seq, off) = {i \in 1..k : off + i \in 1..n}
  BY <1>3, <1>4
<1>7. ASSUME NEW i \in {j \in 1..k : off + j \in 1..n} PROVE Group(seq, off)[i] = seq[off + i]
  <2>1. Group(seq, off)[i] = seq[(off + 1) + i - 1]
    BY <1>3, <1>4
  <2> QED BY <1>5, <2>1
<1> QED BY <1>6, <1>7 DEF k, n

(***************************************************************************)
(* The XBLOCKs over a list of blocks take each of these once.              *)
(***************************************************************************)
LEMMA GroupsAdded ==
  ASSUME NEW s, NEW waiting, Web(s, waiting), NEW bids, IsSeq(bids), NEW sizes,
         IsInjective(bids), ToSet(bids) \subseteq waiting,
         NEW n, n = CeilDiv(Len(bids), MaxXBlockChildren),
         NEW t, t = AddXBlocks(s, bids, sizes)
  PROVE  /\ Web(t, (waiting \ ToSet(bids)) \cup NextInternalBids(s, n))
         /\ NextInternalBids(s, n) \cap Bids(s) = {}
         /\ Bids(t) = Bids(s) \cup NextInternalBids(s, n)
         /\ t.nextData = s.nextData /\ t.nextInternal = s.nextInternal + n
         /\ n \in Nat
<1> DEFINE k == MaxXBlockChildren
           len == Len(bids)
           old == ToSet(bids)
           block(g) == [bid |-> InternalBid(s.nextInternal + g - 1), level |-> 1,
                        children |-> Group(bids, (g - 1) * k),
                        lcb |-> SumOf(Group(sizes, (g - 1) * k))]
           blocks == [g \in 1..n |-> block(g)]
<1>1. k \in Nat \ {0} /\ len \in Nat /\ n \in Nat /\ len <= n * k
  <2>1. k \in Nat \ {0} /\ len \in Nat
    BY Vector, BlockSchedulerAssumption
  <2> QED BY <2>1, CeilDivFacts
<1>2. t = [s EXCEPT !.nextInternal = s.nextInternal + n, !.x = s.x \o blocks]
  BY DEF AddXBlocks
<1>3. IsSeq(blocks) /\ Len(blocks) = n
  <2> HIDE DEF block
  <2> QED BY <1>1, FunctionIsVector
<1>14. t = WithXBlocks(s, blocks)
  BY <1>2, <1>3 DEF WithXBlocks
<1>4. ASSUME NEW g \in 1..n
      PROVE  /\ blocks[g].bid = InternalBid(s.nextInternal + g - 1)
             /\ blocks[g].children = Group(bids, (g - 1) * k)
  OBVIOUS
<1> HIDE DEF block, blocks, k, len, old
<1>5. ASSUME NEW g \in 1..n
      PROVE  /\ DOMAIN blocks[g].children = {i \in 1..k : (g - 1) * k + i \in 1..len}
             /\ \A i \in DOMAIN blocks[g].children : blocks[g].children[i] = bids[(g - 1) * k + i]
  <2>1. (g - 1) * k \in Nat
    BY <1>1
  <2>2. /\ DOMAIN Group(bids, (g - 1) * k) = {i \in 1..k : (g - 1) * k + i \in 1..len}
        /\ \A i \in DOMAIN Group(bids, (g - 1) * k) :
             Group(bids, (g - 1) * k)[i] = bids[(g - 1) * k + i]
    BY <2>1, GroupFacts DEF k, len
  <2> QED BY <1>4, <2>2
<1>6. \A i, j \in 1..len : bids[i] = bids[j] => i = j
  BY Vector DEF IsInjective, len
<1>7. old = {bids[i] : i \in 1..len}
  BY Vector DEF ToSet, len, old
<1>8. ASSUME NEW g \in 1..n, NEW h \in 1..n,
             NEW i \in DOMAIN blocks[g].children, NEW j \in DOMAIN blocks[h].children,
             blocks[g].children[i] = blocks[h].children[j]
      PROVE  g = h /\ i = j
  <2>1. /\ i \in 1..k /\ (g - 1) * k + i \in 1..len
        /\ j \in 1..k /\ (h - 1) * k + j \in 1..len
    BY <1>5
  <2>2. bids[(g - 1) * k + i] = bids[(h - 1) * k + j]
    BY <1>5, <1>8
  <2>3. (g - 1) * k + i = (h - 1) * k + j
    BY <1>6, <2>1, <2>2
  <2>4. g - 1 \in Nat /\ h - 1 \in Nat
    BY <1>1
  <2>5. g - 1 = h - 1 /\ i = j
    <3>1. k \in Nat \ {0}
      BY <1>1
    <3> DEFINE a == g - 1
               b == h - 1
    <3>2. a \in Nat /\ b \in Nat /\ i \in 1..k /\ j \in 1..k /\ a * k + i = b * k + j
      BY <2>1, <2>3, <2>4
    <3> HIDE DEF a, b
    <3>3. a = b /\ i = j
      BY <3>1, <3>2, PlaceInGroup
    <3> QED BY <3>3 DEF a, b
  <2> QED BY <1>1, <2>5
<1>9. ChildrenOnce(blocks)
  BY <1>3, <1>8 DEF ChildrenOnce
<1>10. ChildrenOf(blocks) = old
  <2>1. ASSUME NEW g \in 1..n, NEW j \in DOMAIN blocks[g].children
        PROVE  blocks[g].children[j] \in old
    <3>1. (g - 1) * k + j \in 1..len /\ blocks[g].children[j] = bids[(g - 1) * k + j]
      BY <1>5
    <3> QED BY <1>7, <3>1
  <2>2. ASSUME NEW i \in 1..len
        PROVE  \E g \in 1..n : \E j \in DOMAIN blocks[g].children : bids[i] = blocks[g].children[j]
    <3> DEFINE q == (i - 1) \div k
               r == (i - 1) % k
    <3>1. q \in Nat /\ r \in 0..(k - 1) /\ i - 1 = k * q + r
      <4>1. i - 1 \in Nat
        BY <1>1
      <4> QED BY <1>1, <4>1, QuotientAndRest
    <3> HIDE DEF q, r
    <3>2. k * q = q * k /\ i = q * k + (r + 1) /\ r + 1 \in 1..k /\ (q + 1) - 1 = q
      BY <1>1, <3>1
    <3>3. q + 1 \in 1..n
      <4> SUFFICES ASSUME n <= q PROVE FALSE
        BY <1>1, <3>1
      <4>1. PICK d \in Nat : q = n + d
        <5>1. q - n \in Nat /\ q = n + (q - n)
          BY <1>1, <3>1
        <5> QED BY <5>1
      <4>2. q * k = n * k + d * k /\ n * k \in Nat /\ d * k \in Nat
        BY <1>1, <4>1
      <4> QED BY <1>1, <3>2, <4>2
    <3>4. r + 1 \in DOMAIN blocks[q + 1].children
          /\ blocks[q + 1].children[r + 1] = bids[i]
      BY <1>5, <3>2, <3>3
    <3> QED BY <3>3, <3>4
  <2>3. ChildrenOf(blocks) \subseteq old
    BY <1>3, <2>1 DEF ChildrenOf
  <2>4. old \subseteq ChildrenOf(blocks)
    <3>1. ASSUME NEW i \in 1..len PROVE bids[i] \in ChildrenOf(blocks)
      <4>1. PICK g \in 1..n : \E j \in DOMAIN blocks[g].children : bids[i] = blocks[g].children[j]
        BY <2>2
      <4>2. PICK j \in DOMAIN blocks[g].children : bids[i] = blocks[g].children[j]
        BY <4>1
      <4> QED BY <1>3, <4>2 DEF ChildrenOf
    <3> QED BY <1>7, <3>1
  <2> QED BY <2>3, <2>4
<1>11. \A g \in 1..Len(blocks) : blocks[g].bid = InternalBid(s.nextInternal + g - 1)
  BY <1>3, <1>4
<1>13. ChildrenOf(blocks) \subseteq waiting
  BY <1>10 DEF old
<1>15. /\ Web(t, (waiting \ ChildrenOf(blocks)) \cup NextInternalBids(s, Len(blocks)))
       /\ NextInternalBids(s, Len(blocks)) \cap Bids(s) = {}
       /\ Bids(t) = Bids(s) \cup NextInternalBids(s, Len(blocks))
       /\ t.nextData = s.nextData /\ t.nextInternal = s.nextInternal + Len(blocks)
  <2>1. NewXBlocks(s, waiting, blocks)
    BY <1>3, <1>9, <1>11, <1>13 DEF NewXBlocks
  <2>2. XBlocksWait(s, waiting, blocks, WithXBlocks(s, blocks))
    BY <2>1, XBlocksAdded
  <2> QED BY <1>14, <2>2 DEF XBlocksWait
<1> QED BY <1>1, <1>3, <1>10, <1>15 DEF old

(***************************************************************************)
(* One BID after the others is that of the counter.                        *)
(***************************************************************************)
LEMMA NextInternalBid ==
  ASSUME NEW s, Tidy(s)
  PROVE  NextInternalBids(s, 1) = {InternalBid(s.nextInternal)} /\ s.nextInternal \in Nat \ {0}
<1>1. s.nextInternal \in Nat \ {0}
  <2> DEFINE nx == Len(s.x)
             nl == Len(s.sl)
  <2>1. nx \in Nat /\ nl \in Nat /\ s.nextInternal = nx + nl + 1
    BY Vector DEF Tidy
  <2> HIDE DEF nx, nl
  <2> QED BY <2>1
<1>2. s.nextInternal + 1 - 1 = s.nextInternal /\ 1..1 = {1}
  BY <1>1
<1>3. NextInternalBids(s, 1) = {InternalBid(s.nextInternal + g - 1) : g \in 1..1}
  BY DEF NextInternalBids
<1> QED BY <1>1, <1>2, <1>3

(***************************************************************************)
(* An XXBLOCK over XBLOCKs that wait for it.                               *)
(***************************************************************************)
LEMMA XXBlockAdded ==
  ASSUME NEW s, NEW waiting, Web(s, waiting), NEW children,
         IsInjective(children), ToSet(children) \subseteq waiting,
         NEW level, NEW lcb, NEW t, t = AddXBlock(s, level, children, lcb)
  PROVE  /\ Web(t, (waiting \ ToSet(children)) \cup {InternalBid(s.nextInternal)})
         /\ InternalBid(s.nextInternal) \notin Bids(s)
         /\ Bids(t) = Bids(s) \cup {InternalBid(s.nextInternal)}
<1> DEFINE block == [bid |-> InternalBid(s.nextInternal), level |-> level,
                     children |-> children, lcb |-> lcb]
           blocks == <<block>>
           list == s.x
<1>1. Tidy(s) /\ IsSeq(list)
  BY DEF Web, Tidy
<1>2. s.nextInternal \in Nat /\ NextInternalBids(s, 1) = {InternalBid(s.nextInternal)}
  BY <1>1, NextInternalBid
<1>3. t = [s EXCEPT !.nextInternal = s.nextInternal + 1, !.x = Append(list, block)]
  BY DEF AddXBlock
<1>4. block.bid = InternalBid(s.nextInternal) /\ block.children = children
  OBVIOUS
<1> HIDE DEF block
<1>5. IsSeq(blocks) /\ Len(blocks) = 1 /\ blocks[1] = block /\ Append(list, block) = list \o blocks
  <2> HIDE DEF list
  <2> QED BY <1>1, AppendIsConcatenation
<1> HIDE DEF blocks
<1>6. t = WithXBlocks(s, blocks)
  BY <1>3, <1>5 DEF WithXBlocks
<1>7. 1..Len(blocks) = {1}
  BY <1>5
<1>8. ChildrenOnce(blocks)
  BY <1>4, <1>5, <1>7 DEF ChildrenOnce, IsInjective
<1>9. ChildrenOf(blocks) = ToSet(children)
  BY <1>4, <1>5, <1>7 DEF ChildrenOf, ToSet
<1>10. \A g \in 1..Len(blocks) : blocks[g].bid = InternalBid(s.nextInternal + g - 1)
  <2>1. s.nextInternal + 1 - 1 = s.nextInternal
    BY <1>2
  <2> QED BY <1>4, <1>5, <1>7, <2>1
<1>11. ChildrenOf(blocks) \subseteq waiting
  BY <1>9
<1>12. /\ Web(t, (waiting \ ChildrenOf(blocks)) \cup NextInternalBids(s, Len(blocks)))
       /\ NextInternalBids(s, Len(blocks)) \cap Bids(s) = {}
       /\ Bids(t) = Bids(s) \cup NextInternalBids(s, Len(blocks))
  <2>1. NewXBlocks(s, waiting, blocks)
    BY <1>5, <1>8, <1>10, <1>11 DEF NewXBlocks
  <2>2. XBlocksWait(s, waiting, blocks, WithXBlocks(s, blocks))
    BY <2>1, XBlocksAdded
  <2> QED BY <1>6, <2>2 DEF XBlocksWait
<1> QED BY <1>2, <1>5, <1>9, <1>12

(***************************************************************************)
(* One data block waits for its reference.                                 *)
(***************************************************************************)
LEMMA DataBlockAdded ==
  ASSUME NEW s, NEW waiting, Web(s, waiting), NEW size,
         NEW t, t = AddDataBlock(s, size)
  PROVE  /\ Web(t, waiting \cup {DataBid(s.nextData)})
         /\ DataBid(s.nextData) \notin Bids(s) /\ DataBid(s.nextData) \in Nat
         /\ Bids(t) = Bids(s) \cup {DataBid(s.nextData)}
         /\ t.nextInternal = s.nextInternal
<1> DEFINE one == <<size>>
<1>1. IsSeq(one) /\ Len(one) = 1
  <2>1. IsSeq(<<>>)
    <3>1. <<>> \in Seq({})
      OBVIOUS
    <3> QED BY <3>1 DEF IsSeq
  <2> QED BY <2>1, AppendIsConcatenation
<1>2. t = AddDataBlocks(s, one)
  BY DEF AddDataBlock
<1> HIDE DEF one
<1>3. s.nextData \in Nat
  <2> DEFINE nd == Len(s.data)
  <2>1. nd \in Nat /\ s.nextData = nd + 1
    BY Vector DEF Web, Tidy
  <2> HIDE DEF nd
  <2> QED BY <2>1
<1>4. NextDataBids(s, Len(one)) = {DataBid(s.nextData)}
  <2>1. 1..Len(one) = {1} /\ s.nextData + 1 - 1 = s.nextData
    BY <1>1, <1>3
  <2> QED BY <2>1 DEF NextDataBids
<1> DEFINE new == NextDataBids(s, Len(one))
<1>5. /\ Web(t, waiting \cup new) /\ new \cap Bids(s) = {} /\ Bids(t) = Bids(s) \cup new
      /\ t.nextInternal = s.nextInternal
  <2> HIDE DEF new
  <2>1. new = NextDataBids(s, Len(one))
    BY DEF new
  <2>2. IsSeq(one)
    BY <1>1
  <2>3. /\ Web(t, waiting \cup new) /\ new \cap Bids(s) = {} /\ Bids(t) = Bids(s) \cup new
        /\ t.nextData = s.nextData + Len(one) /\ t.nextInternal = s.nextInternal
    BY <1>2, <2>1, <2>2, DataAdded
  <2> QED BY <2>3
<1>6. DataBid(s.nextData) \in Nat
  BY <1>3 DEF DataBid
<1> QED BY <1>4, <1>5, <1>6

\* Of the blocks r.sched of a payload only r.bid waits, a new one.
PayloadWaits(s, waiting, r) ==
  /\ Web(r.sched, waiting \cup {r.bid})
  /\ r.bid \notin Bids(s)
  /\ Bids(s) \cup {r.bid} \subseteq Bids(r.sched)

(***************************************************************************)
(* schedulePayload adds the blocks of one payload, and of these only the   *)
(* one it returns waits for a reference.                                   *)
(***************************************************************************)
LEMMA PayloadScheduled ==
  ASSUME NEW s, NEW waiting, Web(s, waiting), NEW total \in Nat
  PROVE  PayloadWaits(s, waiting, SchedulePayload(s, total))
<1> DEFINE r == SchedulePayload(s, total)
<1> r = SchedulePayload(s, total)
  OBVIOUS
<1> HIDE DEF r
<1> SUFFICES /\ Web(r.sched, waiting \cup {r.bid})
             /\ r.bid \notin Bids(s)
             /\ Bids(s) \cup {r.bid} \subseteq Bids(r.sched)
  BY DEF PayloadWaits, r
<1> DEFINE sizes   == Chunks(total)
           bids    == NewDataBids(s, sizes)
           leaves  == AddDataBlocks(s, sizes)
           len     == Len(sizes)
           nGroups == CeilDiv(Len(sizes), MaxXBlockChildren)
           mids    == AddXBlocks(leaves, bids, sizes)
           tops    == [g \in 1..nGroups |-> InternalBid(leaves.nextInternal + g - 1)]
<1>1. \/ r = [sched |-> AddDataBlock(s, total), bid |-> DataBid(s.nextData)]
      \/ nGroups = 1 /\ r = [sched |-> mids, bid |-> InternalBid(leaves.nextInternal)]
      \/ r = [sched |-> AddXBlock(mids, 2, tops, total), bid |-> InternalBid(mids.nextInternal)]
  BY DEF SchedulePayload
<1>2. Tidy(s) /\ waiting \subseteq Bids(s)
  BY DEF Web
<1>3. s.nextData \in Nat \ {0}
  <2> DEFINE nd == Len(s.data)
  <2>1. nd \in Nat /\ s.nextData = nd + 1
    BY <1>2, Vector DEF Tidy
  <2> HIDE DEF nd
  <2> QED BY <2>1
<1>4. CASE r = [sched |-> AddDataBlock(s, total), bid |-> DataBid(s.nextData)]
  <2> DEFINE t == AddDataBlock(s, total)
  <2>1. r.sched = t /\ r.bid = DataBid(s.nextData)
    BY <1>4
  <2> HIDE DEF t
  <2>2. t = AddDataBlock(s, total)
    BY DEF t
  <2>3. /\ Web(t, waiting \cup {DataBid(s.nextData)})
        /\ DataBid(s.nextData) \notin Bids(s)
        /\ Bids(t) = Bids(s) \cup {DataBid(s.nextData)}
    BY <2>2, DataBlockAdded
  <2> QED BY <2>1, <2>3
<1> DEFINE new == NextDataBids(s, len)
<1>5. IsSeq(sizes) /\ len \in Nat /\ DOMAIN sizes = 1..len
  <2> DEFINE c == CeilDiv(total, MaxBlockPayload)
  <2>1. c \in Nat
    BY BlockSchedulerAssumption, CeilDivFacts
  <2>2. sizes = [i \in 1..c |-> AtMost(MaxBlockPayload, total - (i - 1) * MaxBlockPayload)]
    BY DEF Chunks
  <2> HIDE DEF sizes, c
  <2>3. IsSeq(sizes)
    BY <2>1, <2>2, FunctionIsVector
  <2> QED BY <2>3, Vector
<1> HIDE DEF sizes
<1>6. /\ Web(leaves, waiting \cup new) /\ new \cap Bids(s) = {}
      /\ Bids(leaves) = Bids(s) \cup new
  <2> HIDE DEF leaves
  <2>1. leaves = AddDataBlocks(s, sizes)
    BY DEF leaves
  <2> QED BY <1>5, <2>1, DataAdded
<1>7. IsSeq(bids) /\ Len(bids) = len /\ new = ToSet(bids) /\ IsInjective(bids)
  <2>1. bids = [i \in 1..len |-> DataBid(s.nextData + i - 1)]
    BY <1>5 DEF NewDataBids
  <2> HIDE DEF bids
  <2>2. IsSeq(bids) /\ Len(bids) = len
    <3> HIDE DEF len
    <3> QED BY <1>5, <2>1, FunctionIsVector
  <2>3. DOMAIN bids = 1..len /\ \A i \in 1..len : bids[i] = DataBid(s.nextData + i - 1)
    BY <2>1
  <2>4. ASSUME NEW i \in 1..len, NEW j \in 1..len, bids[i] = bids[j] PROVE i = j
    <3> HIDE DEF len
    <3>1. s.nextData + i - 1 \in Nat /\ s.nextData + j - 1 \in Nat
      BY <1>3, <1>5
    <3>2. DataBid(s.nextData + i - 1) = DataBid(s.nextData + j - 1)
      BY <2>3, <2>4
    <3>3. s.nextData + i - 1 = s.nextData + j - 1
      BY <3>1, <3>2, BidsDiffer
    <3> QED BY <1>3, <1>5, <3>3
  <2>5. new = ToSet(bids)
    BY <2>3 DEF NextDataBids, ToSet
  <2> QED BY <2>2, <2>3, <2>4, <2>5 DEF IsInjective
<1> DEFINE mid == NextInternalBids(leaves, nGroups)
<1>8. /\ Web(mids, ((waiting \cup new) \ new) \cup mid)
      /\ mid \cap Bids(leaves) = {} /\ Bids(mids) = Bids(leaves) \cup mid
      /\ mids.nextInternal = leaves.nextInternal + nGroups
      /\ nGroups \in Nat
  <2> DEFINE held == waiting \cup new
             count == CeilDiv(Len(bids), MaxXBlockChildren)
             taken == ToSet(bids)
             more == NextInternalBids(leaves, count)
  <2> HIDE DEF leaves, bids, mids, new
  <2>1. Web(leaves, held) /\ IsSeq(bids) /\ IsInjective(bids) /\ taken \subseteq held
    BY <1>6, <1>7
  <2>2. mids = AddXBlocks(leaves, bids, sizes)
    BY DEF mids
  <2>3. /\ Web(mids, (held \ taken) \cup more)
        /\ more \cap Bids(leaves) = {} /\ Bids(mids) = Bids(leaves) \cup more
        /\ mids.nextInternal = leaves.nextInternal + count
        /\ count \in Nat
    <3> HIDE DEF held, count
    <3>1. count = CeilDiv(Len(bids), MaxXBlockChildren)
      BY DEF count
    <3> QED BY <2>1, <2>2, <3>1, GroupsAdded
  <2>4. taken = new /\ count = nGroups
    BY <1>7
  <2>5. more = mid
    BY <2>4
  <2> HIDE DEF held, count, taken, more, mid, nGroups
  <2>6. held = waiting \cup new
    BY DEF held
  <2> QED BY <2>3, <2>4, <2>5, <2>6
<1> HIDE DEF leaves, bids, mids, new, nGroups, mid
<1>9. (waiting \cup new) \ new = waiting
  BY <1>2, <1>6
<1>10. Web(mids, waiting \cup mid) /\ Tidy(leaves)
  BY <1>6, <1>8, <1>9 DEF Web
<1>11. CASE nGroups = 1 /\ r = [sched |-> mids, bid |-> InternalBid(leaves.nextInternal)]
  <2>1. mid = {InternalBid(leaves.nextInternal)}
    BY <1>10, <1>11, NextInternalBid DEF mid
  <2>2. r.sched = mids /\ r.bid = InternalBid(leaves.nextInternal)
    BY <1>11
  <2> QED BY <1>6, <1>8, <1>10, <2>1, <2>2
<1>12. CASE r = [sched |-> AddXBlock(mids, 2, tops, total), bid |-> InternalBid(mids.nextInternal)]
  <2> DEFINE t == AddXBlock(mids, 2, tops, total)
             top == InternalBid(mids.nextInternal)
  <2>1. r.sched = t /\ r.bid = top
    BY <1>12
  <2>2. leaves.nextInternal \in Nat
    BY <1>10, NextInternalBid
  <2>3. DOMAIN tops = 1..nGroups /\ mid = ToSet(tops)
    BY DEF mid, NextInternalBids, ToSet
  <2>4. ASSUME NEW i \in 1..nGroups, NEW j \in 1..nGroups, tops[i] = tops[j] PROVE i = j
    <3>1. leaves.nextInternal + i - 1 \in Nat /\ leaves.nextInternal + j - 1 \in Nat
      BY <1>8, <2>2
    <3>2. InternalBid(leaves.nextInternal + i - 1) = InternalBid(leaves.nextInternal + j - 1)
      BY <2>4
    <3>3. leaves.nextInternal + i - 1 = leaves.nextInternal + j - 1
      BY <3>1, <3>2, BidsDiffer
    <3> QED BY <1>8, <2>2, <3>3
  <2> HIDE DEF tops, t
  <2>7. IsInjective(tops)
    BY <2>3, <2>4 DEF IsInjective
  <2>5. /\ Web(t, ((waiting \cup mid) \ mid) \cup {top})
        /\ top \notin Bids(mids) /\ Bids(t) = Bids(mids) \cup {top}
    <3> DEFINE held == waiting \cup mid
    <3>1. t = AddXBlock(mids, 2, tops, total)
      BY DEF t
    <3>2. Web(mids, held) /\ ToSet(tops) \subseteq held
      BY <1>10, <2>3
    <3>3. /\ Web(t, (held \ ToSet(tops)) \cup {top})
          /\ top \notin Bids(mids) /\ Bids(t) = Bids(mids) \cup {top}
      <4> HIDE DEF held
      <4> QED BY <2>7, <3>1, <3>2, XXBlockAdded
    <3> QED BY <2>3, <3>3
  <2> HIDE DEF top
  <2>6. (waiting \cup mid) \ mid = waiting
    BY <1>2, <1>6, <1>8
  <2> QED BY <1>6, <1>8, <2>1, <2>5, <2>6
<1> QED BY <1>1, <1>4, <1>11, <1>12 DEF leaves, mids, nGroups

(***************************************************************************)
(* The payloads of a list scheduled so far: besides what waited before,    *)
(* the entries' BIDs wait, each a new one.                                 *)
(***************************************************************************)
PiecesWait(s, waiting, acc) ==
  /\ IsSeq(acc.entries) /\ OwnBids(acc.entries)
  /\ \A i \in 1..Len(acc.entries) : acc.entries[i].nid \in Nat
  /\ Web(acc.sched, waiting \cup BidsIn(acc.entries))
  /\ BidsIn(acc.entries) \cap Bids(s) = {}
  /\ Bids(s) \subseteq Bids(acc.sched)

(***************************************************************************)
(* One payload more.                                                       *)
(***************************************************************************)
LEMMA PieceAdded ==
  ASSUME NEW s, NEW waiting, waiting \subseteq Bids(s),
         NEW acc, PiecesWait(s, waiting, acc),
         NEW piece, piece.nid \in Nat, piece.size \in Nat,
         NEW next, next = AddPiece(acc, piece)
  PROVE  PiecesWait(s, waiting, next)
<1> DEFINE payload == SchedulePayload(acc.sched, piece.size)
           entry == [nid |-> piece.nid, bid |-> payload.bid]
           old == acc.entries
           held == waiting \cup BidsIn(acc.entries)
<1>1. /\ IsSeq(old) /\ OwnBids(old) /\ \A i \in 1..Len(old) : old[i].nid \in Nat
      /\ Web(acc.sched, held)
      /\ BidsIn(old) \cap Bids(s) = {} /\ Bids(s) \subseteq Bids(acc.sched)
  BY DEF PiecesWait
<1>2. next.sched = payload.sched /\ next.entries = Append(old, entry)
  <2> HIDE DEF payload
  <2>1. next = [sched |-> payload.sched,
                entries |-> Append(acc.entries, [nid |-> piece.nid, bid |-> payload.bid])]
    BY DEF AddPiece, payload
  <2> QED BY <2>1
<1>3. entry.nid = piece.nid /\ entry.bid = payload.bid
  OBVIOUS
<1>4. /\ Web(payload.sched, held \cup {payload.bid})
      /\ payload.bid \notin Bids(acc.sched)
      /\ Bids(acc.sched) \cup {payload.bid} \subseteq Bids(payload.sched)
  <2> HIDE DEF held, payload
  <2>1. payload = SchedulePayload(acc.sched, piece.size)
    BY DEF payload
  <2>2. PayloadWaits(acc.sched, held, payload)
    <3> DEFINE before == acc.sched
               total == piece.size
    <3>1. Web(before, held) /\ total \in Nat
      BY <1>1
    <3> HIDE DEF before, total
    <3>2. PayloadWaits(before, held, SchedulePayload(before, total))
      BY <3>1, PayloadScheduled
    <3> QED BY <2>1, <3>2 DEF before, total
  <2> QED BY <2>2 DEF PayloadWaits
<1> HIDE DEF payload, entry, old
<1> DEFINE one == <<entry>>
<1>5. IsSeq(one) /\ Len(one) = 1 /\ one[1] = entry /\ Append(old, entry) = old \o one
  BY <1>1, AppendIsConcatenation
<1> HIDE DEF one
<1>6. OwnBids(one) /\ BidsIn(one) = {payload.bid}
  BY <1>3, <1>5 DEF OwnBids, BidsIn
<1>7. BidsIn(old) \subseteq Bids(acc.sched)
  BY <1>1 DEF Web, old, held
<1>8. BidsIn(old) \cap BidsIn(one) = {}
  BY <1>4, <1>6, <1>7
<1>9. /\ IsSeq(old \o one) /\ OwnBids(old \o one)
      /\ Len(old \o one) = Len(old) + 1 /\ Len(old) \in Nat
      /\ \A i \in 1..Len(old) : (old \o one)[i] = old[i]
      /\ (old \o one)[Len(old) + 1] = entry
      /\ BidsIn(old \o one) = BidsIn(old) \cup {payload.bid}
  BY <1>1, <1>5, <1>6, <1>8, ListGrows, Vector
<1> DEFINE new == old \o one
<1>10. next.entries = new
  BY <1>2, <1>5
<1>11. ASSUME NEW i \in 1..Len(new) PROVE new[i].nid \in Nat
  <2> DEFINE n == Len(old)
  <2>1. n \in Nat /\ Len(new) = n + 1
    BY <1>9
  <2> HIDE DEF n, new
  <2>2. i \in 1..n \/ i = n + 1
    BY <2>1
  <2> QED BY <1>1, <1>3, <1>9, <2>2 DEF n, new
<1>12. IsSeq(new) /\ OwnBids(new) /\ BidsIn(new) = BidsIn(old) \cup {payload.bid}
  BY <1>9
<1> HIDE DEF new
<1>13. held \cup {payload.bid} = waiting \cup BidsIn(new)
  BY <1>12 DEF old
<1>14. Web(next.sched, waiting \cup BidsIn(new))
  BY <1>2, <1>4, <1>13
<1>15. BidsIn(new) \cap Bids(s) = {}
  BY <1>1, <1>4, <1>12
<1>16. Bids(s) \subseteq Bids(next.sched)
  BY <1>1, <1>2, <1>4
<1> QED BY <1>10, <1>11, <1>12, <1>14, <1>15, <1>16 DEF PiecesWait

(***************************************************************************)
(* Induction over the natural numbers, for sets.                           *)
(***************************************************************************)
LEMMA Induction ==
  ASSUME NEW S, 0 \in S, \A n \in Nat : n \in S => n + 1 \in S
  PROVE  Nat \subseteq S
<1> DEFINE R == {ss \in Nat \X Nat : ss[1] < ss[2]}
<1>1. IsWellFoundedOn(R, Nat)
  BY NatLessThanWellFounded DEF OpToRel
<1> SUFFICES ASSUME Nat \ S # {} PROVE FALSE
  OBVIOUS
<1>2. PICK x \in Nat \ S : \A y \in Nat \ S : ~ (<<y, x>> \in R)
  <2> HIDE DEF R
  <2> QED BY <1>1, WFMin
<1>3. x # 0 /\ x - 1 \in Nat /\ x - 1 < x /\ x - 1 + 1 = x
  OBVIOUS
<1>4. <<x - 1, x>> \in R
  BY <1>3
<1>5. x - 1 \in S
  BY <1>2, <1>3, <1>4
<1> QED BY <1>3, <1>5

(***************************************************************************)
(* The subnodes of a node: of the blocks of all its payloads, those that   *)
(* its entries name wait for a reference and no others.                    *)
(***************************************************************************)
LEMMA PiecesScheduled ==
  ASSUME NEW s, NEW waiting, Web(s, waiting), NEW pieces, IsSeq(pieces),
         \A i \in 1..Len(pieces) : pieces[i].nid \in Nat /\ pieces[i].size \in Nat
  PROVE  PiecesWait(s, waiting, SchedulePieces(s, pieces))
<1> DEFINE n == Len(pieces)
           base == [sched |-> s, entries |-> <<>>]
           Grows(f, m) == /\ DOMAIN f = 0..m /\ f[0] = base
                          /\ \A i \in 1..m : f[i] = AddPiece(f[i - 1], pieces[i])
           IsFunction(f, m) == f = [i \in 0..m |-> f[i]]
           S == {m \in Nat : m <= n => \E f : IsFunction(f, m) /\ Grows(f, m)}
<1>1. n \in Nat /\ DOMAIN pieces = 1..n
  BY Vector
<1>2. 0 \in S
  <2> DEFINE f == [i \in 0..0 |-> base]
  <2>1. IsFunction(f, 0) /\ Grows(f, 0)
    <3> HIDE DEF base
    <3> QED OBVIOUS
  <2> HIDE DEF IsFunction, Grows, f
  <2> QED BY <2>1
<1>3. ASSUME NEW m \in Nat, m \in S PROVE m + 1 \in S
  <2> HIDE DEF IsFunction, Grows
  <2> SUFFICES ASSUME m + 1 <= n PROVE \E f : IsFunction(f, m + 1) /\ Grows(f, m + 1)
    OBVIOUS
  <2>1. PICK f : IsFunction(f, m) /\ Grows(f, m)
    BY <1>1, <1>3
  <2> DEFINE g == [i \in 0..(m + 1) |-> IF i = m + 1 THEN AddPiece(f[m], pieces[m + 1]) ELSE f[i]]
  <2> USE DEF IsFunction, Grows
  <2>2. IsFunction(g, m + 1)
    OBVIOUS
  <2>3. DOMAIN g = 0..(m + 1) /\ g[0] = base
    <3> HIDE DEF base
    <3> QED BY <2>1
  <2>4. ASSUME NEW i \in 1..(m + 1) PROVE g[i] = AddPiece(g[i - 1], pieces[i])
    <3>1. i - 1 \in 0..m /\ g[i - 1] = f[i - 1]
      OBVIOUS
    <3>2. CASE i = m + 1
      <4>1. g[i] = AddPiece(f[m], pieces[m + 1]) /\ i - 1 = m
        BY <3>2
      <4> QED BY <3>1, <3>2, <4>1
    <3>3. CASE i # m + 1
      <4>1. i \in 1..m /\ g[i] = f[i]
        BY <3>3
      <4> QED BY <2>1, <3>1, <4>1
    <3> QED BY <3>2, <3>3
  <2>5. Grows(g, m + 1)
    <3> HIDE DEF g, base
    <3> QED BY <2>3, <2>4
  <2> HIDE DEF IsFunction, Grows, g
  <2> QED BY <2>2, <2>5
<1>4. n \in S
  <2> HIDE DEF S
  <2> QED BY <1>1, <1>2, <1>3, Induction
<1>5. PICK f : IsFunction(f, n) /\ Grows(f, n)
  <2> HIDE DEF IsFunction, Grows
  <2> QED BY <1>1, <1>4
<1> DEFINE P(h) == h = [i \in 0..Len(pieces) |->
                          IF i = 0 THEN [sched |-> s, entries |-> <<>>]
                          ELSE AddPiece(h[i - 1], pieces[i])]
<1>6. P(f)
  <2> HIDE DEF base
  <2>1. \A i \in 0..n : f[i] = IF i = 0 THEN base ELSE AddPiece(f[i - 1], pieces[i])
    <3> SUFFICES ASSUME NEW i \in 0..n
                 PROVE  f[i] = IF i = 0 THEN base ELSE AddPiece(f[i - 1], pieces[i])
      OBVIOUS
    <3>1. CASE i = 0
      BY <1>5, <3>1
    <3>2. CASE i # 0
      <4>1. i \in 1..n
        BY <1>1, <3>2
      <4> QED BY <1>5, <3>2, <4>1
    <3> QED BY <3>1, <3>2
  <2>2. f = [i \in 0..n |-> IF i = 0 THEN base ELSE AddPiece(f[i - 1], pieces[i])]
    BY <1>5, <2>1
  <2> QED BY <2>2 DEF base
<1> DEFINE after == CHOOSE h : P(h)
<1>7. SchedulePieces(s, pieces) = after[n]
  BY DEF SchedulePieces
<1>8. P(after)
  <2> HIDE DEF P
  <2> QED BY <1>6
<1>9. after[0] = base /\ \A i \in 1..n : after[i] = AddPiece(after[i - 1], pieces[i])
  <2> HIDE DEF after
  <2>1. after = [i \in 0..n |-> IF i = 0 THEN base ELSE AddPiece(after[i - 1], pieces[i])]
    BY <1>8
  <2> HIDE DEF base, P, n
  <2>2. after[0] = base
    BY <1>1, <2>1
  <2>3. ASSUME NEW i \in 1..n PROVE after[i] = AddPiece(after[i - 1], pieces[i])
    <3>1. i \in 0..n /\ i # 0
      BY <1>1
    <3> QED BY <2>1, <3>1
  <2> QED BY <2>2, <2>3
<1> HIDE DEF after, P, Grows, IsFunction, S
<1>10. waiting \subseteq Bids(s)
  BY DEF Web
<1>11. PiecesWait(s, waiting, base)
  <2>1. base.sched = s /\ base.entries = <<>>
    OBVIOUS
  <2> DEFINE none == <<>>
  <2>2. IsSeq(none) /\ Len(none) = 0
    <3>1. <<>> \in Seq({})
      OBVIOUS
    <3> QED BY <3>1 DEF IsSeq
  <2> HIDE DEF none
  <2>3. 1..Len(none) = {}
    BY <2>2
  <2>4. OwnBids(none) /\ BidsIn(none) = {} /\ \A i \in 1..Len(none) : none[i].nid \in Nat
    BY <2>3 DEF OwnBids, BidsIn
  <2>5. base.entries = none
    BY <2>1 DEF none
  <2>6. waiting \cup BidsIn(none) = waiting
    BY <2>4
  <2> HIDE DEF base
  <2> QED BY <2>1, <2>2, <2>4, <2>5, <2>6 DEF PiecesWait
<1> DEFINE T == {m \in Nat : m <= n => PiecesWait(s, waiting, after[m])}
<1>12. 0 \in T
  BY <1>9, <1>11
<1>13. ASSUME NEW m \in Nat, m \in T PROVE m + 1 \in T
  <2> SUFFICES ASSUME m + 1 <= n PROVE PiecesWait(s, waiting, after[m + 1])
    OBVIOUS
  <2>1. m + 1 \in 1..n /\ (m + 1) - 1 = m /\ m <= n
    BY <1>1
  <2>2. PiecesWait(s, waiting, after[m])
    BY <1>13, <2>1
  <2>3. pieces[m + 1].nid \in Nat /\ pieces[m + 1].size \in Nat
    BY <2>1
  <2>4. after[m + 1] = AddPiece(after[m], pieces[m + 1])
    BY <1>9, <2>1
  <2> HIDE DEF T
  <2> QED BY <1>10, <2>2, <2>3, <2>4, PieceAdded
<1>14. n \in T
  <2> HIDE DEF T
  <2> QED BY <1>1, <1>12, <1>13, Induction
<1> QED BY <1>7, <1>14

(***************************************************************************)
(* The concatenation of a vector of vectors, one of them after the other.  *)
(***************************************************************************)
LEMMA FlattensStepwise ==
  ASSUME NEW seqs, IsSeq(seqs), Len(seqs) # 0
  PROVE  \E f : /\ FlattenSeq(seqs) = f[Len(seqs)]
                /\ f[1] = seqs[1]
                /\ \A i \in 2..Len(seqs) : f[i] = f[i - 1] \o seqs[i]
<1> DEFINE n == Len(seqs)
           Upto(f, i) == IF i = 1 THEN seqs[i] ELSE f[i - 1] \o seqs[i]
           Grows(f, m) == f = [i \in 1..m |-> Upto(f, i)]
           S == {m \in Nat : m <= n => \E f : Grows(f, m)}
<1>1. n \in Nat /\ DOMAIN seqs = 1..n
  BY Vector
<1>2. 0 \in S
  <2> DEFINE f == [i \in 1..0 |-> 0]
  <2>1. \A i : i \notin 1..0
    OBVIOUS
  <2>2. Grows(f, 0)
    BY <2>1
  <2>3. \E h : Grows(h, 0)
    <3> HIDE DEF Grows, f
    <3> QED BY <2>2
  <2> HIDE DEF Grows
  <2> QED BY <2>3
<1>3. ASSUME NEW m \in Nat, m \in S PROVE m + 1 \in S
  <2> HIDE DEF Grows
  <2> SUFFICES ASSUME m + 1 <= n PROVE \E f : Grows(f, m + 1)
    OBVIOUS
  <2>1. PICK f : Grows(f, m)
    BY <1>1, <1>3
  <2> HIDE DEF Upto
  <2> DEFINE g == [i \in 1..(m + 1) |-> IF i = m + 1 THEN Upto(f, m + 1) ELSE f[i]]
  <2>2. \A i \in 1..m : f[i] = Upto(f, i)
    BY <2>1 DEF Grows
  <2>3. ASSUME NEW i \in 1..(m + 1) PROVE g[i] = Upto(g, i)
    <3>1. i = 1 \/ (i - 1 \in 1..m /\ i - 1 # m + 1 /\ i - 1 \in 1..(m + 1))
      OBVIOUS
    <3>2. Upto(g, i) = Upto(f, i)
      <4>1. CASE i = 1
        BY <4>1 DEF Upto
      <4>2. CASE i # 1
        <5>1. g[i - 1] = f[i - 1]
          BY <3>1, <4>2
        <5> HIDE DEF g
        <5> QED BY <5>1 DEF Upto
      <4> QED BY <4>1, <4>2
    <3>3. CASE i = m + 1
      BY <3>2, <3>3
    <3>4. CASE i # m + 1
      <4>1. i \in 1..m /\ g[i] = f[i]
        BY <3>4
      <4> QED BY <2>2, <3>2, <4>1
    <3> QED BY <3>3, <3>4
  <2>4. g = [i \in 1..(m + 1) |-> g[i]]
    OBVIOUS
  <2> HIDE DEF g
  <2>5. [i \in 1..(m + 1) |-> g[i]] = [i \in 1..(m + 1) |-> Upto(g, i)]
    BY <2>3
  <2>6. Grows(g, m + 1)
    BY <2>4, <2>5 DEF Grows
  <2> QED BY <2>6
<1>4. n \in S
  <2> HIDE DEF S
  <2> QED BY <1>1, <1>2, <1>3, Induction
<1>5. \E f : Grows(f, n)
  <2> HIDE DEF Grows
  <2> QED BY <1>1, <1>4
<1> DEFINE flatten == CHOOSE f : Grows(f, n)
<1>6. Grows(flatten, n)
  <2> HIDE DEF Grows
  <2> QED BY <1>5
<1>7. FlattenSeq(seqs) = flatten[n]
  BY DEF FlattenSeq
<1> HIDE DEF flatten
<1>8. \A i \in 1..n : flatten[i] = Upto(flatten, i)
  <2> HIDE DEF Upto
  <2> QED BY <1>6
<1>9. flatten[1] = seqs[1]
  <2>1. 1 \in 1..n
    BY <1>1
  <2> QED BY <1>8, <2>1
<1>10. \A i \in 2..n : flatten[i] = flatten[i - 1] \o seqs[i]
  <2>1. \A i \in 2..n : i \in 1..n /\ i # 1
    BY <1>1
  <2> QED BY <1>8, <2>1
<1> QED BY <1>7, <1>9, <1>10

(***************************************************************************)
(* An empty vector of vectors.                                             *)
(***************************************************************************)
LEMMA NothingFlattens ==
  ASSUME NEW seqs, IsSeq(seqs), Len(seqs) = 0
  PROVE  FlattenSeq(seqs) = <<>>
<1>1. FlattenSeq(seqs) = seqs
  BY DEF FlattenSeq
<1>2. PICK U : seqs \in Seq(U)
  BY DEF IsSeq
<1>3. seqs = <<>>
  BY <1>2
<1> QED BY <1>1, <1>3

(***************************************************************************)
(* The concatenation of a vector of vectors has elements of theirs only.   *)
(***************************************************************************)
LEMMA Flattened ==
  ASSUME NEW T, NEW seqs, IsSeq(seqs), \A i \in 1..Len(seqs) : seqs[i] \in Seq(T)
  PROVE  FlattenSeq(seqs) \in Seq(T)
<1> DEFINE n == Len(seqs)
<1>1. n \in Nat
  BY Vector
<1>2. CASE n = 0
  <2>1. FlattenSeq(seqs) = <<>>
    BY <1>2, NothingFlattens
  <2> QED BY <2>1
<1>3. CASE n # 0
  <2>1. PICK f : /\ FlattenSeq(seqs) = f[n] /\ f[1] = seqs[1]
                 /\ \A i \in 2..n : f[i] = f[i - 1] \o seqs[i]
    BY <1>3, FlattensStepwise
  <2> DEFINE I == {m \in Nat : m + 1 <= n => f[m + 1] \in Seq(T)}
  <2> HIDE DEF n
  <2>2. 0 \in I
    <3>1. 1 \in 1..n
      BY <1>1, <1>3
    <3>2. seqs[1] \in Seq(T)
      BY <3>1 DEF n
    <3> QED BY <2>1, <3>2
  <2>3. ASSUME NEW m \in Nat, m \in I PROVE m + 1 \in I
    <3> SUFFICES ASSUME (m + 1) + 1 <= n PROVE f[(m + 1) + 1] \in Seq(T)
      OBVIOUS
    <3>1. (m + 1) + 1 \in 2..n /\ ((m + 1) + 1) - 1 = m + 1 /\ m + 1 <= n
      BY <1>1
    <3>2. f[(m + 1) + 1] = f[m + 1] \o seqs[(m + 1) + 1]
      BY <2>1, <3>1
    <3>3. f[m + 1] \in Seq(T)
      BY <2>3, <3>1
    <3>4. (m + 1) + 1 \in 1..n
      BY <1>1
    <3>5. seqs[(m + 1) + 1] \in Seq(T)
      BY <3>4 DEF n
    <3> HIDE DEF I
    <3> QED BY <3>2, <3>3, <3>5
  <2>4. n - 1 \in I
    <3> HIDE DEF I
    <3>1. n - 1 \in Nat
      BY <1>1, <1>3
    <3> QED BY <2>2, <2>3, <3>1, Induction
  <2>5. (n - 1) + 1 = n
    BY <1>1
  <2> QED BY <1>1, <2>1, <2>4, <2>5
<1> QED BY <1>2, <1>3

\* Element i of the concatenation flat of the first m vectors is element at[i]
\* of vector from[i]; none is left out and they keep their order.
Places(seqs, m, flat, from, at) ==
  /\ \A i \in 1..Len(flat) : /\ from[i] \in 1..m /\ at[i] \in 1..Len(seqs[from[i]])
                             /\ flat[i] = seqs[from[i]][at[i]]
  /\ \A a \in 1..m : \A b \in 1..Len(seqs[a]) :
       \E i \in 1..Len(flat) : from[i] = a /\ at[i] = b
  /\ \A i, j \in 1..Len(flat) :
       i < j => from[i] < from[j] \/ (from[i] = from[j] /\ at[i] < at[j])

(***************************************************************************)
(* One vector more.                                                        *)
(***************************************************************************)
LEMMA PlacesGrow ==
  ASSUME NEW seqs, NEW m \in Nat, NEW flat, IsSeq(flat), NEW from, NEW at,
         Places(seqs, m, flat, from, at), NEW next, next = seqs[m + 1], IsSeq(next)
  PROVE  \E g, h : Places(seqs, m + 1, flat \o next, g, h)
<1>0. /\ Len(flat) \in Nat /\ Len(next) \in Nat
      /\ Len(flat \o next) = Len(flat) + Len(next)
      /\ \A i \in 1..Len(flat) : (flat \o next)[i] = flat[i]
      /\ \A i \in 1..Len(next) : (flat \o next)[Len(flat) + i] = next[i]
  <2>1. PICK S : flat \in Seq(S)
    BY DEF IsSeq
  <2>2. PICK T : next \in Seq(T)
    BY DEF IsSeq
  <2>3. flat \in Seq(S \cup T) /\ next \in Seq(S \cup T)
    BY <2>1, <2>2
  <2>4. Len(flat) \in Nat /\ Len(next) \in Nat
        /\ Len(flat \o next) = Len(flat) + Len(next)
    BY ONLY <2>3
  <2>5. \A i \in 1..Len(flat) : (flat \o next)[i] = flat[i]
    BY ONLY <2>3
  <2>6. \A i \in 1..Len(next) : (flat \o next)[Len(flat) + i] = next[i]
    BY ONLY <2>3
  <2> QED BY <2>4, <2>5, <2>6
<1> DEFINE len == Len(flat)
           more == Len(next)
           both == flat \o next
           g == [i \in 1..(len + more) |-> IF i <= len THEN from[i] ELSE m + 1]
           h == [i \in 1..(len + more) |-> IF i <= len THEN at[i] ELSE i - len]
<1>1. /\ len \in Nat /\ more \in Nat /\ Len(both) = len + more
      /\ \A i \in 1..len : both[i] = flat[i]
      /\ \A i \in 1..more : both[len + i] = next[i]
  BY <1>0
<1>2. /\ \A i \in 1..len : /\ from[i] \in 1..m /\ at[i] \in 1..Len(seqs[from[i]])
                           /\ flat[i] = seqs[from[i]][at[i]]
      /\ \A a \in 1..m : \A b \in 1..Len(seqs[a]) :
           \E i \in 1..len : from[i] = a /\ at[i] = b
      /\ \A i, j \in 1..len :
           i < j => from[i] < from[j] \/ (from[i] = from[j] /\ at[i] < at[j])
  BY DEF Places
<1> HIDE DEF len, more, both
<1>3. /\ \A i \in 1..len : i \in 1..(len + more) /\ g[i] = from[i] /\ h[i] = at[i]
      /\ \A i \in 1..(len + more) : i \notin 1..len =>
           g[i] = m + 1 /\ h[i] = i - len /\ i - len \in 1..more
  BY <1>1
<1> HIDE DEF g, h
<1>4. ASSUME NEW i \in 1..(len + more)
      PROVE  /\ g[i] \in 1..(m + 1) /\ h[i] \in 1..Len(seqs[g[i]])
             /\ both[i] = seqs[g[i]][h[i]]
  <2>1. CASE i \in 1..len
    <3>1. from[i] \in 1..(m + 1)
      BY <1>2, <2>1
    <3> QED BY <1>1, <1>2, <1>3, <2>1, <3>1
  <2>2. CASE i \notin 1..len
    <3>1. g[i] = m + 1 /\ h[i] = i - len /\ i - len \in 1..more /\ len + (i - len) = i
      BY <1>1, <1>3, <2>2
    <3>2. both[len + (i - len)] = next[i - len]
      BY <1>1, <3>1
    <3>3. m + 1 \in 1..(m + 1) /\ Len(seqs[m + 1]) = more
      BY DEF more
    <3> QED BY <3>1, <3>2, <3>3
  <2> QED BY <2>1, <2>2
<1>5. ASSUME NEW a \in 1..(m + 1), NEW b \in 1..Len(seqs[a])
      PROVE  \E i \in 1..(len + more) : g[i] = a /\ h[i] = b
  <2>1. CASE a \in 1..m
    <3>1. PICK i \in 1..len : from[i] = a /\ at[i] = b
      BY <1>2, <2>1
    <3> QED BY <1>3, <3>1
  <2>2. CASE a = m + 1
    <3>1. b \in 1..more
      BY <2>2 DEF more
    <3>2. len + b \in 1..(len + more) /\ len + b \notin 1..len /\ (len + b) - len = b
      BY <1>1, <3>1
    <3> QED BY <1>3, <2>2, <3>2
  <2> QED BY <2>1, <2>2
<1>6. ASSUME NEW i \in 1..(len + more), NEW j \in 1..(len + more), i < j
      PROVE  g[i] < g[j] \/ (g[i] = g[j] /\ h[i] < h[j])
  <2>1. CASE i \in 1..len /\ j \in 1..len
    BY <1>2, <1>3, <1>6, <2>1
  <2>2. CASE i \in 1..len /\ j \notin 1..len
    <3>1. g[i] \in 1..m /\ g[j] = m + 1
      BY <1>2, <1>3, <2>2
    <3> QED BY <3>1
  <2>3. CASE i \notin 1..len
    <3>1. j \notin 1..len
      BY <1>1, <1>6, <2>3
    <3>2. g[i] = m + 1 /\ g[j] = m + 1 /\ h[i] = i - len /\ h[j] = j - len
      BY <1>3, <2>3, <3>1
    <3> QED BY <1>1, <1>6, <3>2
  <2> QED BY <2>1, <2>2, <2>3
<1>7. Places(seqs, m + 1, both, g, h)
  BY <1>1, <1>4, <1>5, <1>6 DEF Places
<1> QED BY <1>7 DEF both

(***************************************************************************)
(* The places of a concatenation's elements in its vectors.                *)
(***************************************************************************)
LEMMA FlattenedPlaces ==
  ASSUME NEW seqs, IsSeq(seqs), \A a \in 1..Len(seqs) : IsSeq(seqs[a])
  PROVE  /\ IsSeq(FlattenSeq(seqs))
         /\ \E from, at : Places(seqs, Len(seqs), FlattenSeq(seqs), from, at)
<1> DEFINE n == Len(seqs)
<1>1. n \in Nat
  BY Vector
<1>2. CASE n = 0
  <2>1. FlattenSeq(seqs) = <<>>
    BY <1>2, NothingFlattens
  <2> DEFINE none == <<>>
  <2>2. none \in Seq({}) /\ Len(none) = 0
    OBVIOUS
  <2> HIDE DEF none
  <2>3. 1..Len(none) = {} /\ 1..n = {}
    BY <1>2, <2>2
  <2>4. Places(seqs, n, none, none, none)
    <3> HIDE DEF n
    <3> QED BY <2>3 DEF Places
  <2>5. IsSeq(none)
    BY <2>2 DEF IsSeq
  <2>6. FlattenSeq(seqs) = none
    BY <2>1 DEF none
  <2>7. \E from, at : Places(seqs, n, FlattenSeq(seqs), from, at)
    BY <2>4, <2>6
  <2> QED BY <2>5, <2>6, <2>7
<1>3. CASE n # 0
  <2>1. PICK f : /\ FlattenSeq(seqs) = f[n] /\ f[1] = seqs[1]
                 /\ \A i \in 2..n : f[i] = f[i - 1] \o seqs[i]
    BY <1>3, FlattensStepwise
  <2> DEFINE Placed1(m) == IsSeq(f[m]) /\ \E from, at : Places(seqs, m, f[m], from, at)
             I == {m \in Nat : m + 1 <= n => Placed1(m + 1)}
  <2>2. \A a \in 1..n : IsSeq(seqs[a])
    OBVIOUS
  <2> HIDE DEF n
  <2>3. 0 \in I
    <3>1. 1 \in 1..n /\ 0 + 1 = 1 /\ 1..1 = {1}
      BY <1>1, <1>3
    <3> DEFINE one == f[1]
               len == Len(one)
               g == [i \in 1..len |-> 1]
               h == [i \in 1..len |-> i]
    <3>2. IsSeq(one) /\ len \in Nat /\ one = seqs[1]
      BY <2>1, <2>2, <3>1, Vector
    <3>3. \A i \in 1..len : g[i] = 1 /\ h[i] = i
      OBVIOUS
    <3> HIDE DEF one, g, h
    <3>4. Places(seqs, 1, one, g, h)
      BY <3>1, <3>2, <3>3 DEF Places
    <3>5. Placed1(1)
      <4>1. \E from, at : Places(seqs, 1, one, from, at)
        BY <3>4
      <4> QED BY <3>2, <4>1 DEF one
    <3> HIDE DEF Placed1
    <3> QED BY <3>1, <3>5
  <2>4. ASSUME NEW m \in Nat, m \in I PROVE m + 1 \in I
    <3> SUFFICES ASSUME (m + 1) + 1 <= n PROVE Placed1((m + 1) + 1)
      <4> HIDE DEF Placed1
      <4> QED OBVIOUS
    <3>1. (m + 1) + 1 \in 2..n /\ ((m + 1) + 1) - 1 = m + 1 /\ m + 1 <= n
          /\ (m + 1) + 1 \in 1..n /\ m + 1 \in Nat
      BY <1>1
    <3>2. f[(m + 1) + 1] = f[m + 1] \o seqs[(m + 1) + 1]
      BY <2>1, <3>1
    <3>3. Placed1(m + 1)
      <4> HIDE DEF Placed1
      <4> QED BY <2>4, <3>1
    <3> DEFINE k == m + 1
               flat == f[k]
               next == seqs[k + 1]
    <3>4. IsSeq(flat) /\ IsSeq(next) /\ k \in Nat
      BY <2>2, <3>1, <3>3
    <3>5. PICK from, at : Places(seqs, k, flat, from, at)
      BY <3>3
    <3>6. next = seqs[k + 1]
      OBVIOUS
    <3>7. f[k + 1] = flat \o next
      BY <3>2
    <3> HIDE DEF k, flat, next
    <3>8. \E g, h : Places(seqs, k + 1, flat \o next, g, h)
      BY <3>4, <3>5, <3>6, PlacesGrow
    <3>9. IsSeq(flat \o next)
      BY <3>4, Concatenated
    <3> QED BY <3>7, <3>8, <3>9 DEF k
  <2>5. n - 1 \in I
    <3> HIDE DEF I
    <3>1. n - 1 \in Nat
      BY <1>1, <1>3
    <3> QED BY <2>3, <2>4, <3>1, Induction
  <2>6. Placed1(n)
    <3>1. (n - 1) + 1 = n
      BY <1>1
    <3> HIDE DEF Placed1
    <3> QED BY <1>1, <2>5, <3>1
  <2> QED BY <2>1, <2>6 DEF n
<1> QED BY <1>2, <1>3

(***************************************************************************)
(* The nodes' references.  Between two iterations every block that no      *)
(* other block refers to has its reference from a node.                    *)
(***************************************************************************)
NodeReferences ==
  {<< <<"data", i, 0>>, nodes[i].bidData>> : i \in DOMAIN nodes}
    \cup {<< <<"sub", i, 0>>, nodes[i].bidSub>> :
            i \in {j \in DOMAIN nodes : nodes[j].bidSub # 0}}

Woven ==
  /\ IsSeq(nodes)
  /\ Once(NodeReferences)
  /\ Web(sched, Targets(NodeReferences))

(***************************************************************************)
(* That is what the two properties of the blocks need.                     *)
(***************************************************************************)
LEMMA WovenBlocks ==
  ASSUME Woven
  PROVE  BlocksReferencedOnce /\ NextBidIsFree
<1>1. /\ Once(NodeReferences) /\ Web(sched, Targets(NodeReferences)) /\ Tidy(sched)
      /\ Targets(NodeReferences) \subseteq Bids(sched)
      /\ Once(BlockReferences(sched))
      /\ Targets(BlockReferences(sched)) = Bids(sched) \ Targets(NodeReferences)
  BY DEF Woven, Web
<1>2. References = NodeReferences \cup BlockReferences(sched)
  BY DEF References, NodeReferences
<1>3. /\ Once(NodeReferences \cup BlockReferences(sched))
      /\ Targets(NodeReferences \cup BlockReferences(sched))
           = Targets(NodeReferences) \cup Targets(BlockReferences(sched))
  <2>1. Targets(NodeReferences) \cap Targets(BlockReferences(sched)) = {}
    BY <1>1
  <2> QED BY <1>1, <2>1, OnceMore
<1>4. /\ IsInjective(AllBids(sched)) /\ ToSet(AllBids(sched)) = Bids(sched)
      /\ Len(AllBids(sched)) \in Nat
      /\ \A bid \in Bids(sched) : bid < DataBid(Len(AllBids(sched)) + 1)
  BY <1>1, AllBidsFacts
<1>5. Once(References) /\ Targets(References) = ToSet(AllBids(sched))
  BY <1>1, <1>2, <1>3, <1>4
<1>6. BlocksReferencedOnce
  BY <1>4, <1>5 DEF BlocksReferencedOnce, Once, Targets
<1>7. NextBidIsFree
  BY <1>4 DEF NextBidIsFree, BidNextB
<1> QED BY <1>6, <1>7

(***************************************************************************)
(* A new node refers to the blocks that wait for it.                       *)
(***************************************************************************)
LEMMA NodeWoven ==
  ASSUME Woven, NEW n, nodes' = Append(nodes, n),
         NEW subs, subs = IF n.bidSub = 0 THEN {} ELSE {n.bidSub},
         n.bidData \notin Bids(sched), subs \cap Bids(sched) = {}, n.bidData \notin subs,
         Web(sched', (Targets(NodeReferences) \cup subs) \cup {n.bidData})
  PROVE  Woven'
<1> DEFINE len == Len(nodes)
           data == << <<"data", len + 1, 0>>, n.bidData>>
           sub(b) == << <<"sub", len + 1, 0>>, b>>
           new == {data} \cup {sub(b) : b \in subs}
<1>1. /\ IsSeq(nodes) /\ Once(NodeReferences)
      /\ Targets(NodeReferences) \subseteq Bids(sched)
  BY DEF Woven, Web
<1>2. /\ len \in Nat /\ DOMAIN nodes = 1..len /\ DOMAIN nodes' = 1..(len + 1)
      /\ \A i \in 1..len : nodes'[i] = nodes[i]
      /\ nodes'[len + 1] = n
      /\ IsSeq(nodes')
  <2>1. PICK S : nodes \in Seq(S)
    BY <1>1 DEF IsSeq
  <2>2. /\ Append(nodes, n) \in Seq(S \cup {n})
        /\ len \in Nat /\ DOMAIN nodes = 1..len /\ DOMAIN Append(nodes, n) = 1..(len + 1)
        /\ \A i \in 1..len : Append(nodes, n)[i] = nodes[i]
        /\ Append(nodes, n)[len + 1] = n
    BY <2>1, AppendFacts
  <2>3. IsSeq(nodes')
    BY <2>2 DEF IsSeq
  <2> QED BY <2>2, <2>3
<1> HIDE DEF len
<1>3. 1..(len + 1) = 1..len \cup {len + 1}
  BY <1>2
<1>4. {<< <<"data", i, 0>>, nodes'[i].bidData>> : i \in 1..(len + 1)}
        = {<< <<"data", i, 0>>, nodes[i].bidData>> : i \in 1..len} \cup {data}
  BY <1>2, <1>3
<1> DEFINE Subs == {j \in 1..len : nodes[j].bidSub # 0}
           Subs1 == {j \in 1..(len + 1) : nodes'[j].bidSub # 0}
<1>5. {<< <<"sub", i, 0>>, nodes'[i].bidSub>> : i \in Subs1}
        = {<< <<"sub", i, 0>>, nodes[i].bidSub>> : i \in Subs} \cup {sub(b) : b \in subs}
  <2>1. CASE n.bidSub = 0
    <3>1. subs = {} /\ Subs1 = Subs
      BY <1>2, <1>3, <2>1
    <3>2. \A i \in Subs : nodes'[i] = nodes[i]
      BY <1>2
    <3> HIDE DEF Subs, Subs1
    <3> QED BY <3>1, <3>2
  <2>2. CASE n.bidSub # 0
    <3>1. subs = {n.bidSub} /\ Subs1 = Subs \cup {len + 1}
      BY <1>2, <1>3, <2>2
    <3>2. \A i \in Subs : nodes'[i] = nodes[i]
      BY <1>2
    <3> HIDE DEF Subs, Subs1
    <3> QED BY <1>2, <3>1, <3>2, ZenonT(30)
  <2> QED BY <2>1, <2>2
<1>6. NodeReferences' = NodeReferences \cup new
  <2> DEFINE D == {<< <<"data", i, 0>>, nodes[i].bidData>> : i \in 1..len}
             D1 == {<< <<"data", i, 0>>, nodes'[i].bidData>> : i \in 1..(len + 1)}
             B == {<< <<"sub", i, 0>>, nodes[i].bidSub>> : i \in Subs}
             B1 == {<< <<"sub", i, 0>>, nodes'[i].bidSub>> : i \in Subs1}
  <2>1. NodeReferences = D \cup B
    BY <1>2 DEF NodeReferences
  <2>2. NodeReferences' = D1 \cup B1
    BY <1>2 DEF NodeReferences
  <2>3. D1 = D \cup {data} /\ B1 = B \cup {sub(b) : b \in subs}
    BY <1>4, <1>5
  <2> HIDE DEF D, D1, B, B1, data, sub
  <2> QED BY <2>1, <2>2, <2>3
<1>7. Once(new) /\ Targets(new) = subs \cup {n.bidData}
  <2>1. ASSUME NEW p \in new, NEW q \in new, p[2] = q[2] PROVE p = q
    <3>1. p = data \/ \E b \in subs : p = sub(b)
      OBVIOUS
    <3>2. q = data \/ \E b \in subs : q = sub(b)
      OBVIOUS
    <3>3. data[2] = n.bidData /\ \A b : sub(b)[2] = b
      OBVIOUS
    <3> HIDE DEF data, sub, new
    <3> QED BY <2>1, <3>1, <3>2, <3>3
  <2>2. ASSUME NEW p \in new PROVE p[2] \in subs \cup {n.bidData}
    OBVIOUS
  <2>3. ASSUME NEW b \in subs \cup {n.bidData} PROVE \E p \in new : b = p[2]
    <3>1. CASE b = n.bidData
      <4>1. data \in new /\ data[2] = b
        BY <3>1
      <4> QED BY <4>1
    <3>2. CASE b \in subs
      <4>1. sub(b) \in new /\ sub(b)[2] = b
        BY <3>2
      <4> QED BY <4>1
    <3> QED BY <3>1, <3>2
  <2> HIDE DEF new
  <2> QED BY <2>1, <2>2, <2>3, ZenonT(30) DEF Once, Targets
<1> HIDE DEF new
<1>8. Targets(NodeReferences) \cap Targets(new) = {}
  BY <1>1, <1>7
<1>9. /\ Once(NodeReferences \cup new)
      /\ Targets(NodeReferences \cup new) = Targets(NodeReferences) \cup Targets(new)
  BY <1>1, <1>7, <1>8, OnceMore
<1>10. /\ Once(NodeReferences')
       /\ Targets(NodeReferences') = (Targets(NodeReferences) \cup subs) \cup {n.bidData}
  BY <1>6, <1>7, <1>9
<1>11. Once(NodeReferences)'
  BY <1>10 DEF Once
<1>12. Targets(NodeReferences)' = Targets(NodeReferences')
  BY DEF Targets
<1>13. Web(sched, Targets(NodeReferences))'
  <2>1. Web(sched', Targets(NodeReferences'))
    BY <1>10
  <2> QED BY <2>1, <1>12 DEF Web
<1> QED BY <1>2, <1>11, <1>13 DEF Woven, IsSeq

(***************************************************************************)
(* scheduleNode on top of the blocks of the node's subnodes, if any.       *)
(***************************************************************************)
LEMMA ScheduleNodeWoven ==
  ASSUME Woven, NEW s, NEW nid, NEW parent, NEW bidSub,
         NEW subs, subs = IF bidSub = 0 THEN {} ELSE {bidSub},
         Web(s, Targets(NodeReferences) \cup subs),
         Bids(sched) \cup subs \subseteq Bids(s), subs \cap Bids(sched) = {},
         ScheduleNode(s, nid, parent, bidSub)
  PROVE  Woven'
<1> DEFINE n == Node(nid, parent, DataBid(s.nextData), bidSub)
<1>1. sched' = AddDataBlock(s, 1) /\ nodes' = Append(nodes, n)
  BY DEF ScheduleNode
<1>2. n.bidData = DataBid(s.nextData) /\ n.bidSub = bidSub
  BY DEF Node
<1> HIDE DEF n
<1> DEFINE held == Targets(NodeReferences) \cup subs
<1>3. Web(sched', held \cup {n.bidData}) /\ n.bidData \notin Bids(s)
  <2>1. Web(s, held)
    OBVIOUS
  <2> HIDE DEF held
  <2> QED BY <1>1, <1>2, <2>1, DataBlockAdded
<1>4. n.bidData \notin Bids(sched) /\ n.bidData \notin subs
  BY <1>3
<1>5. subs = IF n.bidSub = 0 THEN {} ELSE {n.bidSub}
  BY <1>2
<1>6. Web(sched', (Targets(NodeReferences) \cup subs) \cup {n.bidData})
  BY <1>3
<1> QED BY <1>1, <1>4, <1>5, <1>6, NodeWoven

(***************************************************************************)
(* scheduleNode for a node without subnodes.                               *)
(***************************************************************************)
LEMMA PlainNodeWoven ==
  ASSUME Woven, NEW nid, NEW parent, ScheduleNode(sched, nid, parent, 0)
  PROVE  Woven'
<1> DEFINE none == {}
<1>1. none = IF 0 = 0 THEN {} ELSE {0}
  OBVIOUS
<1>2. Targets(NodeReferences) \cup none = Targets(NodeReferences)
  OBVIOUS
<1>3. Web(sched, Targets(NodeReferences) \cup none)
  BY <1>2 DEF Woven
<1>4. Bids(sched) \cup none \subseteq Bids(sched) /\ none \cap Bids(sched) = {}
  OBVIOUS
<1> HIDE DEF none
<1> QED BY <1>1, <1>3, <1>4, ScheduleNodeWoven

\* The blocks u with subnodes scheduled on top of s, to be listed under the
\* given entries.
SubnodesWait(s, waiting, u, entries) ==
  /\ SubnodeEntries(entries)
  /\ Web(u, waiting \cup BidsIn(entries))
  /\ BidsIn(entries) \cap Bids(s) = {}
  /\ Bids(s) \subseteq Bids(u)

(***************************************************************************)
(* That is how the loop over a node's payloads leaves them.                *)
(***************************************************************************)
LEMMA PiecesAreSubnodes ==
  ASSUME NEW s, NEW waiting, NEW acc, PiecesWait(s, waiting, acc)
  PROVE  SubnodesWait(s, waiting, acc.sched, acc.entries)
BY DEF PiecesWait, SubnodesWait, SubnodeEntries

\* Of the blocks t of a node with subnodes none waits but its SLBLOCK, a new one.
SubnodeTree(s, waiting, t, sub) ==
  /\ Web(t, waiting \cup {sub})
  /\ sub \notin Bids(s) /\ sub \in Nat \ {0}
  /\ Bids(s) \cup {sub} \subseteq Bids(t)

(***************************************************************************)
(* The SLBLOCK over subnodes just scheduled: only it waits then.           *)
(***************************************************************************)
LEMMA SubnodesListed ==
  ASSUME NEW s, NEW waiting, waiting \subseteq Bids(s),
         NEW u, NEW entries, SubnodesWait(s, waiting, u, entries)
  PROVE  SubnodeTree(s, waiting, AddSlBlock(u, entries), InternalBid(u.nextInternal))
<1> DEFINE t == AddSlBlock(u, entries)
           sub == InternalBid(u.nextInternal)
           refs == BidsIn(entries)
           held == waiting \cup refs
<1>1. /\ SubnodeEntries(entries) /\ refs \subseteq held
      /\ Web(u, held) /\ refs \cap Bids(s) = {} /\ Bids(s) \subseteq Bids(u)
  BY DEF SubnodesWait
<1>2. BidsIn(entries) \subseteq held
  OBVIOUS
<1>3. Tidy(u)
  BY <1>1 DEF Web
<1> HIDE DEF held
<1>4. /\ Web(t, (held \ BidsIn(entries)) \cup {InternalBid(u.nextInternal)})
      /\ InternalBid(u.nextInternal) \notin Bids(u)
      /\ Bids(t) = Bids(u) \cup {InternalBid(u.nextInternal)}
      /\ t.nextData = u.nextData /\ t.nextInternal = u.nextInternal + 1
  BY <1>1, <1>2, SlBlockAdded
<1>5. held \ refs = waiting
  BY <1>1 DEF held
<1>6. sub \in Nat \ {0}
  <2>1. u.nextInternal \in Nat
    BY <1>3, NextInternalBid
  <2> QED BY <2>1, BidsDiffer
<1>7. t = AddSlBlock(u, entries) /\ sub = InternalBid(u.nextInternal)
  OBVIOUS
<1> HIDE DEF t, sub
<1>8. SubnodeTree(s, waiting, t, sub)
  BY <1>1, <1>4, <1>5, <1>6, <1>7 DEF SubnodeTree
<1> QED BY <1>8 DEF t, sub

(***************************************************************************)
(* The same with the node's own block scheduled in between.                *)
(***************************************************************************)
LEMMA SubnodesListedLater ==
  ASSUME NEW s, NEW waiting, waiting \subseteq Bids(s),
         NEW u, NEW entries, SubnodesWait(s, waiting, u, entries),
         NEW own, own = AddDataBlock(u, 1),
         NEW data, data = DataBid(u.nextData),
         NEW t, t = AddSlBlock(own, entries),
         NEW sub, sub = InternalBid(own.nextInternal)
  PROVE  /\ Web(t, (waiting \cup {sub}) \cup {data})
         /\ sub \notin Bids(s) /\ sub \in Nat \ {0}
         /\ data \notin Bids(s) /\ data \in Nat /\ data # sub
<1> DEFINE refs == BidsIn(entries)
           held == waiting \cup refs
<1>1. /\ SubnodeEntries(entries)
      /\ Web(u, held) /\ refs \cap Bids(s) = {} /\ Bids(s) \subseteq Bids(u)
  BY DEF SubnodesWait
<1>2. refs \subseteq held /\ held \subseteq Bids(u)
  BY <1>1 DEF Web
<1>3. /\ Web(own, held \cup {data}) /\ data \notin Bids(u) /\ data \in Nat
      /\ Bids(own) = Bids(u) \cup {data}
  <2>1. own = AddDataBlock(u, 1) /\ data = DataBid(u.nextData)
    OBVIOUS
  <2>2. Web(u, held)
    BY <1>1
  <2>3. own = AddDataBlock(u, 1)
    BY <2>1
  <2> HIDE DEF held
  <2>4. /\ Web(own, held \cup {DataBid(u.nextData)})
        /\ DataBid(u.nextData) \notin Bids(u) /\ DataBid(u.nextData) \in Nat
        /\ Bids(own) = Bids(u) \cup {DataBid(u.nextData)}
        /\ own.nextInternal = u.nextInternal
    BY <2>2, <2>3, DataBlockAdded
  <2> QED BY <2>1, <2>4
<1> DEFINE more == held \cup {data}
<1>4. /\ Web(t, (more \ refs) \cup {sub})
      /\ sub \notin Bids(own)
  <2>1. t = AddSlBlock(own, entries) /\ sub = InternalBid(own.nextInternal)
    OBVIOUS
  <2>2. BidsIn(entries) \subseteq more /\ Web(own, more)
    BY <1>2, <1>3
  <2>3. SubnodeEntries(entries)
    BY <1>1
  <2>4. t = AddSlBlock(own, entries)
    BY <2>1
  <2> HIDE DEF held, more
  <2>5. /\ Web(t, (more \ BidsIn(entries)) \cup {InternalBid(own.nextInternal)})
        /\ InternalBid(own.nextInternal) \notin Bids(own)
        /\ Bids(t) = Bids(own) \cup {InternalBid(own.nextInternal)}
        /\ t.nextData = own.nextData /\ t.nextInternal = own.nextInternal + 1
    BY <2>2, <2>3, <2>4, SlBlockAdded
  <2> QED BY <2>1, <2>5 DEF refs
<1>5. (more \ refs) \cup {sub} = (waiting \cup {sub}) \cup {data}
  BY <1>1, <1>2, <1>3
<1>6. sub \in Nat \ {0}
  <2>1. Tidy(own)
    BY <1>3 DEF Web
  <2>2. own.nextInternal \in Nat
    BY <2>1, NextInternalBid
  <2> QED BY <2>2, BidsDiffer
<1> QED BY <1>1, <1>3, <1>4, <1>5, <1>6

(***************************************************************************)
(* A writer starts with the baseline's nodes and a block for each.         *)
(***************************************************************************)
LEMMA BaselineWoven ==
  ASSUME Init
  PROVE  Woven
<1> DEFINE b == Baseline(config.omitRft)
           n == Len(b)
           s == NothingScheduled
           sizes == [i \in 1..n |-> 1]
           none == {}
<1>1. /\ n \in Nat /\ DOMAIN b = 1..n
  <2>1. config.omitRft \in BOOLEAN
    BY Configured DEF Init
  <2> QED BY <2>1, BaselineAssumption
<1>2. /\ nodes = [i \in 1..n |-> Node(b[i][1], b[i][2], DataBid(i), 0)]
      /\ sched = AddDataBlocks(s, sizes)
  BY <1>1 DEF Init
<1> HIDE DEF n, b
<1>3. IsSeq(sizes) /\ Len(sizes) = n
  BY <1>1, FunctionIsVector
<1>4. /\ IsSeq(nodes) /\ DOMAIN nodes = 1..n
      /\ \A i \in 1..n : nodes[i].bidData = DataBid(i) /\ nodes[i].bidSub = 0
  <2>1. IsSeq(nodes)
    BY <1>1, <1>2, FunctionIsVector
  <2> QED BY <1>2, <2>1 DEF Node
<1>5. /\ DOMAIN s = {"nextData", "nextInternal", "data", "x", "sl"}
      /\ s.nextData = 1 /\ s.nextInternal = 1
      /\ s.data = <<>> /\ s.x = <<>> /\ s.sl = <<>>
  BY DEF NothingScheduled
<1> HIDE DEF s, sizes
<1>6. Web(s, none) /\ Bids(s) = {}
  <2> DEFINE e == <<>>
  <2>1. IsSeq(e) /\ Len(e) = 0 /\ DOMAIN e = {}
    <3>1. <<>> \in Seq({})
      OBVIOUS
    <3> QED BY <3>1 DEF IsSeq
  <2>2. s.data = e /\ s.x = e /\ s.sl = e
    BY <1>5
  <2> HIDE DEF e
  <2>3. 1..Len(e) = {} /\ 1..(s.nextData - 1) = {} /\ 1..(s.nextInternal - 1) = {}
    BY <1>5, <2>1
  <2>4. BidsIn(e) = {} /\ OwnBids(e)
    BY <2>3 DEF BidsIn, OwnBids
  <2>5. InternalBids(s) = {} /\ Bids(s) = {}
    BY <2>3 DEF InternalBids, DataBids, Bids
  <2>6. BlockReferences(s) = {}
    BY <2>1, <2>2 DEF BlockReferences
  <2>7. Once(BlockReferences(s)) /\ Targets(BlockReferences(s)) = {}
    BY <2>6 DEF Once, Targets
  <2>8. s.nextData = Len(s.data) + 1 /\ s.nextInternal = Len(s.x) + Len(s.sl) + 1
    BY <1>5, <2>1, <2>2
  <2>9. \A i \in 1..Len(s.data) : s.data[i].bid = DataBid(i)
    BY <2>2, <2>3
  <2>10. Tidy(s)
    BY <1>5, <2>1, <2>2, <2>4, <2>5, <2>8, <2>9 DEF Tidy
  <2> QED BY <2>5, <2>7, <2>10 DEF Web
<1> DEFINE new == NextDataBids(s, Len(sizes))
<1>7. Web(sched, none \cup new)
  <2>1. new = NextDataBids(s, Len(sizes)) /\ Web(s, none)
    BY <1>6
  <2> HIDE DEF new, none
  <2> QED BY <1>2, <1>3, <2>1, DataAdded
<1>8. new = {DataBid(i) : i \in 1..n}
  <2>1. \A i \in 1..n : s.nextData + i - 1 = i
    BY <1>1, <1>5
  <2>2. new = {DataBid(s.nextData + i - 1) : i \in 1..n}
    BY <1>3 DEF NextDataBids
  <2> QED BY <2>1, <2>2
<1> HIDE DEF new
<1>9. NodeReferences = {<< <<"data", i, 0>>, DataBid(i)>> : i \in 1..n}
  <2>1. {j \in DOMAIN nodes : nodes[j].bidSub # 0} = {}
    BY <1>4
  <2>2. {<< <<"data", i, 0>>, nodes[i].bidData>> : i \in DOMAIN nodes}
          = {<< <<"data", i, 0>>, DataBid(i)>> : i \in 1..n}
    BY <1>4
  <2> QED BY <2>1, <2>2 DEF NodeReferences
<1>10. Targets(NodeReferences) = none \cup new
  <2>1. ASSUME NEW p \in NodeReferences PROVE p[2] \in new
    BY <1>8, <1>9
  <2>2. ASSUME NEW i \in 1..n PROVE \E p \in NodeReferences : DataBid(i) = p[2]
    <3>1. << <<"data", i, 0>>, DataBid(i)>> \in NodeReferences
      BY <1>9
    <3> QED BY <3>1
  <2> QED BY <1>8, <2>1, <2>2 DEF Targets
<1>11. Once(NodeReferences)
  <2>1. ASSUME NEW p \in NodeReferences, NEW q \in NodeReferences, p[2] = q[2] PROVE p = q
    <3>1. PICK i \in 1..n : p = << <<"data", i, 0>>, DataBid(i)>>
      BY <1>9
    <3>2. PICK j \in 1..n : q = << <<"data", j, 0>>, DataBid(j)>>
      BY <1>9
    <3>3. i \in Nat /\ j \in Nat /\ DataBid(i) = DataBid(j)
      BY <1>1, <2>1, <3>1, <3>2
    <3>4. i = j
      BY <3>3, BidsDiffer
    <3> QED BY <3>1, <3>2, <3>4
  <2> QED BY <2>1 DEF Once
<1> QED BY <1>4, <1>7, <1>10, <1>11 DEF Woven

(***************************************************************************)
(* Steps that schedule nothing.                                            *)
(***************************************************************************)
LEMMA StillWoven ==
  ASSUME Woven, UNCHANGED <<nodes, sched>>
  PROVE  Woven'
BY DEF Woven, Web, NodeReferences, IsSeq, Once, Targets

(***************************************************************************)
(* An index and a type make a NID, whatever the index.                     *)
(***************************************************************************)
LEMMA NidIsNat ==
  ASSUME NEW nt \in Nat, NEW idx \in Nat
  PROVE  Nid(nt, idx) \in Nat
<1>1. idx % IndexSpace \in Nat
  <2>1. IndexSpace \in Nat \ {0}
    BY Ceiling
  <2>2. idx % IndexSpace \in 0..(IndexSpace - 1)
    BY <2>1, QuotientAndRest
  <2> QED BY <2>1, <2>2
<1>2. nt % 32 \in Nat
  OBVIOUS
<1> DEFINE r == idx % IndexSpace
<1> HIDE DEF r
<1>3. r \in Nat
  BY <1>1 DEF r
<1> QED BY <1>2, <1>3 DEF Nid, r

(***************************************************************************)
(* A folder's nodes have NIDs.                                             *)
(***************************************************************************)
LEMMA FolderNodeIsNat ==
  ASSUME NEW t \in Nat, NEW folder \in Nat
  PROVE  Store!FolderNode(t, folder) \in Nat
<1>1. NidIndexOf(folder) \in Nat
  BY DEF NidIndexOf
<1>2. Store!FolderNode(t, folder) = Nid(t, NidIndexOf(folder))
  BY SameNames DEF Store!FolderNode
<1> QED BY <1>1, <1>2, NidIsNat

(***************************************************************************)
(* Types of the allocator's state, as the writers see it.                  *)
(***************************************************************************)
AllocatorTyped ==
  /\ allocated \in SUBSET Nat
  /\ nextIndex \in [0..31 -> Nat]
  /\ \A nt \in 0..31 : nextIndex[nt] \in StartIndex(nt)..MaxNidIndex
  /\ ret \in [ok : BOOLEAN, nid : Nat]

(***************************************************************************)
(* allocate keeps the counters within the index space.                     *)
(***************************************************************************)
LEMMA AllocateTyped ==
  ASSUME AllocatorTyped, NEW nt \in {NormalFolder, NormalMessage}, Store!Alloc!Allocate(nt)
  PROVE  AllocatorTyped'
<1>0. nt \in 0..31 /\ StartIndex(nt) \in Nat
  BY DEF NormalFolder, NormalMessage, StartIndex, kUserAllocStart
<1>1. ASSUME NEW idx \in Store!Alloc!Remaining(nt), Store!Alloc!Take(nt, idx)
      PROVE  AllocatorTyped'
  <2>1. idx \in Nat /\ StartIndex(nt) <= idx /\ idx < MaxNidIndex
    BY <1>0, Ceiling DEF AllocatorTyped, Store!Alloc!Remaining
  <2>2. Nid(nt, idx) \in Nat
    <3>1. nt \in Nat /\ idx \in Nat
      BY <1>0, <2>1
    <3> QED BY <3>1, NidIsNat
  <2>3. /\ nextIndex' = [nextIndex EXCEPT ![nt] = idx + 1]
        /\ ret' = [ok |-> TRUE, nid |-> Nid(nt, idx)]
        /\ allocated' = allocated \cup {Nid(nt, idx)}
    BY <1>1, SameNames DEF Store!Alloc!Take, Store!Alloc!Returned
  <2>4. allocated' \in SUBSET Nat /\ ret' \in [ok : BOOLEAN, nid : Nat]
    BY <2>2, <2>3 DEF AllocatorTyped
  <2>5. nextIndex' \in [0..31 -> Nat]
    <3>1. nextIndex' = [nextIndex EXCEPT ![nt] = idx + 1] /\ idx + 1 \in Nat
      BY <2>1, <2>3
    <3> QED BY <3>1 DEF AllocatorTyped
  <2>6. ASSUME NEW u \in 0..31 PROVE nextIndex'[u] \in StartIndex(u)..MaxNidIndex
    <3>1. nextIndex'[u] = IF u = nt THEN idx + 1 ELSE nextIndex[u]
      BY <2>3 DEF AllocatorTyped
    <3> QED BY <2>1, <3>1, StartsAreNat, Ceiling DEF AllocatorTyped
  <2> QED BY <2>4, <2>5, <2>6 DEF AllocatorTyped
<1>2. ASSUME Store!Alloc!Exhausted(nt)
      PROVE  AllocatorTyped'
  <2>1. /\ nextIndex' = [nextIndex EXCEPT ![nt] = MaxNidIndex]
        /\ ret' = [ok |-> FALSE, nid |-> 0] /\ allocated' = allocated
    BY <1>2 DEF Store!Alloc!Exhausted, Store!Alloc!Threw
  <2>2. nextIndex' \in [0..31 -> Nat]
    BY <2>1, Ceiling DEF AllocatorTyped
  <2>3. ASSUME NEW u \in 0..31 PROVE nextIndex'[u] \in StartIndex(u)..MaxNidIndex
    <3>1. nextIndex'[u] = IF u = nt THEN MaxNidIndex ELSE nextIndex[u]
      BY <2>1 DEF AllocatorTyped
    <3> QED BY <3>1, StartsAreNat, Ceiling DEF AllocatorTyped
  <2>4. ret' \in [ok : BOOLEAN, nid : Nat]
    BY <2>1
  <2> QED BY <2>1, <2>2, <2>3, <2>4 DEF AllocatorTyped
<1>3. Store!Alloc!IsValidNidType(nt)
  BY DEF Store!Alloc!IsValidNidType, Store!Alloc!ValidNidTypes, NormalFolder, NormalMessage
<1> QED BY <1>1, <1>2, <1>3 DEF Store!Alloc!Allocate

(***************************************************************************)
(* A registration of a NID, of either outcome.                             *)
(***************************************************************************)
LEMMA RegisterTyped ==
  ASSUME AllocatorTyped, NEW nid \in Nat, Store!Alloc!RegisterExternal(nid)
  PROVE  AllocatorTyped'
<1>1. nextIndex' = nextIndex /\ allocated' \subseteq allocated \cup {nid}
      /\ ret' \in [ok : BOOLEAN, nid : Nat]
  <2>1. CASE Store!Alloc!Registrable(nid)
    <3>1. ret' = [ok |-> TRUE, nid |-> nid] /\ nextIndex' = nextIndex
          /\ allocated' = allocated \cup {nid}
      BY <2>1 DEF Store!Alloc!RegisterExternal, Store!Alloc!Returned
    <3> QED BY <3>1
  <2>2. CASE ~Store!Alloc!Registrable(nid)
    <3>1. ret' = [ok |-> FALSE, nid |-> 0] /\ nextIndex' = nextIndex /\ allocated' = allocated
      BY <2>2 DEF Store!Alloc!RegisterExternal, Store!Alloc!Throw, Store!Alloc!Threw
    <3> QED BY <3>1
  <2> QED BY <2>1, <2>2
<1>2. allocated' \in SUBSET Nat
  BY <1>1 DEF AllocatorTyped
<1> QED BY <1>1, <1>2 DEF AllocatorTyped

(***************************************************************************)
(* The items of a configuration, each with its folder.                     *)
(***************************************************************************)
ItemsOf(f) ==
  {[folder |-> f, src |-> config.folders[f].items[i]] : i \in DOMAIN config.folders[f].items}

ItemsInFolders == UNION {ItemsOf(f) : f \in 1..NumFolders}

(***************************************************************************)
(* The loops over the items meet items of the configuration only.          *)
(***************************************************************************)
LEMMA AllItemsFacts ==
  ASSUME config \in Configs
  PROVE  /\ AllItems \in Seq(ItemsInFolders)
         /\ Len(AllItems) \in Nat
         /\ DOMAIN config.folders = 1..NumFolders
<1>1. /\ NumFolders \in Nat /\ DOMAIN config.folders = 1..NumFolders
      /\ \A f \in 1..NumFolders :
           config.folders[f].items \in Seq(ToSet(config.folders[f].items))
  BY ConfigsAssumption DEF NumFolders
<1>2. ASSUME NEW f \in 1..NumFolders PROVE FolderItems(f) \in Seq(ItemsInFolders)
  <2> DEFINE items == config.folders[f].items
             n == Len(items)
             item(i) == [folder |-> f, src |-> items[i]]
             pieces == [i \in DOMAIN items |->
                          IF items[i].kind = "null" THEN <<>> ELSE <<item(i)>>]
  <2>1. n \in Nat /\ DOMAIN items = 1..n
    <3>1. items \in Seq(ToSet(items))
      BY <1>1
    <3> HIDE DEF items
    <3> QED BY <3>1
  <2>2. FolderItems(f) = FlattenSeq(pieces)
    BY DEF FolderItems
  <2>3. ASSUME NEW i \in 1..n PROVE item(i) \in ItemsInFolders
    <3>1. item(i) \in ItemsOf(f)
      BY <2>1, <2>3 DEF ItemsOf
    <3> QED BY <3>1 DEF ItemsInFolders
  <2>4. pieces = [i \in 1..n |-> pieces[i]] /\ \A i \in 1..n :
          pieces[i] = <<>> \/ pieces[i] = <<item(i)>>
    <3> HIDE DEF item, items
    <3>1. n \in Nat /\ DOMAIN items = 1..n
      BY <2>1
    <3> HIDE DEF n
    <3> QED BY <3>1
  <2> HIDE DEF pieces, item, n, items
  <2>5. IsSeq(pieces) /\ Len(pieces) = n
    BY <2>1, <2>4, FunctionIsVector
  <2>6. ASSUME NEW i \in 1..n PROVE pieces[i] \in Seq(ItemsInFolders)
    <3>1. <<>> \in Seq(ItemsInFolders) /\ <<item(i)>> \in Seq(ItemsInFolders)
      BY <2>3
    <3> QED BY <2>4, <3>1
  <2>7. FlattenSeq(pieces) \in Seq(ItemsInFolders)
    BY <2>5, <2>6, Flattened
  <2> QED BY <2>2, <2>7
<1> DEFINE lists == [f \in DOMAIN config.folders |-> FolderItems(f)]
           n == NumFolders
<1>3. AllItems = FlattenSeq(lists)
  BY DEF AllItems
<1>4. lists = [f \in 1..n |-> lists[f]] /\ \A f \in 1..n : lists[f] \in Seq(ItemsInFolders)
  BY <1>1, <1>2
<1> HIDE DEF lists, n
<1>5. IsSeq(lists) /\ Len(lists) = n
  <2>1. n \in Nat
    BY <1>1 DEF n
  <2> QED BY <1>4, <2>1, FunctionIsVector
<1>6. FlattenSeq(lists) \in Seq(ItemsInFolders)
  BY <1>4, <1>5, Flattened
<1> QED BY <1>1, <1>3, <1>6

(***************************************************************************)
(* The state of a writer, running or not.  What is scheduled and numbered  *)
(* has the types the format asks for; the items that have their NIDs are   *)
(* the first of the configuration; the blocks are woven into the nodes.    *)
(***************************************************************************)
NodeRecord == [nid : Nat, parent : Nat, bidData : Nat, bidSub : Nat]

FoldersNumbered == folderRecs \in Seq(Nat) /\ Len(folderRecs) <= NumFolders

ItemsNumbered ==
  /\ IsSeq(itemRecs) /\ Len(itemRecs) <= Len(AllItems)
  /\ \A i \in 1..Len(itemRecs) :
       /\ itemRecs[i].nid \in Nat
       /\ itemRecs[i].folder = AllItems[i].folder /\ itemRecs[i].src = AllItems[i].src

NodesWritten ==
  /\ Woven
  /\ \A i \in 1..Len(nodes) : nodes[i] \in NodeRecord

Typed ==
  /\ config \in Configs /\ step \in Nat /\ siblings \in 0..3
  /\ AllocatorTyped
  /\ FoldersNumbered
  /\ ItemsNumbered
  /\ NodesWritten

(***************************************************************************)
(* That covers the writers' type invariant.                                *)
(***************************************************************************)
LEMMA TypedIsTypeOK ==
  ASSUME Typed
  PROVE  WriterTypeOK
<1>1. Store!Alloc!TypeOK
  BY SameNames DEF Typed, AllocatorTyped, Store!Alloc!TypeOK
<1>2. DOMAIN itemRecs = 1..Len(itemRecs) /\ DOMAIN nodes = 1..Len(nodes)
  BY Vector DEF Typed, ItemsNumbered, NodesWritten, Woven
<1>3. \A n \in ToSet(nodes) : n \in [nid : Nat, parent : Nat, bidData : Nat, bidSub : Nat]
  BY <1>2 DEF Typed, NodesWritten, NodeRecord, ToSet
<1>4. \A i \in DOMAIN itemRecs : itemRecs[i].nid \in Nat
                                 /\ itemRecs[i].folder = AllItems[i].folder
  BY <1>2 DEF Typed, ItemsNumbered
<1>5. sched.nextData = Len(sched.data) + 1
      /\ sched.nextInternal = Len(sched.x) + Len(sched.sl) + 1
  BY DEF Typed, NodesWritten, Woven, Web, Tidy
<1> QED BY <1>1, <1>3, <1>4, <1>5 DEF Typed, FoldersNumbered, ItemsNumbered, WriterTypeOK

(***************************************************************************)
(* What a step leaves alone stays as it should be.                         *)
(***************************************************************************)
LEMMA FoldersKept ==
  ASSUME FoldersNumbered, UNCHANGED <<config, folderRecs>>
  PROVE  FoldersNumbered'
BY DEF FoldersNumbered, NumFolders

(***************************************************************************)
(* The numbered items are those of the configuration as long as neither    *)
(* changes.                                                                *)
(***************************************************************************)
LEMMA ItemsKept ==
  ASSUME ItemsNumbered, UNCHANGED <<config, itemRecs>>
  PROVE  ItemsNumbered'
<1>1. AllItems' = AllItems
  BY DEF AllItems, FolderItems
<1> QED BY <1>1 DEF ItemsNumbered, IsSeq

(***************************************************************************)
(* Nodes and blocks hang together as long as nothing is scheduled.         *)
(***************************************************************************)
LEMMA NodesKept ==
  ASSUME NodesWritten, UNCHANGED <<nodes, sched>>
  PROVE  NodesWritten'
BY StillWoven DEF NodesWritten, NodeRecord

(***************************************************************************)
(* The allocator's variables as they were.                                 *)
(***************************************************************************)
LEMMA AllocatorKept ==
  ASSUME AllocatorTyped, UNCHANGED allocVars
  PROVE  AllocatorTyped'
BY DEF AllocatorTyped, allocVars

(***************************************************************************)
(* A step that schedules and numbers nothing.                              *)
(***************************************************************************)
LEMMA NothingDone ==
  ASSUME Typed, step' \in Nat,
         UNCHANGED <<config, siblings, allocVars, folderRecs, itemRecs, nodes, sched>>
  PROVE  Typed'
<1>1. AllocatorTyped'
  BY AllocatorKept DEF Typed
<1>2. FoldersNumbered' /\ ItemsNumbered' /\ NodesWritten'
  BY FoldersKept, ItemsKept, NodesKept DEF Typed
<1> QED BY <1>1, <1>2 DEF Typed

(***************************************************************************)
(* A step that schedules a node and numbers nothing.                       *)
(***************************************************************************)
LEMMA NodeDone ==
  ASSUME Typed, step' \in Nat, NodesWritten',
         UNCHANGED <<config, siblings, allocVars, folderRecs, itemRecs>>
  PROVE  Typed'
<1>1. AllocatorTyped'
  BY AllocatorKept DEF Typed
<1>2. FoldersNumbered' /\ ItemsNumbered'
  BY FoldersKept, ItemsKept DEF Typed
<1> QED BY <1>1, <1>2 DEF Typed

(***************************************************************************)
(* One node more.                                                          *)
(***************************************************************************)
LEMMA NodeWritten ==
  ASSUME NodesWritten, Woven', NEW n \in NodeRecord, nodes' = Append(nodes, n)
  PROVE  NodesWritten'
<1>1. PICK S : nodes \in Seq(S)
  BY DEF NodesWritten, Woven, IsSeq
<1> DEFINE len == Len(nodes)
<1>2. /\ len \in Nat /\ Len(nodes') = len + 1
      /\ \A i \in 1..len : nodes'[i] = nodes[i]
      /\ nodes'[len + 1] = n
  BY <1>1, AppendFacts
<1>3. \A i \in 1..len : nodes[i] \in NodeRecord
  BY DEF NodesWritten
<1> HIDE DEF len
<1>4. ASSUME NEW i \in 1..Len(nodes') PROVE nodes'[i] \in NodeRecord
  <2>1. i \in 1..len \/ i = len + 1
    BY <1>2
  <2> QED BY <1>2, <1>3, <2>1
<1>5. \A i \in 1..Len(nodes') : nodes'[i] \in NodeRecord'
  BY <1>4 DEF NodeRecord
<1> QED BY <1>5 DEF NodesWritten

(***************************************************************************)
(* scheduleNode for a node without subnodes.                               *)
(***************************************************************************)
LEMMA PlainNodeWritten ==
  ASSUME NodesWritten, NEW nid \in Nat, NEW parent \in Nat,
         ScheduleNode(sched, nid, parent, 0)
  PROVE  NodesWritten'
<1> DEFINE n == Node(nid, parent, DataBid(sched.nextData), 0)
<1>1. DataBid(sched.nextData) \in Nat
  <2> DEFINE nd == Len(sched.data)
  <2>1. nd \in Nat /\ sched.nextData = nd + 1
    BY Vector DEF NodesWritten, Woven, Web, Tidy
  <2> HIDE DEF nd
  <2> QED BY <2>1 DEF DataBid
<1>2. n \in NodeRecord
  BY <1>1 DEF Node, NodeRecord
<1>3. nodes' = Append(nodes, n)
  BY DEF ScheduleNode
<1>4. Woven'
  BY PlainNodeWoven DEF NodesWritten
<1> HIDE DEF n
<1> QED BY <1>2, <1>3, <1>4, NodeWritten

-----------------------------------------------------------------------------

(***************************************************************************)
(* The steps the writers share, one by one.  A writer begins typed.        *)
(***************************************************************************)
LEMMA InitTyped ==
  ASSUME Init
  PROVE  Typed
<1> DEFINE b == Baseline(config.omitRft)
           none == <<>>
<1>1. /\ config \in Configs /\ step = 0 /\ siblings = 3 /\ Store!Alloc!Init
      /\ folderRecs = none /\ itemRecs = none
  BY DEF Init
<1>2. /\ Len(b) \in Nat /\ DOMAIN b = 1..Len(b)
      /\ \A i \in DOMAIN b : b[i] \in Nat \X Nat
  BY <1>1, Configured, BaselineAssumption
<1>3. nodes = [i \in 1..Len(b) |-> Node(b[i][1], b[i][2], DataBid(i), 0)]
  BY <1>2 DEF Init
<1>4. NumFolders \in Nat /\ Len(AllItems) \in Nat
  BY <1>1, Configured, AllItemsFacts
<1> HIDE DEF b
<1>5. \A i \in 1..Len(nodes) : nodes[i] \in NodeRecord
  <2>1. Len(nodes) = Len(b) /\ \A i \in 1..Len(b) : DataBid(i) \in Nat
    BY <1>2, <1>3 DEF DataBid
  <2> QED BY <1>2, <1>3, <2>1 DEF Node, NodeRecord
<1>6. AllocatorTyped
  <2>1. /\ allocated = ReservedTable /\ nextIndex = [nt \in 0..31 |-> StartIndex(nt)]
        /\ ret = [ok |-> FALSE, nid |-> 0]
    BY <1>1, SameNames DEF Store!Alloc!Init, Store!Alloc!Threw
  <2>2. allocated \in SUBSET Nat
    BY <2>1 DEF ReservedTable
  <2>3. nextIndex \in [0..31 -> Nat]
        /\ \A nt \in 0..31 : nextIndex[nt] \in StartIndex(nt)..MaxNidIndex
    BY <2>1, StartsAreNat, Ceiling
  <2>4. ret \in [ok : BOOLEAN, nid : Nat]
    BY <2>1
  <2> QED BY <2>2, <2>3, <2>4 DEF AllocatorTyped
<1>7. none \in Seq(Nat) /\ IsSeq(none) /\ Len(none) = 0
  <2>1. none \in Seq(Nat) /\ Len(none) = 0
    OBVIOUS
  <2> QED BY <2>1 DEF IsSeq
<1> HIDE DEF none
<1>8. FoldersNumbered
  BY <1>1, <1>4, <1>7 DEF FoldersNumbered
<1>9. ItemsNumbered
  <2>1. 1..Len(itemRecs) = {} /\ Len(itemRecs) = 0
    BY <1>1, <1>7
  <2> QED BY <1>1, <1>4, <1>7, <2>1 DEF ItemsNumbered
<1> QED BY <1>1, <1>5, <1>6, <1>8, <1>9, BaselineWoven DEF Typed, NodesWritten

(***************************************************************************)
(* registerBaselineReservedNids takes NIDs.                                *)
(***************************************************************************)
LEMMA RegisterBaselineNidsTyped ==
  ASSUME Typed, RegisterBaselineNids
  PROVE  Typed'
<1>1. /\ allocated' = allocated \cup Store!RegisteredBaseline
      /\ UNCHANGED <<config, step, siblings, nextIndex, ret, folderRecs, itemRecs, nodes, sched>>
  BY DEF RegisterBaselineNids
<1>2. Store!RegisteredBaseline \subseteq Nat
  BY DEF Store!RegisteredBaseline, Store!kReserved
<1>3. AllocatorTyped'
  BY <1>1, <1>2 DEF Typed, AllocatorTyped
<1>4. FoldersNumbered' /\ ItemsNumbered' /\ NodesWritten'
  BY <1>1, FoldersKept, ItemsKept, NodesKept DEF Typed
<1> QED BY <1>1, <1>3, <1>4 DEF Typed

(***************************************************************************)
(* A folder's NID, of which the loop has as many as iterations.            *)
(***************************************************************************)
LEMMA AllocateFolderTyped ==
  ASSUME Typed, Common, AllocateFolder
  PROVE  Typed'
<1>1. /\ phase = "folders" /\ step < NumFolders
      /\ Store!Alloc!Allocate(NormalFolder)
      /\ UNCHANGED <<config, itemRecs, nodes, sched>>
      /\ IF ret'.ok
         THEN folderRecs' = Append(folderRecs, ret'.nid) /\ siblings' = 0 /\ step' = step + 1
         ELSE step' = step /\ UNCHANGED <<folderRecs, siblings>>
  BY DEF AllocateFolder, InLoop, Iterated, Threw
<1>2. AllocatorTyped'
  <2>1. NormalFolder \in {NormalFolder, NormalMessage} /\ AllocatorTyped
    BY DEF Typed
  <2> QED BY <1>1, <2>1, AllocateTyped
<1>3. ItemsNumbered' /\ NodesWritten'
  BY <1>1, ItemsKept, NodesKept DEF Typed
<1>4. FoldersNumbered'
  <2>1. CASE ret'.ok
    <3>1. ret'.nid \in Nat
      BY <1>2 DEF AllocatorTyped
    <3>2. Len(folderRecs) = step /\ step \in Nat /\ NumFolders \in Nat /\ folderRecs \in Seq(Nat)
      BY <1>1, Configured DEF Common, Control, Typed, FoldersNumbered
    <3>3. folderRecs' \in Seq(Nat) /\ Len(folderRecs') = Len(folderRecs) + 1
      BY <1>1, <2>1, <3>1, <3>2
    <3>4. NumFolders' = NumFolders
      BY <1>1 DEF NumFolders
    <3> QED BY <1>1, <3>2, <3>3, <3>4 DEF FoldersNumbered
  <2>2. CASE ~ret'.ok
    BY <1>1, <2>2, FoldersKept DEF Typed
  <2> QED BY <2>1, <2>2
<1>5. config' \in Configs /\ step' \in Nat /\ siblings' \in 0..3
  BY <1>1 DEF Typed
<1> QED BY <1>2, <1>3, <1>4, <1>5 DEF Typed

(***************************************************************************)
(* The NID of a sibling table.                                             *)
(***************************************************************************)
LEMMA RegisterSiblingTyped ==
  ASSUME Typed, Common, RegisterSibling
  PROVE  Typed'
<1> DEFINE folder == Last(folderRecs)
           nid == Store!FolderNode(Store!SiblingType(siblings + 1), folder)
<1>1. /\ phase = "folders" /\ siblings < 3
      /\ Store!Alloc!RegisterExternal(nid)
      /\ siblings' = siblings + 1 /\ step' = step
      /\ UNCHANGED <<config, folderRecs, itemRecs, nodes, sched>>
  BY DEF RegisterSibling, Threw
<1>2. folder \in Nat
  <2>1. folderRecs \in Seq(Nat) /\ folderRecs # <<>>
    BY <1>1 DEF Typed, FoldersNumbered, Common, Control
  <2> QED BY <2>1 DEF Last
<1>3. nid \in Nat
  <2> HIDE DEF folder
  <2>1. Store!SiblingType(siblings + 1) \in Nat
    BY DEF Store!SiblingType, Typed
  <2> QED BY <1>2, <2>1, FolderNodeIsNat
<1> HIDE DEF nid
<1>4. AllocatorTyped'
  BY <1>1, <1>3, RegisterTyped DEF Typed
<1>5. FoldersNumbered' /\ ItemsNumbered' /\ NodesWritten'
  BY <1>1, FoldersKept, ItemsKept, NodesKept DEF Typed
<1> QED BY <1>1, <1>4, <1>5 DEF Typed

(***************************************************************************)
(* The NID and the configured parent of a folder are those of a node.      *)
(***************************************************************************)
LEMMA FolderTypedAt ==
  ASSUME Typed, Len(folderRecs) = NumFolders, NEW f \in 1..NumFolders
  PROVE  folderRecs[f] \in Nat /\ config.folders[f].parent \in Nat
<1>1. folderRecs[f] \in Nat
  BY DEF Typed, FoldersNumbered
<1>2. f \in DOMAIN config.folders /\ config \in Configs
  BY AllItemsFacts DEF Typed
<1> QED BY <1>1, <1>2, ConfigsAssumption

(***************************************************************************)
(* The folder types are numbers.                                           *)
(***************************************************************************)
LEMMA FolderTypesAreNat == \A t \in FolderTypes : t \in Nat
BY DEF FolderTypes, NormalFolder, HierarchyTable, ContentsTable, AssocContentsTable

(***************************************************************************)
(* A folder's node or one of its tables.                                   *)
(***************************************************************************)
LEMMA ScheduleFolderNodeTyped ==
  ASSUME Typed, Common, NEW types, Distinct(types), ScheduleFolderNode(types)
  PROVE  Typed'
<1> DEFINE L == Len(types)
           f == (step \div L) + 1
           t == types[(step % L) + 1]
           nid == Store!FolderNode(t, folderRecs[f])
<1>1. /\ phase = "folderNodes" /\ step < L * NumFolders /\ step \in Nat
      /\ step' = step + 1
      /\ UNCHANGED <<config, siblings, allocVars, folderRecs, itemRecs>>
  BY DEF ScheduleFolderNode, InLoop, Iterated, Common, Control
<1>2. L \in {3, 4} /\ NumFolders \in Nat
  BY Configured DEF Distinct, Common
<1>3. f \in 1..NumFolders /\ (step % L) + 1 \in 1..L
  <2>1. step \div L \in Nat /\ step % L \in 0..(L - 1) /\ step \div L < NumFolders
    BY <1>1, <1>2, Divisions
  <2> QED BY <1>2, <2>1
<1>4. t \in Nat
  BY <1>3, FolderTypesAreNat DEF Distinct
<1>5. folderRecs[f] \in Nat /\ config.folders[f].parent \in Nat
  <2>1. Len(folderRecs) = NumFolders
    BY <1>1 DEF Common, Control
  <2> HIDE DEF f
  <2> QED BY <1>3, <2>1, FolderTypedAt
<1>6. ScheduleNode(sched, nid, config.folders[f].parent, 0) \/ ScheduleNode(sched, nid, 0, 0)
  BY DEF ScheduleFolderNode
<1> HIDE DEF t, f
<1>7. nid \in Nat
  BY <1>4, <1>5, FolderNodeIsNat
<1> HIDE DEF nid
<1>8. NodesWritten'
  BY <1>5, <1>6, <1>7, PlainNodeWritten DEF Typed
<1>9. step' \in Nat
  BY <1>1
<1> QED BY <1>1, <1>8, <1>9, NodeDone

(***************************************************************************)
(* An item's NID, as long as there are items to number.                    *)
(***************************************************************************)
LEMMA AllocateItemTyped ==
  ASSUME Typed, AllocateItem, Len(itemRecs) < Len(AllItems), step' \in Nat
  PROVE  Typed'
<1> DEFINE len == Len(itemRecs)
           m == AllItems[Len(itemRecs) + 1]
           r == [nid |-> ret'.nid, folder |-> m.folder, src |-> m.src]
<1>1. /\ Store!Alloc!Allocate(NormalMessage)
      /\ UNCHANGED <<config, siblings, folderRecs, nodes, sched>>
      /\ itemRecs' = IF ret'.ok THEN Append(itemRecs, r) ELSE itemRecs
  BY DEF AllocateItem
<1>2. AllocatorTyped'
  <2>1. NormalMessage \in {NormalFolder, NormalMessage} /\ AllocatorTyped
    BY DEF Typed
  <2> QED BY <1>1, <2>1, AllocateTyped
<1>3. FoldersNumbered' /\ NodesWritten'
  BY <1>1, FoldersKept, NodesKept DEF Typed
<1>4. ItemsNumbered'
  <2>1. CASE ret'.ok
    <3>1. r.nid \in Nat /\ r.folder = AllItems[len + 1].folder /\ r.src = AllItems[len + 1].src
      BY <1>2 DEF AllocatorTyped
    <3>2. itemRecs' = Append(itemRecs, r)
      BY <1>1, <2>1
    <3> HIDE DEF m, r
    <3>3. PICK S : itemRecs \in Seq(S)
      BY DEF Typed, ItemsNumbered, IsSeq
    <3>4. /\ itemRecs' \in Seq(S \cup {r})
          /\ len \in Nat /\ Len(itemRecs') = len + 1
          /\ \A i \in 1..len : itemRecs'[i] = itemRecs[i]
          /\ itemRecs'[len + 1] = r
      BY <3>2, <3>3, AppendFacts
    <3>5. Len(AllItems) \in Nat
      BY AllItemsFacts DEF Typed
    <3>6. AllItems' = AllItems
      BY <1>1 DEF AllItems, FolderItems
    <3>7. \A i \in 1..len : /\ itemRecs[i].nid \in Nat
                            /\ itemRecs[i].folder = AllItems[i].folder
                            /\ itemRecs[i].src = AllItems[i].src
      BY DEF Typed, ItemsNumbered
    <3>8. len < Len(AllItems)
      OBVIOUS
    <3> HIDE DEF len
    <3>9. \A i \in 1..(len + 1) : i \in 1..len \/ i = len + 1
      BY <3>4
    <3>10. len + 1 <= Len(AllItems)
      BY <3>4, <3>5, <3>8
    <3>11. IsSeq(itemRecs)'
      BY <3>4 DEF IsSeq
    <3> QED BY <3>1, <3>4, <3>6, <3>7, <3>9, <3>10, <3>11 DEF ItemsNumbered
  <2>2. CASE ~ret'.ok
    BY <1>1, <2>2, ItemsKept DEF Typed
  <2> QED BY <2>1, <2>2
<1>5. config' \in Configs /\ siblings' \in 0..3
  BY <1>1 DEF Typed
<1> QED BY <1>2, <1>3, <1>4, <1>5 DEF Typed

(***************************************************************************)
(* The IPM subtree's hierarchy.                                            *)
(***************************************************************************)
LEMMA ScheduleIpmHierarchyTyped ==
  ASSUME Typed, ScheduleIpmHierarchy
  PROVE  Typed'
<1>1. /\ UNCHANGED <<config, siblings, allocVars, folderRecs, itemRecs>>
      /\ \/ ScheduleNode(sched, NID_IPM_HIERARCHY, 0, 0) /\ step' = step + 1
         \/ step' = step /\ UNCHANGED <<nodes, sched>>
  BY DEF ScheduleIpmHierarchy, Iterated, Threw
<1>2. NID_IPM_HIERARCHY \in Nat /\ 0 \in Nat /\ step' \in Nat
  BY <1>1 DEF NID_IPM_HIERARCHY, Typed
<1>3. NodesWritten'
  BY <1>1, <1>2, PlainNodeWritten, NodesKept DEF Typed
<1> QED BY <1>1, <1>2, <1>3, NodeDone

(***************************************************************************)
(* The end of a loop, the hand-over to writeM5Pst, the return.             *)
(***************************************************************************)
LEMMA EndLoopTyped ==
  ASSUME Typed, NEW loop, NEW iterations, NEW next, EndLoop(loop, iterations, next)
  PROVE  Typed'
BY NothingDone DEF EndLoop

(***************************************************************************)
(* The hand-over to writeM5Pst schedules nothing.                          *)
(***************************************************************************)
LEMMA HandOverTyped ==
  ASSUME Typed, HandOver
  PROVE  Typed'
BY NothingDone DEF HandOver, Typed

(***************************************************************************)
(* A stuttering step.                                                      *)
(***************************************************************************)
LEMMA UnchangedTyped ==
  ASSUME Typed, UNCHANGED vars
  PROVE  Typed'
BY NothingDone DEF vars, Typed

(***************************************************************************)
(* The item at a place of the records: its folder is a configured one and  *)
(* its source an item there.                                               *)
(***************************************************************************)
LEMMA ItemTypedAt ==
  ASSUME Typed, NEW i \in 1..Len(itemRecs)
  PROVE  /\ itemRecs[i].nid \in Nat /\ itemRecs[i].folder \in 1..NumFolders
         /\ \E k \in DOMAIN config.folders[itemRecs[i].folder].items :
              itemRecs[i].src = config.folders[itemRecs[i].folder].items[k]
<1>1. /\ itemRecs[i].nid \in Nat
      /\ itemRecs[i].folder = AllItems[i].folder /\ itemRecs[i].src = AllItems[i].src
  BY DEF Typed, ItemsNumbered
<1>2. AllItems \in Seq(ItemsInFolders) /\ Len(AllItems) \in Nat
  BY AllItemsFacts DEF Typed
<1>3. i \in 1..Len(AllItems)
  <2>1. Len(itemRecs) \in Nat /\ Len(itemRecs) <= Len(AllItems)
    BY Vector DEF Typed, ItemsNumbered
  <2> QED BY <1>2, <2>1
<1>4. AllItems[i] \in ItemsInFolders
  BY <1>2, <1>3
<1>5. PICK f \in 1..NumFolders : AllItems[i] \in ItemsOf(f)
  BY <1>4 DEF ItemsInFolders
<1>6. PICK k \in DOMAIN config.folders[f].items :
        AllItems[i] = [folder |-> f, src |-> config.folders[f].items[k]]
  BY <1>5 DEF ItemsOf
<1> QED BY <1>1, <1>6

-----------------------------------------------------------------------------

(***************************************************************************)
(* What the node tree says of the items: the node of each item that is     *)
(* scheduled names the item's folder as its parent, and no other node has  *)
(* the type of an item.                                                    *)
(***************************************************************************)
MessagePairs ==
  {<<nodes[i].nid, nodes[i].parent>> :
     i \in {j \in 1..Len(nodes) : NidTypeOf(nodes[j].nid) = NormalMessage}}

ItemPairs(n) == {<<itemRecs[k].nid, folderRecs[itemRecs[k].folder]>> : k \in 1..n}

FiledUpTo(n) == n <= Len(itemRecs) /\ MessagePairs = ItemPairs(n)

Scheduled ==
  IF phase \in {"items", "bodies"} THEN step
  ELSE IF phase \in {"encode", "written"} THEN Len(itemRecs) ELSE 0

(***************************************************************************)
(* A step that schedules nothing and numbers neither folder nor item.      *)
(***************************************************************************)
LEMMA FilingKept ==
  ASSUME NEW n, FiledUpTo(n), UNCHANGED <<nodes, folderRecs, itemRecs>>
  PROVE  FiledUpTo(n)'
BY DEF FiledUpTo, MessagePairs, ItemPairs

(***************************************************************************)
(* While no item is scheduled, numbering changes nothing.                  *)
(***************************************************************************)
LEMMA NothingFiled ==
  ASSUME FiledUpTo(0), nodes' = nodes, Len(itemRecs') \in Nat
  PROVE  FiledUpTo(0)'
<1>1. MessagePairs' = MessagePairs
  BY DEF MessagePairs
<1>2. ItemPairs(0) = {} /\ ItemPairs(0)' = {}
  <2>1. \A k : k \notin 1..0
    OBVIOUS
  <2> QED BY <2>1 DEF ItemPairs
<1> QED BY <1>1, <1>2 DEF FiledUpTo

(***************************************************************************)
(* The items numbered next do not matter to those that are scheduled.      *)
(***************************************************************************)
LEMMA NumberingKeepsFiling ==
  ASSUME NEW n \in Nat, FiledUpTo(n), IsSeq(itemRecs), NEW r,
         itemRecs' = Append(itemRecs, r), UNCHANGED <<nodes, folderRecs>>
  PROVE  FiledUpTo(n)'
<1> DEFINE len == Len(itemRecs)
<1>1. MessagePairs' = MessagePairs
  BY DEF MessagePairs
<1>2. PICK S : itemRecs \in Seq(S)
  BY DEF IsSeq
<1>3. /\ len \in Nat /\ Len(itemRecs') = len + 1
      /\ \A i \in 1..len : itemRecs'[i] = itemRecs[i]
  BY <1>2, AppendFacts
<1>4. n <= len
  BY DEF FiledUpTo
<1> HIDE DEF len
<1>5. \A k \in 1..n : itemRecs'[k] = itemRecs[k]
  BY <1>3, <1>4
<1>6. ItemPairs(n)' = ItemPairs(n)
  BY <1>5 DEF ItemPairs
<1>7. n <= Len(itemRecs')
  BY <1>3, <1>4
<1> QED BY <1>1, <1>6, <1>7 DEF FiledUpTo

(***************************************************************************)
(* scheduleNode for what is no item.                                       *)
(***************************************************************************)
LEMMA OtherNodeFiled ==
  ASSUME NEW n, FiledUpTo(n), IsSeq(nodes), NEW node, nodes' = Append(nodes, node),
         NidTypeOf(node.nid) # NormalMessage, UNCHANGED <<folderRecs, itemRecs>>
  PROVE  FiledUpTo(n)'
<1> DEFINE len == Len(nodes)
<1>1. PICK S : nodes \in Seq(S)
  BY DEF IsSeq
<1>2. /\ len \in Nat /\ Len(nodes') = len + 1
      /\ \A i \in 1..len : nodes'[i] = nodes[i]
      /\ nodes'[len + 1] = node
  BY <1>1, AppendFacts
<1> HIDE DEF len
<1>3. 1..(len + 1) = 1..len \cup {len + 1}
  BY <1>2
<1>4. MessagePairs' = MessagePairs
  <2> DEFINE old == {j \in 1..len : NidTypeOf(nodes[j].nid) = NormalMessage}
             new == {j \in 1..(len + 1) : NidTypeOf(nodes'[j].nid) = NormalMessage}
  <2>1. new = old
    BY <1>2, <1>3
  <2>2. MessagePairs = {<<nodes[i].nid, nodes[i].parent>> : i \in old}
    BY DEF MessagePairs, len
  <2>3. MessagePairs' = {<<nodes'[i].nid, nodes'[i].parent>> : i \in new}
    BY <1>2 DEF MessagePairs
  <2>4. \A i \in old : nodes'[i] = nodes[i]
    BY <1>2
  <2> HIDE DEF old, new
  <2> QED BY <2>1, <2>2, <2>3, <2>4
<1>5. ItemPairs(n)' = ItemPairs(n)
  BY DEF ItemPairs
<1> QED BY <1>4, <1>5 DEF FiledUpTo

(***************************************************************************)
(* scheduleNode for the next item.                                         *)
(***************************************************************************)
LEMMA NextItemFiled ==
  ASSUME NEW n \in Nat, FiledUpTo(n), n + 1 <= Len(itemRecs), IsSeq(nodes),
         NEW node, nodes' = Append(nodes, node),
         node.nid = itemRecs[n + 1].nid,
         node.parent = folderRecs[itemRecs[n + 1].folder],
         NidTypeOf(node.nid) = NormalMessage, UNCHANGED <<folderRecs, itemRecs>>
  PROVE  FiledUpTo(n + 1)'
<1> DEFINE len == Len(nodes)
<1>1. PICK S : nodes \in Seq(S)
  BY DEF IsSeq
<1>2. /\ len \in Nat /\ Len(nodes') = len + 1
      /\ \A i \in 1..len : nodes'[i] = nodes[i]
      /\ nodes'[len + 1] = node
  BY <1>1, AppendFacts
<1> HIDE DEF len
<1>3. 1..(len + 1) = 1..len \cup {len + 1} /\ len + 1 \notin 1..len
  BY <1>2
<1> DEFINE pair == <<node.nid, node.parent>>
<1>4. MessagePairs' = MessagePairs \cup {pair}
  <2> DEFINE old == {j \in 1..len : NidTypeOf(nodes[j].nid) = NormalMessage}
             new == {j \in 1..(len + 1) : NidTypeOf(nodes'[j].nid) = NormalMessage}
  <2>1. new = old \cup {len + 1}
    BY <1>2, <1>3
  <2>2. MessagePairs = {<<nodes[i].nid, nodes[i].parent>> : i \in old}
    BY DEF MessagePairs, len
  <2>3. MessagePairs' = {<<nodes'[i].nid, nodes'[i].parent>> : i \in new}
    BY <1>2 DEF MessagePairs
  <2>4. \A i \in old : nodes'[i] = nodes[i]
    BY <1>2
  <2>5. pair = <<nodes'[len + 1].nid, nodes'[len + 1].parent>>
    BY <1>2
  <2> HIDE DEF old, new, pair
  <2> QED BY <2>1, <2>2, <2>3, <2>4, <2>5
<1>5. ItemPairs(n + 1)' = ItemPairs(n) \cup {pair}
  <2>1. 1..(n + 1) = 1..n \cup {n + 1}
    OBVIOUS
  <2>2. ItemPairs(n + 1)' = ItemPairs(n + 1)
    BY DEF ItemPairs
  <2>3. pair = <<itemRecs[n + 1].nid, folderRecs[itemRecs[n + 1].folder]>>
    OBVIOUS
  <2> HIDE DEF pair
  <2>4. ItemPairs(n + 1) = ItemPairs(n) \cup {pair}
    BY <2>1, <2>3 DEF ItemPairs
  <2> QED BY <2>2, <2>4
<1> HIDE DEF pair
<1>6. MessagePairs = ItemPairs(n)
  BY DEF FiledUpTo
<1> QED BY <1>4, <1>5, <1>6 DEF FiledUpTo

(***************************************************************************)
(* Of the baseline's nodes none is an item.                                *)
(***************************************************************************)
LEMMA BaselineFiled ==
  ASSUME Init
  PROVE  FiledUpTo(0)
<1> DEFINE b == Baseline(config.omitRft)
<1>1. config \in Configs /\ itemRecs = <<>>
  BY DEF Init
<1>2. /\ Len(b) \in Nat /\ DOMAIN b = 1..Len(b)
      /\ {b[i][1] : i \in DOMAIN b} \subseteq BaselineNids
  BY <1>1, Configured, BaselineAssumption
<1>3. nodes = [i \in 1..Len(b) |-> Node(b[i][1], b[i][2], DataBid(i), 0)]
  BY <1>2 DEF Init
<1> HIDE DEF b
<1>4. Len(nodes) = Len(b) /\ \A i \in 1..Len(b) : nodes[i].nid \in BaselineNids
  BY <1>2, <1>3 DEF Node
<1>5. \A nid \in BaselineNids : NidTypeOf(nid) # NormalMessage
  BY DEF BaselineNids, NidTypeOf, NormalMessage
<1>6. MessagePairs = {}
  BY <1>4, <1>5 DEF MessagePairs
<1>7. ItemPairs(0) = {}
  <2>1. \A k : k \notin 1..0
    OBVIOUS
  <2> QED BY <2>1 DEF ItemPairs
<1> QED BY <1>1, <1>6, <1>7 DEF FiledUpTo

(***************************************************************************)
(* The type of a node's NID tells items from the nodes of folders and the  *)
(* IPM subtree's table.                                                    *)
(***************************************************************************)
LEMMA TypesTellItems ==
  /\ \A nid : UserNid(NormalMessage, nid) => NidTypeOf(nid) = NormalMessage
  /\ \A t \in FolderTypes : \A f : UserNid(NormalFolder, f) =>
       NidTypeOf(FolderNode(t, f)) # NormalMessage
  /\ NidTypeOf(NID_IPM_HIERARCHY) # NormalMessage
<1>1. ASSUME NEW nid, UserNid(NormalMessage, nid) PROVE NidTypeOf(nid) = NormalMessage
  <2>1. PICK idx \in Nat : idx < IndexSpace /\ nid = Nid(NormalMessage, idx)
    BY <1>1 DEF UserNid
  <2>2. NormalMessage \in 0..31
    BY DEF NormalMessage
  <2> QED BY <2>1, <2>2, NidEncoding
<1>2. ASSUME NEW t \in FolderTypes, NEW f, UserNid(NormalFolder, f)
      PROVE  NidTypeOf(FolderNode(t, f)) # NormalMessage
  <2>1. PICK idx \in Nat : idx < IndexSpace /\ f = Nid(NormalFolder, idx)
    BY <1>2 DEF UserNid
  <2>2. t \in 0..31 /\ t # NormalMessage
    BY FolderTypesAreTypes
  <2>3. FolderNode(t, f) = Nid(t, idx)
    BY <2>1, <2>2, FolderNodeNid
  <2> QED BY <2>1, <2>2, <2>3, NidEncoding
<1>3. NidTypeOf(NID_IPM_HIERARCHY) # NormalMessage
  BY DEF NID_IPM_HIERARCHY, NidTypeOf, NormalMessage
<1> QED BY <1>1, <1>2, <1>3

(***************************************************************************)
(* The items below a folder, once all are scheduled, are those recorded    *)
(* for it.                                                                 *)
(***************************************************************************)
LEMMA ChildItemsAre ==
  ASSUME FiledUpTo(Len(itemRecs)), IsSeq(nodes), NEW f \in 1..Len(folderRecs),
         \A i, j \in 1..Len(folderRecs) : folderRecs[i] = folderRecs[j] => i = j,
         \A k \in 1..Len(itemRecs) : itemRecs[k].folder \in 1..Len(folderRecs)
  PROVE  /\ \A k \in 1..Len(itemRecs) :
              itemRecs[k].folder = f => itemRecs[k].nid \in ChildItems(folderRecs[f])
         /\ \A nid \in ChildItems(folderRecs[f]) :
              \E k \in 1..Len(itemRecs) : itemRecs[k].folder = f /\ itemRecs[k].nid = nid
         /\ \A k \in 1..Len(itemRecs) : itemRecs[k].nid \in NodeNids
<1> DEFINE n == Len(itemRecs)
           len == Len(nodes)
<1>1. DOMAIN nodes = 1..len
  BY Vector
<1>2. MessagePairs = ItemPairs(n)
  BY DEF FiledUpTo
<1>3. \A nid, parent : <<nid, parent>> \in MessagePairs <=>
        \E i \in 1..len : /\ NidTypeOf(nodes[i].nid) = NormalMessage
                          /\ nodes[i].nid = nid /\ nodes[i].parent = parent
  BY DEF MessagePairs
<1>4. \A nid, parent : <<nid, parent>> \in ItemPairs(n) <=>
        \E k \in 1..n : itemRecs[k].nid = nid /\ folderRecs[itemRecs[k].folder] = parent
  BY DEF ItemPairs
<1>5. \A nid : nid \in ChildItems(folderRecs[f]) <=>
        \E i \in 1..len : /\ NidTypeOf(nodes[i].nid) = NormalMessage
                          /\ nodes[i].nid = nid /\ nodes[i].parent = folderRecs[f]
  BY <1>1 DEF ChildItems, ToSet
<1>6. \A nid : nid \in ChildItems(folderRecs[f]) <=>
        \E k \in 1..n : itemRecs[k].nid = nid /\ folderRecs[itemRecs[k].folder] = folderRecs[f]
  <2> DEFINE folder == folderRecs[f]
             Filed(nid, parent) == <<nid, parent>> \in MessagePairs
  <2>1. \A nid : nid \in ChildItems(folder) <=> Filed(nid, folder)
    BY <1>3, <1>5
  <2>2. \A nid, parent : Filed(nid, parent) <=>
          \E k \in 1..n : itemRecs[k].nid = nid /\ folderRecs[itemRecs[k].folder] = parent
    <3> DEFINE pairs == ItemPairs(n)
    <3>1. MessagePairs = pairs
      BY <1>2
    <3>2. \A nid, parent : <<nid, parent>> \in pairs <=>
            \E k \in 1..n : itemRecs[k].nid = nid /\ folderRecs[itemRecs[k].folder] = parent
      BY <1>4
    <3> HIDE DEF pairs
    <3> SUFFICES ASSUME NEW nid, NEW parent
                 PROVE  Filed(nid, parent) <=>
                          \E k \in 1..n : /\ itemRecs[k].nid = nid
                                          /\ folderRecs[itemRecs[k].folder] = parent
      OBVIOUS
    <3>3. Filed(nid, parent) <=> <<nid, parent>> \in pairs
      BY <3>1
    <3> HIDE DEF Filed
    <3> QED BY <3>2, <3>3
  <2> HIDE DEF folder, Filed
  <2>3. \A nid : nid \in ChildItems(folder) <=>
          \E k \in 1..n : itemRecs[k].nid = nid /\ folderRecs[itemRecs[k].folder] = folder
    BY <2>1, <2>2
  <2> QED BY <2>3 DEF folder
<1>7. ASSUME NEW k \in 1..n PROVE itemRecs[k].nid \in NodeNids
  <2>1. <<itemRecs[k].nid, folderRecs[itemRecs[k].folder]>> \in MessagePairs
    BY <1>2, <1>4
  <2>2. \E i \in 1..len : nodes[i].nid = itemRecs[k].nid
    BY <1>3, <2>1
  <2> QED BY <1>1, <2>2 DEF NodeNids
<1> QED BY <1>6, <1>7

-----------------------------------------------------------------------------

(***************************************************************************)
(* The tables: the IPM subtree's hierarchy, which lists the folders, and   *)
(* those of the folders.                                                   *)
(***************************************************************************)
HierarchyToCome == phase \in BeforeIpm \/ (phase = "ipm" /\ step = 0)

HierarchyListed ==
  /\ IsSeq(tables)
  /\ phase \in {"register", "folders"} => Len(tables) = 0
  /\ \A k \in 1..Len(tables) :
       \/ tables[k].nid = NID_IPM_HIERARCHY /\ tables[k].rows = folderRecs
       \/ tables[k].nid \in FolderNodesOf(FolderTypes)
  /\ HierarchyToCome \/ \E k \in 1..Len(tables) : tables[k].nid = NID_IPM_HIERARCHY

(***************************************************************************)
(* A step that writes no table.                                            *)
(***************************************************************************)
LEMMA TablesKept ==
  ASSUME HierarchyListed, tables' = tables,
         phase \in {"register", "folders"} \/ folderRecs' = folderRecs,
         phase' \in {"register", "folders"} => phase \in {"register", "folders"},
         HierarchyToCome => HierarchyToCome'
  PROVE  HierarchyListed'
<1>1. IsSeq(tables')
  BY DEF HierarchyListed, IsSeq
<1>2. CASE phase \in {"register", "folders"}
  <2>1. Len(tables) = 0 /\ 1..0 = {}
    BY <1>2 DEF HierarchyListed
  <2>2. HierarchyToCome
    BY <1>2 DEF HierarchyToCome, BeforeIpm
  <2> QED BY <1>1, <2>1, <2>2 DEF HierarchyListed
<1>3. CASE phase \notin {"register", "folders"}
  <2>1. FolderNodesOf(FolderTypes)' = FolderNodesOf(FolderTypes) /\ folderRecs' = folderRecs
    BY <1>3 DEF FolderNodesOf, Folders
  <2> QED BY <1>1, <1>3, <2>1 DEF HierarchyListed
<1> QED BY <1>2, <1>3

(***************************************************************************)
(* A table more, of a folder before the hierarchy or the hierarchy.        *)
(***************************************************************************)
LEMMA TableAdded ==
  ASSUME HierarchyListed, NEW t, tables' = Append(tables, t), folderRecs' = folderRecs,
         phase' = phase, phase \notin {"register", "folders"},
         \/ t.nid = NID_IPM_HIERARCHY /\ t.rows = folderRecs
         \/ t.nid \in FolderNodesOf(FolderTypes) /\ phase \in BeforeIpm
  PROVE  HierarchyListed'
<1> DEFINE len == Len(tables)
<1>1. PICK S : tables \in Seq(S)
  BY DEF HierarchyListed, IsSeq
<1>2. /\ tables' \in Seq(S \cup {t})
      /\ len \in Nat /\ Len(tables') = len + 1
      /\ \A k \in 1..len : tables'[k] = tables[k]
      /\ tables'[len + 1] = t
  BY <1>1, AppendFacts
<1>3. FolderNodesOf(FolderTypes)' = FolderNodesOf(FolderTypes)
  BY DEF FolderNodesOf, Folders
<1>4. \A k \in 1..len :
        \/ tables[k].nid = NID_IPM_HIERARCHY /\ tables[k].rows = folderRecs
        \/ tables[k].nid \in FolderNodesOf(FolderTypes)
  BY DEF HierarchyListed
<1> HIDE DEF len
<1>5. \A k \in 1..(len + 1) : k \in 1..len \/ k = len + 1
  BY <1>2
<1>6. ASSUME NEW k \in 1..Len(tables')
      PROVE  \/ tables'[k].nid = NID_IPM_HIERARCHY /\ tables'[k].rows = folderRecs'
             \/ tables'[k].nid \in FolderNodesOf(FolderTypes)'
  <2>1. CASE k \in 1..len
    BY <1>2, <1>3, <1>4, <2>1
  <2>2. CASE k = len + 1
    BY <1>2, <1>3, <2>2
  <2> QED BY <1>2, <1>5, <2>1, <2>2
<1>7. CASE t.nid = NID_IPM_HIERARCHY
  <2>1. len + 1 \in 1..Len(tables') /\ tables'[len + 1].nid = NID_IPM_HIERARCHY
    BY <1>2, <1>7
  <2> QED BY <1>2, <1>6, <2>1 DEF HierarchyListed, IsSeq
<1>8. CASE phase \in BeforeIpm
  BY <1>2, <1>6, <1>8 DEF HierarchyListed, IsSeq, HierarchyToCome
<1> QED BY <1>7, <1>8

(***************************************************************************)
(* In a finished store a reader of the hierarchy finds the folders.        *)
(***************************************************************************)
LEMMA HierarchyIs ==
  ASSUME HierarchyListed, Owners, ~HierarchyToCome
  PROVE  RowsOfTable(NID_IPM_HIERARCHY) = folderRecs
<1>1. DOMAIN tables = 1..Len(tables)
  BY Vector DEF HierarchyListed
<1>2. NID_IPM_HIERARCHY \notin FolderNodesOf(FolderTypes)
  BY FolderNodeIsNotIpm DEF FolderNodesOf, Owners
<1>3. \A t \in ToSet(tables) : t.nid = NID_IPM_HIERARCHY => t.rows = folderRecs
  BY <1>1, <1>2 DEF HierarchyListed, ToSet
<1>4. \E t \in ToSet(tables) : t.nid = NID_IPM_HIERARCHY
  BY <1>1 DEF HierarchyListed, ToSet
<1> DEFINE t == CHOOSE u \in ToSet(tables) : u.nid = NID_IPM_HIERARCHY
<1>5. t \in ToSet(tables) /\ t.nid = NID_IPM_HIERARCHY
  BY <1>4
<1>6. RowsOfTable(NID_IPM_HIERARCHY) = t.rows
  BY DEF RowsOfTable
<1> HIDE DEF t
<1> QED BY <1>3, <1>5, <1>6

\* A written store has its folders numbered, and its records are in order.
Finished == phase = "written" => Records /\ Len(folderRecs) = NumFolders

(***************************************************************************)
(* Finished when handed over.                                              *)
(***************************************************************************)
LEMMA HandOverFinishes ==
  ASSUME Common, HandOver
  PROVE  Finished'
<1>1. /\ phase = "encode"
      /\ UNCHANGED <<config, allocVars, folderRecs, itemRecs, nodes>>
  BY DEF HandOver
<1>2. Records'
  BY <1>1, RecordsKept DEF Common, allocVars
<1>3. Len(folderRecs') = NumFolders'
  BY <1>1 DEF Common, Control, NumFolders
<1> QED BY <1>2, <1>3 DEF Finished

(***************************************************************************)
(* The folders have their places and are no system folders.                *)
(***************************************************************************)
LEMMA FolderRecsFacts ==
  ASSUME Records, Len(folderRecs) = NumFolders
  PROVE  /\ Len(folderRecs) \in Nat /\ DOMAIN folderRecs = 1..NumFolders
         /\ \A f \in 1..NumFolders :
              /\ folderRecs[f] \in Folders
              /\ UserNid(NormalFolder, folderRecs[f])
              /\ folderRecs[f] # NID_IPM_SUBTREE
         /\ \A f, g \in 1..NumFolders : folderRecs[f] = folderRecs[g] => f = g
<1>1. Len(folderRecs) \in Nat /\ DOMAIN folderRecs = 1..NumFolders
  BY Vector DEF Records
<1>2. \A f \in 1..NumFolders : folderRecs[f] \in Folders
  BY <1>1 DEF Folders, ToSet
<1> QED BY <1>1, <1>2 DEF Records, Owners

-----------------------------------------------------------------------------

(***************************************************************************)
(* What was proved of StoreNodes holds of the nodes the writers promise it:*)
(* the same operators, over the same variables and the same abstractions.  *)
(***************************************************************************)
Nodes == INSTANCE StoreNodesProofs WITH
  registered <- phase # "register",
  folders    <- Folders,
  current    <- Current,
  items      <- Items,
  placed     <- Placed,
  ipmPlaced  <- NID_IPM_HIERARCHY \in OwnNids,
  nbt        <- NodeNids,
  twice      <- RepeatedNids,
  failure    <- Failure

(***************************************************************************)
(* The assumption under which it was proved.                               *)
(***************************************************************************)
LEMMA NodesAssumed == MaxNidIndex \in 1025..Nodes!IndexSpace
<1>1. IndexSpace = Nodes!IndexSpace
  BY DEF IndexSpace, Nodes!IndexSpace
<1> QED BY <1>1, MaxNidIndexAssumption

(***************************************************************************)
(* The calls of the allocator mean the same in both.                       *)
(***************************************************************************)
LEMMA SameAllocator ==
  /\ Store!Alloc!Init => Nodes!Alloc!Init
  /\ \A nt : Store!Alloc!Allocate(nt) => Nodes!Alloc!Allocate(nt)
  /\ \A nid : Store!Alloc!RegisterExternal(nid) => Nodes!Alloc!RegisterExternal(nid)
<1>1. Store!Alloc!IndexSpace = Nodes!Alloc!IndexSpace
  BY SMT DEF Store!Alloc!IndexSpace, Nodes!Alloc!IndexSpace
<1>2. \A t, i : Store!Alloc!Nid(t, i) = Nodes!Alloc!Nid(t, i)
  BY <1>1 DEF Store!Alloc!Nid, Nodes!Alloc!Nid
<1>3. \A nt : Store!Alloc!StartIndex(nt) = Nodes!Alloc!StartIndex(nt)
  BY DEF Store!Alloc!StartIndex, Nodes!Alloc!StartIndex, Store!Alloc!HID, Nodes!Alloc!HID,
         Store!Alloc!Internal, Nodes!Alloc!Internal,
         Store!Alloc!kUserAllocStart, Nodes!Alloc!kUserAllocStart
<1>4. Store!Alloc!ReservedTable = Nodes!Alloc!ReservedTable
  BY DEF Store!Alloc!ReservedTable, Nodes!Alloc!ReservedTable
<1>5. Store!Alloc!Init => Nodes!Alloc!Init
  BY <1>3, <1>4 DEF Store!Alloc!Init, Nodes!Alloc!Init, Store!Alloc!Threw, Nodes!Alloc!Threw
<1>6. \A nt : Store!Alloc!IsValidNidType(nt) <=> Nodes!Alloc!IsValidNidType(nt)
  BY DEF Store!Alloc!IsValidNidType, Nodes!Alloc!IsValidNidType,
         Store!Alloc!ValidNidTypes, Nodes!Alloc!ValidNidTypes
<1>7. \A n : Store!Alloc!NidTypeOf(n) = Nodes!Alloc!NidTypeOf(n)
  BY DEF Store!Alloc!NidTypeOf, Nodes!Alloc!NidTypeOf
<1>8. ASSUME NEW nt, Store!Alloc!Allocate(nt) PROVE Nodes!Alloc!Allocate(nt)
  <2>1. Store!Alloc!Remaining(nt) = Nodes!Alloc!Remaining(nt)
    BY DEF Store!Alloc!Remaining, Nodes!Alloc!Remaining
  <2>2. \A idx : Store!Alloc!Take(nt, idx) => Nodes!Alloc!Take(nt, idx)
    BY <1>2 DEF Store!Alloc!Take, Nodes!Alloc!Take, Store!Alloc!FirstFree, Nodes!Alloc!FirstFree,
         Store!Alloc!Returned, Nodes!Alloc!Returned
  <2>3. Store!Alloc!Exhausted(nt) => Nodes!Alloc!Exhausted(nt)
    BY <1>2, <2>1 DEF Store!Alloc!Exhausted, Nodes!Alloc!Exhausted, Store!Alloc!Threw, Nodes!Alloc!Threw
  <2>4. Store!Alloc!Throw => Nodes!Alloc!Throw
    BY DEF Store!Alloc!Throw, Nodes!Alloc!Throw, Store!Alloc!Threw, Nodes!Alloc!Threw
  <2> QED BY <1>6, <1>8, <2>1, <2>2, <2>3, <2>4 DEF Store!Alloc!Allocate, Nodes!Alloc!Allocate
<1>9. ASSUME NEW nid, Store!Alloc!RegisterExternal(nid) PROVE Nodes!Alloc!RegisterExternal(nid)
  BY <1>6, <1>7, <1>9 DEF Store!Alloc!RegisterExternal, Nodes!Alloc!RegisterExternal,
     Store!Alloc!Registrable, Nodes!Alloc!Registrable, Store!Alloc!Throw, Nodes!Alloc!Throw,
     Store!Alloc!Threw, Nodes!Alloc!Threw, Store!Alloc!Returned, Nodes!Alloc!Returned
<1> QED BY <1>5, <1>8, <1>9

(***************************************************************************)
(* So do the initial states and the steps of the node bookkeeping.         *)
(***************************************************************************)
LEMMA SameNodes ==
  /\ Store!Init => Nodes!Init
  /\ [Store!Next]_(Store!vars) => [Nodes!Next]_(Nodes!vars)
<1>1. /\ Store!NormalFolder = Nodes!NormalFolder /\ Store!NormalMessage = Nodes!NormalMessage
      /\ Store!FolderNodeTypes = Nodes!FolderNodeTypes
      /\ Store!NodeTypes = Nodes!NodeTypes
  BY DEF Store!NormalFolder, Nodes!NormalFolder, Store!NormalMessage, Nodes!NormalMessage,
         Store!FolderNodeTypes, Nodes!FolderNodeTypes, Store!NodeTypes, Nodes!NodeTypes,
         Store!HierarchyTable, Nodes!HierarchyTable, Store!ContentsTable, Nodes!ContentsTable,
         Store!AssocContentsTable, Nodes!AssocContentsTable
<1>2. \A t, f : Store!FolderNode(t, f) = Nodes!FolderNode(t, f)
  <2>1. Store!IndexSpace = Nodes!IndexSpace
    BY SMT DEF Store!IndexSpace, Nodes!IndexSpace
  <2> QED BY <2>1 DEF Store!FolderNode, Nodes!FolderNode, Store!Nid, Nodes!Nid,
                      Store!NidIndexOf, Nodes!NidIndexOf
<1>3. \A k : Store!SiblingType(k) = Nodes!SiblingType(k)
  BY DEF Store!SiblingType, Nodes!SiblingType
<1>4. /\ Store!BaselineNids = Nodes!BaselineNids
      /\ Store!NID_RECEIVE_FOLDER_TABLE = Nodes!NID_RECEIVE_FOLDER_TABLE
      /\ Store!NID_IPM_HIERARCHY = Nodes!NID_IPM_HIERARCHY
  BY DEF Store!BaselineNids, Nodes!BaselineNids,
         Store!NID_RECEIVE_FOLDER_TABLE, Nodes!NID_RECEIVE_FOLDER_TABLE,
         Store!NID_IPM_HIERARCHY, Nodes!NID_IPM_HIERARCHY
<1>5. Store!RegisteredBaseline = Nodes!RegisteredBaseline
  <2>1. Store!kReserved = Nodes!kReserved
    BY DEF Store!kReserved, Nodes!kReserved
  <2>2. \A n : Store!IsValidNidType(Store!NidTypeOf(n)) <=> Nodes!IsValidNidType(Nodes!NidTypeOf(n))
    BY DEF Store!IsValidNidType, Nodes!IsValidNidType, Store!NidTypeOf, Nodes!NidTypeOf,
           Store!ValidNidTypes, Nodes!ValidNidTypes
  <2> QED BY <2>1, <2>2 DEF Store!RegisteredBaseline, Nodes!RegisteredBaseline
<1>6. \A nids : Store!Schedule(nids) <=> Nodes!Schedule(nids)
  BY DEF Store!Schedule, Nodes!Schedule
<1>7. Store!Init => Nodes!Init
  BY <1>1, <1>4, SameAllocator DEF Store!Init, Nodes!Init
<1>8. Store!RegisterBaselineNids => Nodes!RegisterBaselineNids
  BY <1>5 DEF Store!RegisterBaselineNids, Nodes!RegisterBaselineNids
<1>9. Store!AllocateFolder => Nodes!AllocateFolder
  BY <1>1, SameAllocator DEF Store!AllocateFolder, Nodes!AllocateFolder
<1>10. Store!RegisterSibling => Nodes!RegisterSibling
  BY <1>2, <1>3, SameAllocator DEF Store!RegisterSibling, Nodes!RegisterSibling
<1>11. Store!AllocateItem => Nodes!AllocateItem
  BY <1>1, SameAllocator DEF Store!AllocateItem, Nodes!AllocateItem
<1>12. \A t, f : Store!PlaceFolderNode(t, f) => Nodes!PlaceFolderNode(t, f)
  BY <1>2, <1>6 DEF Store!PlaceFolderNode, Nodes!PlaceFolderNode, Store!allocVars, Nodes!allocVars
<1>13. Store!PlaceIpmHierarchy => Nodes!PlaceIpmHierarchy
  BY <1>4, <1>6 DEF Store!PlaceIpmHierarchy, Nodes!PlaceIpmHierarchy,
     Store!allocVars, Nodes!allocVars
<1>14. \A i : Store!PlaceItem(i) => Nodes!PlaceItem(i)
  BY <1>1, <1>6 DEF Store!PlaceItem, Nodes!PlaceItem, Store!allocVars, Nodes!allocVars
<1>15. Store!GiveUp => Nodes!GiveUp
  BY DEF Store!GiveUp, Nodes!GiveUp, Store!allocVars, Nodes!allocVars
<1>16. UNCHANGED Store!vars => UNCHANGED Nodes!vars
  BY DEF Store!vars, Nodes!vars
<1>17. Store!Next => Nodes!Next
  BY <1>1, <1>8, <1>9, <1>10, <1>11, <1>12, <1>13, <1>14, <1>15 DEF Store!Next, Nodes!Next
<1> QED BY <1>7, <1>16, <1>17

(***************************************************************************)
(* A writer that numbers and schedules as StoreNodes allows puts no two    *)
(* nodes under one NID, and no sibling of a folder is refused.             *)
(***************************************************************************)
LEMMA NodesApart ==
  ImplementsStoreNodes => [](NodeNidsDistinct /\ SiblingsNeverCollide)
<1>1. Nodes!Spec => []Nodes!NodeNidsDistinct
  BY Nodes!NodesAreDistinct, NodesAssumed
<1>2. Nodes!Spec => []Nodes!SiblingsNeverCollide
  BY Nodes!SiblingsAreFree, NodesAssumed
<1>3. Nodes!NodeNidsDistinct => NodeNidsDistinct
  BY DEF Nodes!NodeNidsDistinct, NodeNidsDistinct
<1>4. Nodes!SiblingsNeverCollide => SiblingsNeverCollide
  BY DEF Nodes!SiblingsNeverCollide, SiblingsNeverCollide, Failure
<1> QED BY <1>1, <1>2, <1>3, <1>4, SameNodes, PTL
        DEF ImplementsStoreNodes, Store!Spec, Nodes!Spec

============================================================================
