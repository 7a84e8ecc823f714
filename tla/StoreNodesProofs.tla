-------------------------- MODULE StoreNodesProofs --------------------------
(***************************************************************************)
(* The nodes of a store are distinct and no sibling is refused, for every  *)
(* ceiling of the index space and every number of folders and items.       *)
(***************************************************************************)
EXTENDS StoreNodes, TLAPS

(***************************************************************************)
(* The identifiers are M5Allocator's: what was proved of their encoding    *)
(* holds here.  It depends neither on the calls nor on the variables.      *)
(***************************************************************************)
Space == INSTANCE NidAllocatorProofs WITH AskedTypes <- {}, AskedNids <- {}

(***************************************************************************)
(* The assumptions under which they were proved.                           *)
(***************************************************************************)
LEMMA SpaceAssumed ==
  /\ MaxNidIndex \in 1025..Space!IndexSpace
  /\ {} \subseteq 0..31 /\ {} \subseteq Nat
  /\ Space!IndexSpace = IndexSpace
<1>1. Space!IndexSpace = IndexSpace
  BY SMT DEF Space!IndexSpace, IndexSpace
<1> QED BY <1>1, MaxNidIndexAssumption

(***************************************************************************)
(* The ceiling kMaxNidIndex fits the 27 bits and leaves user indices.      *)
(***************************************************************************)
LEMMA Ceiling ==
  /\ IndexSpace \in Nat /\ IndexSpace > 0
  /\ MaxNidIndex \in Nat /\ MaxNidIndex > 1024 /\ MaxNidIndex <= IndexSpace
BY Space!Ceiling, SpaceAssumed

(***************************************************************************)
(* The encoding (Nid, types.hpp): below the 27-bit ceiling a NID is a      *)
(* natural number that gives its type and its index back.                  *)
(***************************************************************************)
LEMMA NidEncoding ==
  ASSUME NEW nt \in 0..31, NEW idx \in Nat, idx < IndexSpace
  PROVE  /\ Nid(nt, idx) = 32 * idx + nt
         /\ Nid(nt, idx) \in Nat
         /\ NidTypeOf(Nid(nt, idx)) = nt
         /\ NidIndexOf(Nid(nt, idx)) = idx
<1>1. Nid(nt, idx) = Space!Nid(nt, idx)
  BY SpaceAssumed DEF Nid, Space!Nid
<1>2. /\ Space!Nid(nt, idx) = 32 * idx + nt
      /\ Space!Nid(nt, idx) \in Nat
      /\ Space!NidTypeOf(Space!Nid(nt, idx)) = nt
      /\ Space!NidIndexOf(Space!Nid(nt, idx)) = idx
  BY Space!NidEncoding, SpaceAssumed
<1> QED
  BY <1>1, <1>2 DEF NidTypeOf, NidIndexOf, Space!NidTypeOf, Space!NidIndexOf

(***************************************************************************)
(* Every counter of M5Allocator() starts below the ceiling.                *)
(***************************************************************************)
LEMMA StartsAreNat ==
  ASSUME NEW nt \in 0..31
  PROVE  StartIndex(nt) \in Nat /\ StartIndex(nt) < MaxNidIndex
<1>1. StartIndex(nt) = Space!StartIndex(nt)
  BY DEF StartIndex, Space!StartIndex, kUserAllocStart, Space!kUserAllocStart,
         HID, Internal, Space!HID, Space!Internal
<1> QED BY <1>1, Space!StartsAreNat, SpaceAssumed

\* Indices at which the baseline has tables of the three sibling types.
SystemIndices == {9, 48, 1025, 1026, 1027}
SiblingTypes  == {HierarchyTable, ContentsTable, AssocContentsTable}

(***************************************************************************)
(* The allocator's identifiers are the store's: both are types.hpp's Nid.  *)
(***************************************************************************)
LEMMA SameSpace ==
  /\ \A t \in Nat, i \in Nat : Alloc!Nid(t, i) = Nid(t, i)
  /\ \A t \in Nat : Alloc!StartIndex(t) = StartIndex(t)
  /\ \A n \in Nat : Alloc!IsValidNidType(Alloc!NidTypeOf(n))
                      = IsValidNidType(NidTypeOf(n))
<1>1. Alloc!IndexSpace = IndexSpace
  BY SMT DEF Alloc!IndexSpace, IndexSpace
<1>2. \A t \in Nat, i \in Nat : Alloc!Nid(t, i) = Nid(t, i)
  BY <1>1 DEF Alloc!Nid, Nid
<1>3. \A t \in Nat : Alloc!StartIndex(t) = StartIndex(t)
  BY DEF Alloc!StartIndex, StartIndex, Alloc!HID, HID, Alloc!Internal, Internal,
         Alloc!kUserAllocStart, kUserAllocStart
<1>4. Alloc!ValidNidTypes = ValidNidTypes
  BY DEF Alloc!ValidNidTypes, ValidNidTypes
<1>5. \A n \in Nat : Alloc!NidTypeOf(n) = NidTypeOf(n)
  BY DEF Alloc!NidTypeOf, NidTypeOf
<1>6. \A n \in Nat : Alloc!IsValidNidType(Alloc!NidTypeOf(n))
                      = IsValidNidType(NidTypeOf(n))
  BY <1>4, <1>5 DEF Alloc!IsValidNidType, IsValidNidType
<1> QED BY <1>2, <1>3, <1>6

(***************************************************************************)
(* What a call of allocate leaves behind: the NID it returns is new, of    *)
(* the type asked for and past the system's indices; a throw takes nothing.*)
(***************************************************************************)
LEMMA AllocateStep ==
  ASSUME Alloc!TypeOK, NEW nt \in {NormalFolder, NormalMessage}, Alloc!Allocate(nt)
  PROVE  /\ Alloc!TypeOK'
         /\ ret'.ok => /\ ret'.nid \in Nat /\ ret'.nid \notin allocated
                       /\ allocated' = allocated \cup {ret'.nid}
                       /\ \E idx \in Nat : /\ 1024 <= idx /\ idx < IndexSpace
                                           /\ ret'.nid = Nid(nt, idx)
         /\ ~ret'.ok => allocated' = allocated
<1>0. nt \in 0..31 /\ nt \in Nat /\ StartIndex(nt) = 1024
  BY DEF NormalFolder, NormalMessage, StartIndex, kUserAllocStart, HID, Internal
<1>1. ASSUME NEW idx \in Alloc!Remaining(nt), Alloc!Take(nt, idx)
      PROVE  /\ Alloc!TypeOK'
             /\ ret'.ok /\ ret'.nid \in Nat /\ ret'.nid \notin allocated
             /\ allocated' = allocated \cup {ret'.nid}
             /\ \E i \in Nat : /\ 1024 <= i /\ i < IndexSpace
                               /\ ret'.nid = Nid(nt, i)
  <2>1. idx \in Nat /\ 1024 <= idx /\ idx < MaxNidIndex
    BY <1>0, Ceiling, SameSpace DEF Alloc!TypeOK, Alloc!Remaining
  <2>2. idx < IndexSpace
    BY <2>1, Ceiling
  <2>3. Nid(nt, idx) \in Nat
    BY <1>0, <2>1, <2>2, NidEncoding
  <2>4. /\ ret' = [ok |-> TRUE, nid |-> Nid(nt, idx)]
        /\ allocated' = allocated \cup {Nid(nt, idx)}
        /\ Nid(nt, idx) \notin allocated
    BY <1>0, <1>1, <2>1, SameSpace DEF Alloc!Take, Alloc!FirstFree, Alloc!Returned
  <2>5. nextIndex' \in [0..31 -> Nat]
    <3>1. nextIndex' = [nextIndex EXCEPT ![nt] = idx + 1]
      BY <1>1 DEF Alloc!Take
    <3>2. idx + 1 \in Nat
      BY <2>1
    <3> QED BY <3>1, <3>2 DEF Alloc!TypeOK
  <2>6. ASSUME NEW u \in 0..31
        PROVE  nextIndex'[u] \in StartIndex(u)..MaxNidIndex
    <3>1. nextIndex'[u] = IF u = nt THEN idx + 1 ELSE nextIndex[u]
      BY <1>1 DEF Alloc!TypeOK, Alloc!Take
    <3> QED BY <1>0, <2>1, <3>1, Ceiling, SameSpace DEF Alloc!TypeOK
  <2>7. allocated' \in SUBSET Nat /\ ret' \in [ok : BOOLEAN, nid : Nat]
    BY <2>3, <2>4 DEF Alloc!TypeOK
  <2>8. Alloc!TypeOK'
    BY <2>5, <2>6, <2>7, SameSpace DEF Alloc!TypeOK
  <2> QED BY <2>1, <2>2, <2>3, <2>4, <2>8
<1>2. ASSUME Alloc!Exhausted(nt)
      PROVE  Alloc!TypeOK' /\ ~ret'.ok /\ allocated' = allocated
  <2>1. ret' = [ok |-> FALSE, nid |-> 0] /\ allocated' = allocated
    BY <1>2 DEF Alloc!Exhausted, Alloc!Threw
  <2>2. nextIndex' = [nextIndex EXCEPT ![nt] = MaxNidIndex]
    BY <1>2 DEF Alloc!Exhausted
  <2>3. nextIndex' \in [0..31 -> Nat]
    BY <2>2, Ceiling DEF Alloc!TypeOK
  <2>4. ASSUME NEW u \in 0..31
        PROVE  nextIndex'[u] \in StartIndex(u)..MaxNidIndex
    <3>1. nextIndex'[u] = IF u = nt THEN MaxNidIndex ELSE nextIndex[u]
      BY <2>2 DEF Alloc!TypeOK
    <3> QED BY <1>0, <3>1, Ceiling, StartsAreNat, SameSpace DEF Alloc!TypeOK
  <2>5. allocated' \in SUBSET Nat /\ ret' \in [ok : BOOLEAN, nid : Nat]
    BY <2>1 DEF Alloc!TypeOK
  <2> QED BY <2>1, <2>3, <2>4, <2>5, SameSpace DEF Alloc!TypeOK
<1>3. Alloc!IsValidNidType(nt)
  BY DEF Alloc!IsValidNidType, Alloc!ValidNidTypes, NormalFolder, NormalMessage
<1> QED BY <1>1, <1>2, <1>3 DEF Alloc!Allocate

(***************************************************************************)
(* What a call of registerExternal leaves behind: nothing but the NID, and *)
(* a NID of a valid type that is not in use is never refused.              *)
(***************************************************************************)
LEMMA RegisterStep ==
  ASSUME Alloc!TypeOK, NEW n \in Nat, Alloc!RegisterExternal(n)
  PROVE  /\ Alloc!TypeOK'
         /\ allocated \subseteq allocated' /\ allocated' \subseteq allocated \cup {n}
         /\ IsValidNidType(NidTypeOf(n)) /\ n \notin allocated => ret'.ok
<1>1. nextIndex' = nextIndex /\ allocated' \in SUBSET Nat
  BY DEF Alloc!RegisterExternal, Alloc!Throw, Alloc!TypeOK
<1>2. ret' = [ok |-> TRUE, nid |-> n] \/ ret' = [ok |-> FALSE, nid |-> 0]
  BY DEF Alloc!RegisterExternal, Alloc!Throw, Alloc!Threw, Alloc!Returned
<1>3. [ok |-> TRUE, nid |-> n] \in [ok : BOOLEAN, nid : Nat]
  OBVIOUS
<1>4. [ok |-> FALSE, nid |-> 0] \in [ok : BOOLEAN, nid : Nat]
  OBVIOUS
<1>5. Alloc!TypeOK'
  BY <1>1, <1>2, <1>3, <1>4 DEF Alloc!TypeOK
<1>6. allocated \subseteq allocated' /\ allocated' \subseteq allocated \cup {n}
  BY DEF Alloc!RegisterExternal, Alloc!Throw
<1>7. ASSUME IsValidNidType(NidTypeOf(n)), n \notin allocated PROVE ret'.ok
  <2>1. ret' = [ok |-> TRUE, nid |-> n]
    BY <1>7, SameSpace DEF Alloc!RegisterExternal, Alloc!Registrable, Alloc!Returned
  <2> QED BY <2>1
<1> QED BY <1>5, <1>6, <1>7

-----------------------------------------------------------------------------

(***************************************************************************)
(* The inductive invariant.  A folder's index lies outside the system's    *)
(* (OwnIndices), since the baseline's folder NIDs are registered before    *)
(* the first call of allocate (BaselineTaken).  A NID in use that could be *)
(* a sibling's is then the system's or one registered for its own folder   *)
(* (SiblingsTaken), and every node scheduled is the baseline's or was      *)
(* placed under its own name (NodesAccounted).                             *)
(***************************************************************************)
OwnIndices ==
  \A f \in folders : \E idx \in Nat :
    /\ f = Nid(NormalFolder, idx)
    /\ 1024 <= idx /\ idx < IndexSpace /\ idx \notin SystemIndices

BaselineTaken ==
  /\ registered => {NID_IPM_SUBTREE, NID_SEARCH_ROOT, NID_DELETED_ITEMS} \subseteq allocated
  /\ folders # {} => registered
  /\ folders \subseteq allocated
  /\ siblings < 3 => current \in folders

SiblingsTaken ==
  \A n \in allocated : NidTypeOf(n) \in SiblingTypes =>
    \/ NidIndexOf(n) \in SystemIndices
    \/ \E f \in folders : /\ NidIndexOf(n) = NidIndexOf(f)
                          /\ f = current => NidTypeOf(n) <= 12 + siblings

ItemsAreMessages == \A i \in items : NidTypeOf(i) = NormalMessage

NodesAccounted ==
  \A n \in nbt :
    \/ n \in BaselineNids
    \/ n = NID_IPM_HIERARCHY /\ ipmPlaced
    \/ n \in placed[NormalMessage]
    \/ \E t \in FolderNodeTypes : \E f \in placed[t] : n = FolderNode(t, f)

PlacedApart ==
  /\ placed[NormalMessage] \subseteq items
  /\ \A t \in FolderNodeTypes : placed[t] \subseteq folders

IInv ==
  /\ TypeOK
  /\ OwnIndices /\ BaselineTaken /\ SiblingsTaken
  /\ ItemsAreMessages /\ PlacedApart /\ NodesAccounted
  /\ NodeNidsDistinct /\ SiblingsNeverCollide

-----------------------------------------------------------------------------

(***************************************************************************)
(* The reserved and the baseline's NIDs that could be a folder's node have *)
(* system indices, and none is a message's.                                *)
(***************************************************************************)
LEMMA SystemTables ==
  /\ \A n \in ReservedTable \cup RegisteredBaseline :
       NidTypeOf(n) \in SiblingTypes => NidIndexOf(n) \in SystemIndices
  /\ \A n \in BaselineNids \cup {NID_IPM_HIERARCHY} :
       NidTypeOf(n) \in FolderNodeTypes => NidIndexOf(n) \in SystemIndices
  /\ \A n \in BaselineNids \cup {NID_IPM_HIERARCHY} : NidTypeOf(n) # NormalMessage
<1> USE DEF NidTypeOf, NidIndexOf, SystemIndices, SiblingTypes, FolderNodeTypes,
            NormalFolder, NormalMessage, HierarchyTable, ContentsTable,
            AssocContentsTable, NID_IPM_HIERARCHY
<1>1. \A n \in ReservedTable : n % 32 \in SiblingTypes => n \div 32 \in SystemIndices
  BY SMT DEF ReservedTable
<1>2. \A n \in kReserved : n % 32 \in SiblingTypes => n \div 32 \in SystemIndices
  BY SMT DEF kReserved
<1>3. \A n \in BaselineNids \cup {NID_IPM_HIERARCHY} :
        /\ n % 32 \in FolderNodeTypes => n \div 32 \in SystemIndices
        /\ n % 32 # NormalMessage
  BY SMT DEF BaselineNids
<1> QED BY <1>1, <1>2, <1>3, SMT DEF RegisteredBaseline

(***************************************************************************)
(* The IPM subtree's hierarchy table is no baseline node: the writers      *)
(* schedule it themselves.                                                 *)
(***************************************************************************)
LEMMA IpmHierarchyIsNotBaseline == NID_IPM_HIERARCHY \notin BaselineNids
BY SMT DEF NID_IPM_HIERARCHY, BaselineNids

(***************************************************************************)
(* The types of a folder's nodes fit the five bits of a NID's type.        *)
(***************************************************************************)
LEMMA NodeTypesAreFiveBits == FolderNodeTypes \subseteq 0..31 /\ SiblingTypes \subseteq FolderNodeTypes
BY SMT DEF FolderNodeTypes, SiblingTypes, NormalFolder, HierarchyTable, ContentsTable, AssocContentsTable

(***************************************************************************)
(* A folder's node of a given type determines the folder.                  *)
(***************************************************************************)
LEMMA FolderNodeOfFolder ==
  ASSUME NEW t \in FolderNodeTypes, NEW idx \in Nat, idx < IndexSpace
  PROVE  /\ NidIndexOf(Nid(NormalFolder, idx)) = idx
         /\ NidTypeOf(Nid(NormalFolder, idx)) = NormalFolder
         /\ FolderNode(t, Nid(NormalFolder, idx)) = Nid(t, idx)
         /\ Nid(t, idx) \in Nat
         /\ NidTypeOf(Nid(t, idx)) = t /\ NidIndexOf(Nid(t, idx)) = idx
<1>1. t \in 0..31 /\ NormalFolder \in 0..31
  BY NodeTypesAreFiveBits DEF NormalFolder
<1> QED BY <1>1, NidEncoding DEF FolderNode

-----------------------------------------------------------------------------

(***************************************************************************)
(* Before anything is registered the invariant holds.                      *)
(***************************************************************************)
LEMMA InitEstablishes == Init => IInv
<1> SUFFICES ASSUME Init PROVE IInv
  OBVIOUS
<1>1. Alloc!TypeOK
  <2>1. allocated = ReservedTable
    BY DEF Init, Alloc!Init, Alloc!ReservedTable, ReservedTable
  <2>2. ReservedTable \subseteq Nat
    BY DEF ReservedTable
  <2>3. nextIndex = [nt \in 0..31 |-> StartIndex(nt)]
    BY SameSpace DEF Init, Alloc!Init
  <2>4. ret = [ok |-> FALSE, nid |-> 0]
    BY DEF Init, Alloc!Init, Alloc!Threw
  <2>5. nextIndex \in [0..31 -> Nat]
    BY <2>3, StartsAreNat
  <2>6. ASSUME NEW u \in 0..31 PROVE nextIndex[u] \in StartIndex(u)..MaxNidIndex
    BY <2>3, StartsAreNat, Ceiling
  <2> QED BY <2>1, <2>2, <2>4, <2>5, <2>6, SameSpace DEF Alloc!TypeOK
<1>2. nbt \subseteq BaselineNids /\ BaselineNids \subseteq Nat
  BY SMT DEF Init, BaselineNids
<1>3. SiblingsTaken
  <2>1. allocated = ReservedTable
    BY DEF Init, Alloc!Init, Alloc!ReservedTable, ReservedTable
  <2> QED BY <2>1, SystemTables DEF SiblingsTaken
<1>4. TypeOK
  <2>1. placed \in [NodeTypes -> SUBSET (folders \cup items)]
    BY DEF Init
  <2>2. registered \in BOOLEAN /\ ipmPlaced \in BOOLEAN
    BY DEF Init
  <2>3. folders \in SUBSET Nat /\ items \in SUBSET Nat /\ current \in Nat /\ siblings \in 0..3
    BY DEF Init
  <2>4. nbt \in SUBSET Nat /\ twice \in SUBSET nbt
    BY <1>2 DEF Init
  <2>5. failure \in {"none", "exhausted", "collision", "other"}
    BY DEF Init
  <2> QED BY <1>1, <2>1, <2>2, <2>3, <2>4, <2>5 DEF TypeOK
<1>5. /\ OwnIndices /\ BaselineTaken /\ ItemsAreMessages /\ NodesAccounted
      /\ NodeNidsDistinct /\ SiblingsNeverCollide
  BY <1>2 DEF Init, OwnIndices, BaselineTaken, ItemsAreMessages, NodesAccounted,
              NodeNidsDistinct, SiblingsNeverCollide
<1>6. PlacedApart
  BY DEF Init, PlacedApart, NodeTypes
<1> QED BY <1>3, <1>4, <1>5, <1>6 DEF IInv

-----------------------------------------------------------------------------

(***************************************************************************)
(* Registering the baseline takes its NIDs out of the allocator's reach.   *)
(***************************************************************************)
LEMMA RegisterBaselineKeeps == IInv /\ RegisterBaselineNids => IInv'
<1> SUFFICES ASSUME IInv, RegisterBaselineNids PROVE IInv'
  OBVIOUS
<1>1. RegisteredBaseline \subseteq Nat
  BY SMT DEF RegisteredBaseline, kReserved
<1>2. {NID_IPM_SUBTREE, NID_SEARCH_ROOT, NID_DELETED_ITEMS} \subseteq RegisteredBaseline
  BY SMT DEF RegisteredBaseline, kReserved, NID_IPM_SUBTREE, NID_SEARCH_ROOT,
             NID_DELETED_ITEMS, IsValidNidType, ValidNidTypes, NidTypeOf
<1>3. TypeOK'
  BY <1>1 DEF IInv, TypeOK, Alloc!TypeOK, RegisterBaselineNids
<1>4. BaselineTaken'
  BY <1>2 DEF IInv, BaselineTaken, RegisterBaselineNids
<1>5. SiblingsTaken'
  BY SystemTables DEF IInv, SiblingsTaken, RegisterBaselineNids
<1>6. OwnIndices' /\ ItemsAreMessages' /\ NodeNidsDistinct' /\ SiblingsNeverCollide'
  BY DEF IInv, OwnIndices, ItemsAreMessages, NodeNidsDistinct,
         SiblingsNeverCollide, RegisterBaselineNids
<1>7. NodesAccounted' /\ PlacedApart'
  BY DEF IInv, NodesAccounted, PlacedApart, RegisterBaselineNids
<1> QED BY <1>3, <1>4, <1>5, <1>6, <1>7 DEF IInv

-----------------------------------------------------------------------------

(***************************************************************************)
(* A new folder's index is a user index no other folder has.               *)
(***************************************************************************)
LEMMA AllocateFolderKeeps == IInv /\ AllocateFolder => IInv'
<1> SUFFICES ASSUME IInv, AllocateFolder PROVE IInv'
  OBVIOUS
<1> DEFINE new == ret'.nid
<1>0. /\ Alloc!TypeOK /\ Alloc!Allocate(NormalFolder) /\ registered /\ siblings = 3
      /\ failure = "none"
  BY DEF IInv, TypeOK, AllocateFolder
<1>1. /\ Alloc!TypeOK'
      /\ ret'.ok => /\ new \in Nat /\ new \notin allocated
                    /\ allocated' = allocated \cup {new}
                    /\ \E idx \in Nat : /\ 1024 <= idx /\ idx < IndexSpace
                                        /\ new = Nid(NormalFolder, idx)
      /\ ~ret'.ok => allocated' = allocated
  BY <1>0, AllocateStep
<1>2. UNCHANGED <<registered, items, placed, ipmPlaced, nbt, twice>>
  BY DEF AllocateFolder
<1>3. CASE ~ret'.ok
  <2>1. failure' = "exhausted" /\ UNCHANGED <<folders, current, siblings>>
    BY <1>3 DEF AllocateFolder
  <2>2. TypeOK'
    BY <1>1, <1>2, <2>1 DEF IInv, TypeOK
  <2>3. OwnIndices' /\ BaselineTaken' /\ SiblingsTaken'
    BY <1>1, <1>2, <1>3, <2>1 DEF IInv, OwnIndices, BaselineTaken, SiblingsTaken
  <2>4. ItemsAreMessages' /\ PlacedApart' /\ NodesAccounted' /\ NodeNidsDistinct'
    BY <1>2, <2>1 DEF IInv, ItemsAreMessages, PlacedApart, NodesAccounted, NodeNidsDistinct
  <2> QED BY <2>1, <2>2, <2>3, <2>4 DEF IInv, SiblingsNeverCollide
<1>4. CASE ret'.ok
  <2>1. folders' = folders \cup {new} /\ current' = new /\ siblings' = 0 /\ failure' = failure
    BY <1>4 DEF AllocateFolder
  <2>2. PICK idx \in Nat : /\ 1024 <= idx /\ idx < IndexSpace
                           /\ new = Nid(NormalFolder, idx)
    BY <1>1, <1>4
  <2>3. NidIndexOf(new) = idx /\ NidTypeOf(new) = NormalFolder
    BY <2>2, FolderNodeOfFolder DEF FolderNodeTypes
  <2>4. idx \notin SystemIndices
    <3>1. {NID_IPM_SUBTREE, NID_SEARCH_ROOT, NID_DELETED_ITEMS} \subseteq allocated
      BY <1>0 DEF IInv, BaselineTaken
    <3>2. new # NID_IPM_SUBTREE /\ new # NID_SEARCH_ROOT /\ new # NID_DELETED_ITEMS
      BY <1>1, <1>4, <3>1
    <3>3. new = 32 * idx + 2
      <4>1. NormalFolder \in 0..31 /\ NormalFolder = 2
        BY DEF NormalFolder
      <4> QED BY <2>2, <4>1, NidEncoding
    <3>4. idx # 1025 /\ idx # 1026 /\ idx # 1027
      BY <3>2, <3>3, SMT DEF NID_IPM_SUBTREE, NID_SEARCH_ROOT, NID_DELETED_ITEMS
    <3> QED BY <2>2, <3>4 DEF SystemIndices
  <2>5. TypeOK'
    <3>1. placed' \in [NodeTypes -> SUBSET (folders' \cup items')]
      <4>1. SUBSET (folders \cup items) \subseteq SUBSET (folders' \cup items')
        BY <1>2, <2>1
      <4>2. placed' = placed /\ placed \in [NodeTypes -> SUBSET (folders \cup items)]
        BY <1>2 DEF IInv, TypeOK
      <4> QED BY <4>1, <4>2
    <3>2. folders' \in SUBSET Nat /\ current' \in Nat
      <4>1. folders \in SUBSET Nat /\ new \in Nat
        BY <1>1, <1>4 DEF IInv, TypeOK
      <4> QED BY <2>1, <4>1
    <3>3. siblings' \in 0..3
      BY <2>1
    <3>4. failure' \in {"none", "exhausted", "collision", "other"}
      BY <2>1 DEF IInv, TypeOK
    <3> QED BY <1>1, <1>2, <3>1, <3>2, <3>3, <3>4 DEF IInv, TypeOK
  <2>6. OwnIndices'
    BY <2>1, <2>2, <2>4 DEF IInv, OwnIndices
  <2>7. BaselineTaken'
    BY <1>0, <1>1, <1>2, <1>4, <2>1 DEF IInv, BaselineTaken
  <2>8. SiblingsTaken'
    <3> SUFFICES ASSUME NEW n \in allocated', NidTypeOf(n) \in SiblingTypes,
                        NidIndexOf(n) \notin SystemIndices
                 PROVE  \E f \in folders' : /\ NidIndexOf(n) = NidIndexOf(f)
                                            /\ f = current' => NidTypeOf(n) <= 12 + siblings'
      BY DEF SiblingsTaken
    <3>1. n \in allocated
      BY <1>1, <1>4, <2>3 DEF SiblingTypes, NormalFolder, HierarchyTable,
                              ContentsTable, AssocContentsTable
    <3>2. PICK f \in folders : NidIndexOf(n) = NidIndexOf(f)
      BY <3>1 DEF IInv, SiblingsTaken
    <3>3. f # new
      BY <1>1, <1>4 DEF IInv, BaselineTaken
    <3> QED BY <2>1, <3>2, <3>3
  <2>9. ItemsAreMessages' /\ PlacedApart' /\ NodesAccounted' /\ NodeNidsDistinct'
    BY <1>2, <2>1 DEF IInv, ItemsAreMessages, PlacedApart, NodesAccounted, NodeNidsDistinct
  <2> QED BY <2>1, <2>5, <2>6, <2>7, <2>8, <2>9 DEF IInv, SiblingsNeverCollide
<1> QED BY <1>3, <1>4

-----------------------------------------------------------------------------

(***************************************************************************)
(* A sibling has the index of its folder, which nothing else has: it was   *)
(* free.                                                                   *)
(***************************************************************************)
LEMMA RegisterSiblingKeeps == IInv /\ RegisterSibling => IInv'
<1> SUFFICES ASSUME IInv, RegisterSibling PROVE IInv'
  OBVIOUS
<1> DEFINE t == SiblingType(siblings + 1)
           sib == FolderNode(t, current)
<1>0. /\ Alloc!TypeOK /\ siblings \in 0..2 /\ current \in folders
      /\ Alloc!RegisterExternal(sib) /\ siblings' = siblings + 1
      /\ failure' = IF ret'.ok THEN "none" ELSE "collision"
      /\ UNCHANGED <<registered, folders, current, items, placed, ipmPlaced, nbt, twice>>
  BY DEF IInv, TypeOK, BaselineTaken, RegisterSibling
<1>1. t = 13 + siblings /\ t \in SiblingTypes /\ t \in FolderNodeTypes
  BY <1>0 DEF SiblingType, SiblingTypes, FolderNodeTypes, HierarchyTable,
              ContentsTable, AssocContentsTable
<1>2. PICK idx \in Nat :
        /\ current = Nid(NormalFolder, idx)
        /\ 1024 <= idx /\ idx < IndexSpace /\ idx \notin SystemIndices
  BY <1>0 DEF IInv, OwnIndices
<1>3. /\ NidIndexOf(current) = idx
      /\ sib = Nid(t, idx) /\ sib \in Nat
      /\ NidTypeOf(sib) = t /\ NidIndexOf(sib) = idx
  BY <1>1, <1>2, FolderNodeOfFolder
<1>4. /\ Alloc!TypeOK'
      /\ allocated \subseteq allocated' /\ allocated' \subseteq allocated \cup {sib}
      /\ IsValidNidType(NidTypeOf(sib)) /\ sib \notin allocated => ret'.ok
  BY <1>0, <1>3, RegisterStep
<1>5. IsValidNidType(NidTypeOf(sib))
  BY <1>0, <1>1, <1>3 DEF IsValidNidType, ValidNidTypes
<1>6. sib \notin allocated
  <2> SUFFICES ASSUME sib \in allocated PROVE FALSE
    OBVIOUS
  <2>1. PICK f \in folders : /\ idx = NidIndexOf(f)
                             /\ f = current => t <= 12 + siblings
    BY <1>1, <1>2, <1>3 DEF IInv, SiblingsTaken
  <2>2. f = current
    <3>1. PICK j \in Nat : f = Nid(NormalFolder, j) /\ j < IndexSpace
      BY DEF IInv, OwnIndices
    <3>2. NidIndexOf(f) = j
      BY <1>1, <3>1, FolderNodeOfFolder
    <3> QED BY <1>2, <2>1, <3>1, <3>2
  <2> QED BY <1>0, <1>1, <2>1, <2>2
<1>7. failure' = "none"
  BY <1>0, <1>4, <1>5, <1>6
<1>8. TypeOK'
  <2>1. siblings' \in 0..3
    BY <1>0
  <2> QED BY <1>0, <1>4, <1>7, <2>1 DEF IInv, TypeOK
<1>9. OwnIndices' /\ BaselineTaken'
  BY <1>0, <1>4 DEF IInv, OwnIndices, BaselineTaken
<1>10. SiblingsTaken'
  <2> SUFFICES ASSUME NEW n \in allocated', NidTypeOf(n) \in SiblingTypes,
                      NidIndexOf(n) \notin SystemIndices
               PROVE  \E f \in folders :
                        /\ NidIndexOf(n) = NidIndexOf(f)
                        /\ f = current => NidTypeOf(n) <= 12 + siblings'
    BY <1>0 DEF SiblingsTaken
  <2>1. CASE n = sib
    BY <1>0, <1>1, <1>3, <2>1
  <2>2. CASE n # sib
    <3>1. n \in allocated
      BY <1>4, <2>2
    <3>2. PICK f \in folders : /\ NidIndexOf(n) = NidIndexOf(f)
                               /\ f = current => NidTypeOf(n) <= 12 + siblings
      BY <3>1 DEF IInv, SiblingsTaken
    <3>3. NidTypeOf(n) \in Int
      BY DEF SiblingTypes, HierarchyTable, ContentsTable, AssocContentsTable
    <3> QED BY <1>0, <3>2, <3>3
  <2> QED BY <2>1, <2>2
<1>11. ItemsAreMessages' /\ PlacedApart' /\ NodesAccounted' /\ NodeNidsDistinct'
  BY <1>0 DEF IInv, ItemsAreMessages, PlacedApart, NodesAccounted, NodeNidsDistinct
<1> QED BY <1>7, <1>8, <1>9, <1>10, <1>11 DEF IInv, SiblingsNeverCollide

-----------------------------------------------------------------------------

(***************************************************************************)
(* An item's NID is new and a message's, so that it is no folder's node.   *)
(***************************************************************************)
LEMMA AllocateItemKeeps == IInv /\ AllocateItem => IInv'
<1> SUFFICES ASSUME IInv, AllocateItem PROVE IInv'
  OBVIOUS
<1> DEFINE new == ret'.nid
<1>0. /\ Alloc!TypeOK /\ Alloc!Allocate(NormalMessage) /\ failure = "none"
      /\ UNCHANGED <<registered, folders, current, siblings, placed, ipmPlaced, nbt, twice>>
      /\ \/ ret'.ok /\ items' = items \cup {new} /\ failure' = failure
         \/ ~ret'.ok /\ failure' = "exhausted" /\ items' = items
  BY DEF IInv, TypeOK, AllocateItem
<1>1. /\ Alloc!TypeOK'
      /\ ret'.ok => /\ new \in Nat /\ new \notin allocated
                    /\ allocated' = allocated \cup {new}
                    /\ \E idx \in Nat : /\ 1024 <= idx /\ idx < IndexSpace
                                        /\ new = Nid(NormalMessage, idx)
      /\ ~ret'.ok => allocated' = allocated
  BY <1>0, AllocateStep
<1>2. ret'.ok => NidTypeOf(new) = NormalMessage
  BY <1>1, NidEncoding DEF NormalMessage
<1>3. items \subseteq items' /\ items' \in SUBSET Nat /\ allocated \subseteq allocated'
  BY <1>0, <1>1 DEF IInv, TypeOK
<1>4. failure' \in {"none", "exhausted"}
  BY <1>0
<1>5. TypeOK'
  <2>1. placed' \in [NodeTypes -> SUBSET (folders' \cup items')]
    <3>1. SUBSET (folders \cup items) \subseteq SUBSET (folders' \cup items')
      BY <1>0, <1>3
    <3>2. placed' = placed /\ placed \in [NodeTypes -> SUBSET (folders \cup items)]
      BY <1>0 DEF IInv, TypeOK
    <3> QED BY <3>1, <3>2
  <2> QED BY <1>0, <1>1, <1>3, <1>4, <2>1 DEF IInv, TypeOK
<1>6. OwnIndices' /\ BaselineTaken' /\ NodesAccounted' /\ NodeNidsDistinct'
  BY <1>0, <1>3 DEF IInv, OwnIndices, BaselineTaken, NodesAccounted, NodeNidsDistinct
<1>7. SiblingsTaken'
  <2>1. \A n \in allocated' : NidTypeOf(n) \in SiblingTypes => n \in allocated
    BY <1>0, <1>1, <1>2 DEF SiblingTypes, NormalMessage, HierarchyTable,
                            ContentsTable, AssocContentsTable
  <2> QED BY <1>0, <2>1 DEF IInv, SiblingsTaken
<1>8. ItemsAreMessages'
  BY <1>0, <1>2 DEF IInv, ItemsAreMessages
<1>9. PlacedApart'
  BY <1>0, <1>3 DEF IInv, PlacedApart
<1> QED BY <1>4, <1>5, <1>6, <1>7, <1>8, <1>9 DEF IInv, SiblingsNeverCollide

-----------------------------------------------------------------------------

\* What scheduling leaves alone, whatever node it is for.
AllocatorSide == <<allocVars, registered, folders, current, siblings, items, failure>>

(***************************************************************************)
(* Scheduling a node touches none of the numbers given out.                *)
(***************************************************************************)
LEMMA SchedulingKeepsAllocatorSide ==
  IInv /\ UNCHANGED AllocatorSide =>
    /\ Alloc!TypeOK'
    /\ OwnIndices' /\ BaselineTaken' /\ SiblingsTaken' /\ ItemsAreMessages'
    /\ SiblingsNeverCollide'
<1> SUFFICES ASSUME IInv, UNCHANGED AllocatorSide
             PROVE  /\ Alloc!TypeOK'
                    /\ OwnIndices' /\ BaselineTaken' /\ SiblingsTaken'
                    /\ ItemsAreMessages' /\ SiblingsNeverCollide'
  OBVIOUS
<1>1. Alloc!TypeOK'
  BY DEF IInv, TypeOK, Alloc!TypeOK, AllocatorSide, allocVars
<1>2. OwnIndices' /\ ItemsAreMessages' /\ SiblingsNeverCollide'
  BY DEF IInv, OwnIndices, ItemsAreMessages, SiblingsNeverCollide, AllocatorSide
<1>3. BaselineTaken' /\ SiblingsTaken'
  BY DEF IInv, BaselineTaken, SiblingsTaken, AllocatorSide, allocVars
<1> QED BY <1>1, <1>2, <1>3

(***************************************************************************)
(* Scheduling a NID that is not in the tree keeps the tree well-typed and  *)
(* its NIDs distinct.                                                      *)
(***************************************************************************)
LEMMA ScheduleFresh ==
  ASSUME IInv, NEW n \in Nat, n \notin nbt, Schedule({n})
  PROVE  /\ nbt' = nbt \cup {n} /\ nbt' \in SUBSET Nat
         /\ twice' = {} /\ NodeNidsDistinct'
BY DEF IInv, TypeOK, Schedule, NodeNidsDistinct

(***************************************************************************)
(* A folder's node is not in the tree yet: its index is the folder's own   *)
(* and each type is placed once.                                           *)
(***************************************************************************)
LEMMA PlaceFolderNodeKeeps ==
  ASSUME IInv, NEW t \in FolderNodeTypes, NEW folder \in folders,
         PlaceFolderNode(t, folder)
  PROVE  IInv'
<1> DEFINE n == FolderNode(t, folder)
<1>0. /\ folder \notin placed[t]
      /\ placed' = [placed EXCEPT ![t] = @ \cup {folder}]
      /\ Schedule({n}) /\ UNCHANGED AllocatorSide /\ ipmPlaced' = ipmPlaced
  BY DEF PlaceFolderNode, AllocatorSide
<1>1. /\ Alloc!TypeOK'
      /\ OwnIndices' /\ BaselineTaken' /\ SiblingsTaken' /\ ItemsAreMessages'
      /\ SiblingsNeverCollide'
  BY <1>0, SchedulingKeepsAllocatorSide
<1>2. PICK idx \in Nat : /\ folder = Nid(NormalFolder, idx)
                         /\ idx < IndexSpace /\ idx \notin SystemIndices
  BY DEF IInv, OwnIndices
<1>3. n = Nid(t, idx) /\ n \in Nat /\ NidTypeOf(n) = t /\ NidIndexOf(n) = idx
  BY <1>2, FolderNodeOfFolder
<1>4. t # NormalMessage
  BY DEF FolderNodeTypes, NormalFolder, NormalMessage, HierarchyTable,
         ContentsTable, AssocContentsTable
<1>5. n \notin nbt
  <2>1. n \notin BaselineNids /\ n # NID_IPM_HIERARCHY
    BY <1>2, <1>3, SystemTables
  <2>2. n \notin placed[NormalMessage]
    BY <1>3, <1>4 DEF IInv, PlacedApart, ItemsAreMessages
  <2>3. ASSUME NEW u \in FolderNodeTypes, NEW f \in placed[u], n = FolderNode(u, f)
        PROVE  FALSE
    <3>1. PICK j \in Nat : f = Nid(NormalFolder, j) /\ j < IndexSpace
      BY DEF IInv, OwnIndices, PlacedApart
    <3>2. n = Nid(u, j) /\ NidTypeOf(n) = u /\ NidIndexOf(n) = j
      BY <2>3, <3>1, FolderNodeOfFolder
    <3>3. u = t /\ f = folder
      BY <1>2, <1>3, <3>1, <3>2
    <3> QED BY <1>0, <3>3
  <2> QED BY <2>1, <2>2, <2>3 DEF IInv, NodesAccounted
<1>6. /\ nbt' = nbt \cup {n} /\ nbt' \in SUBSET Nat
      /\ twice' = {} /\ NodeNidsDistinct'
  BY <1>0, <1>3, <1>5, ScheduleFresh
<1>7. /\ placed \in [NodeTypes -> SUBSET (folders \cup items)]
      /\ FolderNodeTypes \subseteq NodeTypes /\ NormalMessage \in NodeTypes
  BY DEF IInv, TypeOK, NodeTypes
<1>8. \A u \in NodeTypes : placed'[u] = IF u = t THEN placed[u] \cup {folder} ELSE placed[u]
  BY <1>0, <1>7
<1>9. TypeOK'
  <2>1. placed' \in [NodeTypes -> SUBSET (folders' \cup items')]
    <3>1. folders' = folders /\ items' = items
      BY <1>0 DEF AllocatorSide
    <3> QED BY <1>0, <1>7, <3>1
  <2> QED BY <1>0, <1>1, <1>6, <2>1 DEF IInv, TypeOK, AllocatorSide
<1>10. PlacedApart'
  <2>1. folders' = folders /\ items' = items
    BY <1>0 DEF AllocatorSide
  <2> QED BY <1>4, <1>7, <1>8, <2>1 DEF IInv, PlacedApart
<1>11. NodesAccounted'
  <2> SUFFICES ASSUME NEW m \in nbt'
               PROVE  \/ m \in BaselineNids
                      \/ m = NID_IPM_HIERARCHY /\ ipmPlaced'
                      \/ m \in placed'[NormalMessage]
                      \/ \E u \in FolderNodeTypes : \E f \in placed'[u] : m = FolderNode(u, f)
    BY DEF NodesAccounted
  <2>1. CASE m = n
    BY <1>7, <1>8, <2>1
  <2>2. CASE m # n
    <3>1. m \in nbt
      BY <1>6, <2>2
    <3>2. \A u \in NodeTypes : placed[u] \subseteq placed'[u]
      BY <1>8
    <3> QED BY <1>0, <1>7, <3>1, <3>2 DEF IInv, NodesAccounted
  <2> QED BY <2>1, <2>2
<1> QED BY <1>1, <1>6, <1>9, <1>10, <1>11 DEF IInv

(***************************************************************************)
(* The IPM subtree's hierarchy is placed once, at a system index no folder *)
(* has.                                                                    *)
(***************************************************************************)
LEMMA PlaceIpmHierarchyKeeps == IInv /\ PlaceIpmHierarchy => IInv'
<1> SUFFICES ASSUME IInv, PlaceIpmHierarchy PROVE IInv'
  OBVIOUS
<1> DEFINE n == NID_IPM_HIERARCHY
<1>0. /\ ~ipmPlaced /\ ipmPlaced' /\ ipmPlaced' \in BOOLEAN
      /\ Schedule({n}) /\ UNCHANGED AllocatorSide /\ placed' = placed
  BY DEF PlaceIpmHierarchy, AllocatorSide
<1>1. /\ Alloc!TypeOK'
      /\ OwnIndices' /\ BaselineTaken' /\ SiblingsTaken' /\ ItemsAreMessages'
      /\ SiblingsNeverCollide'
  BY <1>0, SchedulingKeepsAllocatorSide
<1>2. n \in Nat /\ NidTypeOf(n) = HierarchyTable /\ NidIndexOf(n) = 1025
  BY SMT DEF NID_IPM_HIERARCHY, NidTypeOf, NidIndexOf, HierarchyTable
<1>3. n \notin nbt
  <2>1. n \notin placed[NormalMessage]
    BY <1>2 DEF IInv, PlacedApart, ItemsAreMessages, NormalMessage, HierarchyTable
  <2>2. ASSUME NEW u \in FolderNodeTypes, NEW f \in placed[u], n = FolderNode(u, f)
        PROVE  FALSE
    <3>1. PICK j \in Nat : /\ f = Nid(NormalFolder, j)
                           /\ j < IndexSpace /\ j \notin SystemIndices
      BY DEF IInv, OwnIndices, PlacedApart
    <3>2. NidIndexOf(n) = j
      BY <2>2, <3>1, FolderNodeOfFolder
    <3> QED BY <1>2, <3>1, <3>2 DEF SystemIndices
  <2> QED BY <1>0, <2>1, <2>2, IpmHierarchyIsNotBaseline DEF IInv, NodesAccounted
<1>4. /\ nbt' = nbt \cup {n} /\ nbt' \in SUBSET Nat
      /\ twice' = {} /\ NodeNidsDistinct'
  BY <1>0, <1>2, <1>3, ScheduleFresh
<1>5. TypeOK'
  BY <1>0, <1>1, <1>4 DEF IInv, TypeOK, AllocatorSide
<1>6. PlacedApart'
  BY <1>0 DEF IInv, PlacedApart, AllocatorSide
<1>7. NodesAccounted'
  BY <1>0, <1>4 DEF IInv, NodesAccounted
<1> QED BY <1>1, <1>4, <1>5, <1>6, <1>7 DEF IInv

(***************************************************************************)
(* An item's node is the only one of its type and index.                   *)
(***************************************************************************)
LEMMA PlaceItemKeeps ==
  ASSUME IInv, NEW n \in items, PlaceItem(n)
  PROVE  IInv'
<1>0. /\ n \notin placed[NormalMessage]
      /\ placed' = [placed EXCEPT ![NormalMessage] = @ \cup {n}]
      /\ Schedule({n}) /\ UNCHANGED AllocatorSide /\ ipmPlaced' = ipmPlaced
  BY DEF PlaceItem, AllocatorSide
<1>1. /\ Alloc!TypeOK'
      /\ OwnIndices' /\ BaselineTaken' /\ SiblingsTaken' /\ ItemsAreMessages'
      /\ SiblingsNeverCollide'
  BY <1>0, SchedulingKeepsAllocatorSide
<1>2. n \in Nat /\ NidTypeOf(n) = NormalMessage
  BY DEF IInv, TypeOK, ItemsAreMessages
<1>3. NormalMessage \notin FolderNodeTypes
  BY DEF FolderNodeTypes, NormalFolder, NormalMessage, HierarchyTable,
         ContentsTable, AssocContentsTable
<1>4. n \notin nbt
  <2>1. n \notin BaselineNids /\ n # NID_IPM_HIERARCHY
    BY <1>2, SystemTables
  <2>2. ASSUME NEW u \in FolderNodeTypes, NEW f \in placed[u], n = FolderNode(u, f)
        PROVE  FALSE
    <3>1. PICK j \in Nat : f = Nid(NormalFolder, j) /\ j < IndexSpace
      BY DEF IInv, OwnIndices, PlacedApart
    <3>2. NidTypeOf(n) = u
      BY <2>2, <3>1, FolderNodeOfFolder
    <3> QED BY <1>2, <1>3, <3>2
  <2> QED BY <1>0, <2>1, <2>2 DEF IInv, NodesAccounted
<1>5. /\ nbt' = nbt \cup {n} /\ nbt' \in SUBSET Nat
      /\ twice' = {} /\ NodeNidsDistinct'
  BY <1>0, <1>2, <1>4, ScheduleFresh
<1>6. /\ placed \in [NodeTypes -> SUBSET (folders \cup items)]
      /\ FolderNodeTypes \subseteq NodeTypes /\ NormalMessage \in NodeTypes
  BY DEF IInv, TypeOK, NodeTypes
<1>7. \A u \in NodeTypes :
        placed'[u] = IF u = NormalMessage THEN placed[u] \cup {n} ELSE placed[u]
  BY <1>0, <1>6
<1>8. folders' = folders /\ items' = items
  BY <1>0 DEF AllocatorSide
<1>9. TypeOK'
  <2>1. placed' \in [NodeTypes -> SUBSET (folders' \cup items')]
    BY <1>0, <1>6, <1>8
  <2> QED BY <1>0, <1>1, <1>5, <2>1 DEF IInv, TypeOK, AllocatorSide
<1>10. PlacedApart'
  BY <1>3, <1>6, <1>7, <1>8 DEF IInv, PlacedApart
<1>11. NodesAccounted'
  <2>1. \A u \in NodeTypes : placed[u] \subseteq placed'[u]
    BY <1>7
  <2>2. n \in placed'[NormalMessage]
    BY <1>6, <1>7
  <2> QED BY <1>0, <1>5, <1>6, <2>1, <2>2 DEF IInv, NodesAccounted
<1> QED BY <1>1, <1>5, <1>9, <1>10, <1>11 DEF IInv

(***************************************************************************)
(* A writer that fails for another reason leaves the tree as it was.       *)
(***************************************************************************)
LEMMA GiveUpKeeps == IInv /\ GiveUp => IInv'
<1> SUFFICES ASSUME IInv, GiveUp PROVE IInv'
  OBVIOUS
<1>0. /\ failure' = "other"
      /\ UNCHANGED <<allocVars, registered, folders, current, siblings, items,
                     placed, ipmPlaced, nbt, twice>>
  BY DEF GiveUp
<1>1. failure' \in {"none", "exhausted", "collision", "other"} /\ failure' # "collision"
  BY <1>0
<1>2. TypeOK'
  BY <1>0, <1>1 DEF IInv, TypeOK, Alloc!TypeOK, allocVars
<1>3. OwnIndices' /\ BaselineTaken' /\ SiblingsTaken' /\ ItemsAreMessages'
  BY <1>0 DEF IInv, OwnIndices, BaselineTaken, SiblingsTaken, ItemsAreMessages, allocVars
<1>4. PlacedApart' /\ NodesAccounted' /\ NodeNidsDistinct'
  BY <1>0 DEF IInv, PlacedApart, NodesAccounted, NodeNidsDistinct
<1> QED BY <1>1, <1>2, <1>3, <1>4 DEF IInv, SiblingsNeverCollide

(***************************************************************************)
(* A step that changes nothing.                                            *)
(***************************************************************************)
LEMMA StutterKeeps == IInv /\ UNCHANGED vars => IInv'
<1> SUFFICES ASSUME IInv, UNCHANGED vars PROVE IInv'
  OBVIOUS
<1>1. TypeOK' /\ SiblingsNeverCollide'
  BY DEF IInv, TypeOK, Alloc!TypeOK, SiblingsNeverCollide, vars
<1>2. OwnIndices' /\ BaselineTaken' /\ SiblingsTaken' /\ ItemsAreMessages'
  BY DEF IInv, OwnIndices, BaselineTaken, SiblingsTaken, ItemsAreMessages, vars
<1>3. PlacedApart' /\ NodesAccounted' /\ NodeNidsDistinct'
  BY DEF IInv, PlacedApart, NodesAccounted, NodeNidsDistinct, vars
<1> QED BY <1>1, <1>2, <1>3 DEF IInv

-----------------------------------------------------------------------------

(***************************************************************************)
(* The invariant above holds in every reachable state of every store       *)
(* writer's node bookkeeping.                                              *)
(***************************************************************************)
THEOREM InductiveInvariant == Spec => []IInv
<1>1. IInv /\ [Next]_vars => IInv'
  BY RegisterBaselineKeeps, AllocateFolderKeeps, RegisterSiblingKeeps,
     AllocateItemKeeps, PlaceFolderNodeKeeps, PlaceIpmHierarchyKeeps,
     PlaceItemKeeps, GiveUpKeeps, StutterKeeps
  DEF Next
<1> QED BY <1>1, InitEstablishes, PTL DEF Spec

(***************************************************************************)
(* Type correctness of the writers' node bookkeeping.                      *)
(***************************************************************************)
THEOREM StoreTypeCorrect == Spec => []TypeOK
<1>1. IInv => TypeOK
  BY DEF IInv
<1> QED BY <1>1, InductiveInvariant, PTL

(***************************************************************************)
(* No writer schedules two nodes under one NID, however many folders and   *)
(* items it is given and wherever the index space ends.                    *)
(***************************************************************************)
THEOREM NodesAreDistinct == Spec => []NodeNidsDistinct
<1>1. IInv => NodeNidsDistinct
  BY DEF IInv
<1> QED BY <1>1, InductiveInvariant, PTL

(***************************************************************************)
(* No call of registerExternal for a folder's sibling table is refused.    *)
(***************************************************************************)
THEOREM SiblingsAreFree == Spec => []SiblingsNeverCollide
<1>1. IInv => SiblingsNeverCollide
  BY DEF IInv
<1> QED BY <1>1, InductiveInvariant, PTL

=============================================================================
