------------------------- MODULE NidAllocatorProofs -------------------------
(***************************************************************************)
(* NidAllocator for every index ceiling up to 2^27, every set of requested *)
(* types and every set of registered NIDs.                                 *)
(***************************************************************************)
EXTENDS NidAllocator, TLAPS

-----------------------------------------------------------------------------
(* The encoding of types.hpp's struct Nid, for every index below 2^27.     *)

(***************************************************************************)
(* The ceiling kMaxNidIndex fits the 27 bits and leaves user indices.      *)
(***************************************************************************)
LEMMA Ceiling ==
  /\ IndexSpace \in Nat /\ IndexSpace > 0
  /\ MaxNidIndex \in Nat /\ MaxNidIndex > 1024 /\ MaxNidIndex <= IndexSpace
<1>1. IndexSpace \in Nat /\ IndexSpace > 0
  BY SMT DEF IndexSpace
<1> QED BY <1>1, MaxNidIndexAssumption, SMT

(***************************************************************************)
(* The encoding (Nid, types.hpp): below the 27-bit ceiling a NID is a      *)
(* natural number that gives its type and its index back.                  *)
(***************************************************************************)
LEMMA NidEncoding ==
  ASSUME NEW nt \in 0..31, NEW idx \in Nat, idx < IndexSpace
  PROVE  /\ Nid(nt, idx) = 32 * idx + nt
         /\ Nid(nt, idx) \in Nat
         /\ NidTypeOf(Nid(nt, idx)) = nt
         /\ NidIndexOf(Nid(nt, idx)) = idx
<1>1. idx % IndexSpace = idx
  BY Ceiling, SMT
<1>2. nt % 32 = nt
  BY SMT
<1>3. Nid(nt, idx) = 32 * idx + nt
  BY <1>1, <1>2 DEF Nid
<1>4. 32 * idx + nt \in Nat /\ (32 * idx + nt) % 32 = nt
  BY SMT
<1>5. (32 * idx + nt) \div 32 = idx
  BY SMT
<1> QED BY <1>3, <1>4, <1>5 DEF NidTypeOf, NidIndexOf

(***************************************************************************)
(* Every counter of M5Allocator() starts below the ceiling.                *)
(***************************************************************************)
LEMMA StartsAreNat ==
  ASSUME NEW nt \in 0..31
  PROVE  StartIndex(nt) \in Nat /\ StartIndex(nt) < MaxNidIndex
BY Ceiling DEF StartIndex, kUserAllocStart

(***************************************************************************)
(* isValidNidType accepts five-bit values only.                            *)
(***************************************************************************)
LEMMA ValidTypesAreFiveBits == ValidNidTypes \subseteq 0..31
BY DEF ValidNidTypes

-----------------------------------------------------------------------------

(***************************************************************************)
(* Type correctness of the allocator: the counters of allocate stay within *)
(* 27 bits, so a candidate is never masked into another index.             *)
(***************************************************************************)
THEOREM TypeCorrect == Spec => []TypeOK
<1> USE Ceiling, AskedTypesAssumption, AskedNidsAssumption
<1>1. Init => TypeOK
  BY DEF Init, TypeOK, ReservedTable, Threw, StartIndex, kUserAllocStart, HID, Internal
<1>2. TypeOK /\ [Next]_vars => TypeOK'
  <2> SUFFICES ASSUME TypeOK, [Next]_vars PROVE TypeOK'
    OBVIOUS
  <2>1. ASSUME NEW nt \in AskedTypes, Allocate(nt) PROVE TypeOK'
    <3>0. nt \in 0..31
      OBVIOUS
    <3>1. ASSUME NEW idx \in Remaining(nt), Take(nt, idx) PROVE TypeOK'
      <4>1. idx \in Nat /\ StartIndex(nt) <= idx /\ idx < MaxNidIndex
        BY <3>0, StartsAreNat DEF TypeOK, Remaining
      <4>2. Nid(nt, idx) \in Nat
        <5>1. idx < IndexSpace
          BY <4>1, Ceiling
        <5> QED BY <3>0, <4>1, <5>1, NidEncoding
      <4>3. allocated' \in SUBSET Nat /\ ret' \in [ok : BOOLEAN, nid : Nat]
        BY <3>1, <4>2 DEF TypeOK, Take, Returned
      <4>4. nextIndex' \in [0..31 -> Nat]
        BY <3>1, <4>1 DEF TypeOK, Take
      <4>5. ASSUME NEW u \in 0..31
            PROVE  nextIndex'[u] \in StartIndex(u)..MaxNidIndex
        <5>1. nextIndex'[u] = IF u = nt THEN idx + 1 ELSE nextIndex[u]
          BY <3>1 DEF TypeOK, Take
        <5> QED BY <4>1, <5>1, StartsAreNat DEF TypeOK
      <4> QED BY <4>3, <4>4, <4>5 DEF TypeOK
    <3>2. CASE Exhausted(nt)
      BY <3>0, <3>2, StartsAreNat DEF TypeOK, Exhausted, Threw
    <3>3. CASE Throw
      BY <3>3 DEF TypeOK, Throw, Threw
    <3> QED BY <2>1, <3>1, <3>2, <3>3 DEF Allocate
  <2>2. ASSUME NEW nid \in AskedNids, RegisterExternal(nid) PROVE TypeOK'
    <3>1. allocated' \in SUBSET Nat /\ nextIndex' = nextIndex
      BY <2>2 DEF TypeOK, RegisterExternal, Throw
    <3>2. ret' \in [ok : BOOLEAN, nid : Nat]
      <4>1. nid \in Nat
        OBVIOUS
      <4>2. ret' = Returned(nid) \/ ret' = Threw
        BY <2>2 DEF RegisterExternal, Throw
      <4>3. Returned(nid) \in [ok : BOOLEAN, nid : Nat]
        BY <4>1 DEF Returned
      <4>4. Threw \in [ok : BOOLEAN, nid : Nat]
        BY DEF Threw
      <4> QED BY <4>2, <4>3, <4>4
    <3> QED BY <3>1, <3>2 DEF TypeOK
  <2>3. CASE UNCHANGED vars
    BY <2>3 DEF TypeOK, vars
  <2> QED BY <2>1, <2>2, <2>3 DEF Next
<1> QED BY <1>1, <1>2, PTL DEF Spec

-----------------------------------------------------------------------------

(***************************************************************************)
(* allocate never passes over a free index: below a counter every NID from *)
(* the type's start is taken, whatever the order of calls.                 *)
(***************************************************************************)
THEOREM NothingSkipped == Spec => []NoIndexSkipped
<1> USE Ceiling, AskedTypesAssumption, AskedNidsAssumption
<1>1. Init => NoIndexSkipped
  BY ValidTypesAreFiveBits DEF Init, NoIndexSkipped, StartIndex, kUserAllocStart
<1>2. TypeOK /\ NoIndexSkipped /\ [Next]_vars => NoIndexSkipped'
  <2> SUFFICES ASSUME TypeOK, NoIndexSkipped, [Next]_vars,
                      NEW t \in ValidNidTypes,
                      NEW i \in StartIndex(t)..(nextIndex'[t] - 1)
               PROVE  Nid(t, i) \in allocated'
    BY DEF NoIndexSkipped
  <2>0. t \in 0..31
    BY ValidTypesAreFiveBits
  <2>a. i \in StartIndex(t)..(nextIndex[t] - 1) => Nid(t, i) \in allocated
    BY DEF NoIndexSkipped
  <2>b. StartIndex(t) \in Nat /\ nextIndex[t] \in Nat
    BY <2>0 DEF StartIndex, kUserAllocStart, TypeOK
  <2>1. ASSUME NEW nt \in AskedTypes, Allocate(nt) PROVE Nid(t, i) \in allocated'
    <3>0. nt \in 0..31
      OBVIOUS
    <3>1. ASSUME NEW idx \in Remaining(nt), Take(nt, idx) PROVE Nid(t, i) \in allocated'
      <4>1. allocated \subseteq allocated'
        BY <3>1 DEF Take
      <4>2. CASE t # nt
        <5>1. nextIndex'[t] = nextIndex[t]
          BY <2>0, <3>1, <4>2 DEF Take, TypeOK
        <5> QED BY <2>a, <4>1, <5>1
      <4>3. CASE t = nt
        <5>1. nextIndex'[t] = idx + 1
          BY <2>0, <3>1, <4>3 DEF Take, TypeOK
        <5>2. idx \in Nat
          BY <2>b, <4>3 DEF Remaining
        <5>3. \/ i \in StartIndex(t)..(nextIndex[t] - 1)
              \/ i \in nextIndex[t]..(idx - 1)
              \/ i = idx
          BY <2>b, <5>1, <5>2
        <5>4. i \in nextIndex[t]..(idx - 1) => Nid(t, i) \in allocated
          BY <3>1, <4>3 DEF Take, FirstFree
        <5>5. Nid(t, idx) \in allocated'
          BY <3>1, <4>3 DEF Take
        <5> QED BY <2>a, <4>1, <5>3, <5>4, <5>5
      <4> QED BY <4>2, <4>3
    <3>2. CASE Exhausted(nt)
      <4>1. allocated' = allocated
        BY <3>2 DEF Exhausted
      <4>2. CASE t # nt
        <5>1. nextIndex'[t] = nextIndex[t]
          BY <2>0, <3>2, <4>2 DEF Exhausted, TypeOK
        <5> QED BY <2>a, <4>1, <5>1
      <4>3. CASE t = nt
        <5>1. nextIndex'[t] = MaxNidIndex
          BY <2>0, <3>2, <4>3 DEF Exhausted, TypeOK
        <5>2. \/ i \in StartIndex(t)..(nextIndex[t] - 1)
              \/ i \in nextIndex[t]..(MaxNidIndex - 1)
          BY <2>b, <5>1
        <5>3. i \in nextIndex[t]..(MaxNidIndex - 1) => Nid(t, i) \in allocated
          BY <3>2, <4>3 DEF Exhausted, Remaining
        <5> QED BY <2>a, <4>1, <5>2, <5>3
      <4> QED BY <4>2, <4>3
    <3>3. CASE Throw
      BY <2>a, <3>3 DEF Throw
    <3> QED BY <2>1, <3>1, <3>2, <3>3 DEF Allocate
  <2>2. ASSUME NEW nid \in AskedNids, RegisterExternal(nid)
        PROVE  Nid(t, i) \in allocated'
    BY <2>2, <2>a DEF RegisterExternal, Throw
  <2>3. CASE UNCHANGED vars
    BY <2>3, <2>a DEF vars
  <2> QED BY <2>1, <2>2, <2>3 DEF Next
<1> QED BY <1>1, <1>2, TypeCorrect, PTL DEF Spec

-----------------------------------------------------------------------------

(***************************************************************************)
(* The allocator implements the identifier service: every NID granted was  *)
(* free, and an allocation fails only when the pool of its type is used    *)
(* up.  The second half rests on NoIndexSkipped: the counter alone does    *)
(* not say that the indices behind it are taken.                           *)
(***************************************************************************)
THEOREM AllocatorImplementsService == Spec => ImplementsService
<1> USE Ceiling, AskedTypesAssumption, AskedNidsAssumption
<1>1. Init => Service!Init
  BY DEF Init, Service!Init, Service!Refused, Threw
<1>2. TypeOK /\ NoIndexSkipped /\ [Next]_vars => [Service!Next]_Service!vars
  <2> SUFFICES ASSUME TypeOK, NoIndexSkipped, [Next]_vars
               PROVE  [Service!Next]_Service!vars
    OBVIOUS
  <2>1. ASSUME NEW nt \in AskedTypes, Allocate(nt) PROVE Service!Next
    <3>0. nt \in 0..31 /\ nt % 32 = nt
      OBVIOUS
    <3>1. ASSUME IsValidNidType(nt), NEW idx \in Remaining(nt), Take(nt, idx)
          PROVE  Service!Pick(nt)
      <4>1. idx \in StartIndex(nt)..(MaxNidIndex - 1)
        <5>1. nt \in ValidNidTypes
          BY <3>0, <3>1 DEF IsValidNidType
        <5>2. nextIndex[nt] >= StartIndex(nt)
          BY <3>0 DEF TypeOK
        <5> QED BY <3>0, <5>2 DEF TypeOK, Remaining, StartIndex, kUserAllocStart
      <4>2. Nid(nt, idx) \in NidPool[nt]
        BY <3>0, <3>1, <4>1 DEF NidPool
      <4>3. Service!Grant(Nid(nt, idx))
        BY <3>1 DEF Service!Grant, Service!Granted, Take, FirstFree, Returned
      <4> QED BY <4>2, <4>3 DEF Service!Pick
    <3>2. ASSUME IsValidNidType(nt), Exhausted(nt) PROVE Service!TurnDown(nt)
      <4>1. nt \in ValidNidTypes
        BY <3>0, <3>2 DEF IsValidNidType
      <4>2. ASSUME NEW i \in StartIndex(nt)..(MaxNidIndex - 1)
            PROVE  Nid(nt, i) \in allocated
        <5>1. \/ i \in StartIndex(nt)..(nextIndex[nt] - 1)
              \/ i \in Remaining(nt)
          BY <3>0 DEF TypeOK, Remaining, StartIndex, kUserAllocStart
        <5> QED BY <3>2, <4>1, <5>1 DEF NoIndexSkipped, Exhausted
      <4>3. NidPool[nt] \subseteq allocated
        BY <3>0, <3>2, <4>2 DEF NidPool
      <4> QED BY <3>2, <4>3
            DEF Exhausted, Service!TurnDown, Service!Refuse, Service!Refused, Threw
    <3>3. ASSUME ~IsValidNidType(nt), Throw PROVE Service!TurnDown(nt)
      <4>1. NidPool[nt] = {}
        BY <3>0, <3>3 DEF NidPool
      <4> QED BY <3>3, <4>1
            DEF Throw, Service!TurnDown, Service!Refuse, Service!Refused, Threw
    <3> QED BY <2>1, <3>1, <3>2, <3>3 DEF Allocate, Service!Next
  <2>2. ASSUME NEW nid \in AskedNids, RegisterExternal(nid) PROVE Service!Next
    <3>1. CASE Registrable(nid)
      <4>1. Service!Claim(nid)
        BY <2>2, <3>1 DEF RegisterExternal, Registrable, Returned,
             Service!Claim, Service!Grant, Service!Granted
      <4> QED BY <4>1 DEF Service!Next
    <3>2. CASE ~Registrable(nid)
      <4>1. Service!Reject(nid)
        BY <2>2, <3>2 DEF RegisterExternal, Registrable, Throw, Threw,
             Service!Reject, Service!Refuse, Service!Refused
      <4> QED BY <4>1 DEF Service!Next
    <3> QED BY <3>1, <3>2
  <2>3. CASE UNCHANGED vars
    BY <2>3 DEF vars, Service!vars
  <2> QED BY <2>1, <2>2, <2>3 DEF Next
<1> QED BY <1>1, <1>2, TypeCorrect, NothingSkipped, PTL
      DEF Spec, ImplementsService, Service!Spec

=============================================================================
