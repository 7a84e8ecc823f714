---------------------------- MODULE NidAllocator ----------------------------
(***************************************************************************)
(* M5Allocator (m5_allocator.hpp, m5_allocator.cpp): one counter per       *)
(* nidType over a set of identifiers that are taken, because the format    *)
(* reserves them, because a caller registered them or because the          *)
(* allocator handed them out.  Every call of the public interface that     *)
(* changes state is an action; throwing is one of its outcomes.            *)
(***************************************************************************)
EXTENDS NidSpace

CONSTANTS
  AskedTypes,  \* nidTypes callers pass to allocate, valid or not
  AskedNids    \* NIDs callers pass to registerExternal, valid or not

ASSUME AskedTypesAssumption == AskedTypes \subseteq 0..31
ASSUME AskedNidsAssumption  == AskedNids \subseteq Nat

VARIABLES
  allocated,   \* std::set<uint32_t> allocated_
  nextIndex,   \* uint32_t nextIndex_[32]
  ret          \* the NID the last call put in the set, or that the call threw

vars == <<allocated, nextIndex, ret>>

Returned(nid) == [ok |-> TRUE, nid |-> nid]
Threw         == [ok |-> FALSE, nid |-> 0]

-----------------------------------------------------------------------------

Init ==
  /\ allocated = ReservedTable
  /\ nextIndex = [nt \in 0..31 |-> StartIndex(nt)]
  /\ ret = Threw

\* The indices allocate's loop may still look at for type nt.
RemainingPastCeiling(nt) == nextIndex[nt]..MaxNidIndex   \* mutant
Remaining(nt) == nextIndex[nt]..(MaxNidIndex - 1)

\* The loop stops at the first of them whose NID is not taken,
FirstFree(nt, idx) ==
  /\ Nid(nt, idx) \notin allocated
  /\ \A j \in nextIndex[nt]..(idx - 1) : Nid(nt, j) \in allocated

\* hands the NID out, enters it in the set and leaves the counter behind it.
TakeWithoutInsert(nt, idx) ==   \* mutant
  /\ FirstFree(nt, idx)
  /\ nextIndex' = [nextIndex EXCEPT ![nt] = idx + 1]
  /\ ret' = Returned(Nid(nt, idx))
  /\ UNCHANGED allocated

Take(nt, idx) ==
  /\ FirstFree(nt, idx)
  /\ nextIndex' = [nextIndex EXCEPT ![nt] = idx + 1]
  /\ allocated' = allocated \cup {Nid(nt, idx)}
  /\ ret' = Returned(Nid(nt, idx))

\* The loop ran into the ceiling, the counter having passed over every taken
\* index on the way.
Exhausted(nt) ==
  /\ \A j \in Remaining(nt) : Nid(nt, j) \in allocated
  /\ nextIndex' = [nextIndex EXCEPT ![nt] = MaxNidIndex]
  /\ ret' = Threw
  /\ UNCHANGED allocated

Throw == ret' = Threw /\ UNCHANGED <<allocated, nextIndex>>

Allocate(nt) ==
  \/ /\ IsValidNidType(nt)
     /\ (\E idx \in Remaining(nt) : Take(nt, idx)) \/ Exhausted(nt)
  \/ ~IsValidNidType(nt) /\ Throw

Registrable(nid) == IsValidNidType(NidTypeOf(nid)) /\ nid \notin allocated

RegisterAndSkip(nid) ==   \* mutant: the counter jumps past the registered index
  \/ /\ Registrable(nid)
     /\ allocated' = allocated \cup {nid}
     /\ nextIndex' = [nextIndex EXCEPT ![NidTypeOf(nid)] = NidIndexOf(nid) + 1]
     /\ ret' = Returned(nid)
  \/ ~Registrable(nid) /\ Throw

RegisterExternal(nid) ==
  \/ /\ Registrable(nid)
     /\ allocated' = allocated \cup {nid}
     /\ ret' = Returned(nid)
     /\ UNCHANGED nextIndex
  \/ ~Registrable(nid) /\ Throw

Next ==
  \/ \E nt \in AskedTypes : Allocate(nt)
  \/ \E nid \in AskedNids : RegisterExternal(nid)

Spec == Init /\ [][Next]_vars

-----------------------------------------------------------------------------

(***************************************************************************)
(* Type correctness, with the range of the counters: none falls into the   *)
(* system's part of the index space, and none may leave the 27 bits that   *)
(* Nid() keeps, or indices would alias after masking.                      *)
(***************************************************************************)
TypeOK ==
  /\ allocated \in SUBSET Nat
  /\ nextIndex \in [0..31 -> Nat]
  /\ \A nt \in 0..31 : nextIndex[nt] \in StartIndex(nt)..MaxNidIndex
  /\ ret \in [ok : BOOLEAN, nid : Nat]

(***************************************************************************)
(* No index is lost: below a counter every NID from the type's start is    *)
(* taken, in whatever order allocations and registrations came.  This is   *)
(* why allocate may give up at the ceiling without looking back.           *)
(***************************************************************************)
NoIndexSkipped ==
  \A nt \in ValidNidTypes :
    \A i \in StartIndex(nt)..(nextIndex[nt] - 1) : Nid(nt, i) \in allocated

(***************************************************************************)
(* The allocator implements the abstract identifier service: no NID is     *)
(* granted twice, and a call is refused only for a NID in use, a malformed *)
(* request or a type whose whole pool is in use.                           *)
(***************************************************************************)
NidPool == [nt \in 0..31 |->
  IF IsValidNidType(nt)
  THEN {Nid(nt, i) : i \in StartIndex(nt)..(MaxNidIndex - 1)} ELSE {}]

Service == INSTANCE NidService WITH
  Types      <- AskedTypes,
  Ids        <- AskedNids,
  Pool       <- NidPool,
  WellFormed <- {nid \in AskedNids : IsValidNidType(NidTypeOf(nid))},
  PreGranted <- ReservedTable,
  used       <- allocated,
  answer     <- ret

ImplementsService == Service!Spec

=============================================================================
