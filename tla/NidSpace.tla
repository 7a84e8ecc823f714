------------------------------ MODULE NidSpace ------------------------------
(***************************************************************************)
(* The 32-bit node identifiers of a PST (types.hpp, struct Nid): the low   *)
(* five bits carry the node's type, the other 27 an index.  This module    *)
(* holds the encoding, the nidType table and the identifiers that the      *)
(* format or the writers' baseline fix in advance.                         *)
(***************************************************************************)
EXTENDS Integers

CONSTANT
  MaxNidIndex  \* m5_allocator.cpp's kMaxNidIndex: 2^27 in the code, lower in
               \* the model-checked instances so that an index space can run out

\* 2^27, the number of indices that fit beside the five type bits.
IndexSpace == 134217728

ASSUME MaxNidIndexAssumption == MaxNidIndex \in 1025..IndexSpace

\* The constructor Nid(NidType, idx): both arguments are masked.
Nid(nt, idx) == 32 * (idx % IndexSpace) + (nt % 32)

NidTypeOf(nid)  == nid % 32
NidIndexOf(nid) == nid \div 32

-----------------------------------------------------------------------------

(***************************************************************************)
(* nidTypes the writers name (types.hpp, enum NidType).                    *)
(***************************************************************************)
HID                == 0
Internal           == 1
NormalFolder       == 2
NormalMessage      == 4
Attachment         == 5
HierarchyTable     == 13
ContentsTable      == 14
AssocContentsTable == 15

ValidNidTypes == {0} \cup 1..8 \cup 10..19 \cup {31}

IsValidNidType(nt) == nt % 32 \in ValidNidTypes

\* The first index handed out for a type: the range below 0x400 is the
\* system's, except that HID and Internal are seeded at 1.
kUserAllocStart == 1024
StartIndex(nt) == IF nt \in {HID, Internal} THEN 1 ELSE kUserAllocStart

\* The fourteen NIDs of [MS-PST] 2.4.1 (kReservedTable): 0x21, 0x61, 0xA1,
\* 0xC1, 0x122, 0x1E1, 0x201, 0x241, 0x261, 0x281, 0x2A1, 0x2E1, 0x301, 0x321.
ReservedTable ==
  {33, 97, 161, 193, 290, 481, 513, 577, 609, 641, 673, 737, 769, 801}

-----------------------------------------------------------------------------

(***************************************************************************)
(* The identifiers every store carries, whatever its content.              *)
(***************************************************************************)
NID_ROOT_FOLDER          == 290     \* 0x122
NID_RECEIVE_FOLDER_TABLE == 1559    \* 0x617
NID_SPAM_SEARCH_FOLDER   == 8739    \* 0x2223
NID_IPM_SUBTREE          == 32802   \* 0x8022
NID_SEARCH_ROOT          == 32834   \* 0x8042
NID_DELETED_ITEMS        == 32866   \* 0x8062
NID_IPM_HIERARCHY        == 32813   \* 0x802D
NID_IPM_CONTENTS         == 32814   \* 0x802E
NID_IPM_FAI              == 32815   \* 0x802F
NID_RECIPIENT_TABLE      == 1682    \* 0x692
NID_ATTACHMENT_TABLE     == 1649    \* 0x671

\* buildPstBaselineEntries: the nodes scheduled before any folder.  The receive
\* folder table is left out when PSTWRITER_OMIT_RFT is set.
BaselineNids ==
  {33, 97, 290, 301, 302, 303, 481, 513, 1549, 1550, 1551, 1552, 1559, 1649,
   1682, 8739, 32802, 32834, 32845, 32846, 32847, 32866, 32877, 32878, 32879}

\* writeM6Pst: the nodes of a store without items, in one list of their own.
MinimalNids ==
  {33, 97, 290, 301, 302, 303, 481, 513, 1549, 1550, 1551, 1552, 1649, 1682,
   8739, 32802, 32813, 32814, 32815, 32834, 32845, 32846, 32847, 32866, 32877,
   32878, 32879}

\* registerBaselineReservedNids: kReserved, of which the receive folder
\* table's NID is skipped, its type not being a valid one.
kReserved ==
  {301, 302, 303, 1549, 1550, 1551, 1552, 1559, 1649, 1682, 8739,
   32802, 32813, 32814, 32815, 32834, 32845, 32846, 32847,
   32866, 32877, 32878, 32879}

=============================================================================
