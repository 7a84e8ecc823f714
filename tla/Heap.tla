-------------------------------- MODULE Heap --------------------------------
(***************************************************************************)
(* Heaps on a node (src/src/ltp.cpp): the body of a data block that holds  *)
(* numbered allocations, and the B-trees on heaps (BTHs) kept in it.       *)
(* Property and table contexts are built on these operators.               *)
(*                                                                         *)
(* An allocation is [size, data], data being an opaque record.  A heap     *)
(* keeps the numbers the code writes into it, since what a reader gets     *)
(* back is decided by them alone: the offsets in the page map, their       *)
(* count, the offset of the map.  Offsets are 16-bit numbers: OffsetRange  *)
(* is 2^16.  Node and heap identifiers are numbers with a type in their    *)
(* low five bits.                                                          *)
(***************************************************************************)
EXTENDS Integers, Sequences, SequencesExt, FiniteSets

CONSTANTS
    OffsetRange,   \* how many offsets the 16-bit fields of a heap tell apart
    BlockBody,     \* kMaxHnBodyBytes: the body of one data block
    AllocMax       \* kHnAllocMax: the largest variable-size allocation

ASSUME HeapAssumption ==
    /\ OffsetRange \in Nat \ {0} /\ BlockBody \in Nat /\ AllocMax \in Nat
    /\ BlockBody < OffsetRange

HnHdrSize == 12
HnPageMapHdrSize == 4
HnPageMapEntrySize == 2
HidIndexes == 2048     \* an index has eleven bits

Nothing == [kind |-> "nothing"]     \* what an empty range holds
Garbage == [kind |-> "garbage"]     \* bytes no allocation wrote as a whole

(***************************************************************************)
(* Identifiers.                                                            *)
(***************************************************************************)
MakeHid(index) == (index % HidIndexes) * 32
HidType(hid)   == hid % 32
HidIndex(hid)  == (hid \div 32) % HidIndexes
HidBlock(hid)  == hid \div (32 * HidIndexes)

(***************************************************************************)
(* buildHeapOnNode: allocations one after the other behind the header, in  *)
(* 16-bit arithmetic; a phantom allocation takes the bytes up to the next  *)
(* multiple of four, where the page map starts.                            *)
(***************************************************************************)
\* ends[i]: how many bytes the first i of these sizes take.
EndsOf(sizes) ==
    LET ends[i \in 0..Len(sizes)] == IF i = 0 THEN 0 ELSE ends[i - 1] + sizes[i]
    IN  ends

SizesOf(allocs) == [i \in DOMAIN allocs |-> allocs[i].size]

TotalSize(allocs) == EndsOf(SizesOf(allocs))[Len(allocs)]

Cursor(allocs, i) == (HnHdrSize + EndsOf(SizesOf(allocs))[i]) % OffsetRange

MapOffset(allocs) ==
    (((Cursor(allocs, Len(allocs)) + 3) \div 4) * 4) % OffsetRange

HasPhantom(allocs) == Cursor(allocs, Len(allocs)) # MapOffset(allocs)

\* mutant: no phantom, the padding goes to the last allocation
RgibNoPhantom(allocs) ==
    [i \in 1..Len(allocs) |-> Cursor(allocs, i - 1)] \o <<MapOffset(allocs)>>

Rgib(allocs) ==
    [i \in 1..Len(allocs) |-> Cursor(allocs, i - 1)]
        \o (IF HasPhantom(allocs) THEN <<Cursor(allocs, Len(allocs))>> ELSE <<>>)
        \o <<MapOffset(allocs)>>

PageMapBytes(count) == HnPageMapHdrSize + (count + 1) * HnPageMapEntrySize

BuildHeapOnNode(allocs, client, root) ==
    LET count == Len(Rgib(allocs)) - 1
    IN  [client |-> client,
         root   |-> root,
         ibHnpm |-> MapOffset(allocs),
         cAlloc |-> count,
         cFree  |-> Cardinality({i \in DOMAIN allocs : allocs[i].size = 0}),
         rgib   |-> Rgib(allocs),
         size   |-> MapOffset(allocs) + PageMapBytes(count),
         placed |-> [i \in DOMAIN allocs |->
                        [at |-> Cursor(allocs, i - 1), size |-> allocs[i].size,
                         data |-> allocs[i].data]]]

\* What buildHeapOnNode would need without its 16-bit arithmetic.
NeededBytes(allocs) ==
    LET end  == HnHdrSize + TotalSize(allocs)
        pad  == (4 - (end % 4)) % 4
    IN  end + pad + PageMapBytes(Len(allocs) + IF pad > 0 THEN 1 ELSE 0)

(***************************************************************************)
(* What the bytes from s to e hold: an allocation's data when it was       *)
(* written there whole, inside the body, and nothing was written over it.  *)
(***************************************************************************)
Apart(p, q) == p.at + p.size <= q.at \/ q.at + q.size <= p.at

Bytes(h, s, e) ==
    LET whole == {i \in DOMAIN h.placed :
                    /\ h.placed[i].at = s /\ h.placed[i].size = e - s
                    /\ HnHdrSize <= s /\ e <= h.ibHnpm
                    /\ \A j \in DOMAIN h.placed \ {i} :
                          \/ h.placed[j].size = 0
                          \/ Apart(h.placed[i], h.placed[j])}
    IN  IF e = s THEN Nothing
        ELSE IF whole = {} THEN Garbage
        ELSE h.placed[CHOOSE i \in whole : TRUE].data

(***************************************************************************)
(* resolveHidInSingleBlockHn: the range of an allocation, or a failure.    *)
(***************************************************************************)
ResolveHid(hid, h) ==
    LET i == HidIndex(hid)
        valid == /\ HidType(hid) = 0
                 /\ i # 0
                 /\ HidBlock(hid) = 0
                 /\ i <= h.cAlloc
                 /\ h.ibHnpm + HnPageMapHdrSize + (i + 1) * HnPageMapEntrySize <= h.size
                 /\ h.rgib[i] <= h.rgib[i + 1]
                 /\ h.rgib[i + 1] <= h.size
    IN  IF valid
        THEN [ok |-> TRUE, size |-> h.rgib[i + 1] - h.rgib[i],
              data |-> Bytes(h, h.rgib[i], h.rgib[i + 1])]
        ELSE [ok |-> FALSE]

(***************************************************************************)
(* encodeBthHeader and buildBthLeafRecords.  Records are [key, data];      *)
(* their keys are compared as numbers.                                     *)
(***************************************************************************)
BthHeader(cbKey, cbEnt, idxLevels, hidRoot) ==
    [kind |-> "bth", cbKey |-> cbKey, cbEnt |-> cbEnt,
     idxLevels |-> idxLevels, hidRoot |-> hidRoot]

KeyLess(a, b) == a.key < b.key

\* The place of the i-th record in the order of the keys.
PlaceOf(records, i) ==
    Cardinality({j \in DOMAIN records :
                   \/ KeyLess(records[j], records[i])
                   \/ records[j].key = records[i].key /\ j <= i})

\* std::sort over indices: which record comes first, second and so on.
SortedIdx(records) ==
    [k \in DOMAIN records |-> CHOOSE i \in DOMAIN records : PlaceOf(records, i) = k]

SortedByKey(records) ==
    LET sortedIdx == SortedIdx(records)
    IN  [k \in DOMAIN records |-> records[sortedIdx[k]]]

BuildBthLeafRecords(records, cbKey, cbEnt) ==
    IF cbKey \notin {1, 2, 4, 8, 16} \/ cbEnt \notin 1..32
    THEN [ok |-> FALSE, why |-> "invalid_argument"]
    ELSE IF Len(records) * (cbKey + cbEnt) > AllocMax
    THEN [ok |-> FALSE, why |-> "length_error"]
    ELSE [ok |-> TRUE, size |-> Len(records) * (cbKey + cbEnt),
          data |-> [kind |-> "leaf", records |-> SortedByKey(records)]]
=============================================================================
