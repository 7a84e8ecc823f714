------------------------- MODULE TableContextProofs -------------------------
(***************************************************************************)
(* Table contexts, for every table whose columns are laid out as those of  *)
(* messaging.cpp and mail.cpp, and whatever rows a caller gathers.         *)
(***************************************************************************)
EXTENDS TableContext, FiniteSetTheorems, WellFoundedInduction, TLAPS

-----------------------------------------------------------------------------
(* What is known of heaps and vectors: the lemmas proved with the property *)
(* contexts, which are about the same operators of module Heap.            *)

\* Nothing in these lemmas depends on a property, nor on AllocMax.
Lib == INSTANCE PropertyContextProofs WITH
    AllocMax <- 16, Tags <- {}, Numbers <- {}, Sizes <- {}, Descriptors <- {},
    FirstNids <- {}, MaxProps <- 0,
    props <- rows, pc <- tc, leaf <- rows, next <- rows, out <- rows

(***************************************************************************)
(* The assumptions under which they were proved.                           *)
(***************************************************************************)
LEMMA Assumed ==
  /\ OffsetRange \in Nat \ {0} /\ BlockBody \in Nat /\ BlockBody < OffsetRange
  /\ 16 \in Nat /\ {} \subseteq Nat /\ 0 \in Nat
  /\ 16 <= 16 /\ 16 < 8 * (Lib!HidIndexes - 2)
  /\ \A p \in {} :
       /\ p.tag \in Nat /\ p.size \in Nat
       /\ p.hint \in {"Auto", "Subnode"}
       /\ Lib!FitsRecord(p.type) => p.hint = "Auto"
BY HeapAssumption DEF Lib!HidIndexes

IsVector(s) == \E S : s \in Seq(S)

(***************************************************************************)
(* A vector is a function over an initial piece of the positive numbers.   *)
(***************************************************************************)
LEMMA Vector ==
  ASSUME NEW s, IsVector(s)
  PROVE  Len(s) \in Nat /\ DOMAIN s = 1..Len(s)
BY DEF IsVector

(***************************************************************************)
(* And such a function is a vector.                                        *)
(***************************************************************************)
LEMMA FunctionIsVector ==
  ASSUME NEW n \in Nat, NEW f, f = [i \in 1..n |-> f[i]]
  PROVE  IsVector(f) /\ Len(f) = n /\ DOMAIN f = 1..n
BY Lib!FunctionIsVector, Assumed DEF IsVector, Lib!IsVector

(***************************************************************************)
(* Induction on natural numbers, for sets of them.                         *)
(***************************************************************************)
LEMMA Induction ==
  ASSUME NEW S, 0 \in S, \A n \in Nat : n \in S => n + 1 \in S
  PROVE  Nat \subseteq S
BY Lib!Induction, Assumed

(***************************************************************************)
(* The ends of a heap's allocations: each begins where the one before it   *)
(* ends.                                                                   *)
(***************************************************************************)
LEMMA EndsStepwise ==
  ASSUME NEW sizes, IsVector(sizes)
  PROVE  /\ EndsOf(sizes)[0] = 0
         /\ \A i \in 1..Len(sizes) : EndsOf(sizes)[i] = EndsOf(sizes)[i - 1] + sizes[i]
BY Lib!EndsStepwise, Assumed DEF IsVector, Lib!IsVector, EndsOf, Lib!EndsOf

(***************************************************************************)
(* They never decrease.                                                    *)
(***************************************************************************)
LEMMA EndsAscend ==
  ASSUME NEW sizes, IsVector(sizes), \A i \in 1..Len(sizes) : sizes[i] \in Nat
  PROVE  \A j \in 0..Len(sizes) : /\ EndsOf(sizes)[j] \in Nat
                                  /\ \A i \in 0..j : EndsOf(sizes)[i] <= EndsOf(sizes)[j]
BY Lib!EndsAscend, Assumed DEF IsVector, Lib!IsVector, EndsOf, Lib!EndsOf

(***************************************************************************)
(* Rounding up to a multiple of four, in the two ways it is written.       *)
(***************************************************************************)
LEMMA RoundingUp ==
  ASSUME NEW e \in Nat
  PROVE  /\ (4 - (e % 4)) % 4 \in 0..3
         /\ ((e + 3) \div 4) * 4 = e + ((4 - (e % 4)) % 4)
BY Lib!RoundingUp, Assumed

Allocated(allocs) == IsVector(allocs) /\ \A i \in 1..Len(allocs) : allocs[i].size \in Nat

(***************************************************************************)
(* The two modules' operators on heaps are the same.                       *)
(***************************************************************************)
LEMMA SameHeap ==
  /\ \A allocs : Allocated(allocs) <=> Lib!Allocated(allocs)
  /\ \A allocs : SizesOf(allocs) = Lib!SizesOf(allocs)
  /\ \A allocs, i : Cursor(allocs, i) = Lib!Cursor(allocs, i)
  /\ \A allocs : /\ MapOffset(allocs) = Lib!MapOffset(allocs)
                 /\ HasPhantom(allocs) = Lib!HasPhantom(allocs)
                 /\ Rgib(allocs) = Lib!Rgib(allocs)
                 /\ NeededBytes(allocs) = Lib!NeededBytes(allocs)
  /\ \A n : PageMapBytes(n) = Lib!PageMapBytes(n)
  /\ HnHdrSize = Lib!HnHdrSize
  /\ \A allocs, client, root :
       BuildHeapOnNode(allocs, client, root) = Lib!BuildHeapOnNode(allocs, client, root)
  /\ \A hid : /\ HidType(hid) = Lib!HidType(hid) /\ HidIndex(hid) = Lib!HidIndex(hid)
              /\ HidBlock(hid) = Lib!HidBlock(hid)
  /\ \A hid, h : ResolveHid(hid, h) = Lib!ResolveHid(hid, h)
  /\ Nothing = Lib!Nothing
<1>0. \A S : Cardinality(S) = Lib!Cardinality(S)
  BY DEF Cardinality, Lib!Cardinality
<1>1. \A allocs : Allocated(allocs) <=> Lib!Allocated(allocs)
  BY DEF Allocated, Lib!Allocated, IsVector, Lib!IsVector
<1>2. \A sizes : EndsOf(sizes) = Lib!EndsOf(sizes)
  BY DEF EndsOf, Lib!EndsOf
<1>3. \A allocs : SizesOf(allocs) = Lib!SizesOf(allocs)
  BY DEF SizesOf, Lib!SizesOf
<1>4. HnHdrSize = Lib!HnHdrSize
  BY DEF HnHdrSize, Lib!HnHdrSize
<1>5. \A allocs, i : Cursor(allocs, i) = Lib!Cursor(allocs, i)
  BY <1>2, <1>3, <1>4 DEF Cursor, Lib!Cursor
<1>6. \A allocs : MapOffset(allocs) = Lib!MapOffset(allocs)
  BY <1>5 DEF MapOffset, Lib!MapOffset
<1>7. \A allocs : HasPhantom(allocs) = Lib!HasPhantom(allocs)
  BY <1>5, <1>6 DEF HasPhantom, Lib!HasPhantom
<1>8. \A n : PageMapBytes(n) = Lib!PageMapBytes(n)
  BY DEF PageMapBytes, Lib!PageMapBytes, HnPageMapHdrSize, Lib!HnPageMapHdrSize,
         HnPageMapEntrySize, Lib!HnPageMapEntrySize
<1>9. \A allocs : Rgib(allocs) = Lib!Rgib(allocs)
  BY <1>5, <1>6, <1>7 DEF Rgib, Lib!Rgib
<1>10. \A allocs : NeededBytes(allocs) = Lib!NeededBytes(allocs)
  BY <1>2, <1>3, <1>4, <1>8 DEF NeededBytes, Lib!NeededBytes, TotalSize, Lib!TotalSize
<1>11. \A allocs, client, root :
         BuildHeapOnNode(allocs, client, root) = Lib!BuildHeapOnNode(allocs, client, root)
  BY <1>0, <1>5, <1>6, <1>8, <1>9 DEF BuildHeapOnNode, Lib!BuildHeapOnNode
<1>12. \A hid : /\ HidType(hid) = Lib!HidType(hid) /\ HidIndex(hid) = Lib!HidIndex(hid)
                /\ HidBlock(hid) = Lib!HidBlock(hid)
  BY DEF HidType, Lib!HidType, HidIndex, Lib!HidIndex, HidBlock, Lib!HidBlock,
         HidIndexes, Lib!HidIndexes
<1>13. \A h, s, e : Bytes(h, s, e) = Lib!Bytes(h, s, e)
  BY <1>4 DEF Bytes, Lib!Bytes, Apart, Lib!Apart, Nothing, Lib!Nothing, Garbage, Lib!Garbage
<1>14. ASSUME NEW hid, NEW h PROVE ResolveHid(hid, h) = Lib!ResolveHid(hid, h)
  <2>1. /\ HnPageMapHdrSize = Lib!HnPageMapHdrSize
        /\ HnPageMapEntrySize = Lib!HnPageMapEntrySize
    BY DEF HnPageMapHdrSize, Lib!HnPageMapHdrSize, HnPageMapEntrySize, Lib!HnPageMapEntrySize
  <2> QED BY ONLY <1>12, <1>13, <2>1, ZenonT(30) DEF ResolveHid, Lib!ResolveHid
<1>15. Nothing = Lib!Nothing
  BY DEF Nothing, Lib!Nothing
<1> QED BY <1>1, <1>3, <1>4, <1>5, <1>6, <1>7, <1>8, <1>9, <1>10, <1>11, <1>12, <1>14, <1>15

(***************************************************************************)
(* As long as 16 bits count a heap's bytes, buildHeapOnNode computes the   *)
(* true offsets: every allocation at the end of the one before, the map    *)
(* behind the padding, the whole as long as it needs to be.                *)
(***************************************************************************)
LEMMA TrueOffsets ==
  ASSUME NEW allocs, Allocated(allocs), NeededBytes(allocs) <= OffsetRange
  PROVE  /\ \A i \in 0..Len(allocs) : /\ Cursor(allocs, i) \in Nat
                                      /\ Cursor(allocs, i) >= HnHdrSize
                                      /\ Cursor(allocs, i) <= Cursor(allocs, Len(allocs))
         /\ \A i \in 1..Len(allocs) :
              Cursor(allocs, i) = Cursor(allocs, i - 1) + allocs[i].size
         /\ \A i \in 0..Len(allocs) : \A j \in 0..i :
              Cursor(allocs, j) <= Cursor(allocs, i)
         /\ MapOffset(allocs) \in Nat /\ Cursor(allocs, Len(allocs)) <= MapOffset(allocs)
         /\ NeededBytes(allocs) = MapOffset(allocs)
              + PageMapBytes(Len(allocs) + IF HasPhantom(allocs) THEN 1 ELSE 0)
BY Lib!TrueOffsets, Assumed, SameHeap

(***************************************************************************)
(* The page map: the start of every allocation, then the end of the last.  *)
(***************************************************************************)
LEMMA MapEntries ==
  ASSUME NEW allocs, Allocated(allocs)
  PROVE  /\ Len(Rgib(allocs)) = Len(allocs) + 1 + IF HasPhantom(allocs) THEN 1 ELSE 0
         /\ \A i \in 1..(Len(allocs) + 1) : Rgib(allocs)[i] = Cursor(allocs, i - 1)
BY Lib!MapEntries, Assumed, SameHeap

(***************************************************************************)
(* The parts of a heap identifier whose index fits eleven bits.            *)
(***************************************************************************)
LEMMA HidParts ==
  ASSUME NEW i \in Nat, i < HidIndexes
  PROVE  /\ MakeHid(i) \in Nat /\ HidType(MakeHid(i)) = 0
         /\ HidIndex(MakeHid(i)) = i /\ HidBlock(MakeHid(i)) = 0
<1>1. HidIndexes = Lib!HidIndexes /\ MakeHid(i) = Lib!MakeHid(i)
  BY DEF HidIndexes, Lib!HidIndexes, MakeHid, Lib!MakeHid
<1> QED BY <1>1, Lib!HidParts, Assumed, SameHeap

(***************************************************************************)
(* What resolveHidInSingleBlockHn finds under the index of an allocation   *)
(* is that allocation, neither cut nor lengthened.                         *)
(***************************************************************************)
LEMMA AllocationFound ==
  ASSUME NEW allocs, Allocated(allocs), NeededBytes(allocs) <= OffsetRange,
         NEW client, NEW root, NEW i \in 1..Len(allocs),
         NEW hid, HidType(hid) = 0, HidIndex(hid) = i, HidBlock(hid) = 0
  PROVE  LET r == ResolveHid(hid, BuildHeapOnNode(allocs, client, root))
         IN  /\ r.ok /\ r.size = allocs[i].size
             /\ r.data = IF allocs[i].size = 0 THEN Nothing ELSE allocs[i].data
BY Lib!AllocationFound, Assumed, SameHeap

(***************************************************************************)
(* Sorting records of different keys: each of them has one place, and the  *)
(* keys ascend.                                                            *)
(***************************************************************************)
LEMMA SortingByKey ==
  ASSUME NEW records, IsVector(records), \A i \in 1..Len(records) : records[i].key \in Nat,
         \A i, j \in 1..Len(records) : records[i].key = records[j].key => i = j
  PROVE  /\ SortedIdx(records) \in [1..Len(records) -> 1..Len(records)]
         /\ \A k, h \in 1..Len(records) : k < h =>
              records[SortedIdx(records)[k]].key < records[SortedIdx(records)[h]].key
<1>0. \A S : Cardinality(S) = Lib!Cardinality(S)
  BY DEF Cardinality, Lib!Cardinality
<1>1. \A i : PlaceOf(records, i) = Lib!PlaceOf(records, i)
  BY <1>0 DEF PlaceOf, Lib!PlaceOf, KeyLess, Lib!KeyLess
<1>2. SortedIdx(records) = Lib!SortedIdx(records)
  BY <1>1 DEF SortedIdx, Lib!SortedIdx
<1> QED BY <1>2, Lib!SortingByKey, Assumed DEF IsVector, Lib!IsVector


(***************************************************************************)
(* The largest of a set of numbers with a bound.                           *)
(***************************************************************************)
LEMMA Largest ==
  ASSUME NEW S, S # {}, S \subseteq Nat, NEW b \in Nat, \A x \in S : x <= b
  PROVE  Max(S) \in S /\ \A y \in S : y <= Max(S)
<1> DEFINE HasMax == \E x \in S : \A y \in S : x >= y
           T == {n \in Nat : (\E x \in S : x + n >= b) => HasMax}
<1>1. 0 \in T
  <2>1. ASSUME NEW x \in S, x + 0 >= b PROVE \A y \in S : x >= y
    BY <2>1
  <2> QED BY <2>1
<1>2. ASSUME NEW n \in Nat, n \in T PROVE n + 1 \in T
  <2>1. ASSUME NEW x \in S, x + (n + 1) >= b PROVE HasMax
    <3>1. CASE \E z \in S : z + n >= b
      <4> HIDE DEF HasMax
      <4> QED BY <1>2, <3>1
    <3>2. CASE \A z \in S : ~(z + n >= b)
      <4>1. \A y \in S : x >= y
        BY <2>1, <3>2
      <4> QED BY <4>1
    <3> QED BY <3>1, <3>2
  <2> HIDE DEF HasMax
  <2> QED BY <2>1
<1>3. b \in T
  <2> HIDE DEF T
  <2> QED BY <1>1, <1>2, Induction
<1>4. HasMax
  <2>1. PICK x \in S : TRUE
    OBVIOUS
  <2>2. x + b >= b
    OBVIOUS
  <2> HIDE DEF HasMax
  <2> QED BY <1>3, <2>1, <2>2
<1>5. Max(S) \in S /\ \A y \in S : Max(S) >= y
  BY ONLY <1>4 DEF Max
<1> QED BY <1>5

(***************************************************************************)
(* The end of a vector of sizes that ends as another one.                  *)
(***************************************************************************)
LEMMA EndsBehind ==
  ASSUME NEW sizes, IsVector(sizes), NEW tail, IsVector(tail),
         NEW n \in Nat, Len(sizes) = n + Len(tail),
         \A i \in 1..Len(sizes) : sizes[i] \in Nat,
         \A j \in 1..Len(tail) : sizes[n + j] = tail[j]
  PROVE  EndsOf(sizes)[Len(sizes)] = EndsOf(sizes)[n] + EndsOf(tail)[Len(tail)]
<1>1. Len(tail) \in Nat /\ Len(sizes) \in Nat
  BY Vector
<1>2. \A j \in 1..Len(tail) : tail[j] \in Nat
  BY <1>1
<1> DEFINE T == {j \in Nat : j <= Len(tail) =>
                   EndsOf(sizes)[n + j] = EndsOf(sizes)[n] + EndsOf(tail)[j]}
<1>3. \A j \in 0..Len(sizes) : EndsOf(sizes)[j] \in Nat
  BY EndsAscend
<1>4. \A j \in 0..Len(tail) : EndsOf(tail)[j] \in Nat
  BY <1>2, EndsAscend
<1>5. 0 \in T
  <2>1. EndsOf(tail)[0] = 0
    BY EndsStepwise
  <2>2. n \in 0..Len(sizes)
    BY <1>1
  <2> QED BY <1>3, <2>1, <2>2
<1>6. ASSUME NEW j \in Nat, j \in T PROVE j + 1 \in T
  <2> SUFFICES ASSUME j + 1 <= Len(tail)
               PROVE  EndsOf(sizes)[n + (j + 1)] = EndsOf(sizes)[n] + EndsOf(tail)[j + 1]
    OBVIOUS
  <2>1. j + 1 \in 1..Len(tail) /\ n + (j + 1) \in 1..Len(sizes) /\ j \in 0..Len(tail)
    BY <1>1
  <2>2. (j + 1) - 1 = j /\ (n + (j + 1)) - 1 = n + j
    OBVIOUS
  <2>3. EndsOf(tail)[j + 1] = EndsOf(tail)[j] + tail[j + 1]
    BY <2>1, <2>2, EndsStepwise
  <2>4. EndsOf(sizes)[n + (j + 1)] = EndsOf(sizes)[n + j] + sizes[n + (j + 1)]
    BY <2>1, <2>2, EndsStepwise
  <2>5. EndsOf(sizes)[n + j] = EndsOf(sizes)[n] + EndsOf(tail)[j]
    BY <1>6, <2>1
  <2>6. sizes[n + (j + 1)] = tail[j + 1] /\ tail[j + 1] \in Nat
    BY <1>2, <2>1
  <2>7. EndsOf(sizes)[n] \in Nat /\ EndsOf(tail)[j] \in Nat
    BY <1>1, <1>3, <1>4, <2>1
  <2> QED BY ONLY <2>3, <2>4, <2>5, <2>6, <2>7
<1>7. Len(tail) \in T
  <2> HIDE DEF T
  <2> QED BY <1>1, <1>5, <1>6, Induction
<1> QED BY <1>1, <1>7

(***************************************************************************)
(* Two vectors, one behind the other.                                      *)
(***************************************************************************)
LEMMA Concatenated ==
  ASSUME NEW a, NEW b, IsVector(a), IsVector(b)
  PROVE  /\ IsVector(a \o b) /\ Len(a \o b) = Len(a) + Len(b)
         /\ \A i \in 1..Len(a) : (a \o b)[i] = a[i]
         /\ \A i \in 1..Len(b) : (a \o b)[Len(a) + i] = b[i]
<1>1. PICK A : a \in Seq(A)
  BY DEF IsVector
<1>2. PICK B : b \in Seq(B)
  BY DEF IsVector
<1>3. a \in Seq(A \cup B) /\ b \in Seq(A \cup B)
  BY <1>1, <1>2
<1>4. a \o b \in Seq(A \cup B)
  BY <1>3
<1>5. IsVector(a \o b)
  BY <1>4 DEF IsVector
<1> QED BY <1>3, <1>5

(***************************************************************************)
(* The concatenation of a vector of vectors, one of them after the other.  *)
(***************************************************************************)
LEMMA FlattensStepwise ==
  ASSUME NEW seqs, IsVector(seqs), Len(seqs) # 0
  PROVE  \E f : /\ FlattenSeq(seqs) = f[Len(seqs)]
                /\ f[1] = seqs[1]
                /\ \A i \in 2..Len(seqs) : f[i] = f[i - 1] \o seqs[i]
<1> DEFINE n == Len(seqs)
           Upto(f, i) == IF i = 1 THEN seqs[i] ELSE f[i - 1] \o seqs[i]
           Grows(f, m) == f = [i \in 1..m |-> Upto(f, i)]
           S == {m \in Nat : m <= n => \E f : Grows(f, m)}
<1>1. n \in Nat /\ DOMAIN seqs = 1..n
  BY Vector
<1>2. 0 \in S
  <2> DEFINE f == [i \in 1..0 |-> 0]
  <2>1. \A i : i \notin 1..0
    OBVIOUS
  <2>2. Grows(f, 0)
    BY <2>1
  <2>3. \E h : Grows(h, 0)
    <3> HIDE DEF Grows, f
    <3> QED BY <2>2
  <2> HIDE DEF Grows
  <2> QED BY <2>3
<1>3. ASSUME NEW m \in Nat, m \in S PROVE m + 1 \in S
  <2> HIDE DEF Grows
  <2> SUFFICES ASSUME m + 1 <= n PROVE \E f : Grows(f, m + 1)
    OBVIOUS
  <2>1. PICK f : Grows(f, m)
    BY <1>1, <1>3
  <2> HIDE DEF Upto
  <2> DEFINE g == [i \in 1..(m + 1) |-> IF i = m + 1 THEN Upto(f, m + 1) ELSE f[i]]
  <2>2. \A i \in 1..m : f[i] = Upto(f, i)
    BY <2>1 DEF Grows
  <2>3. ASSUME NEW i \in 1..(m + 1) PROVE g[i] = Upto(g, i)
    <3>1. i = 1 \/ (i - 1 \in 1..m /\ i - 1 # m + 1 /\ i - 1 \in 1..(m + 1))
      OBVIOUS
    <3>2. Upto(g, i) = Upto(f, i)
      <4>1. CASE i = 1
        BY <4>1 DEF Upto
      <4>2. CASE i # 1
        <5>1. g[i - 1] = f[i - 1]
          BY <3>1, <4>2
        <5> HIDE DEF g
        <5> QED BY <5>1 DEF Upto
      <4> QED BY <4>1, <4>2
    <3>3. CASE i = m + 1
      BY <3>2, <3>3
    <3>4. CASE i # m + 1
      <4>1. i \in 1..m /\ g[i] = f[i]
        BY <3>4
      <4> QED BY <2>2, <3>2, <4>1
    <3> QED BY <3>3, <3>4
  <2>4. g = [i \in 1..(m + 1) |-> g[i]]
    OBVIOUS
  <2> HIDE DEF g
  <2>5. [i \in 1..(m + 1) |-> g[i]] = [i \in 1..(m + 1) |-> Upto(g, i)]
    BY <2>3
  <2>6. Grows(g, m + 1)
    BY <2>4, <2>5 DEF Grows
  <2> QED BY <2>6
<1>4. n \in S
  <2> HIDE DEF S
  <2> QED BY <1>1, <1>2, <1>3, Induction
<1>5. \E f : Grows(f, n)
  <2> HIDE DEF Grows
  <2> QED BY <1>1, <1>4
<1> DEFINE flatten == CHOOSE f : Grows(f, n)
<1>6. Grows(flatten, n)
  <2> HIDE DEF Grows
  <2> QED BY <1>5
<1>7. FlattenSeq(seqs) = flatten[n]
  BY DEF FlattenSeq
<1> HIDE DEF flatten
<1>8. \A i \in 1..n : flatten[i] = Upto(flatten, i)
  <2> HIDE DEF Upto
  <2> QED BY <1>6
<1>9. flatten[1] = seqs[1]
  <2>1. 1 \in 1..n
    BY <1>1
  <2> QED BY <1>8, <2>1
<1>10. \A i \in 2..n : flatten[i] = flatten[i - 1] \o seqs[i]
  <2>1. \A i \in 2..n : i \in 1..n /\ i # 1
    BY <1>1
  <2> QED BY <1>8, <2>1
<1> QED BY <1>7, <1>9, <1>10

(***************************************************************************)
(* A concatenation has the elements of both vectors.                       *)
(***************************************************************************)
LEMMA ConcatenatedElements ==
  ASSUME NEW a, NEW b, NEW c, IsVector(a), IsVector(b), c = a \o b
  PROVE  /\ IsVector(c)
         /\ \A k \in 1..Len(c) : \/ \E i \in 1..Len(a) : c[k] = a[i]
                                 \/ \E i \in 1..Len(b) : c[k] = b[i]
         /\ \A i \in 1..Len(a) : \E k \in 1..Len(c) : c[k] = a[i]
         /\ \A i \in 1..Len(b) : \E k \in 1..Len(c) : c[k] = b[i]
<1>1. Len(a) \in Nat /\ Len(b) \in Nat
  BY Vector
<1>2. /\ IsVector(c) /\ Len(c) = Len(a) + Len(b)
      /\ \A i \in 1..Len(a) : c[i] = a[i]
      /\ \A i \in 1..Len(b) : c[Len(a) + i] = b[i]
  BY Concatenated
<1>3. ASSUME NEW k \in 1..Len(c)
      PROVE  \/ \E i \in 1..Len(a) : c[k] = a[i]
             \/ \E i \in 1..Len(b) : c[k] = b[i]
  <2>1. CASE k <= Len(a)
    <3>1. k \in 1..Len(a)
      BY <1>1, <1>2, <2>1
    <3> QED BY <1>2, <3>1
  <2>2. CASE ~(k <= Len(a))
    <3>1. k - Len(a) \in 1..Len(b) /\ Len(a) + (k - Len(a)) = k
      BY <1>1, <1>2, <2>2
    <3> QED BY <1>2, <3>1
  <2> QED BY <2>1, <2>2
<1>4. ASSUME NEW i \in 1..Len(a) PROVE \E k \in 1..Len(c) : c[k] = a[i]
  <2>1. i \in 1..Len(c)
    BY <1>1, <1>2
  <2> QED BY <1>2, <2>1
<1>5. ASSUME NEW i \in 1..Len(b) PROVE \E k \in 1..Len(c) : c[k] = b[i]
  <2>1. Len(a) + i \in 1..Len(c)
    BY <1>1, <1>2
  <2> QED BY <1>2, <2>1
<1> QED BY <1>2, <1>3, <1>4, <1>5

(***************************************************************************)
(* The concatenation of a vector of vectors has every element of theirs,   *)
(* and no other.                                                           *)
(***************************************************************************)
LEMMA FlatElements ==
  ASSUME NEW seqs, IsVector(seqs), \A i \in 1..Len(seqs) : IsVector(seqs[i])
  PROVE  /\ IsVector(FlattenSeq(seqs))
         /\ \A k \in 1..Len(FlattenSeq(seqs)) :
              \E i \in 1..Len(seqs) : \E j \in 1..Len(seqs[i]) :
                FlattenSeq(seqs)[k] = seqs[i][j]
         /\ \A i \in 1..Len(seqs) : \A j \in 1..Len(seqs[i]) :
              \E k \in 1..Len(FlattenSeq(seqs)) : FlattenSeq(seqs)[k] = seqs[i][j]
<1>0. Len(seqs) \in Nat
  BY Vector
<1>1. CASE Len(seqs) = 0
  <2>1. FlattenSeq(seqs) = seqs
    BY <1>1 DEF FlattenSeq
  <2> QED BY <1>1, <2>1
<1>2. CASE Len(seqs) # 0
  <2>1. PICK f : /\ FlattenSeq(seqs) = f[Len(seqs)]
                 /\ f[1] = seqs[1]
                 /\ \A i \in 2..Len(seqs) : f[i] = f[i - 1] \o seqs[i]
    BY <1>2, FlattensStepwise
  <2> DEFINE Whole(m) ==
               /\ IsVector(f[m])
               /\ \A k \in 1..Len(f[m]) :
                    \E i \in 1..m : \E j \in 1..Len(seqs[i]) : f[m][k] = seqs[i][j]
               /\ \A i \in 1..m : \A j \in 1..Len(seqs[i]) :
                    \E k \in 1..Len(f[m]) : f[m][k] = seqs[i][j]
             T == {m \in Nat : m + 1 <= Len(seqs) => Whole(m + 1)}
  <2>2. Whole(1)
    <3>1. \A i \in 1..1 : i = 1
      OBVIOUS
    <3>2. 1 \in 1..1 /\ IsVector(seqs[1])
      BY <1>0, <1>2
    <3> QED BY <2>1, <3>1, <3>2
  <2>3. 0 \in T
    BY <2>2
  <2>4. ASSUME NEW m \in Nat, m \in T PROVE m + 1 \in T
    <3> SUFFICES ASSUME (m + 1) + 1 <= Len(seqs) PROVE Whole((m + 1) + 1)
      OBVIOUS
    <3> DEFINE p == m + 1
               q == (m + 1) + 1
    <3>1. Whole(p)
      <4> HIDE DEF Whole
      <4> QED BY <1>0, <2>4
    <3>2. q \in 2..Len(seqs) /\ q \in 1..Len(seqs) /\ q - 1 = p /\ p \in Nat /\ q = p + 1
      BY <1>0
    <3> HIDE DEF p, q
    <3> DEFINE a == f[p]
               b == seqs[q]
               c == f[q]
    <3>3. c = a \o b /\ IsVector(b) /\ IsVector(a)
      BY <2>1, <3>1, <3>2
    <3> HIDE DEF a, b, c
    <3>4. /\ IsVector(c)
          /\ \A k \in 1..Len(c) : \/ \E i \in 1..Len(a) : c[k] = a[i]
                                  \/ \E i \in 1..Len(b) : c[k] = b[i]
          /\ \A i \in 1..Len(a) : \E k \in 1..Len(c) : c[k] = a[i]
          /\ \A i \in 1..Len(b) : \E k \in 1..Len(c) : c[k] = b[i]
      <4>1. IsVector(c)
        BY <3>3, ConcatenatedElements
      <4>2. ASSUME NEW k \in 1..Len(c)
            PROVE  \/ \E i \in 1..Len(a) : c[k] = a[i]
                   \/ \E i \in 1..Len(b) : c[k] = b[i]
        BY ONLY <3>3, <4>2, ConcatenatedElements
      <4>3. ASSUME NEW i \in 1..Len(a) PROVE \E k \in 1..Len(c) : c[k] = a[i]
        BY <3>3, ConcatenatedElements
      <4>4. ASSUME NEW i \in 1..Len(b) PROVE \E k \in 1..Len(c) : c[k] = b[i]
        <5>1. /\ Len(c) = Len(a) + Len(b) /\ c[Len(a) + i] = b[i]
              /\ Len(a) \in Nat /\ Len(b) \in Nat
          BY <3>3, Concatenated, Vector
        <5>2. Len(a) + i \in 1..Len(c)
          BY <5>1
        <5> QED BY <5>1, <5>2
      <4> QED BY <4>1, <4>2, <4>3, <4>4
    <3> USE DEF a, b, c
    <3>5. q \in 1..q /\ \A i \in 1..q : i \in 1..p \/ i = q
      BY ONLY <3>2
    <3>6. ASSUME NEW k \in 1..Len(f[q])
          PROVE  \E i \in 1..q : \E j \in 1..Len(seqs[i]) : f[q][k] = seqs[i][j]
      <4>1. CASE \E h \in 1..Len(f[p]) : f[q][k] = f[p][h]
        <5>1. PICK h \in 1..Len(f[p]) : f[q][k] = f[p][h]
          BY <4>1
        <5>2. PICK i \in 1..p : \E j \in 1..Len(seqs[i]) : f[p][h] = seqs[i][j]
          BY <3>1
        <5>3. i \in 1..q
          BY <3>2
        <5> QED BY <5>1, <5>2, <5>3
      <4>2. CASE \E h \in 1..Len(seqs[q]) : f[q][k] = seqs[q][h]
        BY <3>5, <4>2
      <4> QED BY <3>4, <4>1, <4>2
    <3>7. ASSUME NEW i \in 1..q, NEW j \in 1..Len(seqs[i])
          PROVE  \E k \in 1..Len(f[q]) : f[q][k] = seqs[i][j]
      <4>1. CASE i \in 1..p
        <5>1. PICK h \in 1..Len(f[p]) : f[p][h] = seqs[i][j]
          BY <3>1, <4>1
        <5> QED BY <3>4, <5>1
      <4>2. CASE i = q
        BY <3>4, <4>2
      <4> QED BY <3>5, <4>1, <4>2
    <3>8. Whole(q)
      BY <3>4, <3>6, <3>7
    <3> HIDE DEF Whole
    <3> QED BY <3>8 DEF q
  <2>5. Len(seqs) - 1 \in T
    <3> HIDE DEF T
    <3>1. Len(seqs) - 1 \in Nat
      BY <1>0, <1>2
    <3> QED BY <2>3, <2>4, <3>1, Induction
  <2>6. Whole(Len(seqs))
    <3>1. (Len(seqs) - 1) + 1 = Len(seqs)
      BY <1>0
    <3> HIDE DEF Whole
    <3> QED BY <1>0, <2>5, <3>1
  <2> QED BY <2>1, <2>6
<1> QED BY <1>1, <1>2

(***************************************************************************)
(* The last entry of the page map is the offset of the map itself.         *)
(***************************************************************************)
LEMMA LastEntry ==
  ASSUME NEW allocs, Allocated(allocs), NeededBytes(allocs) <= OffsetRange
  PROVE  Rgib(allocs)[Len(Rgib(allocs))] = MapOffset(allocs)
<1> DEFINE starts == [i \in 1..Len(allocs) |-> Cursor(allocs, i - 1)]
           pad == IF HasPhantom(allocs) THEN <<Cursor(allocs, Len(allocs))>> ELSE <<>>
<1>1. Len(allocs) \in Nat
  BY Vector DEF Allocated
<1>2. IsVector(starts)
  BY <1>1, FunctionIsVector
<1>3. IsVector(pad)
  <2>1. /\ <<>> \in Seq({Cursor(allocs, Len(allocs))})
        /\ <<Cursor(allocs, Len(allocs))>> \in Seq({Cursor(allocs, Len(allocs))})
    OBVIOUS
  <2> QED BY <2>1 DEF IsVector
<1>4. IsVector(<<MapOffset(allocs)>>)
  <2>1. <<MapOffset(allocs)>> \in Seq({MapOffset(allocs)})
    OBVIOUS
  <2> QED BY <2>1 DEF IsVector
<1>5. Rgib(allocs) = (starts \o pad) \o <<MapOffset(allocs)>>
  BY DEF Rgib
<1> HIDE DEF starts, pad
<1>6. IsVector(starts \o pad)
  BY <1>2, <1>3, Concatenated
<1>7. Len(<<MapOffset(allocs)>>) = 1 /\ 1 \in 1..1 /\ <<MapOffset(allocs)>>[1] = MapOffset(allocs)
  OBVIOUS
<1> QED BY <1>4, <1>5, <1>6, <1>7, Concatenated

-----------------------------------------------------------------------------
(* The rows a caller gathers. *)

\* A cell of variable size has a size, and a column of its own.
GoodRow(r) ==
  /\ r.id \in Nat /\ IsVector(r.cells)
  /\ \A j \in 1..Len(r.cells) : r.cells[j].size \in Nat
  /\ \A i, j \in 1..Len(r.cells) : r.cells[i].col = r.cells[j].col => i = j

GoodRows(rs) ==
  /\ IsVector(rs)
  /\ \A i \in 1..Len(rs) : GoodRow(rs[i])
  /\ \A i, j \in 1..Len(rs) : rs[i].id = rs[j].id => i = j

(***************************************************************************)
(* The cells the callers give have sizes, and no column has two.           *)
(***************************************************************************)
LEMMA CellsAreGood ==
  ASSUME cols \in Schemas, NEW cells \in CellLists
  PROVE  /\ IsVector(cells)
         /\ \A j \in 1..Len(cells) : cells[j].size \in Nat
         /\ \A i, j \in 1..Len(cells) : cells[i].col = cells[j].col => i = j
<1> DEFINE wide == {i \in DOMAIN cols : i > 2 /\ cols[i].cb = 4}
<1>1. PICK chosen \in SUBSET wide :
        \E order \in SetToSeqs(chosen), sizes \in [chosen -> CellSizes] :
          cells = [j \in DOMAIN order |-> [col |-> order[j], size |-> sizes[order[j]]]]
  BY DEF CellLists
<1>1a. PICK order \in SetToSeqs(chosen), sizes \in [chosen -> CellSizes] :
         cells = [j \in DOMAIN order |-> [col |-> order[j], size |-> sizes[order[j]]]]
  BY <1>1
<1> DEFINE n == Cardinality(chosen)
<1>2. /\ order \in [1..n -> chosen]
      /\ \A i, j \in 1..n : i # j => order[i] # order[j]
  BY DEF SetToSeqs
<1>3. n \in Nat
  <2>1. Len(cols) \in Nat /\ DOMAIN cols = 1..Len(cols)
    BY SchemasAssumption DEF LaidOut
  <2>2. IsFiniteSet(1..Len(cols))
    BY <2>1, FS_Interval
  <2>3. chosen \in SUBSET (1..Len(cols))
    BY <1>1, <2>1
  <2>4. IsFiniteSet(chosen)
    BY <2>2, <2>3, FS_Subset
  <2> QED BY <2>4, FS_CardinalityType
<1> HIDE DEF n
<1>4. cells = [j \in 1..n |-> [col |-> order[j], size |-> sizes[order[j]]]]
  BY <1>1a, <1>2
<1>5. cells = [j \in 1..n |-> cells[j]]
  BY <1>4
<1>6. IsVector(cells) /\ Len(cells) = n
  BY <1>3, <1>5, FunctionIsVector
<1>7. \A j \in 1..n : cells[j].size \in Nat /\ cells[j].col = order[j]
  <2> SUFFICES ASSUME NEW j \in 1..n PROVE cells[j].size \in Nat /\ cells[j].col = order[j]
    OBVIOUS
  <2>1. order[j] \in chosen
    BY <1>2
  <2>2. sizes[order[j]] \in CellSizes
    BY <1>1a, <2>1
  <2>3. cells[j] = [col |-> order[j], size |-> sizes[order[j]]]
    BY <1>4
  <2>4. cells[j].col = order[j] /\ cells[j].size = sizes[order[j]]
    BY ONLY <2>3
  <2>5. sizes[order[j]] \in Nat
    BY ONLY <2>2, RowsAssumption
  <2> QED BY <2>4, <2>5
<1>8. \A i, j \in 1..n : cells[i].col = cells[j].col => i = j
  BY <1>2, <1>7
<1> QED BY <1>6, <1>7, <1>8

(***************************************************************************)
(* Sorting by a key no two records share: a permutation, and the keys      *)
(* ascend.                                                                 *)
(***************************************************************************)
LEMMA SortingPermutes ==
  ASSUME NEW records, IsVector(records), \A i \in 1..Len(records) : records[i].key \in Nat,
         \A i, j \in 1..Len(records) : records[i].key = records[j].key => i = j
  PROVE  /\ SortedIdx(records) \in [1..Len(records) -> 1..Len(records)]
         /\ \A i \in 1..Len(records) : \E k \in 1..Len(records) : SortedIdx(records)[k] = i
         /\ \A k, h \in 1..Len(records) : k < h =>
              records[SortedIdx(records)[k]].key < records[SortedIdx(records)[h]].key
<1> DEFINE n == Len(records)
           p == SortedIdx(records)
<1>1. /\ p \in [1..n -> 1..n]
      /\ \A k, h \in 1..n : k < h => records[p[k]].key < records[p[h]].key
  BY SortingByKey
<1>2. n \in Nat
  BY Vector
<1> HIDE DEF n, p
<1>3. ASSUME NEW k \in 1..n, NEW h \in 1..n, p[k] = p[h] PROVE k = h
  <2>1. /\ records[p[k]].key \in Nat
        /\ ~(k < h) /\ ~(h < k)
    <3>1. p[k] \in 1..n
      BY <1>1
    <3>2. records[p[k]].key \in Nat
      BY <3>1 DEF n
    <3>3. ~(records[p[k]].key < records[p[h]].key) /\ ~(records[p[h]].key < records[p[k]].key)
      BY <1>3, <3>2
    <3> QED BY <1>1, <3>2, <3>3
  <2> QED BY <1>2, <2>1
<1>4. p \in Injection(1..n, 1..n)
  BY <1>1, <1>3 DEF Injection, IsInjective
<1>5. IsFiniteSet(1..n)
  <2>1. 1 \in Int /\ n \in Int
    BY <1>2
  <2> QED BY ONLY <2>1, FS_Interval
<1>6. p \in Surjection(1..n, 1..n)
  BY <1>4, <1>5, FS_Injection
<1>7. \A i \in 1..n : \E k \in 1..n : p[k] = i
  BY <1>6 DEF Surjection
<1> QED BY <1>1, <1>7 DEF n, p

(***************************************************************************)
(* The rows in the order of their identifiers: each gathered row, once.    *)
(***************************************************************************)
LEMMA RowsSorted ==
  ASSUME NEW rs, GoodRows(rs)
  PROVE  /\ Len(rs) \in Nat /\ DOMAIN rs = 1..Len(rs)
         /\ \A s \in 1..Len(rs) : \E i \in 1..Len(rs) : SortedRows(rs)[s] = rs[i]
         /\ \A i \in 1..Len(rs) : \E s \in 1..Len(rs) : SortedRows(rs)[s] = rs[i]
         /\ \A s \in 1..Len(rs) : GoodRow(SortedRows(rs)[s])
         /\ \A s, t \in 1..Len(rs) : SortedRows(rs)[s].id = SortedRows(rs)[t].id => s = t
<1> DEFINE n == Len(rs)
           keys == [i \in DOMAIN rs |-> [key |-> rs[i].id]]
           p == SortedIdx(keys)
           sorted == SortedRows(rs)
<1>1. /\ n \in Nat /\ DOMAIN rs = 1..n
      /\ \A i \in 1..n : GoodRow(rs[i])
      /\ \A i, j \in 1..n : rs[i].id = rs[j].id => i = j
  BY Vector DEF GoodRows
<1>2. sorted = [s \in 1..n |-> rs[p[s]]]
  BY <1>1 DEF SortedRows
<1>3. keys = [i \in 1..n |-> keys[i]] /\ \A i \in 1..n : keys[i].key = rs[i].id
  BY <1>1
<1> HIDE DEF n, keys
<1>4. IsVector(keys) /\ Len(keys) = n
  BY <1>1, <1>3, FunctionIsVector
<1>5. /\ \A i \in 1..n : keys[i].key \in Nat
      /\ \A i, j \in 1..n : keys[i].key = keys[j].key => i = j
  BY <1>1, <1>3 DEF GoodRow
<1>6. /\ p \in [1..n -> 1..n]
      /\ \A i \in 1..n : \E k \in 1..n : p[k] = i
      /\ \A k, h \in 1..n : k < h => keys[p[k]].key < keys[p[h]].key
  BY <1>4, <1>5, SortingPermutes
<1> HIDE DEF p
<1>7. \A s \in 1..n : p[s] \in 1..n /\ sorted[s] = rs[p[s]]
  BY <1>2, <1>6
<1> HIDE DEF sorted
<1>8. ASSUME NEW i \in 1..n PROVE \E s \in 1..n : sorted[s] = rs[i]
  <2>1. PICK s \in 1..n : p[s] = i
    BY <1>6
  <2> QED BY <1>7, <2>1
<1>9. ASSUME NEW s \in 1..n, NEW t \in 1..n, sorted[s].id = sorted[t].id PROVE s = t
  <2>1. p[s] = p[t]
    BY <1>1, <1>7, <1>9
  <2>2. keys[p[s]].key \in Nat /\ keys[p[t]].key = keys[p[s]].key
    BY <1>5, <1>7, <2>1
  <2>3. ~(keys[p[s]].key < keys[p[t]].key) /\ ~(keys[p[t]].key < keys[p[s]].key)
    BY <2>2
  <2>4. ~(s < t) /\ ~(t < s)
    BY <1>6, <2>3
  <2> QED BY <1>1, <2>4
<1> QED BY <1>1, <1>7, <1>8, <1>9 DEF n, sorted

(***************************************************************************)
(* The columns of a table that is well laid out.                           *)
(***************************************************************************)
LEMMA Columns ==
  ASSUME NEW cs, LaidOut(cs)
  PROVE  /\ Len(cs) \in 1..255 /\ DOMAIN cs = 1..Len(cs)
         /\ \A i \in 1..Len(cs) : /\ cs[i].tag \in Nat /\ cs[i].ib \in Nat
                                 /\ cs[i].cb \in Nat /\ cs[i].bit \in Nat
<1> DEFINE C == [tag : Nat, ib : Nat, cb : Nat, bit : Nat]
<1>1. cs \in Seq(C) /\ Len(cs) \in 1..255
  BY DEF LaidOut
<1>2. \A c \in C : c.tag \in Nat /\ c.ib \in Nat /\ c.cb \in Nat /\ c.bit \in Nat
  OBVIOUS
<1> HIDE DEF C
<1>3. DOMAIN cs = 1..Len(cs) /\ \A i \in 1..Len(cs) : cs[i] \in C
  BY <1>1
<1> QED BY <1>1, <1>2, <1>3

(***************************************************************************)
(* The descriptors of the columns ascend by their tags.                    *)
(***************************************************************************)
LEMMA ColumnsSorted ==
  ASSUME NEW cs, LaidOut(cs)
  PROVE  \A k \in 2..Len(cs) : SortedColumns(cs)[k - 1].tag < SortedColumns(cs)[k].tag
<1> DEFINE n == Len(cs)
           keys == [i \in DOMAIN cs |-> [key |-> cs[i].tag]]
           p == SortedIdx(keys)
<1>1. /\ n \in Nat /\ DOMAIN cs = 1..n
      /\ \A i \in 1..n : cs[i].tag \in Nat
      /\ \A i, j \in 1..n : i # j => cs[i].tag # cs[j].tag
  <2>1. /\ n \in Nat /\ DOMAIN cs = 1..n
        /\ \A i \in 1..n : cs[i].tag \in Nat
    BY Columns
  <2>2. \A i, j \in DOMAIN cs : i # j => cs[i].tag # cs[j].tag
    BY DEF LaidOut
  <2> QED BY <2>1, <2>2
<1>2. SortedColumns(cs) = [s \in 1..n |-> cs[p[s]]]
  BY <1>1 DEF SortedColumns
<1>3. keys = [i \in 1..n |-> keys[i]] /\ \A i \in 1..n : keys[i].key = cs[i].tag
  BY <1>1
<1> HIDE DEF n, keys
<1>4. IsVector(keys) /\ Len(keys) = n
  BY <1>1, <1>3, FunctionIsVector
<1>5. /\ \A i \in 1..n : keys[i].key \in Nat
      /\ \A i, j \in 1..n : keys[i].key = keys[j].key => i = j
  BY <1>1, <1>3
<1>6. /\ p \in [1..n -> 1..n]
      /\ \A k, h \in 1..n : k < h => keys[p[k]].key < keys[p[h]].key
  BY <1>4, <1>5, SortingPermutes
<1> HIDE DEF p
<1>7. ASSUME NEW k \in 2..n PROVE SortedColumns(cs)[k - 1].tag < SortedColumns(cs)[k].tag
  <2>1. k - 1 \in 1..n /\ k \in 1..n /\ k - 1 < k
    BY <1>1
  <2>2. keys[p[k - 1]].key < keys[p[k]].key
    BY <1>6, <2>1
  <2>3. p[k - 1] \in 1..n /\ p[k] \in 1..n
    BY <1>6, <2>1
  <2>4. SortedColumns(cs)[k - 1] = cs[p[k - 1]] /\ SortedColumns(cs)[k] = cs[p[k]]
    BY <1>2, <2>1
  <2> QED BY <1>3, <2>2, <2>3, <2>4
<1> QED BY <1>7 DEF n

-----------------------------------------------------------------------------
(* computeTcRgib: the regions of a row. *)

(***************************************************************************)
(* The end of one region: no cell of its widths reaches beyond it.         *)
(***************************************************************************)
LEMMA RegionEnds ==
  ASSUME NEW cs, LaidOut(cs), NEW widths, NEW d \in Nat
  PROVE  LET e == EndOr(Ends(cs, widths), d)
         IN  /\ e \in Nat
             /\ \A i \in 1..Len(cs) : cs[i].cb \in widths => cs[i].ib + cs[i].cb <= e
             /\ \/ e = d
                \/ \E i \in 1..Len(cs) : cs[i].cb \in widths /\ e = cs[i].ib + cs[i].cb
<1> DEFINE n == Len(cs)
           e == EndOr(Ends(cs, widths), d)
           ends == [i \in 1..n |-> cs[i].ib + cs[i].cb]
           S == Ends(cs, widths)
<1>1. n \in Nat /\ DOMAIN cs = 1..n
  BY Columns
<1>2. \A i \in 1..n : cs[i].ib \in Nat /\ cs[i].cb \in Nat
  BY Columns
<1>3. \A i \in 1..n : ends[i] = cs[i].ib + cs[i].cb /\ ends[i] \in Nat
  BY <1>2
<1>4. IsVector(ends) /\ Len(ends) = n
  BY <1>1, FunctionIsVector
<1>5. S = {cs[i].ib + cs[i].cb : i \in {j \in 1..n : cs[j].cb \in widths}}
  BY <1>1 DEF Ends
<1>6. \A x : x \in S <=> \E i \in 1..n : cs[i].cb \in widths /\ x = cs[i].ib + cs[i].cb
  BY ONLY <1>5
<1> HIDE DEF n, ends, S
<1>7. \A i \in 1..n : ends[i] <= EndsOf(ends)[n]
  <2> SUFFICES ASSUME NEW i \in 1..n PROVE ends[i] <= EndsOf(ends)[n]
    OBVIOUS
  <2>1. EndsOf(ends)[i] = EndsOf(ends)[i - 1] + ends[i]
    BY <1>4, EndsStepwise
  <2>2. i \in 0..n /\ i - 1 \in 0..n /\ n \in 0..n
    BY <1>1
  <2>3. EndsOf(ends)[i] \in Nat /\ EndsOf(ends)[i - 1] \in Nat /\ EndsOf(ends)[n] \in Nat
    BY <1>3, <1>4, <2>2, EndsAscend
  <2>4. EndsOf(ends)[i] <= EndsOf(ends)[n]
    BY <1>3, <1>4, <2>2, EndsAscend
  <2>5. ends[i] \in Nat
    BY <1>3
  <2> QED BY ONLY <2>1, <2>3, <2>4, <2>5
<1>8. EndsOf(ends)[n] \in Nat
  <2>1. n \in 0..n
    BY <1>1
  <2> QED BY <1>3, <1>4, <2>1, EndsAscend
<1>9. S \subseteq Nat /\ \A x \in S : x <= EndsOf(ends)[n]
  BY <1>3, <1>6, <1>7
<1>10. CASE S = {}
  <2>1. e = d
    BY <1>10 DEF EndOr, S
  <2> HIDE DEF e
  <2> QED BY <1>6, <1>10, <2>1 DEF e, n
<1>11. CASE S # {}
  <2>1. e = Max(S)
    BY <1>11 DEF EndOr, S
  <2>2. e \in S /\ \A y \in S : y <= e
    BY <1>8, <1>9, <1>11, <2>1, Largest
  <2> HIDE DEF e
  <2>3. e \in Nat
    BY <1>9, <2>2
  <2>4. \A i \in 1..n : cs[i].cb \in widths => cs[i].ib + cs[i].cb <= e
    BY <1>6, <2>2
  <2>5. \E i \in 1..n : cs[i].cb \in widths /\ e = cs[i].ib + cs[i].cb
    BY <1>6, <2>2
  <2> QED BY <2>3, <2>4, <2>5 DEF e, n
<1> QED BY <1>10, <1>11

(***************************************************************************)
(* The regions of a row one behind the other: all cells before the bits,   *)
(* and a bit for every column.                                             *)
(***************************************************************************)
LEMMA RowRegions ==
  ASSUME NEW cs, LaidOut(cs), ValidColumns(cs)
  PROVE  /\ RowBytes(cs) \in Nat \ {0} /\ TcRgib(cs).end1b \in Nat
         /\ \A i \in 1..Len(cs) : /\ cs[i].ib + cs[i].cb <= TcRgib(cs).end1b
                                 /\ TcRgib(cs).end1b * 8 + cs[i].bit < RowBytes(cs) * 8
<1> DEFINE n == Len(cs)
           e4 == EndOr(Ends(cs, {4, 8}), 0)
           e2 == EndOr(Ends(cs, {2}), e4)
           e1 == EndOr(Ends(cs, {1}), e2)
<1>1. n \in 1..255 /\ DOMAIN cs = 1..n
  BY Columns
<1>2. \A i \in 1..n : cs[i].ib \in Nat /\ cs[i].cb \in {1, 2, 4, 8} /\ cs[i].bit \in Nat
  BY <1>1, Columns DEF ValidColumns
<1>3. \A i \in 1..n : cs[i].bit < n
  BY <1>1 DEF LaidOut
<1>4. \A i, j \in 1..n :
        cs[j].cb < 4 /\ cs[j].cb < cs[i].cb => cs[i].ib + cs[i].cb <= cs[j].ib
  BY <1>1 DEF LaidOut
<1>5. /\ TcRgib(cs).end1b = e1 /\ RowBytes(cs) = e1 + ((n + 7) \div 8)
  BY DEF TcRgib, RowBytes
<1>6. /\ e4 \in Nat
      /\ \A i \in 1..n : cs[i].cb \in {4, 8} => cs[i].ib + cs[i].cb <= e4
      /\ \/ e4 = 0
         \/ \E i \in 1..n : cs[i].cb \in {4, 8} /\ e4 = cs[i].ib + cs[i].cb
  BY RegionEnds
<1> HIDE DEF e4, n
<1>7. /\ e2 \in Nat
      /\ \A i \in 1..n : cs[i].cb \in {2} => cs[i].ib + cs[i].cb <= e2
      /\ \/ e2 = e4
         \/ \E i \in 1..n : cs[i].cb \in {2} /\ e2 = cs[i].ib + cs[i].cb
  BY <1>6, RegionEnds DEF n
<1> HIDE DEF e2
<1>8. /\ e1 \in Nat
      /\ \A i \in 1..n : cs[i].cb \in {1} => cs[i].ib + cs[i].cb <= e1
      /\ \/ e1 = e2
         \/ \E i \in 1..n : cs[i].cb \in {1} /\ e1 = cs[i].ib + cs[i].cb
  BY <1>7, RegionEnds DEF n
<1> HIDE DEF e1
<1>9. e4 <= e2
  <2>1. CASE e2 = e4
    BY <1>6, <2>1
  <2>2. CASE \E j \in 1..n : cs[j].cb \in {2} /\ e2 = cs[j].ib + cs[j].cb
    <3>1. PICK j \in 1..n : cs[j].cb \in {2} /\ e2 = cs[j].ib + cs[j].cb
      BY <2>2
    <3>2. CASE e4 = 0
      BY <1>7, <3>2
    <3>3. CASE \E i \in 1..n : cs[i].cb \in {4, 8} /\ e4 = cs[i].ib + cs[i].cb
      <4>1. PICK i \in 1..n : cs[i].cb \in {4, 8} /\ e4 = cs[i].ib + cs[i].cb
        BY <3>3
      <4>2. cs[j].cb < 4 /\ cs[j].cb < cs[i].cb
        BY <3>1, <4>1
      <4>3. e4 <= cs[j].ib
        BY <1>4, <4>1, <4>2
      <4>4. cs[j].ib \in Nat /\ cs[j].cb = 2
        BY <1>2, <3>1
      <4> QED BY <1>6, <1>7, <3>1, <4>3, <4>4
    <3> QED BY <1>6, <3>2, <3>3
  <2> QED BY <1>7, <2>1, <2>2
<1>10. e2 <= e1
  <2>1. CASE e1 = e2
    BY <1>7, <2>1
  <2>2. CASE \E j \in 1..n : cs[j].cb \in {1} /\ e1 = cs[j].ib + cs[j].cb
    <3>1. PICK j \in 1..n : cs[j].cb \in {1} /\ e1 = cs[j].ib + cs[j].cb
      BY <2>2
    <3>2. CASE e2 = 0
      BY <1>8, <3>2
    <3>3. CASE \E i \in 1..n : cs[i].cb \in {2, 4, 8} /\ e2 = cs[i].ib + cs[i].cb
      <4>1. PICK i \in 1..n : cs[i].cb \in {2, 4, 8} /\ e2 = cs[i].ib + cs[i].cb
        BY <3>3
      <4>2. cs[j].cb < 4 /\ cs[j].cb < cs[i].cb
        BY <3>1, <4>1
      <4>3. e2 <= cs[j].ib
        BY <1>4, <4>1, <4>2
      <4>4. cs[j].ib \in Nat /\ cs[j].cb = 1
        BY <1>2, <3>1
      <4> QED BY <1>7, <1>8, <3>1, <4>3, <4>4
    <3> QED BY <1>6, <1>7, <3>2, <3>3
  <2> QED BY <1>8, <2>1, <2>2
<1>11. \A i \in 1..n : cs[i].ib + cs[i].cb <= e1
  <2> SUFFICES ASSUME NEW i \in 1..n PROVE cs[i].ib + cs[i].cb <= e1
    OBVIOUS
  <2>1. CASE cs[i].cb \in {4, 8}
    <3>1. cs[i].ib + cs[i].cb <= e4 /\ cs[i].ib \in Nat /\ cs[i].cb \in Nat
      BY <1>2, <1>6, <2>1
    <3> QED BY <1>6, <1>7, <1>8, <1>9, <1>10, <3>1
  <2>2. CASE cs[i].cb \in {2}
    <3>1. cs[i].ib + cs[i].cb <= e2 /\ cs[i].ib \in Nat /\ cs[i].cb \in Nat
      BY <1>2, <1>7, <2>2
    <3> QED BY <1>7, <1>8, <1>10, <3>1
  <2>3. CASE cs[i].cb \in {1}
    BY <1>8, <2>3
  <2> QED BY <1>2, <2>1, <2>2, <2>3
<1>12. n <= 8 * ((n + 7) \div 8) /\ (n + 7) \div 8 \in Nat \ {0}
  BY <1>1
<1>13. \A i \in 1..n : e1 * 8 + cs[i].bit < (e1 + ((n + 7) \div 8)) * 8
  <2> DEFINE q == (n + 7) \div 8
  <2>1. q \in Nat /\ n <= 8 * q
    BY <1>12
  <2> HIDE DEF q
  <2>2. ASSUME NEW i \in 1..n PROVE e1 * 8 + cs[i].bit < (e1 + q) * 8
    <3>1. cs[i].bit \in Nat
      BY <1>2
    <3>2. cs[i].bit < n
      BY <1>3
    <3>3. n \in Nat
      BY <1>1
    <3> QED BY <1>8, <2>1, <3>1, <3>2, <3>3
  <2> QED BY <2>2 DEF q
<1>14. e1 + ((n + 7) \div 8) \in Nat \ {0}
  BY <1>8, <1>12
<1> QED BY <1>5, <1>8, <1>11, <1>13, <1>14 DEF n

-----------------------------------------------------------------------------
(* The allocations of a table's heap. *)

\* The entry of Varlens for the j-th cell of the s-th row.
VarlenOf(cs, rs, s, j) ==
  LET r == SortedRows(rs)[s]
  IN  [row |-> s, ib |-> cs[r.cells[j].col].ib, size |-> r.cells[j].size,
       data |-> CellData(r.id, r.cells[j].col)]

(***************************************************************************)
(* The cells of variable size, row by row: each of them, and no others.    *)
(***************************************************************************)
LEMMA VarlenCells ==
  ASSUME NEW cs, NEW rs, GoodRows(rs)
  PROVE  LET v == Varlens(cs, rs)
         IN  /\ IsVector(v)
             /\ \A k \in 1..Len(v) :
                  \E s \in 1..Len(rs) : \E j \in 1..Len(SortedRows(rs)[s].cells) :
                    v[k] = VarlenOf(cs, rs, s, j)
             /\ \A s \in 1..Len(rs) : \A j \in 1..Len(SortedRows(rs)[s].cells) :
                  \E k \in 1..Len(v) : v[k] = VarlenOf(cs, rs, s, j)
             /\ \A k \in 1..Len(v) : v[k].size \in Nat
<1> DEFINE n == Len(rs)
           sorted == SortedRows(rs)
           seqs == [s \in DOMAIN rs |-> [j \in DOMAIN sorted[s].cells |-> VarlenOf(cs, rs, s, j)]]
           v == Varlens(cs, rs)
<1>1. /\ n \in Nat /\ DOMAIN rs = 1..n
      /\ \A s \in 1..n : GoodRow(sorted[s])
  BY RowsSorted
<1>2. v = FlattenSeq(seqs)
  BY DEF Varlens, VarlenOf
<1> HIDE DEF n, sorted, v
<1>3. \A s \in 1..n : /\ IsVector(sorted[s].cells)
                      /\ Len(sorted[s].cells) \in Nat
                      /\ DOMAIN sorted[s].cells = 1..Len(sorted[s].cells)
                      /\ \A j \in 1..Len(sorted[s].cells) : sorted[s].cells[j].size \in Nat
  BY <1>1, Vector DEF GoodRow
<1>4. seqs = [s \in 1..n |-> seqs[s]]
  BY <1>1
<1>5. \A s \in 1..n :
        seqs[s] = [j \in 1..Len(sorted[s].cells) |-> VarlenOf(cs, rs, s, j)]
  BY <1>1, <1>3
<1> HIDE DEF seqs
<1>6. IsVector(seqs) /\ Len(seqs) = n
  BY <1>1, <1>4, FunctionIsVector
<1>7. ASSUME NEW s \in 1..n
      PROVE  /\ IsVector(seqs[s]) /\ Len(seqs[s]) = Len(sorted[s].cells)
             /\ \A j \in 1..Len(sorted[s].cells) : seqs[s][j] = VarlenOf(cs, rs, s, j)
  <2> DEFINE f == seqs[s]
             m == Len(sorted[s].cells)
  <2>1. f = [j \in 1..m |-> VarlenOf(cs, rs, s, j)] /\ m \in Nat
    BY <1>3, <1>5
  <2> HIDE DEF f, m
  <2>2. f = [j \in 1..m |-> f[j]]
    BY <2>1
  <2>3. IsVector(f) /\ Len(f) = m
    BY <2>1, <2>2, FunctionIsVector
  <2>4. \A j \in 1..m : f[j] = VarlenOf(cs, rs, s, j)
    BY <2>1
  <2> QED BY <2>3, <2>4 DEF f, m
<1>8. /\ IsVector(v)
      /\ \A k \in 1..Len(v) : \E s \in 1..n : \E j \in 1..Len(seqs[s]) : v[k] = seqs[s][j]
      /\ \A s \in 1..n : \A j \in 1..Len(seqs[s]) : \E k \in 1..Len(v) : v[k] = seqs[s][j]
  <2>1. IsVector(seqs) /\ Len(seqs) = n /\ \A s \in 1..Len(seqs) : IsVector(seqs[s])
    BY <1>6, <1>7
  <2>2. /\ IsVector(FlattenSeq(seqs))
        /\ \A k \in 1..Len(FlattenSeq(seqs)) :
             \E s \in 1..Len(seqs) : \E j \in 1..Len(seqs[s]) :
               FlattenSeq(seqs)[k] = seqs[s][j]
        /\ \A s \in 1..Len(seqs) : \A j \in 1..Len(seqs[s]) :
             \E k \in 1..Len(FlattenSeq(seqs)) : FlattenSeq(seqs)[k] = seqs[s][j]
    BY ONLY <2>1, FlatElements
  <2> QED BY ONLY <1>2, <2>1, <2>2
<1>9. ASSUME NEW k \in 1..Len(v)
      PROVE  \E s \in 1..n : \E j \in 1..Len(sorted[s].cells) : v[k] = VarlenOf(cs, rs, s, j)
  <2>1. PICK s \in 1..n : \E j \in 1..Len(seqs[s]) : v[k] = seqs[s][j]
    BY <1>8
  <2>2. PICK j \in 1..Len(seqs[s]) : v[k] = seqs[s][j]
    BY <2>1
  <2>3. j \in 1..Len(sorted[s].cells) /\ seqs[s][j] = VarlenOf(cs, rs, s, j)
    BY <1>7
  <2> QED BY <2>2, <2>3
<1>10. ASSUME NEW s \in 1..n, NEW j \in 1..Len(sorted[s].cells)
       PROVE  \E k \in 1..Len(v) : v[k] = VarlenOf(cs, rs, s, j)
  <2>1. j \in 1..Len(seqs[s]) /\ seqs[s][j] = VarlenOf(cs, rs, s, j)
    BY <1>7
  <2>2. PICK k \in 1..Len(v) : v[k] = seqs[s][j]
    BY <1>8, <2>1
  <2> QED BY <2>1, <2>2
<1>11. ASSUME NEW k \in 1..Len(v) PROVE v[k].size \in Nat
  <2>1. PICK s \in 1..n : \E j \in 1..Len(sorted[s].cells) : v[k] = VarlenOf(cs, rs, s, j)
    BY <1>9
  <2>2. PICK j \in 1..Len(sorted[s].cells) : v[k] = VarlenOf(cs, rs, s, j)
    BY <2>1
  <2>3. VarlenOf(cs, rs, s, j).size = sorted[s].cells[j].size
    BY DEF VarlenOf, sorted
  <2> QED BY <1>3, <2>2, <2>3
<1> QED BY <1>8, <1>9, <1>10, <1>11 DEF n, sorted, v

\* How many allocations come before the cells.
Leading(promote) == IF promote THEN 3 ELSE 4

HeaderAlloc(rs) ==
  [size |-> 8, data |-> BthHeader(4, 4, 0, IF rs = <<>> THEN 0 ELSE MakeHid(3))]

InfoAlloc(cs, rs, promote, first) ==
  [size |-> TcInfoSize(cs), data |-> TcInfo(cs, rs, promote, first)]

IndexAlloc(rs) ==
  [size |-> 8 * Len(rs), data |-> [kind |-> "leaf", records |-> RowIndex(rs)]]

MatrixAlloc(cs, rs) == [size |-> MatrixSize(cs, rs), data |-> MatrixData(cs, rs, FALSE)]

LeadingAllocs(cs, rs, promote, first) ==
  <<HeaderAlloc(rs), InfoAlloc(cs, rs, promote, first), IndexAlloc(rs)>>
    \o (IF promote THEN <<>> ELSE <<MatrixAlloc(cs, rs)>>)

(***************************************************************************)
(* The allocations before the cells, one by one.                           *)
(***************************************************************************)
LEMMA LeadingOnes ==
  ASSUME NEW cs, NEW rs, NEW promote \in BOOLEAN, NEW first,
         NEW lead, lead = LeadingAllocs(cs, rs, promote, first)
  PROVE  /\ IsVector(lead) /\ Len(lead) = Leading(promote)
         /\ lead[1] = HeaderAlloc(rs)
         /\ lead[2] = InfoAlloc(cs, rs, promote, first)
         /\ lead[3] = IndexAlloc(rs)
         /\ ~promote => lead[4] = MatrixAlloc(cs, rs)
<1> DEFINE x1 == HeaderAlloc(rs)
           x2 == InfoAlloc(cs, rs, promote, first)
           x3 == IndexAlloc(rs)
           x4 == MatrixAlloc(cs, rs)
<1>1. lead = <<x1, x2, x3>> \o (IF promote THEN <<>> ELSE <<x4>>)
  BY DEF LeadingAllocs
<1> HIDE DEF x1, x2, x3, x4
<1>2. <<x1, x2, x3>> \in Seq({x1, x2, x3, x4}) /\ <<x4>> \in Seq({x1, x2, x3, x4})
  OBVIOUS
<1>3. IsVector(<<x1, x2, x3>>) /\ IsVector(<<x4>>)
  BY <1>2 DEF IsVector
<1>4. /\ Len(<<x1, x2, x3>>) = 3 /\ <<x1, x2, x3>>[1] = x1 /\ <<x1, x2, x3>>[2] = x2
      /\ <<x1, x2, x3>>[3] = x3 /\ Len(<<x4>>) = 1 /\ <<x4>>[1] = x4
  OBVIOUS
<1>5. CASE promote
  <2>1. lead = <<x1, x2, x3>>
    BY <1>1, <1>2, <1>5
  <2> QED BY <1>3, <1>4, <1>5, <2>1 DEF Leading, x1, x2, x3
<1>6. CASE ~promote
  <2>1. lead = <<x1, x2, x3>> \o <<x4>>
    BY <1>1, <1>6
  <2> DEFINE s == <<x1, x2, x3>>
             t == <<x4>>
  <2>2. /\ IsVector(s) /\ IsVector(t) /\ lead = s \o t /\ Len(s) = 3 /\ Len(t) = 1
        /\ s[1] = x1 /\ s[2] = x2 /\ s[3] = x3 /\ t[1] = x4
    BY <1>3, <1>4, <2>1
  <2> HIDE DEF s, t
  <2>3. /\ IsVector(lead) /\ Len(lead) = 4
        /\ \A i \in 1..3 : lead[i] = s[i]
        /\ \A i \in 1..1 : lead[3 + i] = t[i]
    <3>0. IsVector(s) /\ IsVector(t)
      BY <2>2
    <3>1. /\ IsVector(s \o t) /\ Len(s \o t) = Len(s) + Len(t)
          /\ \A i \in 1..Len(s) : (s \o t)[i] = s[i]
          /\ \A i \in 1..Len(t) : (s \o t)[Len(s) + i] = t[i]
      BY ONLY <3>0, Concatenated
    <3> QED BY ONLY <2>2, <3>1
  <2>4. lead[1] = x1 /\ lead[2] = x2 /\ lead[3] = x3 /\ lead[3 + 1] = x4
    BY ONLY <2>2, <2>3
  <2> QED BY <1>6, <2>3, <2>4 DEF Leading, x1, x2, x3, x4
<1> QED BY <1>5, <1>6

(***************************************************************************)
(* The allocations of a table's heap: header, descriptors, row index, the  *)
(* matrix unless it moved, and the cells.                                  *)
(***************************************************************************)
LEMMA TableAllocations ==
  ASSUME NEW cs, LaidOut(cs), ValidColumns(cs), NEW rs, GoodRows(rs),
         NEW promote \in BOOLEAN, NEW first
  PROVE  LET allocs == Allocations(cs, rs, promote, first)
             v == Varlens(cs, rs)
             n0 == Leading(promote)
         IN  /\ Allocated(allocs) /\ Len(allocs) = n0 + Len(v)
             /\ \A i \in 1..n0 : allocs[i] = LeadingAllocs(cs, rs, promote, first)[i]
             /\ \A k \in 1..Len(v) : allocs[n0 + k] = [size |-> v[k].size, data |-> v[k].data]
<1> DEFINE allocs == Allocations(cs, rs, promote, first)
           v == Varlens(cs, rs)
           n0 == Leading(promote)
           lead == LeadingAllocs(cs, rs, promote, first)
           back == [k \in DOMAIN v |-> [size |-> v[k].size, data |-> v[k].data]]
<1>1. /\ IsVector(v) /\ Len(v) \in Nat /\ DOMAIN v = 1..Len(v)
      /\ \A k \in 1..Len(v) : v[k].size \in Nat
  BY VarlenCells, Vector
<1>2. allocs = lead \o back
  BY DEF Allocations, LeadingAllocs, HeaderAlloc, InfoAlloc, IndexAlloc, MatrixAlloc
<1>3. IsVector(lead) /\ Len(lead) = n0
  BY LeadingOnes
<1>4. n0 \in {3, 4}
  BY DEF Leading
<1>5. Len(rs) \in Nat /\ Len(cs) \in Nat /\ RowBytes(cs) \in Nat
  BY RowsSorted, RowRegions, Columns
<1>6. TcInfoSize(cs) \in Nat /\ 8 * Len(rs) \in Nat /\ MatrixSize(cs, rs) \in Nat
  BY <1>5 DEF TcInfoSize, MatrixSize
<1>7. \A i \in 1..n0 : lead[i].size \in Nat
  <2>1. /\ lead[1] = HeaderAlloc(rs) /\ lead[2] = InfoAlloc(cs, rs, promote, first)
        /\ lead[3] = IndexAlloc(rs) /\ (~promote => lead[4] = MatrixAlloc(cs, rs))
    BY LeadingOnes
  <2> HIDE DEF lead
  <2>2. lead[1].size = 8 /\ lead[2].size = TcInfoSize(cs) /\ lead[3].size = 8 * Len(rs)
    BY ONLY <2>1 DEF HeaderAlloc, InfoAlloc, IndexAlloc
  <2>3. ~promote => lead[4].size = MatrixSize(cs, rs)
    BY ONLY <2>1 DEF MatrixAlloc
  <2>4. \A i \in 1..n0 : i \in {1, 2, 3} \/ (~promote /\ i = 4)
    BY DEF Leading
  <2> HIDE DEF n0
  <2> QED BY <1>6, <2>2, <2>3, <2>4
<1> HIDE DEF allocs, v, n0, lead
<1>8. back = [k \in 1..Len(v) |-> back[k]]
  BY <1>1
<1>9. \A k \in 1..Len(v) : back[k] = [size |-> v[k].size, data |-> v[k].data]
  BY <1>1
<1> HIDE DEF back
<1>10. IsVector(back) /\ Len(back) = Len(v)
  BY <1>1, <1>8, FunctionIsVector
<1>11. /\ IsVector(allocs) /\ Len(allocs) = n0 + Len(v)
       /\ \A i \in 1..n0 : allocs[i] = lead[i]
       /\ \A k \in 1..Len(v) : allocs[n0 + k] = back[k]
  <2>1. /\ IsVector(lead \o back) /\ Len(lead \o back) = Len(lead) + Len(back)
        /\ \A i \in 1..Len(lead) : (lead \o back)[i] = lead[i]
        /\ \A k \in 1..Len(back) : (lead \o back)[Len(lead) + k] = back[k]
    BY ONLY <1>3, <1>10, Concatenated
  <2> QED BY ONLY <1>2, <1>3, <1>10, <2>1
<1>12. ASSUME NEW i \in 1..Len(allocs) PROVE allocs[i].size \in Nat
  <2>1. CASE i \in 1..n0
    BY <1>7, <1>11, <2>1
  <2>2. CASE i \notin 1..n0
    <3>1. i - n0 \in 1..Len(v) /\ n0 + (i - n0) = i
      BY <1>1, <1>4, <1>11, <2>2
    <3>2. allocs[i] = [size |-> v[i - n0].size, data |-> v[i - n0].data]
      BY <1>9, <1>11, <3>1
    <3> QED BY <1>1, <3>1, <3>2
  <2> QED BY <2>1, <2>2
<1> QED BY <1>9, <1>11, <1>12 DEF Allocated, allocs, v, n0, lead

-----------------------------------------------------------------------------
(* The estimate, and what is built. *)

(***************************************************************************)
(* The sizes of a vector of allocations.                                   *)
(***************************************************************************)
LEMMA SizesVector ==
  ASSUME NEW allocs, IsVector(allocs)
  PROVE  /\ IsVector(SizesOf(allocs)) /\ Len(SizesOf(allocs)) = Len(allocs)
         /\ \A i \in 1..Len(allocs) : SizesOf(allocs)[i] = allocs[i].size
<1>1. Len(allocs) \in Nat /\ DOMAIN allocs = 1..Len(allocs)
  BY Vector
<1>2. SizesOf(allocs) = [i \in 1..Len(allocs) |-> allocs[i].size]
  BY <1>1 DEF SizesOf
<1>3. SizesOf(allocs) = [i \in 1..Len(allocs) |-> SizesOf(allocs)[i]]
  BY <1>2
<1> QED BY <1>1, <1>2, <1>3, FunctionIsVector

(***************************************************************************)
(* The allocations before the cells take what the estimate says.           *)
(***************************************************************************)
LEMMA LeadingSizes ==
  ASSUME NEW cs, LaidOut(cs), ValidColumns(cs), NEW rs, GoodRows(rs),
         NEW promote \in BOOLEAN, NEW first, NEW sizes,
         sizes = SizesOf(Allocations(cs, rs, promote, first))
  PROVE  EndsOf(sizes)[Leading(promote)] =
           8 + TcInfoSize(cs) + 8 * Len(rs) + (IF promote THEN 0 ELSE MatrixSize(cs, rs))
<1> DEFINE allocs == Allocations(cs, rs, promote, first)
           lead == LeadingAllocs(cs, rs, promote, first)
           n0 == Leading(promote)
<1>1. /\ IsVector(allocs) /\ Len(allocs) = n0 + Len(Varlens(cs, rs))
      /\ \A i \in 1..n0 : allocs[i] = lead[i]
  BY TableAllocations DEF Allocated
<1>2. Len(Varlens(cs, rs)) \in Nat
  BY VarlenCells, Vector
<1>3. /\ lead[1] = HeaderAlloc(rs) /\ lead[2] = InfoAlloc(cs, rs, promote, first)
      /\ lead[3] = IndexAlloc(rs) /\ (~promote => lead[4] = MatrixAlloc(cs, rs))
  BY LeadingOnes
<1>4. Len(rs) \in Nat /\ TcInfoSize(cs) \in Nat /\ MatrixSize(cs, rs) \in Nat
  BY RowsSorted, RowRegions, Columns DEF TcInfoSize, MatrixSize
<1> HIDE DEF allocs, lead
<1>5. /\ IsVector(sizes) /\ Len(sizes) = Len(allocs)
      /\ \A i \in 1..Len(allocs) : sizes[i] = allocs[i].size
  BY <1>1, SizesVector DEF allocs
<1>6. n0 \in {3, 4} /\ (promote <=> n0 = 3)
  BY DEF Leading
<1> HIDE DEF n0
<1>7. \A i \in 1..n0 : i \in 1..Len(allocs)
  BY <1>1, <1>2, <1>6
<1>8. /\ EndsOf(sizes)[0] = 0
      /\ \A i \in 1..n0 : EndsOf(sizes)[i] = EndsOf(sizes)[i - 1] + sizes[i]
  BY <1>5, <1>7, EndsStepwise
<1>9. \A i \in 1..n0 : sizes[i] = lead[i].size
  BY <1>1, <1>5, <1>7
<1>10. /\ lead[1].size = 8 /\ lead[2].size = TcInfoSize(cs) /\ lead[3].size = 8 * Len(rs)
       /\ (~promote => lead[4].size = MatrixSize(cs, rs))
  BY ONLY <1>3 DEF HeaderAlloc, InfoAlloc, IndexAlloc, MatrixAlloc
<1>11. 1 \in 1..n0 /\ 2 \in 1..n0 /\ 3 \in 1..n0 /\ 1 - 1 = 0 /\ 2 - 1 = 1 /\ 3 - 1 = 2
  BY <1>6
<1>12. EndsOf(sizes)[1] = 0 + 8
  BY <1>8, <1>9, <1>10, <1>11
<1>13. EndsOf(sizes)[2] = (0 + 8) + TcInfoSize(cs)
  BY <1>8, <1>9, <1>10, <1>11, <1>12
<1>14. EndsOf(sizes)[3] = ((0 + 8) + TcInfoSize(cs)) + 8 * Len(rs)
  BY <1>8, <1>9, <1>10, <1>11, <1>13
<1>15. CASE promote
  <2>1. EndsOf(sizes)[n0] = EndsOf(sizes)[3]
    BY <1>6, <1>15
  <2>2. ((0 + 8) + TcInfoSize(cs)) + 8 * Len(rs) = 8 + TcInfoSize(cs) + 8 * Len(rs) + 0
    BY <1>4
  <2> QED BY <1>14, <1>15, <2>1, <2>2 DEF n0
<1>16. CASE ~promote
  <2>1. n0 = 4 /\ 4 \in 1..n0 /\ 4 - 1 = 3
    BY <1>6, <1>16
  <2>2. EndsOf(sizes)[n0] = EndsOf(sizes)[3] + MatrixSize(cs, rs)
    BY <1>8, <1>9, <1>10, <1>16, <2>1
  <2>3. EndsOf(sizes)[n0] = (((0 + 8) + TcInfoSize(cs)) + 8 * Len(rs)) + MatrixSize(cs, rs)
    BY <1>14, <2>2
  <2>4. (((0 + 8) + TcInfoSize(cs)) + 8 * Len(rs)) + MatrixSize(cs, rs)
          = 8 + TcInfoSize(cs) + 8 * Len(rs) + MatrixSize(cs, rs)
    BY <1>4
  <2> QED BY <1>16, <2>3, <2>4 DEF n0
<1> QED BY <1>15, <1>16

(***************************************************************************)
(* The estimate is what the heap needs.                                    *)
(***************************************************************************)
LEMMA EstimateIsNeed ==
  ASSUME NEW cs, LaidOut(cs), ValidColumns(cs), NEW rs, GoodRows(rs),
         NEW promote \in BOOLEAN, NEW first
  PROVE  /\ EstimateHnSize(cs, rs, promote) \in Nat
         /\ NeededBytes(Allocations(cs, rs, promote, first)) = EstimateHnSize(cs, rs, promote)
<1> DEFINE allocs == Allocations(cs, rs, promote, first)
           sizes == SizesOf(allocs)
           v == Varlens(cs, rs)
           tail == SizesOf(v)
           n0 == Leading(promote)
           front == 8 + TcInfoSize(cs) + 8 * Len(rs) + (IF promote THEN 0 ELSE MatrixSize(cs, rs))
<1>1. EndsOf(sizes)[n0] = front
  BY LeadingSizes
<1>2. /\ Allocated(allocs) /\ Len(allocs) = n0 + Len(v)
      /\ \A k \in 1..Len(v) : allocs[n0 + k] = [size |-> v[k].size, data |-> v[k].data]
  BY TableAllocations
<1>3. /\ IsVector(v) /\ Len(v) \in Nat /\ \A k \in 1..Len(v) : v[k].size \in Nat
  BY VarlenCells, Vector
<1>4. Len(rs) \in Nat /\ TcInfoSize(cs) \in Nat /\ MatrixSize(cs, rs) \in Nat
  BY RowsSorted, RowRegions, Columns DEF TcInfoSize, MatrixSize
<1>5. front \in Nat
  BY <1>4
<1>6. n0 \in Nat /\ n0 = 3 + IF promote THEN 0 ELSE 1
  BY DEF Leading
<1>7. TotalSize(allocs) = EndsOf(sizes)[Len(allocs)] /\ TotalSize(v) = EndsOf(tail)[Len(v)]
  BY DEF TotalSize
<1> HIDE DEF allocs, v, n0
<1>8. /\ IsVector(sizes) /\ Len(sizes) = Len(allocs)
      /\ \A i \in 1..Len(allocs) : sizes[i] = allocs[i].size
  BY <1>2, SizesVector DEF Allocated
<1>9. /\ IsVector(tail) /\ Len(tail) = Len(v)
      /\ \A k \in 1..Len(v) : tail[k] = v[k].size
  BY <1>3, SizesVector
<1>10. \A i \in 1..Len(sizes) : sizes[i] \in Nat
  BY <1>2, <1>8 DEF Allocated
<1>11. \A k \in 1..Len(tail) : sizes[n0 + k] = tail[k]
  <2> SUFFICES ASSUME NEW k \in 1..Len(v) PROVE sizes[n0 + k] = tail[k]
    BY <1>9
  <2>1. n0 + k \in 1..Len(allocs)
    BY <1>2, <1>3, <1>6
  <2>2. allocs[n0 + k] = [size |-> v[k].size, data |-> v[k].data]
    BY <1>2
  <2>3. allocs[n0 + k].size = v[k].size
    BY ONLY <2>2
  <2> QED BY <1>8, <1>9, <2>1, <2>3
<1> HIDE DEF sizes, tail
<1>12. EndsOf(sizes)[Len(sizes)] = EndsOf(sizes)[n0] + EndsOf(tail)[Len(tail)]
  <2>1. Len(sizes) = n0 + Len(tail)
    BY <1>2, <1>8, <1>9
  <2>2. IsVector(sizes) /\ IsVector(tail) /\ n0 \in Nat
    BY <1>6, <1>8, <1>9
  <2> QED BY ONLY <1>10, <1>11, <2>1, <2>2, EndsBehind
<1>13. TotalSize(allocs) = front + TotalSize(v)
  BY <1>1, <1>7, <1>8, <1>9, <1>12
<1>14. TotalSize(v) \in Nat
  <2>1. Len(v) \in 0..Len(tail)
    BY <1>3, <1>9
  <2>2. \A k \in 1..Len(tail) : tail[k] \in Nat
    BY <1>3, <1>9
  <2> QED BY <1>7, <1>9, <2>1, <2>2, EndsAscend
<1> DEFINE total == 8 + TcInfoSize(cs) + 8 * Len(rs) + TotalSize(v)
                      + (IF promote THEN 0 ELSE MatrixSize(cs, rs))
           raw == HnHdrSize + total
           pad == (4 - (raw % 4)) % 4
           count == 3 + Len(v) + (IF promote THEN 0 ELSE 1)
<1>15. total = front + TotalSize(v) /\ total \in Nat
  BY <1>4, <1>14
<1>16. count = Len(allocs) /\ count \in Nat
  BY <1>2, <1>3, <1>6
<1>17. raw \in Nat /\ raw = HnHdrSize + TotalSize(allocs)
  BY <1>13, <1>15 DEF HnHdrSize
<1>18. NeededBytes(allocs) = raw + pad + PageMapBytes(count + IF pad > 0 THEN 1 ELSE 0)
  <2> HIDE DEF raw, count
  <2> QED BY <1>16, <1>17 DEF NeededBytes
<1>19. EstimateHnSize(cs, rs, promote)
         = ((raw + 3) \div 4) * 4
             + PageMapBytes(count + IF raw # ((raw + 3) \div 4) * 4 THEN 1 ELSE 0)
  BY DEF EstimateHnSize, v
<1> HIDE DEF total, raw, count
<1>20. pad \in 0..3 /\ ((raw + 3) \div 4) * 4 = raw + pad
  BY <1>17, RoundingUp
<1> HIDE DEF pad
<1>21. (raw # ((raw + 3) \div 4) * 4) <=> pad > 0
  BY <1>17, <1>20
<1>22. NeededBytes(allocs) = EstimateHnSize(cs, rs, promote)
  BY <1>18, <1>19, <1>20, <1>21
<1>23. \A n \in Nat : PageMapBytes(n) \in Nat
  BY DEF PageMapBytes, HnPageMapHdrSize, HnPageMapEntrySize
<1>24. (count + IF pad > 0 THEN 1 ELSE 0) \in Nat
  BY <1>16
<1>25. EstimateHnSize(cs, rs, promote) \in Nat
  BY <1>17, <1>18, <1>20, <1>22, <1>23, <1>24
<1> QED BY <1>22, <1>25 DEF allocs

(***************************************************************************)
(* A heap the estimate lets into a block is as long as estimated.          *)
(***************************************************************************)
LEMMA EstimateHolds ==
  ASSUME NEW cs, LaidOut(cs), ValidColumns(cs), NEW rs, GoodRows(rs),
         NEW promote \in BOOLEAN, NEW first, NEW client, NEW root,
         EstimateHnSize(cs, rs, promote) <= BlockBody
  PROVE  /\ NeededBytes(Allocations(cs, rs, promote, first)) <= OffsetRange
         /\ BuildHeapOnNode(Allocations(cs, rs, promote, first), client, root).size
              = EstimateHnSize(cs, rs, promote)
<1> DEFINE allocs == Allocations(cs, rs, promote, first)
           h == BuildHeapOnNode(allocs, client, root)
<1>1. /\ EstimateHnSize(cs, rs, promote) \in Nat
      /\ NeededBytes(allocs) = EstimateHnSize(cs, rs, promote)
  BY EstimateIsNeed
<1>2. Allocated(allocs)
  BY TableAllocations
<1>3. NeededBytes(allocs) <= OffsetRange
  BY <1>1, HeapAssumption
<1> HIDE DEF allocs
<1>4. NeededBytes(allocs) = MapOffset(allocs)
        + PageMapBytes(Len(allocs) + IF HasPhantom(allocs) THEN 1 ELSE 0)
  BY <1>2, <1>3, TrueOffsets
<1>5. Len(Rgib(allocs)) = Len(allocs) + 1 + IF HasPhantom(allocs) THEN 1 ELSE 0
  BY <1>2, MapEntries
<1>6. Len(allocs) \in Nat
  BY <1>2, Vector DEF Allocated
<1>7. Len(Rgib(allocs)) - 1 = Len(allocs) + IF HasPhantom(allocs) THEN 1 ELSE 0
  BY <1>5, <1>6
<1>8. h.size = MapOffset(allocs) + PageMapBytes(Len(Rgib(allocs)) - 1)
  BY DEF BuildHeapOnNode
<1> HIDE DEF h
<1> QED BY <1>1, <1>3, <1>4, <1>7, <1>8 DEF allocs, h

(***************************************************************************)
(* What buildTableContext returns: a refusal that is one of the caller's   *)
(* own, or a heap as long as estimated, with the matrix in it or, because  *)
(* the heap with it would not fit a block, in a subnode.                   *)
(***************************************************************************)
LEMMA BuildOutcome ==
  ASSUME NEW cs, LaidOut(cs), NEW rs, GoodRows(rs), NEW first
  PROVE  LET b == BuildTableContext(cs, rs, first)
             promote == Overflows(cs, rs)
         IN  /\ b.ok \in BOOLEAN
             /\ ~b.ok => b.why \in {"invalid_argument", "length_error"}
             /\ b.ok => /\ ValidColumns(cs) /\ promote \in BOOLEAN
                        /\ \A i \in DOMAIN rs : ValidRow(cs, rs[i])
                        /\ first # 0 => HidType(first) # 0
                        /\ promote => first # 0
                        /\ EstimateHnSize(cs, rs, promote) <= BlockBody
                        /\ b.hn = BuildHeapOnNode(Allocations(cs, rs, promote, first),
                                                  "TC", MakeHid(2))
                        /\ b.subnodes = Subnodes(cs, rs, promote, first)
<1> DEFINE b == BuildTableContext(cs, rs, first)
           promote == Overflows(cs, rs)
           hn == BuildHeapOnNode(Allocations(cs, rs, promote, first), "TC", MakeHid(2))
           refused == \/ ~ValidColumns(cs)
                      \/ first # 0 /\ HidType(first) = 0
                      \/ \E i \in DOMAIN rs : ~ValidRow(cs, rs[i])
           long == promote /\ (first = 0 \/ TooLong(cs, rs, TRUE))
<1>1. b = IF refused THEN [ok |-> FALSE, why |-> "invalid_argument"]
          ELSE IF long THEN [ok |-> FALSE, why |-> "length_error"]
          ELSE IF hn.size > BlockBody THEN [ok |-> FALSE, why |-> "estimator_drift"]
          ELSE [ok |-> TRUE, hn |-> hn, subnodes |-> Subnodes(cs, rs, promote, first)]
  BY DEF BuildTableContext
<1>2. promote \in BOOLEAN
  BY DEF Overflows
<1>3. promote <=> TooLong(cs, rs, FALSE) /\ rs # <<>>
  BY DEF Overflows
<1>4. ASSUME ~refused, ~long
      PROVE  /\ ValidColumns(cs) /\ (first # 0 => HidType(first) # 0)
             /\ (\A i \in DOMAIN rs : ValidRow(cs, rs[i]))
             /\ (promote => first # 0)
             /\ EstimateHnSize(cs, rs, promote) <= BlockBody
             /\ ~(hn.size > BlockBody)
  <2>1. /\ ValidColumns(cs) /\ (first # 0 => HidType(first) # 0) /\ (promote => first # 0)
        /\ \A i \in DOMAIN rs : ValidRow(cs, rs[i])
    BY <1>4
  <2>2. ~TooLong(cs, rs, promote)
    <3>0. ~(promote /\ TooLong(cs, rs, TRUE)) /\ ~TooLong(cs, <<>>, FALSE)
      BY <1>4 DEF LaidOut
    <3> HIDE DEF promote
    <3>1. CASE promote
      <4>1. promote = TRUE
        BY <1>2, <3>1
      <4> QED BY <3>0, <4>1
    <3>2. CASE ~promote
      <4>0. promote = FALSE
        BY <1>2, <3>2
      <4>1. CASE rs = <<>>
        BY <3>0, <4>0, <4>1
      <4>2. CASE rs # <<>>
        BY <1>3, <4>0, <4>2
      <4> QED BY <4>1, <4>2
    <3> QED BY <3>1, <3>2
  <2> HIDE DEF promote
  <2>3. /\ EstimateHnSize(cs, rs, promote) \in Nat
        /\ NeededBytes(Allocations(cs, rs, promote, first)) = EstimateHnSize(cs, rs, promote)
    BY <1>2, <2>1, EstimateIsNeed
  <2>4. EstimateHnSize(cs, rs, promote) <= BlockBody
    BY <2>2, <2>3, HeapAssumption DEF TooLong
  <2>5. hn.size = EstimateHnSize(cs, rs, promote)
    BY <1>2, <2>1, <2>4, EstimateHolds
  <2>6. ~(hn.size > BlockBody)
    <3> HIDE DEF hn
    <3> QED BY <2>3, <2>4, <2>5, HeapAssumption
  <2> QED BY <2>1, <2>4, <2>6
<1> HIDE DEF hn, refused, long, promote, b
<1>5. CASE refused \/ long
  <2>1. ~b.ok /\ b.ok \in BOOLEAN /\ b.why \in {"invalid_argument", "length_error"}
    BY <1>1, <1>5
  <2> QED BY <2>1 DEF b
<1>6. CASE ~refused /\ ~long
  <2>1. b = [ok |-> TRUE, hn |-> hn, subnodes |-> Subnodes(cs, rs, promote, first)]
    BY <1>1, <1>4, <1>6
  <2>2. b.ok = TRUE /\ b.hn = hn /\ b.subnodes = Subnodes(cs, rs, promote, first)
    BY <2>1
  <2> QED BY <1>2, <1>4, <1>6, <2>2 DEF b, hn, promote
<1> QED BY <1>5, <1>6

-----------------------------------------------------------------------------
(* The inductive invariant: good rows are gathered, and a table that was   *)
(* built is what buildTableContext makes of them.                          *)

BuiltFrom(first) ==
  LET promote == Overflows(cols, rows)
  IN  /\ ValidColumns(cols) /\ promote \in BOOLEAN
      /\ \A i \in DOMAIN rows : ValidRow(cols, rows[i])
      /\ first # 0 => HidType(first) # 0
      /\ promote => first # 0
      /\ EstimateHnSize(cols, rows, promote) <= BlockBody
      /\ tc = [hn |-> BuildHeapOnNode(Allocations(cols, rows, promote, first),
                                      "TC", MakeHid(2)),
               subnodes |-> Subnodes(cols, rows, promote, first)]

TableInv ==
  /\ cols \in Schemas /\ GoodRows(rows) /\ Len(rows) <= MaxRows
  /\ phase \in {"gathering", "built", "invalid_argument", "length_error"}
  /\ phase # "built" => tc = Nothing
  /\ phase = "built" => \E first \in FirstNids : BuiltFrom(first)

(***************************************************************************)
(* A row more.                                                             *)
(***************************************************************************)
LEMMA RowAdded ==
  ASSUME TableInv, NEW id \in RowIds, NEW size, NEW cells, AddRow(id, size, cells),
         IsVector(cells),
         \A j \in 1..Len(cells) : cells[j].size \in Nat,
         \A i, j \in 1..Len(cells) : cells[i].col = cells[j].col => i = j
  PROVE  TableInv'
<1> DEFINE row == [id |-> id, size |-> size, cells |-> cells,
                   fixed |-> [ib \in Offsets(cols) |-> id]]
           n == Len(rows)
<1>1. /\ phase = "gathering" /\ n < MaxRows
      /\ \A i \in DOMAIN rows : rows[i].id # id
      /\ rows' = Append(rows, row)
      /\ cols' = cols /\ phase' = phase /\ tc' = tc
  BY DEF AddRow
<1>2. /\ IsVector(rows) /\ n \in Nat /\ DOMAIN rows = 1..n
      /\ \A i \in 1..n : GoodRow(rows[i])
      /\ \A i, j \in 1..n : rows[i].id = rows[j].id => i = j
  BY Vector DEF TableInv, GoodRows
<1>3. id \in Nat
  BY RowsAssumption
<1>4. row.id = id /\ row.cells = cells
  OBVIOUS
<1> HIDE DEF row
<1>5. GoodRow(row)
  BY <1>3, <1>4 DEF GoodRow
<1>6. PICK S : rows \in Seq(S)
  BY <1>2 DEF IsVector
<1> DEFINE T == S \cup {row}
<1>7. rows \in Seq(T) /\ row \in T
  BY <1>6
<1> HIDE DEF T
<1>8. /\ rows' \in Seq(T) /\ Len(rows') = n + 1
      /\ \A i \in 1..n : rows'[i] = rows[i]
      /\ rows'[n + 1] = row
  BY <1>1, <1>7
<1> HIDE DEF n
<1>9. \A i \in 1..(n + 1) : i \in 1..n \/ i = n + 1
  BY <1>2
<1>10. ASSUME NEW i \in 1..Len(rows') PROVE GoodRow(rows'[i])
  BY <1>2, <1>5, <1>8, <1>9
<1>11. ASSUME NEW i \in 1..Len(rows'), NEW j \in 1..Len(rows'), rows'[i].id = rows'[j].id
       PROVE  i = j
  <2>1. \A k \in 1..n : rows'[k].id # id
    BY <1>1, <1>2, <1>8
  <2>2. rows'[n + 1].id = id
    BY <1>4, <1>8
  <2>3. CASE i \in 1..n /\ j \in 1..n
    BY <1>2, <1>8, <1>11, <2>3
  <2>4. CASE i = n + 1 /\ j = n + 1
    BY <2>4
  <2>5. CASE (i \in 1..n /\ j = n + 1) \/ (i = n + 1 /\ j \in 1..n)
    BY <1>11, <2>1, <2>2, <2>5
  <2> QED BY <1>8, <1>9, <2>3, <2>4, <2>5
<1>12. GoodRows(rows')
  BY <1>8, <1>10, <1>11 DEF GoodRows, IsVector
<1>13. n + 1 <= MaxRows
  BY <1>1, <1>2, RowsAssumption
<1>14. phase # "built"
  BY <1>1
<1> QED BY <1>1, <1>8, <1>12, <1>13, <1>14 DEF TableInv

(***************************************************************************)
(* A table from the rows, or a refusal.                                    *)
(***************************************************************************)
LEMMA TableBuilt ==
  ASSUME TableInv, NEW first \in FirstNids, Build(first)
  PROVE  TableInv'
<1> DEFINE b == BuildTableContext(cols, rows, first)
<1>1. /\ phase = "gathering" /\ cols' = cols /\ rows' = rows
      /\ b.ok => phase' = "built" /\ tc' = [hn |-> b.hn, subnodes |-> b.subnodes]
      /\ ~b.ok => phase' = b.why /\ tc' = tc
  BY DEF Build
<1>2. /\ cols \in Schemas /\ GoodRows(rows) /\ Len(rows) <= MaxRows /\ LaidOut(cols)
  BY SchemasAssumption DEF TableInv
<1>3. /\ b.ok \in BOOLEAN
      /\ ~b.ok => b.why \in {"invalid_argument", "length_error"}
      /\ b.ok =>
           /\ ValidColumns(cols) /\ Overflows(cols, rows) \in BOOLEAN
           /\ \A i \in DOMAIN rows : ValidRow(cols, rows[i])
           /\ first # 0 => HidType(first) # 0
           /\ Overflows(cols, rows) => first # 0
           /\ EstimateHnSize(cols, rows, Overflows(cols, rows)) <= BlockBody
           /\ b.hn = BuildHeapOnNode(Allocations(cols, rows, Overflows(cols, rows), first),
                                     "TC", MakeHid(2))
           /\ b.subnodes = Subnodes(cols, rows, Overflows(cols, rows), first)
  BY <1>2, BuildOutcome
<1> HIDE DEF b
<1>4. CASE b.ok
  <2>1. BuiltFrom(first)'
    BY <1>1, <1>3, <1>4 DEF BuiltFrom
  <2> QED BY <1>1, <1>2, <1>4, <2>1 DEF TableInv
<1>5. CASE ~b.ok
  <2>1. tc = Nothing
    BY <1>1 DEF TableInv
  <2>2. phase' \in {"invalid_argument", "length_error"} /\ tc' = Nothing
    BY <1>1, <1>3, <1>5, <2>1
  <2> QED BY <1>1, <1>2, <2>2 DEF TableInv
<1> QED BY <1>4, <1>5

(***************************************************************************)
(* The invariant always holds.                                             *)
(***************************************************************************)
THEOREM AlwaysTables == Spec => []TableInv
<1>1. Init => TableInv
  <2> SUFFICES ASSUME Init PROVE TableInv
    OBVIOUS
  <2>1. cols \in Schemas /\ rows = <<>> /\ phase = "gathering" /\ tc = Nothing
    BY DEF Init
  <2>2. IsVector(<<>>) /\ Len(<<>>) = 0
    <3>1. <<>> \in Seq({})
      OBVIOUS
    <3> QED BY <3>1 DEF IsVector
  <2>3. \A i : i \notin 1..0
    OBVIOUS
  <2>4. GoodRows(rows)
    BY <2>1, <2>2, <2>3 DEF GoodRows
  <2>5. Len(rows) <= MaxRows
    BY <2>1, <2>2, RowsAssumption
  <2> QED BY <2>1, <2>4, <2>5 DEF TableInv
<1>2. TableInv /\ [Next]_vars => TableInv'
  <2> SUFFICES ASSUME TableInv, [Next]_vars PROVE TableInv'
    OBVIOUS
  <2>1. cols \in Schemas
    BY DEF TableInv
  <2>2. ASSUME NEW id \in RowIds, NEW cells \in CellLists, AddRow(id, RowBytes(cols), cells)
        PROVE  TableInv'
    <3>1. /\ IsVector(cells)
          /\ \A j \in 1..Len(cells) : cells[j].size \in Nat
          /\ \A i, j \in 1..Len(cells) : cells[i].col = cells[j].col => i = j
      BY <2>1, CellsAreGood
    <3> QED BY <2>2, <3>1, RowAdded
  <2>3. ASSUME NEW id \in RowIds, AddRow(id, RowBytes(cols) + 1, <<>>)
        PROVE  TableInv'
    <3>1. IsVector(<<>>) /\ Len(<<>>) = 0
      <4>1. <<>> \in Seq({})
        OBVIOUS
      <4> QED BY <4>1 DEF IsVector
    <3>2. \A i : i \notin 1..0
      OBVIOUS
    <3>3. /\ \A j \in 1..Len(<<>>) : <<>>[j].size \in Nat
          /\ \A i, j \in 1..Len(<<>>) : <<>>[i].col = <<>>[j].col => i = j
      BY ONLY <3>1, <3>2
    <3> QED BY <2>3, <3>1, <3>3, RowAdded
  <2>4. ASSUME NEW id \in RowIds,
               AddRow(id, RowBytes(cols), <<[col |-> Len(cols), size |-> 1]>>)
        PROVE  TableInv'
    <3> DEFINE cell == [col |-> Len(cols), size |-> 1]
               cells == <<cell>>
    <3>1. cell.size = 1
      OBVIOUS
    <3> HIDE DEF cell
    <3>2. IsVector(cells) /\ Len(cells) = 1 /\ cells[1] = cell
      <4>1. cells \in Seq({cell})
        OBVIOUS
      <4>2. IsVector(cells)
        BY <4>1 DEF IsVector
      <4> QED BY <4>2
    <3>3. AddRow(id, RowBytes(cols), cells)
      BY <2>4 DEF cell
    <3> HIDE DEF cells
    <3>4. \A i \in 1..1 : i = 1
      OBVIOUS
    <3>5. /\ \A j \in 1..Len(cells) : cells[j].size \in Nat
          /\ \A i, j \in 1..Len(cells) : cells[i].col = cells[j].col => i = j
      BY <3>1, <3>2, <3>4
    <3> QED BY <3>2, <3>3, <3>5, RowAdded
  <2>5. ASSUME NEW first \in FirstNids, Build(first) PROVE TableInv'
    BY <2>5, TableBuilt
  <2>6. CASE Return \/ UNCHANGED vars
    <3>1. cols' = cols /\ rows' = rows /\ phase' = phase /\ tc' = tc
      BY <2>6 DEF Return, vars
    <3> QED BY <3>1 DEF TableInv, BuiltFrom
  <2> QED BY <2>2, <2>3, <2>4, <2>5, <2>6 DEF Next
<1> QED BY <1>1, <1>2, PTL DEF Spec

(***************************************************************************)
(* What a table that was built is made of.                                 *)
(***************************************************************************)
LEMMA BuiltTable ==
  ASSUME TableInv, tc # Nothing
  PROVE  /\ LaidOut(cols) /\ GoodRows(rows)
         /\ \E first \in FirstNids : BuiltFrom(first)
BY SchemasAssumption DEF TableInv

(***************************************************************************)
(* Type correctness.                                                       *)
(***************************************************************************)
THEOREM TypeCorrect == Spec => []TypeOK
<1>1. TableInv => TypeOK
  <2> SUFFICES ASSUME TableInv PROVE TypeOK
    OBVIOUS
  <2>1. /\ cols \in Schemas /\ Len(rows) <= MaxRows
        /\ phase \in {"gathering", "built"} \cup Refusals
    BY DEF TableInv, Refusals
  <2>2. ASSUME phase = "built" PROVE tc # Nothing /\ Len(tc.subnodes) <= 1
    <3>1. PICK first \in FirstNids : BuiltFrom(first)
      BY <2>2 DEF TableInv
    <3> DEFINE hn == BuildHeapOnNode(Allocations(cols, rows, Overflows(cols, rows), first),
                                     "TC", MakeHid(2))
               subnodes == Subnodes(cols, rows, Overflows(cols, rows), first)
    <3>2. tc = [hn |-> hn, subnodes |-> subnodes]
      BY <3>1 DEF BuiltFrom
    <3>3. Len(subnodes) <= 1
      BY DEF Subnodes
    <3> HIDE DEF hn, subnodes
    <3>4. DOMAIN tc = {"hn", "subnodes"} /\ tc.subnodes = subnodes
      BY ONLY <3>2
    <3>5. DOMAIN Nothing = {"kind"}
      BY DEF Nothing
    <3>6. "hn" # "kind"
      OBVIOUS
    <3>7. tc # Nothing
      BY ONLY <3>4, <3>5, <3>6
    <3> QED BY <3>3, <3>4, <3>7
  <2>3. phase # "built" => tc = Nothing
    BY DEF TableInv
  <2> QED BY <2>1, <2>2, <2>3 DEF TypeOK
<1> QED BY <1>1, AlwaysTables, PTL

(***************************************************************************)
(* The estimate is exact: the guard against its drift never fires, and the *)
(* matrix leaves the heap only when the heap with it does not fit a block. *)
(***************************************************************************)
THEOREM EstimateAlwaysExact == Spec => []EstimateExact
<1>1. TableInv => EstimateExact
  <2> SUFFICES ASSUME TableInv PROVE EstimateExact
    OBVIOUS
  <2>1. phase # "estimator_drift"
    BY DEF TableInv
  <2>2. ASSUME tc # Nothing
        PROVE  /\ tc.hn.size = EstimateHnSize(cols, rows, tc.subnodes # <<>>)
               /\ tc.hn.size <= BlockBody
               /\ tc.subnodes # <<>> =>
                    NeededBytes(Allocations(cols, rows, FALSE, 0)) > BlockBody
    <3> DEFINE promote == Overflows(cols, rows)
    <3>1. LaidOut(cols) /\ GoodRows(rows)
      BY <2>2, BuiltTable
    <3>2. PICK first \in FirstNids : BuiltFrom(first)
      BY <2>2, BuiltTable
    <3> DEFINE hn == BuildHeapOnNode(Allocations(cols, rows, promote, first),
                                     "TC", MakeHid(2))
               subnodes == Subnodes(cols, rows, promote, first)
    <3>3. /\ ValidColumns(cols) /\ promote \in BOOLEAN
          /\ EstimateHnSize(cols, rows, promote) <= BlockBody
          /\ tc = [hn |-> hn, subnodes |-> subnodes]
      BY <3>2 DEF BuiltFrom
    <3>4. tc.hn = hn /\ tc.subnodes = subnodes
      <4> HIDE DEF hn, subnodes
      <4> QED BY ONLY <3>3
    <3>5. hn.size = EstimateHnSize(cols, rows, promote)
      <4> HIDE DEF promote
      <4> QED BY <3>1, <3>3, EstimateHolds
    <3>6. (subnodes # <<>>) = promote
      <4> HIDE DEF promote
      <4>1. CASE promote
        <5>1. Len(subnodes) = 1
          BY <4>1 DEF Subnodes
        <5>2. Len(<<>>) = 0
          OBVIOUS
        <5>3. subnodes # <<>>
          BY ONLY <5>1, <5>2
        <5> QED BY <3>3, <4>1, <5>3
      <4>2. CASE ~promote
        <5>1. subnodes = <<>>
          BY <4>2 DEF Subnodes
        <5> QED BY <3>3, <4>2, <5>1
      <4> QED BY <4>1, <4>2
    <3>7. promote => NeededBytes(Allocations(cols, rows, FALSE, 0)) > BlockBody
      <4>1. NeededBytes(Allocations(cols, rows, FALSE, 0)) = EstimateHnSize(cols, rows, FALSE)
        BY <3>1, <3>3, EstimateIsNeed
      <4> QED BY <4>1 DEF Overflows, TooLong
    <3> HIDE DEF hn, subnodes, promote
    <3> QED BY <3>3, <3>4, <3>5, <3>6, <3>7
  <2> QED BY <2>1, <2>2 DEF EstimateExact
<1> QED BY <1>1, AlwaysTables, PTL

-----------------------------------------------------------------------------
(* Reading a table that was built. *)

(***************************************************************************)
(* An allocation is found under its number, if eleven bits hold it.        *)
(***************************************************************************)
LEMMA SlotFound ==
  ASSUME NEW allocs, Allocated(allocs), NeededBytes(allocs) <= OffsetRange,
         NEW client, NEW root, NEW i \in 1..Len(allocs), i < HidIndexes,
         NEW h, h = BuildHeapOnNode(allocs, client, root),
         NEW r, r = ResolveHid(MakeHid(i), h)
  PROVE  /\ r.ok /\ r.size = allocs[i].size
         /\ r.data = IF allocs[i].size = 0 THEN Nothing ELSE allocs[i].data
<1>1. i \in Nat
  OBVIOUS
<1>2. HidType(MakeHid(i)) = 0 /\ HidIndex(MakeHid(i)) = i /\ HidBlock(MakeHid(i)) = 0
  BY <1>1, HidParts
<1>3. ASSUME NEW hid, hid = MakeHid(i)
      PROVE  LET a == ResolveHid(hid, BuildHeapOnNode(allocs, client, root))
             IN  /\ a.ok /\ a.size = allocs[i].size
                 /\ a.data = IF allocs[i].size = 0 THEN Nothing ELSE allocs[i].data
  <2>1. HidType(hid) = 0 /\ HidIndex(hid) = i /\ HidBlock(hid) = 0
    BY <1>2, <1>3
  <2> QED BY ONLY AllocationFound, <2>1, Allocated(allocs), i \in 1..Len(allocs),
                  NeededBytes(allocs) <= OffsetRange
<1> QED BY <1>3

TableAllocs(first) == Allocations(cols, rows, Overflows(cols, rows), first)

(***************************************************************************)
(* The heap of a table that was built.                                     *)
(***************************************************************************)
LEMMA TableHeap ==
  ASSUME LaidOut(cols), GoodRows(rows), NEW first, BuiltFrom(first)
  PROVE  /\ Overflows(cols, rows) \in BOOLEAN
         /\ Allocated(TableAllocs(first)) /\ NeededBytes(TableAllocs(first)) <= OffsetRange
         /\ tc.hn = BuildHeapOnNode(TableAllocs(first), "TC", MakeHid(2))
         /\ tc.subnodes = Subnodes(cols, rows, Overflows(cols, rows), first)
         /\ Len(TableAllocs(first)) = Leading(Overflows(cols, rows)) + Len(Varlens(cols, rows))
         /\ TableAllocs(first)[1] = HeaderAlloc(rows)
         /\ TableAllocs(first)[2] = InfoAlloc(cols, rows, Overflows(cols, rows), first)
         /\ TableAllocs(first)[3] = IndexAlloc(rows)
         /\ ~Overflows(cols, rows) => TableAllocs(first)[4] = MatrixAlloc(cols, rows)
         /\ \A k \in 1..Len(Varlens(cols, rows)) :
              TableAllocs(first)[Leading(Overflows(cols, rows)) + k]
                = [size |-> Varlens(cols, rows)[k].size, data |-> Varlens(cols, rows)[k].data]
<1> DEFINE promote == Overflows(cols, rows)
           allocs == Allocations(cols, rows, promote, first)
           hn == BuildHeapOnNode(allocs, "TC", MakeHid(2))
           subnodes == Subnodes(cols, rows, promote, first)
           lead == LeadingAllocs(cols, rows, promote, first)
<1>1. /\ ValidColumns(cols) /\ promote \in BOOLEAN
      /\ EstimateHnSize(cols, rows, promote) <= BlockBody
      /\ tc = [hn |-> hn, subnodes |-> subnodes]
  BY DEF BuiltFrom
<1>2. tc.hn = hn /\ tc.subnodes = subnodes
  <2> HIDE DEF hn, subnodes
  <2> QED BY ONLY <1>1
<1> HIDE DEF promote
<1>3. NeededBytes(allocs) <= OffsetRange
  BY <1>1, EstimateHolds
<1>4. /\ Allocated(allocs) /\ Len(allocs) = Leading(promote) + Len(Varlens(cols, rows))
      /\ \A i \in 1..Leading(promote) : allocs[i] = lead[i]
      /\ \A k \in 1..Len(Varlens(cols, rows)) :
           allocs[Leading(promote) + k]
             = [size |-> Varlens(cols, rows)[k].size, data |-> Varlens(cols, rows)[k].data]
  BY <1>1, TableAllocations
<1>5. /\ lead[1] = HeaderAlloc(rows) /\ lead[2] = InfoAlloc(cols, rows, promote, first)
      /\ lead[3] = IndexAlloc(rows) /\ (~promote => lead[4] = MatrixAlloc(cols, rows))
  BY <1>1, LeadingOnes
<1>6. /\ 1 \in 1..Leading(promote) /\ 2 \in 1..Leading(promote) /\ 3 \in 1..Leading(promote)
      /\ ~promote => 4 \in 1..Leading(promote)
  BY DEF Leading
<1>7. TableAllocs(first) = allocs
  BY DEF TableAllocs, promote
<1> HIDE DEF allocs, lead, hn, subnodes
<1>8. tc.hn = BuildHeapOnNode(TableAllocs(first), "TC", MakeHid(2))
  BY <1>2, <1>7 DEF hn
<1>9. tc.subnodes = Subnodes(cols, rows, promote, first)
  BY <1>2 DEF subnodes
<1>10. /\ allocs[1] = HeaderAlloc(rows)
       /\ allocs[2] = InfoAlloc(cols, rows, promote, first)
       /\ allocs[3] = IndexAlloc(rows)
       /\ ~promote => allocs[4] = MatrixAlloc(cols, rows)
  BY ONLY <1>4, <1>5, <1>6
<1> QED BY <1>1, <1>3, <1>4, <1>7, <1>8, <1>9, <1>10 DEF promote

(***************************************************************************)
(* What a reader finds first: descriptors, header, row index and, unless   *)
(* it moved, the matrix.                                                   *)
(***************************************************************************)
LEMMA LeadingFound ==
  ASSUME LaidOut(cols), GoodRows(rows), NEW first, BuiltFrom(first)
  PROVE  /\ tc.hn.root = MakeHid(2)
         /\ LET r == ResolveHid(MakeHid(2), tc.hn)
            IN  /\ r.ok /\ r.size = TcInfoSize(cols)
                /\ r.data = TcInfo(cols, rows, Overflows(cols, rows), first)
         /\ LET r == ResolveHid(MakeHid(1), tc.hn)
            IN  /\ r.ok /\ r.size = 8
                /\ r.data = BthHeader(4, 4, 0, IF rows = <<>> THEN 0 ELSE MakeHid(3))
         /\ LET r == ResolveHid(MakeHid(3), tc.hn)
            IN  /\ r.ok /\ r.size = 8 * Len(rows)
                /\ Len(rows) # 0 => r.data = [kind |-> "leaf", records |-> RowIndex(rows)]
         /\ ~Overflows(cols, rows) =>
              LET r == ResolveHid(MakeHid(4), tc.hn)
              IN  /\ r.ok /\ r.size = MatrixSize(cols, rows)
                  /\ MatrixSize(cols, rows) # 0 => r.data = MatrixData(cols, rows, FALSE)
<1> DEFINE promote == Overflows(cols, rows)
           allocs == TableAllocs(first)
           n == Len(allocs)
<1>1. /\ promote \in BOOLEAN
      /\ Allocated(allocs) /\ NeededBytes(allocs) <= OffsetRange
      /\ tc.hn = BuildHeapOnNode(allocs, "TC", MakeHid(2))
      /\ n = Leading(promote) + Len(Varlens(cols, rows))
      /\ allocs[1] = HeaderAlloc(rows) /\ allocs[2] = InfoAlloc(cols, rows, promote, first)
      /\ allocs[3] = IndexAlloc(rows) /\ (~promote => allocs[4] = MatrixAlloc(cols, rows))
  BY TableHeap
<1>2. Len(Varlens(cols, rows)) \in Nat
  BY VarlenCells, Vector
<1>3. Len(cols) \in Nat /\ Len(rows) \in Nat
  BY Columns, RowsSorted
<1>4. 1 \in 1..n /\ 2 \in 1..n /\ 3 \in 1..n /\ (~promote => 4 \in 1..n)
  BY <1>1, <1>2 DEF Leading
<1>5. 1 < HidIndexes /\ 2 < HidIndexes /\ 3 < HidIndexes /\ 4 < HidIndexes
  BY DEF HidIndexes
<1>6. tc.hn.root = MakeHid(2)
  BY <1>1 DEF BuildHeapOnNode
<1> HIDE DEF allocs, n, promote
<1>7. ASSUME NEW i \in 1..n, i < HidIndexes
      PROVE  LET r == ResolveHid(MakeHid(i), tc.hn)
             IN  /\ r.ok /\ r.size = allocs[i].size
                 /\ r.data = IF allocs[i].size = 0 THEN Nothing ELSE allocs[i].data
  BY <1>1, <1>7, SlotFound DEF n
<1>8. LET r == ResolveHid(MakeHid(2), tc.hn)
      IN  r.ok /\ r.size = TcInfoSize(cols) /\ r.data = TcInfo(cols, rows, promote, first)
  <2>1. allocs[2].size = TcInfoSize(cols) /\ allocs[2].data = TcInfo(cols, rows, promote, first)
    BY <1>1 DEF InfoAlloc
  <2>2. TcInfoSize(cols) # 0
    BY <1>3 DEF TcInfoSize
  <2> QED BY <1>4, <1>5, <1>7, <2>1, <2>2
<1>9. LET r == ResolveHid(MakeHid(1), tc.hn)
      IN  /\ r.ok /\ r.size = 8
          /\ r.data = BthHeader(4, 4, 0, IF rows = <<>> THEN 0 ELSE MakeHid(3))
  <2> DEFINE header == BthHeader(4, 4, 0, IF rows = <<>> THEN 0 ELSE MakeHid(3))
  <2>1. allocs[1] = [size |-> 8, data |-> header]
    BY <1>1 DEF HeaderAlloc
  <2> HIDE DEF header
  <2>2. allocs[1].size = 8 /\ allocs[1].data = header
    BY <2>1
  <2>3. LET r == ResolveHid(MakeHid(1), tc.hn)
        IN  r.ok /\ r.size = 8 /\ r.data = header
    BY <1>4, <1>5, <1>7, <2>2
  <2> QED BY <2>3 DEF header
<1>10. LET r == ResolveHid(MakeHid(3), tc.hn)
       IN  /\ r.ok /\ r.size = 8 * Len(rows)
           /\ Len(rows) # 0 => r.data = [kind |-> "leaf", records |-> RowIndex(rows)]
  <2>1. /\ allocs[3].size = 8 * Len(rows)
        /\ allocs[3].data = [kind |-> "leaf", records |-> RowIndex(rows)]
    BY <1>1 DEF IndexAlloc
  <2>2. Len(rows) # 0 => 8 * Len(rows) # 0
    BY <1>3
  <2> QED BY <1>4, <1>5, <1>7, <2>1, <2>2
<1>11. ~promote =>
         LET r == ResolveHid(MakeHid(4), tc.hn)
         IN  /\ r.ok /\ r.size = MatrixSize(cols, rows)
             /\ MatrixSize(cols, rows) # 0 => r.data = MatrixData(cols, rows, FALSE)
  <2> SUFFICES ASSUME ~promote
               PROVE  LET r == ResolveHid(MakeHid(4), tc.hn)
                      IN  /\ r.ok /\ r.size = MatrixSize(cols, rows)
                          /\ MatrixSize(cols, rows) # 0 =>
                               r.data = MatrixData(cols, rows, FALSE)
    OBVIOUS
  <2>0. allocs[4] = MatrixAlloc(cols, rows)
    BY <1>1
  <2>1. allocs[4].size = MatrixSize(cols, rows) /\ allocs[4].data = MatrixData(cols, rows, FALSE)
    BY ONLY <2>0 DEF MatrixAlloc
  <2> QED BY <1>4, <1>5, <1>7, <2>1
<1> QED BY <1>6, <1>8, <1>9, <1>10, <1>11 DEF promote

(***************************************************************************)
(* The page map of a table's heap ascends, and ends where the map starts.  *)
(***************************************************************************)
LEMMA MapAscends ==
  ASSUME NEW allocs, Allocated(allocs), NeededBytes(allocs) <= OffsetRange,
         NEW client, NEW root, NEW h, h = BuildHeapOnNode(allocs, client, root)
  PROVE  SlotsOrdered(h) /\ ~(h.ibHnpm + PageMapBytes(h.cAlloc) > h.size)
<1> DEFINE n == Len(allocs)
           rgib == Rgib(allocs)
           pad == IF HasPhantom(allocs) THEN 1 ELSE 0
<1>1. n \in Nat
  BY Vector DEF Allocated
<1>2. /\ h.rgib = rgib /\ h.ibHnpm = MapOffset(allocs) /\ h.cAlloc = Len(rgib) - 1
      /\ h.size = MapOffset(allocs) + PageMapBytes(Len(rgib) - 1)
  BY DEF BuildHeapOnNode
<1>3. /\ Len(rgib) = n + 1 + pad
      /\ \A i \in 1..(n + 1) : rgib[i] = Cursor(allocs, i - 1)
  BY MapEntries
<1>4. rgib[Len(rgib)] = MapOffset(allocs)
  BY LastEntry
<1>5. /\ \A i \in 0..n : Cursor(allocs, i) \in Nat /\ Cursor(allocs, i) <= Cursor(allocs, n)
      /\ \A i \in 0..n : \A j \in 0..i : Cursor(allocs, j) <= Cursor(allocs, i)
      /\ MapOffset(allocs) \in Nat /\ Cursor(allocs, n) <= MapOffset(allocs)
  BY TrueOffsets
<1>6. pad \in {0, 1}
  OBVIOUS
<1> HIDE DEF n, rgib, pad
<1>7. h.cAlloc + 1 = n + 1 + pad
  BY <1>1, <1>2, <1>3, <1>6
<1>8. \A i \in 1..(n + 1) : rgib[i] \in Nat /\ rgib[i] <= MapOffset(allocs)
  <2> SUFFICES ASSUME NEW i \in 1..(n + 1)
               PROVE  rgib[i] \in Nat /\ rgib[i] <= MapOffset(allocs)
    OBVIOUS
  <2>1. i - 1 \in 0..n /\ n \in 0..n
    BY <1>1
  <2>2. rgib[i] = Cursor(allocs, i - 1)
    BY <1>3
  <2>3. /\ Cursor(allocs, i - 1) \in Nat /\ Cursor(allocs, n) \in Nat
        /\ Cursor(allocs, i - 1) <= Cursor(allocs, n)
    BY <1>5, <2>1
  <2> QED BY ONLY <1>5, <2>2, <2>3
<1>9. ASSUME NEW i \in 1..(n + 1 + pad)
      PROVE  rgib[i] <= MapOffset(allocs) /\ (i > 1 => rgib[i - 1] <= rgib[i])
  <2>1. CASE i \in 1..(n + 1)
    <3>1. rgib[i] <= MapOffset(allocs)
      BY <1>8, <2>1
    <3>2. ASSUME i > 1 PROVE rgib[i - 1] <= rgib[i]
      <4>1. i - 1 \in 1..(n + 1) /\ i - 1 \in 0..n /\ (i - 1) - 1 \in 0..(i - 1)
        BY <1>1, <2>1, <3>2
      <4>2. Cursor(allocs, (i - 1) - 1) <= Cursor(allocs, i - 1)
        BY <1>5, <4>1
      <4>3. rgib[i - 1] = Cursor(allocs, (i - 1) - 1) /\ rgib[i] = Cursor(allocs, i - 1)
        BY <1>3, <2>1, <4>1
      <4> QED BY <4>2, <4>3
    <3> QED BY <3>1, <3>2
  <2>2. CASE i \notin 1..(n + 1)
    <3>1. i = Len(rgib) /\ i - 1 \in 1..(n + 1)
      BY <1>1, <1>3, <1>6, <2>2
    <3>2. rgib[i] = MapOffset(allocs)
      BY <1>4, <3>1
    <3>3. rgib[i - 1] <= MapOffset(allocs)
      BY <1>8, <3>1
    <3> QED BY <1>5, <3>2, <3>3
  <2> QED BY <2>1, <2>2
<1>10. SlotsOrdered(h)
  BY <1>2, <1>7, <1>9 DEF SlotsOrdered
<1>11. PageMapBytes(Len(rgib) - 1) \in Nat
  <2>1. Len(rgib) - 1 \in Nat
    BY <1>1, <1>3, <1>6
  <2> QED BY <2>1 DEF PageMapBytes, HnPageMapHdrSize, HnPageMapEntrySize
<1>12. ~(h.ibHnpm + PageMapBytes(h.cAlloc) > h.size)
  BY <1>2, <1>5, <1>11
<1> QED BY <1>10, <1>12

(***************************************************************************)
(* The parts of a table's descriptors.                                     *)
(***************************************************************************)
LEMMA InfoParts ==
  ASSUME LaidOut(cols), NEW promote, NEW first
  PROVE  LET info == TcInfo(cols, rows, promote, first)
         IN  /\ info.kind = "tcinfo" /\ info.cCols = Len(cols)
             /\ info.rgib = TcRgib(cols) /\ info.hidRowIndex = MakeHid(1)
             /\ info.hnidRows = IF rows = <<>> THEN 0
                                ELSE IF promote THEN first ELSE MakeHid(4)
             /\ info.desc = SortedColumns(cols)
<1> DEFINE info == TcInfo(cols, rows, promote, first)
           hnid == IF rows = <<>> THEN 0 ELSE IF promote THEN first ELSE MakeHid(4)
<1>1. Len(cols) % 256 = Len(cols)
  <2>1. Len(cols) \in 1..255
    BY Columns
  <2>2. \A k \in 1..255 : k % 256 = k
    OBVIOUS
  <2> QED BY <2>1, <2>2
<1>2. info = [kind |-> "tcinfo", cCols |-> Len(cols) % 256, rgib |-> TcRgib(cols),
              hidRowIndex |-> MakeHid(1), hnidRows |-> hnid, desc |-> SortedColumns(cols)]
  BY DEF TcInfo
<1> HIDE DEF info, hnid
<1>3. /\ info.kind = "tcinfo" /\ info.cCols = Len(cols) % 256
      /\ info.rgib = TcRgib(cols) /\ info.hidRowIndex = MakeHid(1)
      /\ info.hnidRows = hnid /\ info.desc = SortedColumns(cols)
  BY ONLY <1>2
<1> QED BY <1>1, <1>3 DEF info, hnid

(***************************************************************************)
(* The row index counts every row.                                         *)
(***************************************************************************)
LEMMA RowsIndexed ==
  ASSUME LaidOut(cols), GoodRows(rows), NEW first, BuiltFrom(first)
  PROVE  IndexedRows(TcInfo(cols, rows, Overflows(cols, rows), first), tc.hn) = Len(rows)
<1> DEFINE info == TcInfo(cols, rows, Overflows(cols, rows), first)
           header == ResolveHid(info.hidRowIndex, tc.hn)
           hid == IF rows = <<>> THEN 0 ELSE MakeHid(3)
           l == ResolveHid(header.data.hidRoot, tc.hn)
<1>1. info.hidRowIndex = MakeHid(1)
  BY InfoParts
<1>2. header.ok /\ header.size = 8 /\ header.data = BthHeader(4, 4, 0, hid)
  <2> HIDE DEF info
  <2> QED BY <1>1, LeadingFound
<1> HIDE DEF hid, header
<1>3. /\ header.data.kind = "bth" /\ header.data.cbKey = 4 /\ header.data.cbEnt = 4
      /\ header.data.idxLevels = 0 /\ header.data.hidRoot = hid
  BY ONLY <1>2 DEF BthHeader
<1>4. Len(rows) \in Nat
  BY RowsSorted
<1>5. IndexedRows(info, tc.hn) =
        IF HidIndex(hid) = 0 THEN 0 ELSE IF ~l.ok \/ l.size % 8 # 0 THEN -1 ELSE l.size \div 8
  <2> HIDE DEF info, l
  <2>1. IndexedRows(info, tc.hn) =
          IF ~header.ok \/ header.size # 8 \/ header.data.kind # "bth" THEN -1
          ELSE IF header.data.cbKey # 4 \/ header.data.cbEnt # 4
                  \/ header.data.idxLevels # 0 THEN -1
          ELSE IF HidIndex(header.data.hidRoot) = 0 THEN 0
          ELSE IF ~l.ok \/ l.size % 8 # 0 THEN -1
          ELSE l.size \div 8
    BY DEF IndexedRows, header, l
  <2> QED BY <1>2, <1>3, <2>1
<1>6. CASE rows = <<>>
  <2>1. HidIndex(0) = 0
    BY DEF HidIndex, HidIndexes
  <2>2. Len(rows) = 0
    BY <1>6
  <2> HIDE DEF info, l
  <2>3. hid = 0
    BY <1>6 DEF hid
  <2>4. IndexedRows(info, tc.hn) = 0
    BY <1>5, <2>1, <2>3
  <2> QED BY <2>2, <2>4 DEF info
<1>7. CASE rows # <<>>
  <2>1. HidIndex(MakeHid(3)) = 3
    BY HidParts DEF HidIndexes
  <2>2. hid = MakeHid(3) /\ header.data.hidRoot = MakeHid(3)
    BY <1>3, <1>7 DEF hid
  <2>3. l.ok /\ l.size = 8 * Len(rows)
    <3>1. l = ResolveHid(MakeHid(3), tc.hn)
      BY <2>2
    <3> HIDE DEF l
    <3> QED BY <3>1, LeadingFound
  <2>4. (8 * Len(rows)) % 8 = 0 /\ (8 * Len(rows)) \div 8 = Len(rows)
    BY <1>4
  <2> HIDE DEF info, l
  <2>5. IndexedRows(info, tc.hn) = Len(rows)
    BY <1>5, <2>1, <2>2, <2>3, <2>4
  <2> QED BY <2>5 DEF info
<1> QED BY <1>6, <1>7

(***************************************************************************)
(* pst_info reports no failure for a table that was built, counts all of   *)
(* its rows, and prints columns in the order of their tags and bits behind *)
(* the cells.                                                              *)
(***************************************************************************)
THEOREM WalkAlwaysAccepts == Spec => []WalkAccepts
<1>1. TableInv => WalkAccepts
  <2> SUFFICES ASSUME TableInv, tc # Nothing
               PROVE  /\ ~WalkFails(tc.hn)
                      /\ \A k \in 2..Len(cols) :
                           FoundInfo.desc[k - 1].tag < FoundInfo.desc[k].tag
                      /\ \A i \in DOMAIN cols :
                           /\ cols[i].ib + cols[i].cb <= FoundInfo.rgib.end1b
                           /\ FoundInfo.rgib.end1b * 8 + cols[i].bit
                                < FoundInfo.rgib.endBm * 8
                      /\ IndexedRows(FoundInfo, tc.hn) = Len(rows)
    BY DEF WalkAccepts
  <2>1. LaidOut(cols) /\ GoodRows(rows)
    BY BuiltTable
  <2>2. PICK first \in FirstNids : BuiltFrom(first)
    BY BuiltTable
  <2> DEFINE promote == Overflows(cols, rows)
             info == TcInfo(cols, rows, promote, first)
             h == tc.hn
             root == ResolveHid(h.root, h)
  <2>3. /\ promote \in BOOLEAN /\ ValidColumns(cols)
        /\ first # 0 => HidType(first) # 0
        /\ promote => first # 0
    BY <2>2 DEF BuiltFrom
  <2>4. h.root = MakeHid(2)
    BY <2>1, <2>2, LeadingFound
  <2>5. root.ok /\ root.size = TcInfoSize(cols) /\ root.data = info
    <3>1. root = ResolveHid(MakeHid(2), tc.hn)
      BY <2>4
    <3> HIDE DEF root, info
    <3>2. root.ok /\ root.size = TcInfoSize(cols)
      BY <2>1, <2>2, <3>1, LeadingFound
    <3>3. root.data = TcInfo(cols, rows, Overflows(cols, rows), first)
      BY <2>1, <2>2, <3>1, LeadingFound
    <3> QED BY <3>2, <3>3 DEF info
  <2>6. FoundInfo = info
    <3> HIDE DEF info
    <3> QED BY <2>5 DEF FoundInfo
  <2>7. /\ info.kind = "tcinfo" /\ info.cCols = Len(cols)
        /\ info.rgib = TcRgib(cols)
        /\ info.hnidRows = IF rows = <<>> THEN 0 ELSE IF promote THEN first ELSE MakeHid(4)
        /\ info.desc = SortedColumns(cols)
    BY <2>1, InfoParts
  <2>8. IndexedRows(info, h) = Len(rows)
    BY <2>1, <2>2, RowsIndexed
  <2>9. Len(rows) \in Nat /\ Len(cols) \in Nat /\ DOMAIN cols = 1..Len(cols)
    BY <2>1, RowsSorted, Columns
  <2> HIDE DEF info, promote
  <2>10. SlotsOrdered(h) /\ ~(h.ibHnpm + PageMapBytes(h.cAlloc) > h.size)
    <3>1. /\ Allocated(TableAllocs(first)) /\ NeededBytes(TableAllocs(first)) <= OffsetRange
          /\ tc.hn = BuildHeapOnNode(TableAllocs(first), "TC", MakeHid(2))
      BY <2>1, <2>2, TableHeap
    <3> QED BY <3>1, MapAscends
  <2>11. ~(root.size < 22) /\ root.size = 22 + 8 * info.cCols
    <3> HIDE DEF root
    <3> QED BY <2>5, <2>7, <2>9 DEF TcInfoSize
  <2> DEFINE rm == ResolveHid(info.hnidRows, h)
  <2>12. ASSUME Len(rows) > 0, info.hnidRows # 0, HidType(info.hnidRows) = 0
         PROVE  ~(~rm.ok \/ rm.size # Len(rows) * info.rgib.endBm)
    <3>1. rows # <<>>
      BY <2>12
    <3>2. ~promote
      BY <2>3, <2>7, <2>12, <3>1
    <3>3. info.hnidRows = MakeHid(4)
      BY <2>7, <3>1, <3>2
    <3>4. rm = ResolveHid(MakeHid(4), tc.hn)
      BY <3>3
    <3> HIDE DEF rm
    <3>5. rm.ok /\ rm.size = MatrixSize(cols, rows)
      BY <2>1, <2>2, <3>2, <3>4, LeadingFound DEF promote
    <3>6. MatrixSize(cols, rows) = Len(rows) * info.rgib.endBm
      BY <2>7 DEF MatrixSize, RowBytes
    <3> QED BY <3>5, <3>6
  <2>13. ~WalkFails(h)
    <3> DEFINE count == IndexedRows(info, h)
    <3>1. count = Len(rows) /\ count # -1
      BY <2>8, <2>9
    <3>2. WalkFails(h) <=>
            \/ h.ibHnpm + PageMapBytes(h.cAlloc) > h.size
            \/ ~SlotsOrdered(h)
            \/ ~root.ok \/ root.size < 22 \/ info.kind # "tcinfo"
            \/ root.size # 22 + 8 * info.cCols
            \/ count = -1
            \/ /\ count > 0 /\ info.hnidRows # 0 /\ HidType(info.hnidRows) = 0
               /\ ~rm.ok \/ rm.size # count * info.rgib.endBm
      <4>1. root.data = info
        BY <2>5
      <4> QED BY <4>1 DEF WalkFails
    <3> HIDE DEF rm, root, count
    <3> QED BY <2>5, <2>7, <2>10, <2>11, <2>12, <3>1, <3>2
  <2>14. \A k \in 2..Len(cols) : FoundInfo.desc[k - 1].tag < FoundInfo.desc[k].tag
    BY <2>1, <2>6, <2>7, ColumnsSorted
  <2>15. \A i \in DOMAIN cols :
           /\ cols[i].ib + cols[i].cb <= FoundInfo.rgib.end1b
           /\ FoundInfo.rgib.end1b * 8 + cols[i].bit < FoundInfo.rgib.endBm * 8
    <3>1. FoundInfo.rgib = TcRgib(cols) /\ RowBytes(cols) = TcRgib(cols).endBm
      BY <2>6, <2>7 DEF RowBytes
    <3> QED BY <2>1, <2>3, <2>9, <3>1, RowRegions
  <2> HIDE DEF root
  <2> QED BY <2>6, <2>8, <2>13, <2>14, <2>15
<1> QED BY <1>1, AlwaysTables, PTL

-----------------------------------------------------------------------------
(* Every cell of every row comes back. *)

(***************************************************************************)
(* A reader finds the matrix, in the heap or in the subnode.               *)
(***************************************************************************)
LEMMA MatrixFound ==
  ASSUME LaidOut(cols), GoodRows(rows), NEW first, BuiltFrom(first), Len(rows) # 0
  PROVE  FoundRows(TcInfo(cols, rows, Overflows(cols, rows), first))
           = Matrix(cols, rows, Overflows(cols, rows))
<1> DEFINE promote == Overflows(cols, rows)
           info == TcInfo(cols, rows, promote, first)
<1>1. /\ promote \in BOOLEAN /\ ValidColumns(cols)
      /\ first # 0 => HidType(first) # 0
      /\ promote => first # 0
  BY DEF BuiltFrom
<1>2. info.hnidRows = IF promote THEN first ELSE MakeHid(4)
  <2>1. rows # <<>>
    OBVIOUS
  <2> QED BY <2>1, InfoParts
<1>3. tc.subnodes = Subnodes(cols, rows, promote, first)
  BY TableHeap
<1>4. ~promote => /\ ResolveHid(MakeHid(4), tc.hn).ok
                  /\ MatrixSize(cols, rows) # 0 =>
                       ResolveHid(MakeHid(4), tc.hn).data = MatrixData(cols, rows, FALSE)
  BY LeadingFound
<1> HIDE DEF promote, info
<1>5. \A p : MatrixData(cols, rows, p).rows = Matrix(cols, rows, p)
  BY DEF MatrixData
<1>6. FoundRows(info) =
        IF info.hnidRows = 0 THEN <<>>
        ELSE IF HidType(info.hnidRows) = 0
        THEN ResolveHid(info.hnidRows, tc.hn).data.rows
        ELSE tc.subnodes[CHOOSE k \in DOMAIN tc.subnodes :
                            tc.subnodes[k].nid = info.hnidRows].data.rows
  BY DEF FoundRows
<1>7. CASE promote
  <2>1. info.hnidRows = first /\ first # 0 /\ HidType(first) # 0
    BY <1>1, <1>2, <1>7
  <2> DEFINE sub == [nid |-> first, size |-> MatrixSize(cols, rows),
                     data |-> MatrixData(cols, rows, TRUE)]
  <2>2. tc.subnodes = <<sub>>
    BY <1>3, <1>7 DEF Subnodes
  <2>3. sub.nid = first /\ sub.data = MatrixData(cols, rows, TRUE)
    OBVIOUS
  <2> HIDE DEF sub
  <2>4. DOMAIN tc.subnodes = {1} /\ tc.subnodes[1] = sub
    BY <2>2
  <2>5. (CHOOSE k \in DOMAIN tc.subnodes : tc.subnodes[k].nid = first) = 1
    BY <2>3, <2>4
  <2>6. FoundRows(info) = MatrixData(cols, rows, TRUE).rows
    BY <1>6, <2>1, <2>3, <2>4, <2>5
  <2>7. promote = TRUE
    BY <1>1, <1>7
  <2> QED BY <1>5, <2>6, <2>7 DEF info, promote
<1>8. CASE ~promote
  <2>1. info.hnidRows = MakeHid(4)
    BY <1>2, <1>8
  <2>2. HidType(MakeHid(4)) = 0 /\ MakeHid(4) # 0
    BY DEF MakeHid, HidIndexes, HidType
  <2>3. MatrixSize(cols, rows) # 0
    <3>1. Len(rows) \in Nat /\ RowBytes(cols) \in Nat \ {0}
      BY <1>1, RowsSorted, RowRegions
    <3> QED BY <3>1 DEF MatrixSize
  <2>4. ResolveHid(MakeHid(4), tc.hn).data = MatrixData(cols, rows, FALSE)
    BY <1>4, <1>8, <2>3
  <2>5. FoundRows(info) = MatrixData(cols, rows, FALSE).rows
    BY <1>6, <2>1, <2>2, <2>4
  <2>6. promote = FALSE
    BY <1>1, <1>8
  <2> QED BY <1>5, <2>5, <2>6 DEF info, promote
<1> QED BY <1>7, <1>8

(***************************************************************************)
(* A look-up by a row's identifier finds the line of the matrix that holds *)
(* the row.                                                                *)
(***************************************************************************)
LEMMA LineFound ==
  ASSUME LaidOut(cols), GoodRows(rows), NEW first, BuiltFrom(first),
         NEW s \in 1..Len(rows), NEW ib
  PROVE  Found(SortedRows(rows)[s].id, ib)
           = Matrix(cols, rows, Overflows(cols, rows))[s][ib]
<1> DEFINE n == Len(rows)
           id == SortedRows(rows)[s].id
           info == TcInfo(cols, rows, Overflows(cols, rows), first)
           index == ResolveHid(info.hidRowIndex, tc.hn).data
           recs == ResolveHid(index.hidRoot, tc.hn).data.records
           k == CHOOSE i \in DOMAIN recs : recs[i].key = id
<1>1. /\ n \in Nat /\ DOMAIN rows = 1..n
      /\ \A t \in 1..n : SortedRows(rows)[s].id = SortedRows(rows)[t].id => s = t
  BY RowsSorted
<1>2. n # 0
  BY <1>1
<1>3. FoundRows(info) = Matrix(cols, rows, Overflows(cols, rows))
  BY <1>2, MatrixFound
<1>4. info.hidRowIndex = MakeHid(1)
  BY InfoParts
<1>5. FoundInfo = info
  <2>1. tc.hn.root = MakeHid(2)
    BY LeadingFound
  <2>2. FoundInfo = ResolveHid(MakeHid(2), tc.hn).data
    BY <2>1 DEF FoundInfo
  <2> QED BY <2>2, LeadingFound
<1> HIDE DEF info, n
<1>6. index = BthHeader(4, 4, 0, MakeHid(3))
  <2>1. ResolveHid(MakeHid(1), tc.hn).data
          = BthHeader(4, 4, 0, IF rows = <<>> THEN 0 ELSE MakeHid(3))
    BY LeadingFound
  <2>2. rows # <<>>
    BY <1>2 DEF n
  <2> QED BY <1>4, <2>1, <2>2
<1> HIDE DEF index
<1>7. index.hidRoot = MakeHid(3)
  BY ONLY <1>6 DEF BthHeader
<1>8. ResolveHid(MakeHid(3), tc.hn).data = [kind |-> "leaf", records |-> RowIndex(rows)]
  BY <1>2, LeadingFound DEF n
<1>9. recs = RowIndex(rows)
  <2> DEFINE r == RowIndex(rows)
  <2> HIDE DEF r
  <2>1. ResolveHid(MakeHid(3), tc.hn).data = [kind |-> "leaf", records |-> r]
    BY <1>8 DEF r
  <2>2. ResolveHid(MakeHid(3), tc.hn).data.records = r
    BY ONLY <2>1
  <2> QED BY <1>7, <2>2 DEF r
<1> HIDE DEF recs
<1>10. RowIndex(rows) = [t \in 1..n |-> [key |-> SortedRows(rows)[t].id, data |-> t - 1]]
  BY <1>1 DEF RowIndex
<1>11. DOMAIN recs = 1..n
  BY <1>9, <1>10
<1>12. \A t \in 1..n : recs[t].key = SortedRows(rows)[t].id /\ recs[t].data = t - 1
  BY <1>9, <1>10
<1>13. s \in 1..n
  BY DEF n
<1>14. k = s
  <2>1. \A t \in 1..n : recs[t].key = id => t = s
    BY <1>1, <1>12
  <2>2. recs[s].key = id
    BY <1>12, <1>13
  <2> HIDE DEF id
  <2> QED BY <1>11, <1>13, <2>1, <2>2
<1>15. Found(id, ib) = FoundRows(info)[recs[k].data + 1][ib]
  BY <1>5 DEF Found, index, recs
<1> HIDE DEF k
<1>16. recs[k].data + 1 = s
  BY <1>1, <1>12, <1>13, <1>14
<1> QED BY <1>3, <1>15, <1>16 DEF info

(***************************************************************************)
(* The heap identifier of a cell of variable size leads to its bytes.      *)
(***************************************************************************)
LEMMA CellFound ==
  ASSUME LaidOut(cols), GoodRows(rows), NEW first, BuiltFrom(first),
         tc.hn.cAlloc < HidIndexes, NEW k \in 1..Len(Varlens(cols, rows)),
         NEW cell,
         cell = ResolveHid(MakeHid(FirstVarlenSlot(Overflows(cols, rows)) + k - 1), tc.hn)
  PROVE  /\ cell.ok /\ cell.size = Varlens(cols, rows)[k].size
         /\ cell.data = IF Varlens(cols, rows)[k].size = 0 THEN Nothing
                        ELSE Varlens(cols, rows)[k].data
<1> DEFINE promote == Overflows(cols, rows)
           v == Varlens(cols, rows)
           allocs == TableAllocs(first)
           i == Leading(promote) + k
<1>1. /\ Allocated(allocs) /\ NeededBytes(allocs) <= OffsetRange
      /\ tc.hn = BuildHeapOnNode(allocs, "TC", MakeHid(2))
      /\ Len(allocs) = Leading(promote) + Len(v)
      /\ allocs[i] = [size |-> v[k].size, data |-> v[k].data]
  BY TableHeap
<1>2. Len(v) \in Nat
  BY VarlenCells, Vector
<1>3. /\ Leading(promote) \in {3, 4}
      /\ FirstVarlenSlot(promote) = Leading(promote) + 1
  BY DEF Leading, FirstVarlenSlot
<1> HIDE DEF promote, v, allocs
<1>4. FirstVarlenSlot(promote) + k - 1 = i /\ i \in Nat
  BY <1>2, <1>3
<1>5. i \in 1..Len(allocs)
  BY <1>1, <1>2, <1>3 DEF v
<1>6. Len(allocs) <= tc.hn.cAlloc
  <2>1. tc.hn.cAlloc = Len(Rgib(allocs)) - 1
    BY <1>1 DEF BuildHeapOnNode
  <2>2. Len(Rgib(allocs)) = Len(allocs) + 1 + IF HasPhantom(allocs) THEN 1 ELSE 0
    BY <1>1, MapEntries
  <2>3. Len(allocs) \in Nat
    BY <1>1, <1>2, <1>3
  <2> QED BY <2>1, <2>2, <2>3
<1>7. i < HidIndexes
  <2>1. tc.hn.cAlloc \in Int
    <3>1. tc.hn.cAlloc = Len(Rgib(allocs)) - 1
      BY <1>1 DEF BuildHeapOnNode
    <3>2. Len(Rgib(allocs)) = Len(allocs) + 1 + IF HasPhantom(allocs) THEN 1 ELSE 0
      BY <1>1, MapEntries
    <3> QED BY <1>1, <1>2, <1>3, <3>1, <3>2
  <2>2. Len(allocs) \in Nat
    BY <1>1, <1>2, <1>3
  <2>3. tc.hn.cAlloc < 2048 /\ HidIndexes = 2048
    BY DEF HidIndexes
  <2> HIDE DEF i
  <2> QED BY ONLY <1>4, <1>5, <1>6, <2>1, <2>2, <2>3
<1>8. cell = ResolveHid(MakeHid(i), tc.hn)
  BY <1>4 DEF promote
<1>9. allocs[i].size = v[k].size /\ allocs[i].data = v[k].data
  BY ONLY <1>1
<1> HIDE DEF i
<1>10. /\ cell.ok /\ cell.size = allocs[i].size
       /\ cell.data = IF allocs[i].size = 0 THEN Nothing ELSE allocs[i].data
  BY <1>1, <1>5, <1>7, <1>8, SlotFound
<1> QED BY <1>9, <1>10 DEF v

(***************************************************************************)
(* A row's cell in one column is what the caller gave.                     *)
(***************************************************************************)
LEMMA CellReadsBack ==
  ASSUME LaidOut(cols), GoodRows(rows), NEW first, BuiltFrom(first),
         tc.hn.cAlloc < HidIndexes, NEW i \in DOMAIN rows, NEW c \in DOMAIN cols
  PROVE  LET own  == {j \in DOMAIN rows[i].cells : rows[i].cells[j].col = c}
             seen == Found(rows[i].id, cols[c].ib)
             cell == ResolveHid(seen, tc.hn)
         IN  IF own = {} THEN seen = rows[i].fixed[cols[c].ib]
             ELSE LET size == rows[i].cells[CHOOSE j \in own : TRUE].size
                  IN  /\ cell.ok /\ cell.size = size
                      /\ cell.data = IF size = 0 THEN Nothing
                                     ELSE CellData(rows[i].id, c)
<1> DEFINE row == rows[i]
           ib == cols[c].ib
           own == {j \in DOMAIN row.cells : row.cells[j].col = c}
           seen == Found(row.id, ib)
           v == Varlens(cols, rows)
           promote == Overflows(cols, rows)
           m == Len(row.cells)
<1>1. /\ DOMAIN rows = 1..Len(rows)
      /\ \E s \in 1..Len(rows) : SortedRows(rows)[s] = row
  BY RowsSorted
<1>2. PICK s \in 1..Len(rows) : SortedRows(rows)[s] = row
  BY <1>1
<1>3. /\ IsVector(row.cells) /\ m \in Nat /\ DOMAIN row.cells = 1..m
      /\ \A j, h \in 1..m : row.cells[j].col = row.cells[h].col => j = h
  BY <1>1, Vector DEF GoodRows, GoodRow
<1>4. \A j \in 1..m : row.cells[j].col \in DOMAIN cols
  BY <1>3 DEF BuiltFrom, ValidRow
<1>5. /\ IsVector(v)
      /\ \A k \in 1..Len(v) :
           \E t \in 1..Len(rows) : \E j \in 1..Len(SortedRows(rows)[t].cells) :
             v[k] = VarlenOf(cols, rows, t, j)
      /\ \A t \in 1..Len(rows) : \A j \in 1..Len(SortedRows(rows)[t].cells) :
           \E k \in 1..Len(v) : v[k] = VarlenOf(cols, rows, t, j)
  BY VarlenCells
<1>6. Len(v) \in Nat /\ DOMAIN v = 1..Len(v)
  BY <1>5, Vector
<1>7. \A j, h \in DOMAIN cols : j # h => cols[j].ib # cols[h].ib
  BY DEF LaidOut
<1> DEFINE Slot == {k \in DOMAIN v : v[k].row = s /\ v[k].ib = ib}
<1>8. seen = Matrix(cols, rows, promote)[s][ib]
  BY <1>2, LineFound
<1>9. seen = IF Slot = {} THEN row.fixed[ib]
             ELSE MakeHid(FirstVarlenSlot(promote) + Max(Slot) - 1)
  <2> DEFINE Sl(t, b) == {k \in DOMAIN v : v[k].row = t /\ v[k].ib = b}
             entry(t, b) == IF Sl(t, b) = {} THEN SortedRows(rows)[t].fixed[b]
                            ELSE MakeHid(FirstVarlenSlot(promote) + Max(Sl(t, b)) - 1)
  <2>1. Matrix(cols, rows, promote) = [t \in DOMAIN rows |-> [b \in Offsets(cols) |-> entry(t, b)]]
    BY DEF Matrix
  <2>2. ib \in Offsets(cols)
    BY DEF Offsets
  <2> HIDE DEF entry, ib, promote
  <2>3. Matrix(cols, rows, promote)[s][ib] = entry(s, ib)
    BY <1>1, <2>1, <2>2
  <2> QED BY <1>2, <1>8, <2>3 DEF entry
<1>10. ASSUME NEW j \in 1..m
       PROVE  VarlenOf(cols, rows, s, j)
                = [row |-> s, ib |-> cols[row.cells[j].col].ib, size |-> row.cells[j].size,
                   data |-> CellData(row.id, row.cells[j].col)]
  <2> HIDE DEF row
  <2> QED BY <1>2 DEF VarlenOf
<1>11. ASSUME NEW k \in Slot
       PROVE  \E j \in own : v[k] = VarlenOf(cols, rows, s, j)
  <2>1. k \in 1..Len(v) /\ v[k].row = s /\ v[k].ib = ib
    BY <1>6
  <2>2. PICK t \in 1..Len(rows) : \E j \in 1..Len(SortedRows(rows)[t].cells) :
                                    v[k] = VarlenOf(cols, rows, t, j)
    BY <1>5, <2>1
  <2>3. PICK j \in 1..Len(SortedRows(rows)[t].cells) : v[k] = VarlenOf(cols, rows, t, j)
    BY <2>2
  <2>4. t = s
    <3>1. VarlenOf(cols, rows, t, j).row = t
      BY DEF VarlenOf
    <3> QED BY <2>1, <2>3, <3>1
  <2>5. j \in 1..m
    BY <1>2, <2>4
  <2>6. VarlenOf(cols, rows, s, j).ib = cols[row.cells[j].col].ib
    <3> HIDE DEF row, m
    <3> QED BY <1>10, <2>5
  <2>7. cols[row.cells[j].col].ib = ib
    BY <2>1, <2>3, <2>4, <2>6
  <2>8. row.cells[j].col = c
    BY <1>4, <1>7, <2>5, <2>7
  <2>9. j \in own
    BY <1>3, <2>5, <2>8
  <2> QED BY <2>3, <2>4, <2>9
<1>12. CASE own = {}
  <2>1. Slot = {}
    BY <1>11, <1>12
  <2>2. seen = row.fixed[ib]
    BY <1>9, <2>1
  <2> HIDE DEF seen
  <2> QED BY <1>12, <2>2 DEF seen
<1>13. CASE own # {}
  <2> DEFINE j == CHOOSE x \in own : TRUE
  <2>1. j \in own /\ \A x \in own : x = j
    <3>1. j \in own
      BY <1>13
    <3>2. \A x \in own : x \in 1..m /\ row.cells[x].col = c
      BY <1>3
    <3> HIDE DEF j, own
    <3> QED BY <1>3, <3>1, <3>2
  <2>2. j \in 1..m /\ row.cells[j].col = c
    BY <1>3, <2>1
  <2> HIDE DEF j
  <2>3. PICK k0 \in 1..Len(v) : v[k0] = VarlenOf(cols, rows, s, j)
    BY <1>2, <1>5, <2>2
  <2>4. k0 \in Slot
    <3> HIDE DEF row, m
    <3>1. v[k0] = [row |-> s, ib |-> cols[row.cells[j].col].ib, size |-> row.cells[j].size,
                   data |-> CellData(row.id, row.cells[j].col)]
      BY <1>10, <2>2, <2>3
    <3>2. v[k0].row = s /\ v[k0].ib = cols[row.cells[j].col].ib
      BY ONLY <3>1
    <3> QED BY <1>6, <2>2, <3>2
  <2>5. Slot # {} /\ Slot \subseteq Nat /\ \A x \in Slot : x <= Len(v)
    BY <1>6, <2>4
  <2> DEFINE k == Max(Slot)
  <2>6. k \in Slot
    <3> HIDE DEF Slot
    <3> QED BY <1>6, <2>5, Largest
  <2> HIDE DEF k
  <2>7. k \in 1..Len(v)
    BY <1>6, <2>6
  <2>8. v[k] = VarlenOf(cols, rows, s, j)
    <3>1. PICK x \in own : v[k] = VarlenOf(cols, rows, s, x)
      BY <1>11, <2>6
    <3> QED BY <2>1, <3>1
  <2>9. v[k].size = row.cells[j].size /\ v[k].data = CellData(row.id, c)
    <3> HIDE DEF row, m
    <3>1. v[k] = [row |-> s, ib |-> cols[row.cells[j].col].ib, size |-> row.cells[j].size,
                  data |-> CellData(row.id, row.cells[j].col)]
      BY <1>10, <2>2, <2>8
    <3>2. v[k].size = row.cells[j].size /\ v[k].data = CellData(row.id, row.cells[j].col)
      BY ONLY <3>1
    <3> QED BY <2>2, <3>2
  <2>10. seen = MakeHid(FirstVarlenSlot(promote) + k - 1)
    BY <1>9, <2>5 DEF k
  <2> HIDE DEF seen, v
  <2> DEFINE cell == ResolveHid(seen, tc.hn)
  <2>11. cell = ResolveHid(MakeHid(FirstVarlenSlot(promote) + k - 1), tc.hn)
    BY <2>10
  <2> HIDE DEF cell
  <2>12. /\ cell.ok /\ cell.size = v[k].size
         /\ cell.data = IF v[k].size = 0 THEN Nothing ELSE v[k].data
    BY <2>7, <2>11, CellFound DEF v
  <2>13. LET size == row.cells[j].size
         IN  /\ cell.ok /\ cell.size = size
             /\ cell.data = IF size = 0 THEN Nothing ELSE CellData(row.id, c)
    BY <2>9, <2>12
  <2> QED BY <1>13, <2>13 DEF cell, seen, j
<1> QED BY <1>12, <1>13

\* Eleven bits hold the number of every allocation.
Identified == tc # Nothing => tc.hn.cAlloc < HidIndexes

(***************************************************************************)
(* As long as eleven bits number a heap's allocations, everything that was *)
(* written to a table reads back.                                          *)
(***************************************************************************)
THEOREM IdentifiedReadBack == Spec => [](Identified => RowsReadBack)
<1>1. TableInv => (Identified => RowsReadBack)
  <2> SUFFICES ASSUME TableInv, Identified, tc # Nothing, NEW i \in DOMAIN rows,
                      NEW c \in DOMAIN cols
               PROVE  LET own  == {j \in DOMAIN rows[i].cells : rows[i].cells[j].col = c}
                          seen == Found(rows[i].id, cols[c].ib)
                          cell == ResolveHid(seen, tc.hn)
                      IN  IF own = {} THEN seen = rows[i].fixed[cols[c].ib]
                          ELSE LET size == rows[i].cells[CHOOSE j \in own : TRUE].size
                               IN  /\ cell.ok /\ cell.size = size
                                   /\ cell.data = IF size = 0 THEN Nothing
                                                  ELSE CellData(rows[i].id, c)
    BY DEF RowsReadBack
  <2>1. LaidOut(cols) /\ GoodRows(rows)
    BY BuiltTable
  <2>2. PICK first \in FirstNids : BuiltFrom(first)
    BY BuiltTable
  <2>3. tc.hn.cAlloc < HidIndexes
    BY DEF Identified
  <2> QED BY <2>1, <2>2, <2>3, CellReadsBack
<1> QED BY <1>1, AlwaysTables, PTL

\* No cell of variable size is shorter than a character, as with all callers.
WideCells == \A i \in DOMAIN rows : \A j \in DOMAIN rows[i].cells : rows[i].cells[j].size >= 2

(***************************************************************************)
(* Sizes of two bytes or more add up to twice their number or more.        *)
(***************************************************************************)
LEMMA TwoBytesEach ==
  ASSUME NEW sizes, IsVector(sizes), \A i \in 1..Len(sizes) : sizes[i] \in Nat /\ sizes[i] >= 2
  PROVE  EndsOf(sizes)[Len(sizes)] >= 2 * Len(sizes)
<1> DEFINE n == Len(sizes)
           T == {i \in Nat : i <= n => EndsOf(sizes)[i] >= 2 * i}
<1>1. n \in Nat
  BY Vector
<1>2. /\ EndsOf(sizes)[0] = 0
      /\ \A i \in 1..n : EndsOf(sizes)[i] = EndsOf(sizes)[i - 1] + sizes[i]
  BY EndsStepwise
<1>3. \A i \in 0..n : EndsOf(sizes)[i] \in Nat
  BY EndsAscend
<1> HIDE DEF n
<1>4. 0 \in T
  BY <1>2
<1>5. ASSUME NEW i \in Nat, i \in T PROVE i + 1 \in T
  <2> SUFFICES ASSUME i + 1 <= n PROVE EndsOf(sizes)[i + 1] >= 2 * (i + 1)
    OBVIOUS
  <2>1. i + 1 \in 1..n /\ i \in 0..n /\ (i + 1) - 1 = i
    BY <1>1
  <2>2. EndsOf(sizes)[i + 1] = EndsOf(sizes)[i] + sizes[i + 1]
    BY <1>2, <2>1
  <2>3. EndsOf(sizes)[i] >= 2 * i /\ EndsOf(sizes)[i] \in Nat
    BY <1>3, <1>5, <2>1
  <2>4. sizes[i + 1] \in Nat /\ sizes[i + 1] >= 2
    BY <2>1 DEF n
  <2> QED BY ONLY <2>2, <2>3, <2>4, i \in Nat
<1>6. n \in T
  <2> HIDE DEF T
  <2> QED BY <1>1, <1>4, <1>5, Induction
<1> QED BY <1>1, <1>6 DEF n

(***************************************************************************)
(* Then a block cannot hold more allocations than have a number.           *)
(***************************************************************************)
LEMMA WideCellsIdentified ==
  ASSUME TableInv, BlockBody <= 8176, WideCells
  PROVE  Identified
<1> SUFFICES ASSUME tc # Nothing PROVE tc.hn.cAlloc < HidIndexes
  BY DEF Identified
<1>1. LaidOut(cols) /\ GoodRows(rows)
  BY BuiltTable
<1>2. PICK first \in FirstNids : BuiltFrom(first)
  BY BuiltTable
<1> DEFINE promote == Overflows(cols, rows)
           v == Varlens(cols, rows)
           allocs == TableAllocs(first)
           pad == IF HasPhantom(allocs) THEN 1 ELSE 0
           tail == SizesOf(v)
           n == Len(v)
<1>3. /\ promote \in BOOLEAN
      /\ Allocated(allocs) /\ NeededBytes(allocs) <= OffsetRange
      /\ tc.hn = BuildHeapOnNode(allocs, "TC", MakeHid(2))
      /\ Len(allocs) = Leading(promote) + n
  BY <1>1, <1>2, TableHeap
<1>4. ValidColumns(cols) /\ EstimateHnSize(cols, rows, promote) <= BlockBody
  BY <1>2 DEF BuiltFrom
<1>5. tc.hn.cAlloc = Len(allocs) + pad
  <2>1. tc.hn.cAlloc = Len(Rgib(allocs)) - 1
    BY <1>3 DEF BuildHeapOnNode
  <2>2. Len(Rgib(allocs)) = Len(allocs) + 1 + pad
    BY <1>3, MapEntries
  <2>3. Len(allocs) \in Nat
    BY <1>3, Vector DEF Allocated
  <2> HIDE DEF allocs
  <2> QED BY <2>1, <2>2, <2>3
<1>6. /\ IsVector(v) /\ n \in Nat
      /\ \A k \in 1..n : \E s \in 1..Len(rows) : \E j \in 1..Len(SortedRows(rows)[s].cells) :
           v[k] = VarlenOf(cols, rows, s, j)
      /\ \A k \in 1..n : v[k].size \in Nat
  <2>1. /\ IsVector(v)
        /\ \A k \in 1..Len(v) :
             \E s \in 1..Len(rows) : \E j \in 1..Len(SortedRows(rows)[s].cells) :
               v[k] = VarlenOf(cols, rows, s, j)
        /\ \A k \in 1..Len(v) : v[k].size \in Nat
    BY ONLY <1>1, VarlenCells
  <2>2. Len(v) \in Nat
    BY ONLY <2>1, Vector
  <2> QED BY ONLY <2>1, <2>2
<1>7. ASSUME NEW k \in 1..n PROVE v[k].size >= 2
  <2>1. PICK s \in 1..Len(rows) : \E j \in 1..Len(SortedRows(rows)[s].cells) :
                                    v[k] = VarlenOf(cols, rows, s, j)
    <3> HIDE DEF v, n
    <3> QED BY ONLY <1>6, <1>7
  <2>2. PICK j \in 1..Len(SortedRows(rows)[s].cells) : v[k] = VarlenOf(cols, rows, s, j)
    BY <2>1
  <2>3. PICK i \in 1..Len(rows) : SortedRows(rows)[s] = rows[i]
    BY <1>1, RowsSorted
  <2>4. DOMAIN rows = 1..Len(rows) /\ DOMAIN rows[i].cells = 1..Len(rows[i].cells)
    BY <1>1, Vector DEF GoodRows, GoodRow
  <2>5. rows[i].cells[j].size >= 2
    BY <2>2, <2>3, <2>4 DEF WideCells
  <2>6. VarlenOf(cols, rows, s, j).size = SortedRows(rows)[s].cells[j].size
    BY DEF VarlenOf
  <2> QED BY <2>2, <2>3, <2>5, <2>6
<1>8. TotalSize(v) >= 2 * n /\ TotalSize(v) \in Nat
  <2> HIDE DEF v
  <2>1. /\ IsVector(tail) /\ Len(tail) = n /\ \A k \in 1..n : tail[k] = v[k].size
    BY <1>6, SizesVector
  <2> HIDE DEF tail
  <2>2. \A k \in 1..Len(tail) : tail[k] \in Nat /\ tail[k] >= 2
    BY <1>6, <1>7, <2>1
  <2>3. EndsOf(tail)[Len(tail)] >= 2 * Len(tail)
    BY <2>1, <2>2, TwoBytesEach
  <2>4. EndsOf(tail)[Len(tail)] \in Nat
    <3>1. Len(tail) \in 0..Len(tail)
      BY <1>6, <2>1
    <3>2. \A k \in 1..Len(tail) : tail[k] \in Nat
      BY <2>2
    <3> QED BY <2>1, <3>1, <3>2, EndsAscend
  <2>5. TotalSize(v) = EndsOf(tail)[Len(tail)]
    BY <2>1 DEF TotalSize, tail
  <2> QED BY <2>1, <2>3, <2>4, <2>5
<1>9. EstimateHnSize(cols, rows, promote) >= 42 + TotalSize(v) + PageMapBytes(3 + n)
  <2> DEFINE matrix == IF promote THEN 0 ELSE MatrixSize(cols, rows)
             total == 8 + TcInfoSize(cols) + 8 * Len(rows) + TotalSize(v) + matrix
             raw == HnHdrSize + total
             aligned == ((raw + 3) \div 4) * 4
             more == IF promote THEN 0 ELSE 1
             count == 3 + n + more
             odd == IF raw # aligned THEN 1 ELSE 0
  <2>1. EstimateHnSize(cols, rows, promote) = aligned + PageMapBytes(count + odd)
    BY DEF EstimateHnSize
  <2>2. Len(rows) \in Nat /\ Len(cols) \in Nat /\ matrix \in Nat
    BY <1>1, <1>4, RowsSorted, RowRegions, Columns DEF MatrixSize
  <2>3. more \in Nat
    OBVIOUS
  <2> HIDE DEF v, n, matrix, more, promote
  <2>4. raw \in Nat /\ raw >= 42 + TotalSize(v)
    BY <1>8, <2>2 DEF HnHdrSize, TcInfoSize
  <2> HIDE DEF total, raw
  <2>5. aligned \in Nat /\ aligned >= raw
    BY <2>4, RoundingUp
  <2> HIDE DEF aligned
  <2>6. odd \in Nat
    OBVIOUS
  <2> HIDE DEF odd
  <2>7. PageMapBytes(count + odd) >= PageMapBytes(3 + n)
    BY <1>6, <2>3, <2>6 DEF PageMapBytes, HnPageMapHdrSize, HnPageMapEntrySize, v, n
  <2>8. PageMapBytes(count + odd) \in Nat /\ PageMapBytes(3 + n) \in Nat
    BY <1>6, <2>3, <2>6 DEF PageMapBytes, HnPageMapHdrSize, HnPageMapEntrySize, v, n
  <2> QED BY <1>8, <2>1, <2>4, <2>5, <2>7, <2>8
<1>10. EstimateHnSize(cols, rows, promote) \in Nat
  <2> HIDE DEF promote
  <2> QED BY <1>1, <1>3, <1>4, EstimateIsNeed
<1>11. Leading(promote) \in {3, 4} /\ pad \in {0, 1}
  BY DEF Leading
<1>12. PageMapBytes(3 + n) = 4 + ((3 + n) + 1) * 2
  BY DEF PageMapBytes, HnPageMapHdrSize, HnPageMapEntrySize
<1> DEFINE estimate == EstimateHnSize(cols, rows, promote)
           taken == TotalSize(v)
           slots == Leading(promote)
<1>13. /\ estimate \in Nat /\ BlockBody \in Nat /\ estimate <= BlockBody /\ BlockBody <= 8176
       /\ estimate >= 42 + taken + (4 + ((3 + n) + 1) * 2)
       /\ taken >= 2 * n /\ taken \in Nat /\ n \in Nat
       /\ slots \in {3, 4} /\ pad \in {0, 1}
  BY <1>4, <1>6, <1>8, <1>9, <1>10, <1>11, <1>12, HeapAssumption
<1> HIDE DEF estimate, taken, slots, pad, n
<1>14. (slots + n) + pad < 2048
  BY ONLY <1>13
<1>15. tc.hn.cAlloc = (slots + n) + pad
  BY <1>3, <1>5 DEF slots
<1> QED BY <1>14, <1>15 DEF HidIndexes

(***************************************************************************)
(* With a block of the size the code has, and cells no shorter than those  *)
(* its callers give, everything written to a table reads back.             *)
(***************************************************************************)
THEOREM WideCellsReadBack ==
  ASSUME BlockBody <= 8176
  PROVE  Spec => [](WideCells => RowsReadBack)
<1>1. TableInv => (WideCells => Identified)
  BY WideCellsIdentified
<1> QED BY <1>1, AlwaysTables, IdentifiedReadBack, PTL
=============================================================================
