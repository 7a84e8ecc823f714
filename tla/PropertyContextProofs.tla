----------------------- MODULE PropertyContextProofs ------------------------
(***************************************************************************)
(* Property contexts, for every list of properties, whatever their sizes,  *)
(* and every identifier a caller offers: the heap that is built holds each *)
(* value under its identifier as long as 16 bits count its bytes; the      *)
(* reader finds the leaf and decodes every record of it to the property it *)
(* was written for; no heap larger than a block is returned; and the       *)
(* identifiers of the values moved to subnodes are distinct.               *)
(*                                                                         *)
(* Induction is on a set of numbers that would otherwise have a smallest   *)
(* missing one.                                                            *)
(***************************************************************************)
EXTENDS PropertyContext, FiniteSetTheorems, WellFoundedInduction, TLAPS

-----------------------------------------------------------------------------
(* Vectors, and the places where the values of a vector end. *)

(***************************************************************************)
(* A vector of anything.                                                   *)
(***************************************************************************)
IsVector(s) == \E S : s \in Seq(S)

(***************************************************************************)
(* A vector is a function over an initial piece of the positive numbers.   *)
(***************************************************************************)
LEMMA Vector ==
  ASSUME NEW s, IsVector(s)
  PROVE  Len(s) \in Nat /\ DOMAIN s = 1..Len(s)
BY DEF IsVector

(***************************************************************************)
(* And such a function is a vector.                                        *)
(***************************************************************************)
LEMMA FunctionIsVector ==
  ASSUME NEW n \in Nat, NEW f, f = [i \in 1..n |-> f[i]]
  PROVE  IsVector(f) /\ Len(f) = n /\ DOMAIN f = 1..n
<1>1. f \in [1..n -> {f[i] : i \in 1..n}]
  OBVIOUS
<1>2. f \in Seq({f[i] : i \in 1..n}) /\ Len(f) = n /\ DOMAIN f = 1..n
  BY <1>1
<1> QED BY <1>2 DEF IsVector

(***************************************************************************)
(* Induction on natural numbers, for sets of them.                         *)
(***************************************************************************)
LEMMA Induction ==
  ASSUME NEW S, 0 \in S, \A n \in Nat : n \in S => n + 1 \in S
  PROVE  Nat \subseteq S
<1> DEFINE R == {ss \in Nat \X Nat : ss[1] < ss[2]}
<1>1. IsWellFoundedOn(R, Nat)
  BY NatLessThanWellFounded DEF OpToRel
<1> SUFFICES ASSUME Nat \ S # {} PROVE FALSE
  OBVIOUS
<1>2. PICK x \in Nat \ S : \A y \in Nat \ S : ~ (<<y, x>> \in R)
  <2> HIDE DEF R
  <2> QED BY <1>1, WFMin
<1>3. x # 0 /\ x - 1 \in Nat /\ x - 1 < x /\ x - 1 + 1 = x
  OBVIOUS
<1>4. <<x - 1, x>> \in R
  BY <1>3
<1>5. x - 1 \in S
  BY <1>2, <1>3, <1>4
<1> QED BY <1>3, <1>5

(***************************************************************************)
(* The ends of a heap's allocations: each begins where the one before it   *)
(* ends.                                                                   *)
(***************************************************************************)
LEMMA EndsStepwise ==
  ASSUME NEW sizes, IsVector(sizes)
  PROVE  /\ EndsOf(sizes)[0] = 0
         /\ \A i \in 1..Len(sizes) : EndsOf(sizes)[i] = EndsOf(sizes)[i - 1] + sizes[i]
<1> DEFINE n == Len(sizes)
           Upto(f, i) == IF i = 0 THEN 0 ELSE f[i - 1] + sizes[i]
           Grows(f, m) == f = [i \in 0..m |-> Upto(f, i)]
           S == {m \in Nat : m <= n => \E f : Grows(f, m)}
<1>1. n \in Nat
  BY Vector
<1>2. 0 \in S
  <2> DEFINE f == [i \in 0..0 |-> 0]
  <2>1. \A i \in 0..0 : i = 0
    OBVIOUS
  <2>2. Grows(f, 0)
    BY <2>1
  <2>3. \E h : Grows(h, 0)
    <3> HIDE DEF Grows, f
    <3> QED BY <2>2
  <2> HIDE DEF Grows
  <2> QED BY <2>3
<1>3. ASSUME NEW m \in Nat, m \in S PROVE m + 1 \in S
  <2> HIDE DEF Grows
  <2> SUFFICES ASSUME m + 1 <= n PROVE \E f : Grows(f, m + 1)
    OBVIOUS
  <2>1. PICK f : Grows(f, m)
    BY <1>1, <1>3
  <2> HIDE DEF Upto
  <2> DEFINE g == [i \in 0..(m + 1) |-> IF i = m + 1 THEN Upto(f, m + 1) ELSE f[i]]
  <2>2. \A i \in 0..m : f[i] = Upto(f, i)
    BY <2>1 DEF Grows
  <2>3. ASSUME NEW i \in 0..(m + 1) PROVE g[i] = Upto(g, i)
    <3>1. i = 0 \/ (i - 1 \in 0..m /\ i - 1 # m + 1 /\ i - 1 \in 0..(m + 1))
      OBVIOUS
    <3>2. Upto(g, i) = Upto(f, i)
      <4>1. CASE i = 0
        BY <4>1 DEF Upto
      <4>2. CASE i # 0
        <5>1. g[i - 1] = f[i - 1]
          BY <3>1, <4>2
        <5> HIDE DEF g
        <5> QED BY <5>1 DEF Upto
      <4> QED BY <4>1, <4>2
    <3>3. CASE i = m + 1
      BY <3>2, <3>3
    <3>4. CASE i # m + 1
      <4>1. i \in 0..m /\ g[i] = f[i]
        BY <3>4
      <4> QED BY <2>2, <3>2, <4>1
    <3> QED BY <3>3, <3>4
  <2>4. g = [i \in 0..(m + 1) |-> g[i]]
    OBVIOUS
  <2> HIDE DEF g
  <2>5. [i \in 0..(m + 1) |-> g[i]] = [i \in 0..(m + 1) |-> Upto(g, i)]
    BY <2>3
  <2>6. Grows(g, m + 1)
    BY <2>4, <2>5 DEF Grows
  <2> QED BY <2>6
<1>4. n \in S
  <2> HIDE DEF S
  <2> QED BY <1>1, <1>2, <1>3, Induction
<1>5. \E f : Grows(f, n)
  <2> HIDE DEF Grows
  <2> QED BY <1>1, <1>4
<1> DEFINE ends == CHOOSE f : Grows(f, n)
<1>6. Grows(ends, n)
  <2> HIDE DEF Grows
  <2> QED BY <1>5
<1>7. EndsOf(sizes) = ends
  BY DEF EndsOf
<1> HIDE DEF ends
<1>8. \A i \in 0..n : ends[i] = Upto(ends, i)
  <2> HIDE DEF Upto
  <2> QED BY <1>6
<1>9. ends[0] = 0
  <2>1. 0 \in 0..n
    BY <1>1
  <2> QED BY <1>8, <2>1
<1>10. \A i \in 1..n : ends[i] = ends[i - 1] + sizes[i]
  <2>1. \A i \in 1..n : i \in 0..n /\ i # 0
    BY <1>1
  <2> QED BY <1>8, <2>1
<1> QED BY <1>7, <1>9, <1>10

(***************************************************************************)
(* They never decrease.                                                    *)
(***************************************************************************)
LEMMA EndsAscend ==
  ASSUME NEW sizes, IsVector(sizes), \A i \in 1..Len(sizes) : sizes[i] \in Nat
  PROVE  \A j \in 0..Len(sizes) : /\ EndsOf(sizes)[j] \in Nat
                                  /\ \A i \in 0..j : EndsOf(sizes)[i] <= EndsOf(sizes)[j]
<1> DEFINE n == Len(sizes)
           e == EndsOf(sizes)
           S == {j \in Nat : j <= n => /\ e[j] \in Nat
                                      /\ \A i \in 0..j : e[i] \in Nat /\ e[i] <= e[j]}
<1>1. n \in Nat
  BY Vector
<1>2. e[0] = 0 /\ \A i \in 1..n : e[i] = e[i - 1] + sizes[i]
  BY EndsStepwise
<1> HIDE DEF n, e
<1>3. 0 \in S
  BY <1>2
<1>4. ASSUME NEW m \in Nat, m \in S PROVE m + 1 \in S
  <2> SUFFICES ASSUME m + 1 <= n
               PROVE  /\ e[m + 1] \in Nat
                      /\ \A i \in 0..(m + 1) : e[i] \in Nat /\ e[i] <= e[m + 1]
    OBVIOUS
  <2>1. m <= n /\ m + 1 \in 1..n /\ (m + 1) - 1 = m
    BY <1>1
  <2>2. e[m + 1] = e[m] + sizes[m + 1]
    BY <1>2, <2>1
  <2>3. sizes[m + 1] \in Nat
    BY <2>1 DEF n
  <2>4. e[m] \in Nat /\ \A i \in 0..m : e[i] \in Nat /\ e[i] <= e[m]
    BY <1>4, <2>1
  <2>5. e[m + 1] \in Nat /\ e[m] <= e[m + 1]
    BY <2>2, <2>3, <2>4
  <2>6. ASSUME NEW i \in 0..(m + 1) PROVE e[i] \in Nat /\ e[i] <= e[m + 1]
    <3>1. CASE i = m + 1
      BY <2>5, <3>1
    <3>2. CASE i # m + 1
      <4>1. i \in 0..m
        BY <3>2
      <4>2. e[i] \in Nat /\ e[i] <= e[m]
        BY <2>4, <4>1
      <4> QED BY <2>4, <2>5, <4>2
    <3> QED BY <3>1, <3>2
  <2> QED BY <2>5, <2>6
<1>5. Nat \subseteq S
  <2> HIDE DEF S
  <2> QED BY <1>3, <1>4, Induction
<1> QED BY <1>1, <1>5 DEF n, e

-----------------------------------------------------------------------------
(* Rounding up and counting. *)

(***************************************************************************)
(* Rounding up to a multiple of four, in the two ways it is written.       *)
(***************************************************************************)
LEMMA RoundingUp ==
  ASSUME NEW e \in Nat
  PROVE  /\ (4 - (e % 4)) % 4 \in 0..3
         /\ ((e + 3) \div 4) * 4 = e + ((4 - (e % 4)) % 4)
<1> DEFINE q == e \div 4
           r == e % 4
<1>1. q \in Nat /\ r \in 0..3 /\ e = 4 * q + r
  BY SMT
<1>2. r \in {0, 1, 2, 3} /\ e % 4 = r
  BY <1>1
<1> HIDE DEF q, r
<1>3. CASE r = 0
  <2>1. (e + 3) \div 4 = q
    BY <1>1, <1>3, SMT
  <2>2. (4 - r) % 4 = 0
    BY <1>3, SMT
  <2> QED BY <1>1, <1>2, <1>3, <2>1, <2>2
<1>4. CASE r # 0
  <2>1. (e + 3) \div 4 = q + 1
    BY <1>1, <1>4, SMT
  <2>2. (4 - r) % 4 = 4 - r
    BY <1>1, <1>4, SMT
  <2> QED BY <1>1, <1>2, <1>4, <2>1, <2>2
<1> QED BY <1>3, <1>4

(***************************************************************************)
(* A number that 16 bits can count is kept.                                *)
(***************************************************************************)
LEMMA Counted ==
  ASSUME NEW m \in Nat \ {0}, NEW a \in Nat, a < m
  PROVE  a % m = a
<1> DEFINE q == a \div m
           r == a % m
<1>1. q \in Nat /\ r \in 0..(m - 1) /\ a = m * q + r
  OBVIOUS
<1> HIDE DEF q, r
<1>2. q = 0
  <2> SUFFICES ASSUME q >= 1 PROVE FALSE
    BY <1>1
  <2>1. m * q >= m
    BY <1>1, SMT
  <2> QED BY <1>1, <2>1
<1> QED BY <1>1, <1>2 DEF r

-----------------------------------------------------------------------------
(* The offsets a heap is written with. *)

Allocated(allocs) == IsVector(allocs) /\ \A i \in 1..Len(allocs) : allocs[i].size \in Nat

(***************************************************************************)
(* The sizes of allocations are a vector as long as theirs.                *)
(***************************************************************************)
LEMMA SizesAreVector ==
  ASSUME NEW allocs, Allocated(allocs)
  PROVE  /\ IsVector(SizesOf(allocs)) /\ Len(SizesOf(allocs)) = Len(allocs)
         /\ \A i \in 1..Len(allocs) : /\ SizesOf(allocs)[i] = allocs[i].size
                                      /\ SizesOf(allocs)[i] \in Nat
<1> DEFINE f == SizesOf(allocs)
<1>1. Len(allocs) \in Nat /\ DOMAIN allocs = 1..Len(allocs)
  BY Vector DEF Allocated
<1>2. \A i \in 1..Len(allocs) : f[i] = allocs[i].size
  BY <1>1 DEF SizesOf
<1>3. f = [i \in 1..Len(allocs) |-> f[i]]
  BY <1>1 DEF SizesOf
<1> HIDE DEF f
<1>4. IsVector(f) /\ Len(f) = Len(allocs)
  BY <1>1, <1>3, FunctionIsVector
<1> QED BY <1>2, <1>4 DEF f, Allocated

(***************************************************************************)
(* As long as 16 bits count a heap's bytes, buildHeapOnNode computes the   *)
(* true offsets: every allocation at the end of the one before, the map    *)
(* behind the padding, the whole as long as it needs to be.                *)
(***************************************************************************)
LEMMA TrueOffsets ==
  ASSUME NEW allocs, Allocated(allocs), NeededBytes(allocs) <= OffsetRange
  PROVE  /\ \A i \in 0..Len(allocs) : /\ Cursor(allocs, i) \in Nat
                                      /\ Cursor(allocs, i) >= HnHdrSize
                                      /\ Cursor(allocs, i) <= Cursor(allocs, Len(allocs))
         /\ \A i \in 1..Len(allocs) :
              Cursor(allocs, i) = Cursor(allocs, i - 1) + allocs[i].size
         /\ \A i \in 0..Len(allocs) : \A j \in 0..i :
              Cursor(allocs, j) <= Cursor(allocs, i)
         /\ MapOffset(allocs) \in Nat /\ Cursor(allocs, Len(allocs)) <= MapOffset(allocs)
         /\ NeededBytes(allocs) = MapOffset(allocs)
              + PageMapBytes(Len(allocs) + IF HasPhantom(allocs) THEN 1 ELSE 0)
<1> DEFINE n == Len(allocs)
           e == EndsOf(SizesOf(allocs))
           end == HnHdrSize + e[n]
           pad == (4 - (end % 4)) % 4
           count == n + IF pad > 0 THEN 1 ELSE 0
<1>1. n \in Nat /\ \A i \in 1..n : allocs[i].size \in Nat
  BY Vector DEF Allocated
<1>2. e[0] = 0 /\ \A i \in 1..n : e[i] = e[i - 1] + allocs[i].size
  BY SizesAreVector, EndsStepwise
<1>3. \A j \in 0..n : e[j] \in Nat /\ \A i \in 0..j : e[i] <= e[j]
  BY SizesAreVector, EndsAscend
<1>4. /\ \A i : Cursor(allocs, i) = (12 + e[i]) % OffsetRange
      /\ NeededBytes(allocs) = end + pad + PageMapBytes(count)
      /\ end = 12 + e[n]
      /\ MapOffset(allocs) = (((Cursor(allocs, n) + 3) \div 4) * 4) % OffsetRange
      /\ HasPhantom(allocs) <=> Cursor(allocs, n) # MapOffset(allocs)
  BY DEF Cursor, NeededBytes, TotalSize, HnHdrSize, MapOffset, HasPhantom
<1>5. OffsetRange \in Nat \ {0}
  BY HeapAssumption
<1> HIDE DEF e
<1>6. end \in Nat /\ n \in 0..n
  BY <1>1, <1>3, <1>4
<1> HIDE DEF end
<1>7. pad \in 0..3 /\ ((end + 3) \div 4) * 4 = end + pad
  BY <1>6, RoundingUp
<1> HIDE DEF pad
<1>8. count \in Nat
  BY <1>1
<1>9. PageMapBytes(count) \in Nat /\ PageMapBytes(count) > 0
  <2> HIDE DEF count
  <2> QED BY <1>8 DEF PageMapBytes, HnPageMapHdrSize, HnPageMapEntrySize
<1>10. end < OffsetRange /\ end + pad < OffsetRange
  <2> DEFINE map == PageMapBytes(count)
  <2>1. end + pad + map <= OffsetRange
    BY <1>4
  <2>2. map \in Nat /\ map > 0
    BY <1>9
  <2> HIDE DEF count, map
  <2> QED BY ONLY <1>5, <1>6, <1>7, <2>1, <2>2
<1>11. \A i \in 0..n : Cursor(allocs, i) = 12 + e[i]
  <2> SUFFICES ASSUME NEW i \in 0..n PROVE Cursor(allocs, i) = 12 + e[i]
    OBVIOUS
  <2>1. e[i] \in Nat /\ e[i] <= e[n]
    BY <1>3, <1>6
  <2>2. 12 + e[i] \in Nat /\ 12 + e[i] < OffsetRange
    <3>1. end = 12 + e[n] /\ e[n] \in Nat
      BY <1>3, <1>4, <1>6
    <3> QED BY ONLY <1>5, <1>10, <2>1, <3>1
  <2>3. (12 + e[i]) % OffsetRange = 12 + e[i]
    BY ONLY <1>5, <2>2, Counted
  <2> QED BY <1>4, <2>3
<1>12. Cursor(allocs, n) = end
  BY <1>4, <1>6, <1>11
<1>13. MapOffset(allocs) = end + pad
  <2>1. end + pad \in Nat
    BY <1>6, <1>7
  <2>2. (end + pad) % OffsetRange = end + pad
    BY ONLY <1>5, <1>10, <2>1, Counted
  <2> QED BY <1>4, <1>7, <1>12, <2>2
<1>14. HasPhantom(allocs) <=> pad > 0
  BY <1>4, <1>6, <1>7, <1>12, <1>13
<1>15. \A i \in 0..n : \A j \in 0..i : Cursor(allocs, j) <= Cursor(allocs, i)
  <2> SUFFICES ASSUME NEW i \in 0..n, NEW j \in 0..i
               PROVE  Cursor(allocs, j) <= Cursor(allocs, i)
    OBVIOUS
  <2>1. j \in 0..n
    BY <1>1
  <2>2. e[i] \in Nat /\ e[j] \in Nat /\ e[j] <= e[i]
    BY <1>3, <2>1
  <2> QED BY <1>11, <2>1, <2>2
<1>16. \A i \in 1..n : Cursor(allocs, i) = Cursor(allocs, i - 1) + allocs[i].size
  <2> SUFFICES ASSUME NEW i \in 1..n
               PROVE  Cursor(allocs, i) = Cursor(allocs, i - 1) + allocs[i].size
    OBVIOUS
  <2>1. i \in 0..n /\ i - 1 \in 0..n
    BY <1>1
  <2>2. e[i] = e[i - 1] + allocs[i].size /\ e[i - 1] \in Nat /\ allocs[i].size \in Nat
    BY <1>1, <1>2, <1>3, <2>1
  <2> QED BY <1>11, <2>1, <2>2
<1>17. \A i \in 0..n : Cursor(allocs, i) \in Nat /\ Cursor(allocs, i) >= HnHdrSize
  BY <1>3, <1>11 DEF HnHdrSize
<1>18. MapOffset(allocs) \in Nat /\ Cursor(allocs, n) <= MapOffset(allocs)
  BY <1>6, <1>7, <1>12, <1>13
<1>19. NeededBytes(allocs) = MapOffset(allocs)
         + PageMapBytes(n + IF HasPhantom(allocs) THEN 1 ELSE 0)
  BY <1>4, <1>13, <1>14
<1> QED BY <1>6, <1>15, <1>16, <1>17, <1>18, <1>19

(***************************************************************************)
(* The page map: the start of every allocation, then the end of the last.  *)
(***************************************************************************)
LEMMA MapEntries ==
  ASSUME NEW allocs, Allocated(allocs)
  PROVE  /\ Len(Rgib(allocs)) = Len(allocs) + 1 + IF HasPhantom(allocs) THEN 1 ELSE 0
         /\ \A i \in 1..(Len(allocs) + 1) : Rgib(allocs)[i] = Cursor(allocs, i - 1)
<1> DEFINE n == Len(allocs)
           starts == [i \in 1..n |-> Cursor(allocs, i - 1)]
<1>1. n \in Nat
  BY Vector DEF Allocated
<1> HIDE DEF n
<1>2. /\ IsVector(starts) /\ Len(starts) = n
      /\ \A i \in 1..n : starts[i] = Cursor(allocs, i - 1)
  <2>1. starts = [i \in 1..n |-> starts[i]]
    OBVIOUS
  <2>2. \A i \in 1..n : starts[i] = Cursor(allocs, i - 1)
    OBVIOUS
  <2> HIDE DEF starts
  <2> QED BY <1>1, <2>1, <2>2, FunctionIsVector
<1>3. Rgib(allocs) = starts \o (IF HasPhantom(allocs) THEN <<Cursor(allocs, n)>> ELSE <<>>)
                       \o <<MapOffset(allocs)>>
  BY DEF Rgib, n
<1>4. HasPhantom(allocs) <=> Cursor(allocs, n) # MapOffset(allocs)
  BY DEF HasPhantom, n
<1> HIDE DEF starts
<1>5. PICK S : starts \in Seq(S)
  BY <1>2 DEF IsVector
<1> DEFINE T == S \cup {Cursor(allocs, n), MapOffset(allocs)}
<1>6. starts \in Seq(T)
  BY <1>5
<1>7. Cursor(allocs, n) \in T /\ MapOffset(allocs) \in T
  OBVIOUS
<1> HIDE DEF T
<1>8. CASE HasPhantom(allocs)
  <2>1. Rgib(allocs) = starts \o <<Cursor(allocs, n)>> \o <<MapOffset(allocs)>>
    BY <1>3, <1>8
  <2>2. /\ Len(Rgib(allocs)) = n + 2 /\ Rgib(allocs)[n + 1] = Cursor(allocs, n)
        /\ \A i \in 1..n : Rgib(allocs)[i] = starts[i]
    BY <1>1, <1>2, <1>6, <1>7, <2>1
  <2>3. \A i \in 1..(n + 1) : i \in 1..n \/ i = n + 1
    BY <1>1
  <2> QED BY <1>1, <1>2, <1>8, <2>2, <2>3 DEF n
<1>9. CASE ~HasPhantom(allocs)
  <2>1. Rgib(allocs) = starts \o <<Cursor(allocs, n)>>
    <3>1. starts \o <<>> = starts
      BY <1>6
    <3> QED BY <1>3, <1>4, <1>9, <3>1
  <2>2. /\ Len(Rgib(allocs)) = n + 1 /\ Rgib(allocs)[n + 1] = Cursor(allocs, n)
        /\ \A i \in 1..n : Rgib(allocs)[i] = starts[i]
    BY <1>1, <1>2, <1>6, <1>7, <2>1
  <2>3. \A i \in 1..(n + 1) : i \in 1..n \/ i = n + 1
    BY <1>1
  <2> QED BY <1>1, <1>2, <1>9, <2>2, <2>3 DEF n
<1> QED BY <1>8, <1>9

-----------------------------------------------------------------------------
(* What a reader finds under an identifier. *)

(***************************************************************************)
(* The parts of a heap identifier whose index fits eleven bits.            *)
(***************************************************************************)
LEMMA HidParts ==
  ASSUME NEW i \in Nat, i < HidIndexes
  PROVE  /\ MakeHid(i) \in Nat /\ HidType(MakeHid(i)) = 0
         /\ HidIndex(MakeHid(i)) = i /\ HidBlock(MakeHid(i)) = 0
<1>1. i < 2048 /\ MakeHid(i) = (i % 2048) * 32
  BY DEF HidIndexes, MakeHid
<1>2. i % 2048 = i
  BY <1>1, SMT
<1>3. MakeHid(i) = i * 32
  BY <1>1, <1>2
<1>4. (i * 32) % 32 = 0 /\ (i * 32) \div 32 = i
  BY SMT
<1>5. (i * 32) \div 65536 = 0
  BY <1>1, SMT
<1>6. 32 * 2048 = 65536
  OBVIOUS
<1> QED BY <1>2, <1>3, <1>4, <1>5, <1>6 DEF HidType, HidIndex, HidBlock, HidIndexes

(***************************************************************************)
(* The bytes of an allocation, in a heap whose bytes 16 bits can count: no *)
(* other was written to the same place.                                    *)
(***************************************************************************)
LEMMA BytesFound ==
  ASSUME NEW allocs, Allocated(allocs), NeededBytes(allocs) <= OffsetRange,
         NEW client, NEW root, NEW i \in 1..Len(allocs)
  PROVE  Bytes(BuildHeapOnNode(allocs, client, root),
               Cursor(allocs, i - 1), Cursor(allocs, i))
           = IF allocs[i].size = 0 THEN Nothing ELSE allocs[i].data
<1> DEFINE n == Len(allocs)
           h == BuildHeapOnNode(allocs, client, root)
           at(j) == Cursor(allocs, j - 1)
           whole == {k \in DOMAIN h.placed :
                       /\ h.placed[k].at = at(i)
                       /\ h.placed[k].size = Cursor(allocs, i) - at(i)
                       /\ HnHdrSize <= at(i) /\ Cursor(allocs, i) <= h.ibHnpm
                       /\ \A j \in DOMAIN h.placed \ {k} :
                             \/ h.placed[j].size = 0
                             \/ Apart(h.placed[k], h.placed[j])}
<1>1. n \in Nat /\ DOMAIN allocs = 1..n /\ \A j \in 1..n : allocs[j].size \in Nat
  BY Vector DEF Allocated
<1>2. /\ DOMAIN h.placed = 1..n /\ h.ibHnpm = MapOffset(allocs)
      /\ \A j \in 1..n : /\ h.placed[j].at = at(j) /\ h.placed[j].size = allocs[j].size
                         /\ h.placed[j].data = allocs[j].data
  BY <1>1 DEF BuildHeapOnNode
<1>3. Bytes(h, at(i), Cursor(allocs, i))
        = IF Cursor(allocs, i) = at(i) THEN Nothing
          ELSE IF whole = {} THEN Garbage
          ELSE h.placed[CHOOSE k \in whole : TRUE].data
  BY DEF Bytes
<1> HIDE DEF h, n
<1>4. /\ \A j \in 1..n : /\ at(j) \in Nat /\ Cursor(allocs, j) \in Nat
                         /\ Cursor(allocs, j) = at(j) + allocs[j].size
                         /\ HnHdrSize <= at(j)
      /\ \A k, j \in 1..n : k < j => Cursor(allocs, k) <= at(j)
      /\ MapOffset(allocs) \in Nat /\ Cursor(allocs, i) <= MapOffset(allocs)
  <2>1. /\ \A j \in 0..n : /\ Cursor(allocs, j) \in Nat
                           /\ Cursor(allocs, j) >= HnHdrSize
                           /\ Cursor(allocs, j) <= Cursor(allocs, n)
        /\ \A j \in 1..n : Cursor(allocs, j) = Cursor(allocs, j - 1) + allocs[j].size
        /\ \A j \in 0..n : \A k \in 0..j : Cursor(allocs, k) <= Cursor(allocs, j)
        /\ MapOffset(allocs) \in Nat /\ Cursor(allocs, n) <= MapOffset(allocs)
    BY TrueOffsets DEF n
  <2>2. \A j \in 1..n : j \in 0..n /\ j - 1 \in 0..n
    BY <1>1
  <2>3. \A k, j \in 1..n : k < j => k \in 0..(j - 1)
    BY <1>1
  <2>4. i \in 0..n /\ n \in 0..n
    BY <1>1 DEF n
  <2>5. HnHdrSize \in Nat
    BY DEF HnHdrSize
  <2>6. \A j \in 1..n : at(j) \in Nat /\ HnHdrSize <= at(j)
    BY <2>1, <2>2, <2>5
  <2>7. \A k, j \in 1..n : k < j => Cursor(allocs, k) <= at(j)
    BY <2>1, <2>2, <2>3
  <2>8. Cursor(allocs, i) <= MapOffset(allocs)
    BY <2>1, <2>4
  <2> QED BY <2>1, <2>2, <2>6, <2>7, <2>8
<1>5. i \in 1..n
  BY DEF n
<1> HIDE DEF at
<1>6. CASE allocs[i].size = 0
  <2>1. at(i) \in Nat /\ Cursor(allocs, i) = at(i) + allocs[i].size
    BY <1>4, <1>5
  <2>2. Cursor(allocs, i) = at(i)
    BY <1>6, <2>1
  <2>3. Bytes(h, at(i), Cursor(allocs, i)) = Nothing
    BY <1>3, <2>2
  <2> QED BY <1>6, <2>3 DEF h, at
<1>7. CASE allocs[i].size # 0
  <2>1. Cursor(allocs, i) # at(i) /\ allocs[i].size > 0
    BY <1>1, <1>4, <1>5, <1>7
  <2>2. i \in whole
    <3>1. ASSUME NEW j \in 1..n, j # i PROVE Apart(h.placed[i], h.placed[j])
      <4>1. i < j \/ j < i
        BY <1>1, <1>5, <3>1
      <4>2. CASE i < j
        <5>1. at(i) + allocs[i].size <= at(j)
          BY <1>4, <1>5, <4>2
        <5> QED BY <1>2, <1>5, <5>1 DEF Apart
      <4>3. CASE j < i
        <5>1. at(j) + allocs[j].size <= at(i)
          BY <1>4, <1>5, <4>3
        <5> QED BY <1>2, <1>5, <5>1 DEF Apart
      <4> QED BY <4>1, <4>2, <4>3
    <3>2. h.placed[i].at = at(i) /\ h.placed[i].size = Cursor(allocs, i) - at(i)
      <4>1. /\ at(i) \in Nat /\ allocs[i].size \in Nat
            /\ Cursor(allocs, i) = at(i) + allocs[i].size
        BY <1>1, <1>4, <1>5
      <4>2. Cursor(allocs, i) - at(i) = allocs[i].size
        BY ONLY <4>1
      <4> QED BY <1>2, <1>5, <4>2
    <3> QED BY <1>2, <1>4, <1>5, <3>1, <3>2
  <2>3. ASSUME NEW k \in whole PROVE k = i
    <3>1. k \in 1..n /\ at(k) = at(i)
      BY <1>2
    <3>2. allocs[k].size = allocs[i].size
      BY <1>1, <1>2, <1>4, <1>5, <3>1
    <3> SUFFICES ASSUME k # i PROVE FALSE
      OBVIOUS
    <3>3. k < i \/ i < k
      BY <1>1, <1>5, <3>1
    <3>4. at(k) + allocs[k].size <= at(i) \/ at(i) + allocs[i].size <= at(k)
      BY <1>4, <1>5, <3>1, <3>3
    <3>5. at(i) \in Nat /\ allocs[i].size \in Nat
      BY <1>1, <1>4, <1>5
    <3> HIDE DEF whole
    <3> QED BY ONLY <2>1, <3>1, <3>2, <3>4, <3>5
  <2>4. whole # {} /\ (CHOOSE k \in whole : TRUE) = i
    <3> HIDE DEF whole
    <3>1. (CHOOSE k \in whole : TRUE) \in whole
      BY <2>2
    <3> QED BY <2>2, <2>3, <3>1
  <2>5. h.placed[i].data = allocs[i].data
    BY <1>2, <1>5
  <2> HIDE DEF whole
  <2>6. Bytes(h, at(i), Cursor(allocs, i)) = allocs[i].data
    BY <1>3, <2>1, <2>4, <2>5
  <2> QED BY <1>7, <2>6 DEF h, at
<1> QED BY <1>6, <1>7

(***************************************************************************)
(* What resolveHidInSingleBlockHn finds under the index of an allocation   *)
(* is that allocation, neither cut nor lengthened.                         *)
(***************************************************************************)
LEMMA AllocationFound ==
  ASSUME NEW allocs, Allocated(allocs), NeededBytes(allocs) <= OffsetRange,
         NEW client, NEW root, NEW i \in 1..Len(allocs),
         NEW hid, HidType(hid) = 0, HidIndex(hid) = i, HidBlock(hid) = 0
  PROVE  LET r == ResolveHid(hid, BuildHeapOnNode(allocs, client, root))
         IN  /\ r.ok /\ r.size = allocs[i].size
             /\ r.data = IF allocs[i].size = 0 THEN Nothing ELSE allocs[i].data
<1> DEFINE n == Len(allocs)
           h == BuildHeapOnNode(allocs, client, root)
           more == IF HasPhantom(allocs) THEN 1 ELSE 0
<1>1. n \in Nat /\ allocs[i].size \in Nat /\ i \in 1..n
  BY Vector DEF Allocated
<1>2. /\ Len(Rgib(allocs)) = n + 1 + more
      /\ \A k \in 1..(n + 1) : Rgib(allocs)[k] = Cursor(allocs, k - 1)
  BY MapEntries
<1>3. /\ h.rgib = Rgib(allocs) /\ h.cAlloc = Len(Rgib(allocs)) - 1
      /\ h.ibHnpm = MapOffset(allocs)
      /\ h.size = MapOffset(allocs) + PageMapBytes(Len(Rgib(allocs)) - 1)
  BY DEF BuildHeapOnNode
<1>4. /\ MapOffset(allocs) \in Nat /\ Cursor(allocs, n) <= MapOffset(allocs)
      /\ Cursor(allocs, n) \in Nat /\ Cursor(allocs, i) <= Cursor(allocs, n)
      /\ Cursor(allocs, i) = Cursor(allocs, i - 1) + allocs[i].size
      /\ Cursor(allocs, i - 1) \in Nat /\ Cursor(allocs, i) \in Nat
  <2>1. i \in 0..n /\ i - 1 \in 0..n /\ n \in 0..n
    BY <1>1
  <2> HIDE DEF n
  <2>2. /\ \A j \in 0..n : /\ Cursor(allocs, j) \in Nat
                           /\ Cursor(allocs, j) <= Cursor(allocs, n)
        /\ \A j \in 1..n : Cursor(allocs, j) = Cursor(allocs, j - 1) + allocs[j].size
        /\ MapOffset(allocs) \in Nat /\ Cursor(allocs, n) <= MapOffset(allocs)
    BY TrueOffsets DEF n
  <2> QED BY <1>1, <2>1, <2>2
<1>5. more \in 0..1
  OBVIOUS
<1> HIDE DEF h, n, more
<1>6. Len(Rgib(allocs)) - 1 = n + more /\ i <= n + more
  BY <1>1, <1>2, <1>5
<1>7. /\ h.rgib[i] = Cursor(allocs, i - 1) /\ h.rgib[i + 1] = Cursor(allocs, i)
  <2>1. i \in 1..(n + 1) /\ i + 1 \in 1..(n + 1) /\ (i + 1) - 1 = i
    BY <1>1
  <2> QED BY <1>2, <1>3, <2>1
<1>8. h.size = MapOffset(allocs) + 4 + (n + more + 1) * 2
  <2>1. PageMapBytes(n + more) = 4 + (n + more + 1) * 2
    BY DEF PageMapBytes, HnPageMapHdrSize, HnPageMapEntrySize
  <2>2. h.size = MapOffset(allocs) + (4 + (n + more + 1) * 2)
    BY <1>3, <1>6, <2>1
  <2>3. MapOffset(allocs) \in Nat /\ n \in Nat /\ more \in 0..1
    BY <1>1, <1>4, <1>5
  <2> QED BY ONLY <2>2, <2>3
<1>9. /\ i # 0 /\ i <= h.cAlloc
      /\ h.ibHnpm + HnPageMapHdrSize + (i + 1) * HnPageMapEntrySize <= h.size
      /\ h.rgib[i] <= h.rgib[i + 1] /\ h.rgib[i + 1] <= h.size
  <2>1. h.cAlloc = n + more /\ h.ibHnpm = MapOffset(allocs)
    BY <1>3, <1>6
  <2>2. /\ i \in 1..n /\ n \in Nat /\ more \in 0..1 /\ allocs[i].size \in Nat
        /\ i <= n + more
    BY <1>1, <1>5, <1>6
  <2>3. i # 0 /\ i <= h.cAlloc
    BY <2>1, <2>2
  <2>4. MapOffset(allocs) + 4 + (i + 1) * 2 <= MapOffset(allocs) + 4 + (n + more + 1) * 2
    BY ONLY <1>4, <2>2, SMTT(30)
  <2>5. Cursor(allocs, i - 1) <= Cursor(allocs, i)
    BY ONLY <1>4, <2>2
  <2>6. Cursor(allocs, i) <= MapOffset(allocs) + 4 + (n + more + 1) * 2
    BY ONLY <1>4, <2>2
  <2>7. HnPageMapHdrSize = 4 /\ HnPageMapEntrySize = 2
    BY DEF HnPageMapHdrSize, HnPageMapEntrySize
  <2> QED BY <1>7, <1>8, <2>1, <2>3, <2>4, <2>5, <2>6, <2>7
<1>10. ResolveHid(hid, h)
         = [ok |-> TRUE, size |-> h.rgib[i + 1] - h.rgib[i],
            data |-> Bytes(h, h.rgib[i], h.rgib[i + 1])]
  BY <1>9 DEF ResolveHid
<1>11. h.rgib[i + 1] - h.rgib[i] = allocs[i].size
  BY <1>1, <1>4, <1>7, SMTT(30)
<1>12. Bytes(h, Cursor(allocs, i - 1), Cursor(allocs, i))
         = IF allocs[i].size = 0 THEN Nothing ELSE allocs[i].data
  BY BytesFound DEF h
<1> QED BY <1>7, <1>10, <1>11, <1>12 DEF h

-----------------------------------------------------------------------------
(* Sorting by key. *)

(***************************************************************************)
(* Sorting records of different keys: each of them has one place, and the  *)
(* keys ascend.                                                            *)
(***************************************************************************)
LEMMA SortingByKey ==
  ASSUME NEW records, IsVector(records), \A i \in 1..Len(records) : records[i].key \in Nat,
         \A i, j \in 1..Len(records) : records[i].key = records[j].key => i = j
  PROVE  /\ SortedIdx(records) \in [1..Len(records) -> 1..Len(records)]
         /\ \A k, h \in 1..Len(records) : k < h =>
              records[SortedIdx(records)[k]].key < records[SortedIdx(records)[h]].key
<1> DEFINE n == Len(records)
           key(i) == records[i].key
           Below(i) == {j \in 1..n : \/ key(j) < key(i)
                                     \/ key(j) = key(i) /\ j <= i}
<1>1. n \in Nat /\ DOMAIN records = 1..n
  BY Vector
<1>2. /\ \A i \in 1..n : key(i) \in Nat
      /\ \A i, j \in 1..n : key(i) = key(j) => i = j
  OBVIOUS
<1>3. ASSUME NEW i PROVE PlaceOf(records, i) = Cardinality(Below(i))
  <2> DEFINE there == {j \in DOMAIN records :
                         \/ KeyLess(records[j], records[i])
                         \/ records[j].key = records[i].key /\ j <= i}
  <2>1. PlaceOf(records, i) = Cardinality(there)
    BY DEF PlaceOf
  <2>2. \A j : j \in there <=> j \in Below(i)
    <3> SUFFICES ASSUME NEW j PROVE j \in there <=> j \in Below(i)
      OBVIOUS
    <3>1. j \in DOMAIN records <=> j \in 1..n
      BY ONLY <1>1
    <3> HIDE DEF n
    <3> QED BY ONLY <3>1 DEF KeyLess
  <2> HIDE DEF there, Below
  <2>3. there = Below(i)
    BY <2>2
  <2> QED BY <2>1, <2>3
<1>4. SortedIdx(records) = [k \in 1..n |-> CHOOSE i \in 1..n : PlaceOf(records, i) = k]
  BY <1>1 DEF SortedIdx
<1> HIDE DEF n, key
<1>5. IsFiniteSet(1..n) /\ Cardinality(1..n) = n
  BY <1>1, FS_Interval
<1>6. ASSUME NEW i \in 1..n
      PROVE  IsFiniteSet(Below(i)) /\ i \in Below(i) /\ Cardinality(Below(i)) \in 1..n
  <2>1. Below(i) \in SUBSET (1..n) /\ i \in Below(i)
    BY <1>1, <1>2
  <2> HIDE DEF Below
  <2>2. IsFiniteSet(Below(i)) /\ Cardinality(Below(i)) <= n
    BY ONLY <1>5, <2>1, FS_Subset
  <2>3. Cardinality(Below(i)) \in Nat /\ Cardinality(Below(i)) # 0
    BY <2>1, <2>2, FS_CardinalityType, FS_EmptySet
  <2> QED BY <1>1, <2>1, <2>2, <2>3
<1>7. ASSUME NEW a \in 1..n, NEW b \in 1..n, key(a) < key(b)
      PROVE  Cardinality(Below(a)) < Cardinality(Below(b))
  <2>1. Below(a) \subseteq Below(b)
    BY ONLY <1>1, <1>2, <1>7
  <2>2. b \notin Below(a)
    BY <1>1, <1>2, <1>7
  <2>3. Below(a) # Below(b)
    BY <1>6, <2>2
  <2> HIDE DEF Below
  <2>4. Below(a) \in SUBSET Below(b)
    BY <2>1
  <2>5. Cardinality(Below(a)) <= Cardinality(Below(b))
        /\ Cardinality(Below(a)) # Cardinality(Below(b))
    BY <1>6, <2>3, <2>4, FS_Subset
  <2>6. Cardinality(Below(a)) \in 1..n /\ Cardinality(Below(b)) \in 1..n
    BY <1>6
  <2> QED BY <1>1, <2>5, <2>6
<1> DEFINE place == [i \in 1..n |-> Cardinality(Below(i))]
<1>8. place \in Injection(1..n, 1..n)
  <2> HIDE DEF Below
  <2>1. place \in [1..n -> 1..n]
    BY <1>6
  <2>2. ASSUME NEW i \in 1..n, NEW j \in 1..n, place[i] = place[j] PROVE i = j
    <3> SUFFICES ASSUME i # j PROVE FALSE
      OBVIOUS
    <3>1. key(i) # key(j) /\ key(i) \in Nat /\ key(j) \in Nat
      BY <1>2
    <3>2. key(i) < key(j) \/ key(j) < key(i)
      BY <3>1
    <3>3. Cardinality(Below(i)) \in 1..n /\ Cardinality(Below(j)) \in 1..n
      BY <1>6
    <3>4. place[i] = Cardinality(Below(i)) /\ place[j] = Cardinality(Below(j))
      OBVIOUS
    <3>5. Cardinality(Below(i)) < Cardinality(Below(j))
            \/ Cardinality(Below(j)) < Cardinality(Below(i))
      BY <1>7, <3>2
    <3> HIDE DEF place
    <3>6. /\ place[i] \in 1..n /\ place[j] \in 1..n
          /\ place[i] < place[j] \/ place[j] < place[i]
      BY ONLY <3>3, <3>4, <3>5
    <3>7. place[i] \in Nat
      BY ONLY <1>1, <3>6
    <3> QED BY ONLY <2>2, <3>6, <3>7
  <2> HIDE DEF place
  <2> QED BY <2>1, <2>2 DEF Injection, IsInjective
<1>9. \A k \in 1..n : \E i \in 1..n : place[i] = k
  <2> HIDE DEF place
  <2>1. place \in Surjection(1..n, 1..n)
    BY <1>5, <1>8, FS_Injection
  <2> QED BY <2>1 DEF Surjection
<1> DEFINE p == SortedIdx(records)
<1>10. \A i \in 1..n : PlaceOf(records, i) = place[i]
  <2> HIDE DEF Below
  <2> QED BY <1>3
<1>11. ASSUME NEW k \in 1..n PROVE p[k] \in 1..n /\ place[p[k]] = k
  <2> HIDE DEF place
  <2>1. \E i \in 1..n : PlaceOf(records, i) = k
    BY <1>9, <1>10
  <2>2. p[k] \in 1..n /\ PlaceOf(records, p[k]) = k
    BY <1>4, <2>1
  <2> HIDE DEF p
  <2> QED BY <1>10, <2>2
<1>12. p = [k \in 1..n |-> p[k]]
  BY <1>4
<1> HIDE DEF p
<1>13. p \in [1..n -> 1..n]
  BY <1>11, <1>12
<1>14. ASSUME NEW k \in 1..n, NEW h \in 1..n, k < h PROVE key(p[k]) < key(p[h])
  <2>1. p[k] \in 1..n /\ p[h] \in 1..n /\ place[p[k]] = k /\ place[p[h]] = h
    BY <1>11
  <2>2. key(p[k]) \in Nat /\ key(p[h]) \in Nat
    BY <1>2, <2>1
  <2>3. key(p[k]) # key(p[h])
    <3>1. p[k] # p[h]
      BY <1>1, <1>14, <2>1, SMTT(30)
    <3> QED BY <1>2, <2>1, <3>1
  <2>4. ~ (key(p[h]) < key(p[k]))
    <3> SUFFICES ASSUME key(p[h]) < key(p[k]) PROVE FALSE
      OBVIOUS
    <3> HIDE DEF Below
    <3>1. Cardinality(Below(p[h])) < Cardinality(Below(p[k]))
      BY <1>7, <2>1
    <3>2. Cardinality(Below(p[h])) = h /\ Cardinality(Below(p[k])) = k
      BY <2>1
    <3> QED BY <1>1, <1>14, <3>1, <3>2
  <2> QED BY ONLY <2>2, <2>3, <2>4
<1> QED BY <1>13, <1>14 DEF p, n, key

-----------------------------------------------------------------------------
(* The properties stored one way. *)

(***************************************************************************)
(* How many of a list's first properties are stored the given way: one     *)
(* more with each that is, as many as before with any other.               *)
(***************************************************************************)
LEMMA BeforeCounts ==
  ASSUME NEW ps, NEW how
  PROVE  /\ Before(ps, 0, how) = 0
         /\ \A i \in Nat : /\ Before(ps, i, how) \in 0..i
                           /\ Before(ps, i + 1, how) = Before(ps, i, how)
                                + IF ResolveStorage(ps[i + 1]) = how THEN 1 ELSE 0
         /\ \A i \in Nat : \A j \in 0..i : Before(ps, j, how) <= Before(ps, i, how)
<1> DEFINE D(i) == {j \in 1..i : ResolveStorage(ps[j]) = how}
<1>1. \A i : Before(ps, i, how) = Cardinality(D(i))
  BY DEF Before
<1>2. ASSUME NEW i \in Nat PROVE IsFiniteSet(D(i)) /\ Cardinality(D(i)) \in 0..i
  <2>1. IsFiniteSet(1..i) /\ Cardinality(1..i) = i
    BY FS_Interval
  <2>2. D(i) \in SUBSET (1..i)
    OBVIOUS
  <2> HIDE DEF D
  <2>3. IsFiniteSet(D(i)) /\ Cardinality(D(i)) <= i
    BY ONLY <2>1, <2>2, FS_Subset
  <2>4. Cardinality(D(i)) \in Nat
    BY <2>3, FS_CardinalityType
  <2> QED BY <2>3, <2>4
<1>3. ASSUME NEW i \in Nat
      PROVE  Cardinality(D(i + 1)) = Cardinality(D(i))
                + IF ResolveStorage(ps[i + 1]) = how THEN 1 ELSE 0
  <2>1. i + 1 \in 1..(i + 1) /\ i + 1 \notin 1..i
    OBVIOUS
  <2>2. \A j : j \in 1..(i + 1) <=> j \in 1..i \/ j = i + 1
    OBVIOUS
  <2>3. Cardinality(D(i)) \in Nat
    BY <1>2
  <2>4. CASE ResolveStorage(ps[i + 1]) = how
    <3>1. D(i + 1) = D(i) \cup {i + 1} /\ i + 1 \notin D(i)
      BY <2>1, <2>2, <2>4
    <3> HIDE DEF D
    <3>2. Cardinality(D(i) \cup {i + 1}) = Cardinality(D(i)) + 1
      BY <1>2, <3>1, FS_AddElement
    <3> QED BY <2>4, <3>1, <3>2
  <2>5. CASE ResolveStorage(ps[i + 1]) # how
    <3>1. D(i + 1) = D(i)
      BY <2>1, <2>2, <2>5
    <3> HIDE DEF D
    <3> QED BY <2>3, <2>5, <3>1
  <2> QED BY <2>4, <2>5
<1>4. Cardinality(D(0)) = 0
  BY <1>2
<1>5. ASSUME NEW i \in Nat, NEW j \in 0..i
      PROVE  Cardinality(D(j)) <= Cardinality(D(i))
  <2>1. D(j) \in SUBSET D(i)
    OBVIOUS
  <2> HIDE DEF D
  <2> QED BY <1>2, <2>1, FS_Subset
<1> QED BY <1>1, <1>2, <1>3, <1>4, <1>5

(***************************************************************************)
(* Kept lists the properties stored the given way: each where it is        *)
(* counted, and nothing else.                                              *)
(***************************************************************************)
LEMMA KeptInOrder ==
  ASSUME NEW ps, IsVector(ps), NEW how
  PROVE  /\ IsVector(Kept(ps, how)) /\ Len(Kept(ps, how)) = Before(ps, Len(ps), how)
         /\ Before(ps, Len(ps), how) \in 0..Len(ps)
         /\ \A i \in 1..Len(ps) : ResolveStorage(ps[i]) = how =>
              /\ Before(ps, i, how) \in 1..Before(ps, Len(ps), how)
              /\ Kept(ps, how)[Before(ps, i, how)] = ps[i]
         /\ \A k \in 1..Before(ps, Len(ps), how) :
              \E i \in 1..Len(ps) : ResolveStorage(ps[i]) = how /\ Kept(ps, how)[k] = ps[i]
<1> DEFINE n == Len(ps)
           c(i) == Before(ps, i, how)
           Is(i, k) == ResolveStorage(ps[i]) = how /\ c(i) = k
           kept == Kept(ps, how)
           S == {i \in Nat : i <= n => \A k \in 1..c(i) : \E j \in 1..i : Is(j, k)}
<1>1. n \in Nat /\ DOMAIN ps = 1..n
  BY Vector
<1>2. kept = [k \in 1..c(n) |-> ps[CHOOSE i \in 1..n : Is(i, k)]]
  BY <1>1 DEF Kept
<1>3. /\ c(0) = 0
      /\ \A i \in Nat : /\ c(i) \in 0..i
                        /\ c(i + 1) = c(i) + IF ResolveStorage(ps[i + 1]) = how THEN 1 ELSE 0
      /\ \A i \in Nat : \A j \in 0..i : c(j) <= c(i)
  BY BeforeCounts
<1> HIDE DEF n, c
<1>4. ASSUME NEW i \in 1..n, NEW j \in 1..n, ResolveStorage(ps[i]) = how,
             ResolveStorage(ps[j]) = how, c(i) = c(j)
      PROVE  i = j
  <2>1. ASSUME NEW a \in 1..n, NEW b \in 1..n, ResolveStorage(ps[b]) = how, a < b
        PROVE  c(a) < c(b)
    <3>1. b - 1 \in Nat /\ a \in Nat /\ (b - 1) + 1 = b /\ a \in 0..(b - 1)
      BY <1>1, <2>1
    <3>2. c(b) = c(b - 1) + 1 /\ c(b - 1) \in 0..(b - 1)
      BY <1>3, <2>1, <3>1
    <3>3. c(a) <= c(b - 1) /\ c(a) \in 0..a
      BY <1>3, <3>1
    <3> QED BY ONLY <3>1, <3>2, <3>3
  <2>2. c(i) \in Nat
    <3>1. i \in Nat
      BY <1>1
    <3> QED BY <1>3, <3>1
  <2>3. ~(i < j) /\ ~(j < i)
    BY <1>4, <2>1, <2>2
  <2> QED BY <1>1, <2>3
<1>5. 0 \in S
  BY <1>3
<1>6. ASSUME NEW m \in Nat, m \in S PROVE m + 1 \in S
  <2> SUFFICES ASSUME m + 1 <= n, NEW k \in 1..c(m + 1)
               PROVE  \E j \in 1..(m + 1) : Is(j, k)
    OBVIOUS
  <2>1. \A l \in 1..c(m) : \E j \in 1..m : Is(j, l)
    BY <1>1, <1>6
  <2>2. c(m) \in 0..m
    BY <1>3
  <2>3. \A j \in 1..m : j \in 1..(m + 1)
    OBVIOUS
  <2>4. CASE ResolveStorage(ps[m + 1]) = how
    <3>1. c(m + 1) = c(m) + 1
      BY <1>3, <2>4
    <3>2. k \in 1..c(m) \/ k = c(m + 1)
      BY <2>2, <3>1
    <3>3. m + 1 \in 1..(m + 1)
      OBVIOUS
    <3>4. CASE k \in 1..c(m)
      BY <2>1, <2>3, <3>4
    <3>5. CASE k = c(m + 1)
      BY <2>4, <3>3, <3>5
    <3> QED BY <3>2, <3>4, <3>5
  <2>5. CASE ResolveStorage(ps[m + 1]) # how
    <3>1. c(m + 1) = c(m)
      BY <1>3, <2>2, <2>5
    <3> HIDE DEF Is
    <3> QED BY <2>1, <2>3, <3>1
  <2> QED BY <2>4, <2>5
<1>7. \A k \in 1..c(n) : \E i \in 1..n : Is(i, k)
  <2>1. Nat \subseteq S
    <3> HIDE DEF S
    <3> QED BY <1>5, <1>6, Induction
  <2> QED BY <1>1, <2>1
<1>8. \A k \in 1..c(n) : \E i \in 1..n : ResolveStorage(ps[i]) = how /\ kept[k] = ps[i]
  <2> SUFFICES ASSUME NEW k \in 1..c(n)
               PROVE  \E i \in 1..n : ResolveStorage(ps[i]) = how /\ kept[k] = ps[i]
    OBVIOUS
  <2> DEFINE i == CHOOSE j \in 1..n : Is(j, k)
  <2>1. i \in 1..n /\ Is(i, k)
    <3> HIDE DEF Is
    <3> QED BY <1>7
  <2>2. kept[k] = ps[i]
    BY <1>2
  <2> HIDE DEF i, kept
  <2> QED BY <2>1, <2>2
<1>9. ASSUME NEW i \in 1..n, ResolveStorage(ps[i]) = how
      PROVE  c(i) \in 1..c(n) /\ kept[c(i)] = ps[i]
  <2>1. i - 1 \in Nat /\ (i - 1) + 1 = i /\ i \in 0..n /\ i \in Nat
    BY <1>1
  <2>2. c(i) = c(i - 1) + 1 /\ c(i - 1) \in 0..(i - 1)
    BY <1>3, <1>9, <2>1
  <2>3. c(i) <= c(n) /\ c(n) \in 0..n
    BY <1>1, <1>3, <2>1
  <2>4. c(i) \in 1..c(n)
    BY ONLY <1>1, <2>1, <2>2, <2>3
  <2> DEFINE j == CHOOSE j \in 1..n : Is(j, c(i))
  <2>5. j \in 1..n /\ Is(j, c(i))
    BY <1>9
  <2>6. kept[c(i)] = ps[j]
    BY <1>2, <2>4
  <2> HIDE DEF j
  <2>7. j = i
    BY <1>4, <1>9, <2>5
  <2> QED BY <2>4, <2>6, <2>7
<1>10. c(n) \in 0..n
  BY <1>1, <1>3
<1>11. IsVector(kept) /\ Len(kept) = c(n)
  <2>1. kept = [k \in 1..c(n) |-> kept[k]]
    BY <1>2
  <2> HIDE DEF kept
  <2>2. c(n) \in Nat
    BY <1>1, <1>10
  <2> QED BY <2>1, <2>2, FunctionIsVector
<1> QED BY <1>8, <1>9, <1>10, <1>11 DEF n, c

-----------------------------------------------------------------------------
(* The records of a context. *)

(***************************************************************************)
(* A property as PropBuilder and the callers with descriptors of their own *)
(* give it.                                                                *)
(***************************************************************************)
WellDescribed(p) ==
  /\ p.tag \in Nat /\ p.size \in Nat
  /\ p.hint \in {"Auto", "Subnode"}
  /\ FitsRecord(p.type) => p.hint = "Auto"

Gathered(ps) == IsVector(ps) /\ \A i \in 1..Len(ps) : WellDescribed(ps[i])

(***************************************************************************)
(* A gathered list without duplicate tags, in the order of its tags.       *)
(***************************************************************************)
LEMMA SortedByTag ==
  ASSUME NEW ps, Gathered(ps), ~DuplicateTag(ps)
  PROVE  /\ Gathered(Sorted(ps)) /\ Len(Sorted(ps)) = Len(ps)
         /\ \A k \in 1..Len(ps) : \E i \in 1..Len(ps) : Sorted(ps)[k] = ps[i]
         /\ \A k, h \in 1..Len(ps) : k < h => Sorted(ps)[k].tag < Sorted(ps)[h].tag
<1> DEFINE n == Len(ps)
           keys == [i \in DOMAIN ps |-> [key |-> ps[i].tag]]
           p == SortedIdx(keys)
           s == Sorted(ps)
<1>1. n \in Nat /\ DOMAIN ps = 1..n /\ \A i \in 1..n : WellDescribed(ps[i])
  BY Vector DEF Gathered
<1>2. \A i, j \in 1..n : ps[i].tag = ps[j].tag => i = j
  BY <1>1 DEF DuplicateTag
<1>3. s = [k \in 1..n |-> ps[p[k]]]
  BY <1>1 DEF Sorted
<1>4. keys = [i \in 1..n |-> keys[i]] /\ \A i \in 1..n : keys[i].key = ps[i].tag
  BY <1>1
<1> HIDE DEF n, keys
<1>5. IsVector(keys) /\ Len(keys) = n
  BY <1>1, <1>4, FunctionIsVector
<1>6. /\ \A i \in 1..n : keys[i].key \in Nat
      /\ \A i, j \in 1..n : keys[i].key = keys[j].key => i = j
  BY <1>1, <1>2, <1>4 DEF WellDescribed
<1>7. /\ p \in [1..n -> 1..n]
      /\ \A k, h \in 1..n : k < h => keys[p[k]].key < keys[p[h]].key
  BY <1>5, <1>6, SortingByKey
<1> HIDE DEF p
<1>8. \A k \in 1..n : p[k] \in 1..n /\ s[k] = ps[p[k]]
  BY <1>3, <1>7
<1>9. s = [k \in 1..n |-> s[k]]
  BY <1>3
<1> HIDE DEF s
<1>10. IsVector(s) /\ Len(s) = n
  BY <1>1, <1>9, FunctionIsVector
<1>11. \A k, h \in 1..n : k < h => s[k].tag < s[h].tag
  <2> SUFFICES ASSUME NEW k \in 1..n, NEW h \in 1..n, k < h PROVE s[k].tag < s[h].tag
    OBVIOUS
  <2>1. keys[p[k]].key < keys[p[h]].key
    BY <1>7
  <2> QED BY <1>4, <1>8, <2>1
<1>12. \A k \in 1..n : WellDescribed(s[k])
  BY <1>1, <1>8
<1> QED BY <1>8, <1>10, <1>11, <1>12 DEF Gathered, n, s

(***************************************************************************)
(* The leaf of a context's B-tree: a record for every property, in the     *)
(* order of the tags, and no more of them than have an index.              *)
(***************************************************************************)
LEMMA LeafRecords ==
  ASSUME NEW ps, Gathered(ps), NEW first,
         \A k, h \in 1..Len(ps) : k < h => ps[k].tag < ps[h].tag,
         LeafOf(ps, first).ok
  PROVE  /\ LeafOf(ps, first).size = Len(ps) * 8 /\ Len(ps) + 2 < HidIndexes
         /\ LeafOf(ps, first).data.kind = "leaf"
         /\ IsVector(LeafOf(ps, first).data.records)
         /\ Len(LeafOf(ps, first).data.records) = Len(ps)
         /\ \A k \in 1..Len(ps) : \E i \in 1..Len(ps) :
              LeafOf(ps, first).data.records[k] = LeafRecord(ps, i, first)
         /\ \A k, h \in 1..Len(ps) : k < h =>
              LeafOf(ps, first).data.records[k].key < LeafOf(ps, first).data.records[h].key
<1> DEFINE n == Len(ps)
           recs == [i \in DOMAIN ps |-> LeafRecord(ps, i, first)]
           p == SortedIdx(recs)
           s == SortedByKey(recs)
<1>1. n \in Nat /\ DOMAIN ps = 1..n /\ \A i \in 1..n : WellDescribed(ps[i])
  BY Vector DEF Gathered
<1>2. recs = [i \in 1..n |-> recs[i]]
      /\ \A i \in 1..n : recs[i] = LeafRecord(ps, i, first)
  BY <1>1
<1>3. LeafOf(ps, first) = BuildBthLeafRecords(recs, 2, 6)
  BY DEF LeafOf
<1> HIDE DEF n, recs
<1>4. IsVector(recs) /\ Len(recs) = n /\ DOMAIN recs = 1..n
  BY <1>1, <1>2, FunctionIsVector
<1>5. \A i \in 1..n : recs[i].key = ps[i].tag
  BY <1>2 DEF LeafRecord
<1>6. /\ \A i \in 1..n : recs[i].key \in Nat
      /\ \A i, j \in 1..n : recs[i].key = recs[j].key => i = j
  <2>1. \A i \in 1..n : recs[i].key \in Nat
    BY <1>1, <1>5 DEF WellDescribed
  <2> SUFFICES ASSUME NEW i \in 1..n, NEW j \in 1..n, recs[i].key = recs[j].key, i # j
               PROVE  FALSE
    BY <2>1
  <2>2. i < j \/ j < i
    BY <1>1
  <2>3. recs[i].key < recs[j].key \/ recs[j].key < recs[i].key
    BY <1>5, <2>2 DEF n
  <2>4. recs[i].key \in Nat
    BY <2>1
  <2> QED BY ONLY <2>2, <2>3, <2>4, recs[i].key = recs[j].key
<1>7. /\ Len(recs) * (2 + 6) <= AllocMax
      /\ LeafOf(ps, first) = [ok |-> TRUE, size |-> Len(recs) * (2 + 6),
                              data |-> [kind |-> "leaf", records |-> s]]
  <2>1. 2 \in {1, 2, 4, 8, 16} /\ 6 \in 1..32
    OBVIOUS
  <2>2. LeafOf(ps, first)
          = IF Len(recs) * (2 + 6) > AllocMax
            THEN [ok |-> FALSE, why |-> "length_error"]
            ELSE [ok |-> TRUE, size |-> Len(recs) * (2 + 6),
                  data |-> [kind |-> "leaf", records |-> s]]
    BY <1>3, <2>1 DEF BuildBthLeafRecords
  <2>3. ~(Len(recs) * (2 + 6) > AllocMax)
    <3> HIDE DEF s
    <3> QED BY <2>2
  <2>4. Len(recs) * (2 + 6) \in Nat /\ AllocMax \in Nat
    BY <1>1, <1>4, HeapAssumption
  <2> QED BY <2>2, <2>3, <2>4
<1>8. /\ p \in [1..n -> 1..n]
      /\ \A k, h \in 1..n : k < h => recs[p[k]].key < recs[p[h]].key
  BY <1>4, <1>6, SortingByKey
<1>9. s = [k \in 1..n |-> recs[p[k]]]
  BY <1>4 DEF SortedByKey
<1> HIDE DEF p
<1>10. \A k \in 1..n : p[k] \in 1..n /\ s[k] = recs[p[k]]
  BY <1>8, <1>9
<1>11. s = [k \in 1..n |-> s[k]]
  BY <1>9
<1> HIDE DEF s
<1>12. IsVector(s) /\ Len(s) = n
  BY <1>1, <1>11, FunctionIsVector
<1>13. n + 2 < HidIndexes /\ Len(recs) * (2 + 6) = n * 8
  <2>1. n * 8 <= AllocMax
    BY <1>4, <1>7
  <2>2. AllocMax < 8 * (2048 - 2) /\ AllocMax \in Nat
    BY IndexAssumption, HeapAssumption DEF HidIndexes
  <2>3. n + 2 < 2048
    BY ONLY <1>1, <2>1, <2>2
  <2> QED BY <1>4, <2>3 DEF HidIndexes
<1>14. \A k \in 1..n : s[k] = LeafRecord(ps, p[k], first)
  BY <1>2, <1>10
<1>15. \A k, h \in 1..n : k < h => s[k].key < s[h].key
  BY <1>8, <1>10
<1>16. \A k \in 1..n : \E i \in 1..n : s[k] = LeafRecord(ps, i, first)
  BY <1>10, <1>14
<1>17. /\ LeafOf(ps, first).size = n * 8
       /\ LeafOf(ps, first).data.kind = "leaf" /\ LeafOf(ps, first).data.records = s
  BY <1>7, <1>13
<1> QED BY <1>12, <1>13, <1>15, <1>16, <1>17 DEF n

(***************************************************************************)
(* The allocations of a context's heap: slots 1 and 2 are the B-tree, the  *)
(* values kept in the heap follow.                                         *)
(***************************************************************************)
LEMMA ContextAllocations ==
  ASSUME NEW ps, Gathered(ps), NEW first, LeafOf(ps, first).size \in Nat
  PROVE  LET allocs == Allocations(ps, first)
             kept   == Kept(ps, "HnAlloc")
         IN  /\ Allocated(allocs) /\ Len(allocs) = 2 + Len(kept) /\ Len(kept) \in Nat
             /\ allocs[1].size = 8 /\ allocs[1].data = BthHeader(2, 6, 0, MakeHid(2))
             /\ allocs[2].size = LeafOf(ps, first).size
             /\ allocs[2].data = LeafOf(ps, first).data
             /\ \A k \in 1..Len(kept) : /\ allocs[2 + k].size = kept[k].size
                                        /\ allocs[2 + k].data = ValueData(kept[k])
<1> DEFINE kept == Kept(ps, "HnAlloc")
           m == Len(kept)
           A == [size |-> 8, data |-> BthHeader(2, 6, 0, MakeHid(2))]
           B == [size |-> LeafOf(ps, first).size, data |-> LeafOf(ps, first).data]
           values == [i \in DOMAIN kept |-> [size |-> kept[i].size,
                                             data |-> ValueData(kept[i])]]
           allocs == Allocations(ps, first)
<1>1. /\ IsVector(kept)
      /\ \A k \in 1..m : \E i \in 1..Len(ps) : kept[k] = ps[i]
  BY KeptInOrder DEF Gathered
<1>2. m \in Nat /\ DOMAIN kept = 1..m
  BY <1>1, Vector
<1>3. \A k \in 1..m : kept[k].size \in Nat
  BY <1>1 DEF Gathered, WellDescribed
<1>4. allocs = <<A, B>> \o values
  BY DEF Allocations
<1>5. /\ A.size = 8 /\ A.data = BthHeader(2, 6, 0, MakeHid(2))
      /\ B.size = LeafOf(ps, first).size /\ B.data = LeafOf(ps, first).data
  OBVIOUS
<1> HIDE DEF A, B
<1>6. /\ values = [k \in 1..m |-> values[k]]
      /\ \A k \in 1..m : /\ values[k].size = kept[k].size
                         /\ values[k].data = ValueData(kept[k])
  BY <1>2
<1> HIDE DEF kept, m, values, allocs
<1>7. IsVector(values) /\ Len(values) = m
  BY <1>2, <1>6, FunctionIsVector
<1>8. PICK S : values \in Seq(S)
  BY <1>7 DEF IsVector
<1> DEFINE T == S \cup {A, B}
<1>9. values \in Seq(T) /\ <<A, B>> \in Seq(T)
  BY <1>8
<1> HIDE DEF T
<1>10. /\ allocs \in Seq(T) /\ Len(allocs) = 2 + m
       /\ allocs[1] = A /\ allocs[2] = B
       /\ \A k \in 1..m : allocs[2 + k] = values[k]
  BY <1>2, <1>4, <1>7, <1>9
<1>11. IsVector(allocs)
  BY <1>10 DEF IsVector
<1>12. ASSUME NEW i \in 1..(2 + m) PROVE allocs[i].size \in Nat
  <2>1. i = 1 \/ i = 2 \/ (i - 2 \in 1..m /\ 2 + (i - 2) = i)
    BY <1>2
  <2>2. CASE i - 2 \in 1..m /\ 2 + (i - 2) = i
    <3>1. allocs[2 + (i - 2)] = values[i - 2] /\ values[i - 2].size \in Nat
      BY <1>3, <1>6, <1>10, <2>2
    <3> QED BY <2>2, <3>1
  <2> QED BY <1>5, <1>10, <2>1, <2>2
<1>13. Allocated(allocs)
  BY <1>10, <1>11, <1>12 DEF Allocated
<1> QED BY <1>2, <1>5, <1>6, <1>10, <1>13 DEF allocs, kept, m

(***************************************************************************)
(* How many bytes they need does not depend on the identifier the subnodes *)
(* are numbered from.                                                      *)
(***************************************************************************)
LEMMA NeededWhatever ==
  ASSUME NEW ps, Gathered(ps), NEW first, NEW second,
         LeafOf(ps, first).size \in Nat, LeafOf(ps, first).size = LeafOf(ps, second).size
  PROVE  NeededBytes(Allocations(ps, first)) = NeededBytes(Allocations(ps, second))
<1> DEFINE kept == Kept(ps, "HnAlloc")
           a == Allocations(ps, first)
           b == Allocations(ps, second)
<1>1. /\ Allocated(a) /\ Len(a) = 2 + Len(kept) /\ Len(kept) \in Nat
      /\ a[1].size = 8 /\ a[2].size = LeafOf(ps, first).size
      /\ \A k \in 1..Len(kept) : a[2 + k].size = kept[k].size
  BY ContextAllocations
<1>2. /\ Allocated(b) /\ Len(b) = 2 + Len(kept)
      /\ b[1].size = 8 /\ b[2].size = LeafOf(ps, first).size
      /\ \A k \in 1..Len(kept) : b[2 + k].size = kept[k].size
  BY ContextAllocations
<1> HIDE DEF a, b, kept
<1>3. ASSUME NEW i \in 1..(2 + Len(kept)) PROVE a[i].size = b[i].size
  <2>1. i = 1 \/ i = 2 \/ (i - 2 \in 1..Len(kept) /\ 2 + (i - 2) = i)
    BY <1>1
  <2>2. CASE i - 2 \in 1..Len(kept) /\ 2 + (i - 2) = i
    <3>1. a[2 + (i - 2)].size = kept[i - 2].size /\ b[2 + (i - 2)].size = kept[i - 2].size
      BY <1>1, <1>2, <2>2
    <3> QED BY <2>2, <3>1
  <2> QED BY <1>1, <1>2, <2>1, <2>2
<1>4. DOMAIN a = 1..(2 + Len(kept)) /\ DOMAIN b = 1..(2 + Len(kept))
  BY <1>1, <1>2, Vector DEF Allocated
<1>5. SizesOf(a) = SizesOf(b)
  <2>1. /\ SizesOf(a) = [i \in 1..(2 + Len(kept)) |-> a[i].size]
        /\ SizesOf(b) = [i \in 1..(2 + Len(kept)) |-> b[i].size]
    BY <1>4 DEF SizesOf
  <2> QED BY <1>3, <2>1
<1>6. NeededBytes(a) = NeededBytes(b)
  BY <1>1, <1>2, <1>5 DEF NeededBytes, TotalSize
<1> QED BY <1>6 DEF a, b

(***************************************************************************)
(* A context that buildPropertyContext returned, its subnodes numbered     *)
(* from first.                                                             *)
(***************************************************************************)
BuiltFrom(first) ==
  /\ first \in Nat /\ HidType(first) # 0
  /\ ~DuplicateTag(props) /\ \A i \in 1..Len(props) : ~Malformed(props[i])
  /\ LeafOf(Sorted(props), first).ok
  /\ pc.hn = BuildHeapOnNode(Allocations(Sorted(props), first), "PC", MakeHid(1))
  /\ pc.subnodes = Promoted(Sorted(props), first)
  /\ ~(pc.hn.size > BlockBody)

(***************************************************************************)
(* The sorted properties of a context that was built are well described    *)
(* and well formed, and are the properties that were gathered.             *)
(***************************************************************************)
LEMMA SortedProperties ==
  ASSUME Gathered(props), NEW first, BuiltFrom(first)
  PROVE  /\ Gathered(Sorted(props)) /\ Len(Sorted(props)) = Len(props)
         /\ Len(props) \in Nat
         /\ \A k \in 1..Len(props) : /\ ~Malformed(Sorted(props)[k])
                                     /\ \E i \in 1..Len(props) : Sorted(props)[k] = props[i]
         /\ \A k, h \in 1..Len(props) : k < h => Sorted(props)[k].tag < Sorted(props)[h].tag
<1>1. /\ Gathered(Sorted(props)) /\ Len(Sorted(props)) = Len(props)
      /\ \A k \in 1..Len(props) : \E i \in 1..Len(props) : Sorted(props)[k] = props[i]
      /\ \A k, h \in 1..Len(props) : k < h => Sorted(props)[k].tag < Sorted(props)[h].tag
  BY SortedByTag DEF BuiltFrom
<1>2. \A k \in 1..Len(props) : ~Malformed(Sorted(props)[k])
  BY <1>1 DEF BuiltFrom
<1>3. Len(props) \in Nat
  BY Vector DEF Gathered
<1> QED BY <1>1, <1>2, <1>3

(***************************************************************************)
(* What the reader finds in the heap of a context whose bytes 16 bits can  *)
(* count: the header, the leaf and every value under its identifier.       *)
(***************************************************************************)
LEMMA HeapReadable ==
  ASSUME Gathered(props), NEW first, BuiltFrom(first), Needed <= OffsetRange,
         NEW ps, ps = Sorted(props)
  PROVE  /\ pc.hn.size = Needed /\ Needed \in Nat
         /\ HeaderValid(pc.hn) /\ PcBthValid(RootHeader(pc.hn))
         /\ RootHeader(pc.hn).data.hidRoot = MakeHid(2)
         /\ LET l == ResolveHid(MakeHid(2), pc.hn)
            IN  /\ l.ok /\ l.size = Len(ps) * 8
                /\ l.size # 0 => l.data = LeafOf(ps, first).data
         /\ \A i \in 1..Len(ps) : ResolveStorage(ps[i]) = "HnAlloc" =>
              LET r == ResolveHid(PropHid(ps, i), pc.hn)
              IN  /\ HidType(PropHid(ps, i)) = 0
                  /\ r.ok /\ r.size = ps[i].size
                  /\ r.data = IF ps[i].size = 0 THEN Nothing ELSE ValueData(ps[i])
<1> DEFINE allocs == Allocations(ps, first)
           kept == Kept(ps, "HnAlloc")
           h == pc.hn
           n == Len(ps)
<1>1. Gathered(ps) /\ n \in Nat /\ \A k, j \in 1..n : k < j => ps[k].tag < ps[j].tag
  BY SortedProperties
<1>2. LeafOf(ps, first).ok /\ h = BuildHeapOnNode(allocs, "PC", MakeHid(1))
  BY DEF BuiltFrom
<1>3. LeafOf(ps, first).size = n * 8 /\ n + 2 < HidIndexes
  BY <1>1, <1>2, LeafRecords
<1>4. n * 8 \in Nat
  BY <1>1
<1>5. /\ Allocated(allocs) /\ Len(allocs) = 2 + Len(kept) /\ Len(kept) \in Nat
      /\ allocs[1].size = 8 /\ allocs[1].data = BthHeader(2, 6, 0, MakeHid(2))
      /\ allocs[2].size = n * 8 /\ allocs[2].data = LeafOf(ps, first).data
      /\ \A k \in 1..Len(kept) : /\ allocs[2 + k].size = kept[k].size
                                 /\ allocs[2 + k].data = ValueData(kept[k])
  <2>1. LeafOf(ps, first).size \in Nat
    BY <1>3, <1>4
  <2> QED BY ONLY <1>1, <1>3, <2>1, ContextAllocations
<1>6. NeededBytes(allocs) = Needed
  <2>1. LeafOf(ps, 1).size = n * 8
    <3>1. LeafOf(ps, 1).ok
      <4> DEFINE f == [i \in DOMAIN ps |-> LeafRecord(ps, i, first)]
                 g == [i \in DOMAIN ps |-> LeafRecord(ps, i, 1)]
      <4>1. DOMAIN ps = 1..n
        BY <1>1, Vector DEF Gathered
      <4>2. f = [i \in 1..n |-> f[i]] /\ g = [i \in 1..n |-> g[i]]
        BY <4>1
      <4>3. LeafOf(ps, first) = BuildBthLeafRecords(f, 2, 6)
            /\ LeafOf(ps, 1) = BuildBthLeafRecords(g, 2, 6)
        BY DEF LeafOf
      <4> HIDE DEF f, g, n
      <4>4. Len(f) = n /\ Len(g) = n
        BY <1>1, <4>2, FunctionIsVector
      <4>5. 2 \in {1, 2, 4, 8, 16} /\ 6 \in 1..32
        OBVIOUS
      <4>6. ~(Len(f) * (2 + 6) > AllocMax)
        BY <1>2, <4>3, <4>5 DEF BuildBthLeafRecords
      <4>7. ~(Len(g) * (2 + 6) > AllocMax)
        BY <4>4, <4>6
      <4> QED BY <4>3, <4>5, <4>7 DEF BuildBthLeafRecords
    <3> QED BY <1>1, <3>1, LeafRecords
  <2>2. NeededBytes(allocs) = NeededBytes(Allocations(ps, 1))
    <3>1. LeafOf(ps, first).size \in Nat /\ LeafOf(ps, first).size = LeafOf(ps, 1).size
      BY <1>3, <1>4, <2>1
    <3> QED BY ONLY <1>1, <3>1, NeededWhatever
  <2> QED BY <2>2 DEF Needed
<1>7. NeededBytes(allocs) <= OffsetRange
  BY <1>6
<1> HIDE DEF allocs, kept, h, n
<1>8. /\ h.client = "PC" /\ h.root = MakeHid(1) /\ h.ibHnpm = MapOffset(allocs)
      /\ h.cAlloc = Len(Rgib(allocs)) - 1
      /\ h.size = MapOffset(allocs) + PageMapBytes(Len(Rgib(allocs)) - 1)
  BY <1>2 DEF BuildHeapOnNode
<1>9. h.size = Needed /\ h.ibHnpm + PageMapBytes(h.cAlloc) = h.size /\ h.size \in Nat
  <2> DEFINE more == IF HasPhantom(allocs) THEN 1 ELSE 0
  <2>1. /\ MapOffset(allocs) \in Nat
        /\ NeededBytes(allocs) = MapOffset(allocs) + PageMapBytes(Len(allocs) + more)
    BY <1>5, <1>7, TrueOffsets
  <2>2. Len(Rgib(allocs)) = Len(allocs) + 1 + more
    BY <1>5, MapEntries
  <2>3. more \in 0..1
    OBVIOUS
  <2> HIDE DEF more
  <2>4. Len(Rgib(allocs)) - 1 = Len(allocs) + more /\ Len(allocs) + more \in Nat
    BY <1>5, <2>2, <2>3
  <2>5. PageMapBytes(Len(allocs) + more) \in Nat
    BY <2>4 DEF PageMapBytes, HnPageMapHdrSize, HnPageMapEntrySize
  <2> QED BY <1>6, <1>8, <2>1, <2>4, <2>5
<1>10. HeaderValid(h)
  BY <1>8, <1>9 DEF HeaderValid
<1>11. ASSUME NEW i \in 1..Len(allocs), i < HidIndexes
       PROVE  LET r == ResolveHid(MakeHid(i), h)
              IN  /\ HidType(MakeHid(i)) = 0 /\ r.ok /\ r.size = allocs[i].size
                  /\ r.data = IF allocs[i].size = 0 THEN Nothing ELSE allocs[i].data
  <2>1. i \in Nat
    BY <1>5
  <2>2. HidType(MakeHid(i)) = 0 /\ HidIndex(MakeHid(i)) = i /\ HidBlock(MakeHid(i)) = 0
    BY <1>11, <2>1, HidParts
  <2>3. Allocated(allocs) /\ i \in 1..Len(allocs)
    BY <1>5
  <2> QED BY <1>2, <1>7, <2>2, <2>3, AllocationFound DEF h
<1>12. 1 \in 1..Len(allocs) /\ 1 < HidIndexes /\ 2 \in 1..Len(allocs) /\ 2 < HidIndexes
  BY <1>5 DEF HidIndexes
<1>13. PcBthValid(RootHeader(h)) /\ RootHeader(h).data.hidRoot = MakeHid(2)
  <2>1. RootHeader(h) = ResolveHid(MakeHid(1), h)
    BY <1>8 DEF RootHeader
  <2>2. /\ RootHeader(h).ok /\ RootHeader(h).size = 8
        /\ RootHeader(h).data = BthHeader(2, 6, 0, MakeHid(2))
    BY <1>5, <1>11, <1>12, <2>1
  <2> QED BY <2>2 DEF PcBthValid, BthHeader
<1>14. /\ ResolveHid(MakeHid(2), h).ok /\ ResolveHid(MakeHid(2), h).size = n * 8
       /\ n * 8 # 0 => ResolveHid(MakeHid(2), h).data = LeafOf(ps, first).data
  BY <1>5, <1>11, <1>12
<1>15. ASSUME NEW i \in 1..n, ResolveStorage(ps[i]) = "HnAlloc"
       PROVE  LET r == ResolveHid(PropHid(ps, i), h)
              IN  /\ HidType(PropHid(ps, i)) = 0
                  /\ r.ok /\ r.size = ps[i].size
                  /\ r.data = IF ps[i].size = 0 THEN Nothing ELSE ValueData(ps[i])
  <2> DEFINE k == Before(ps, i, "HnAlloc")
  <2>1. /\ Len(kept) = Before(ps, n, "HnAlloc") /\ Before(ps, n, "HnAlloc") \in 0..n
        /\ k \in 1..Len(kept) /\ kept[k] = ps[i]
    BY <1>1, <1>15, KeptInOrder DEF Gathered, kept, n
  <2>2. PropHid(ps, i) = MakeHid(2 + k)
    BY DEF PropHid
  <2> HIDE DEF k
  <2>3. 2 + k \in 1..Len(allocs) /\ 2 + k <= n + 2
    BY <1>1, <1>5, <2>1
  <2>4. 2 + k < HidIndexes
    BY <1>1, <1>3, <1>5, <2>1, <2>3 DEF HidIndexes, n
  <2>5. allocs[2 + k].size = ps[i].size /\ allocs[2 + k].data = ValueData(ps[i])
    BY <1>5, <2>1
  <2> QED BY <1>11, <2>2, <2>3, <2>4, <2>5
<1> QED BY <1>9, <1>10, <1>13, <1>14, <1>15 DEF h, n

-----------------------------------------------------------------------------
(* A record and its property. *)

(***************************************************************************)
(* Steps of one index, 32, leave the five bits of the type alone, and no   *)
(* two of the identifiers numbered from a first one are the same.          *)
(***************************************************************************)
LEMMA PropNidNumbering ==
  ASSUME NEW first \in Nat, NEW s \in Nat \ {0}, NEW t \in Nat \ {0}
  PROVE  /\ PropNid(first, s) \in Nat
         /\ HidType(PropNid(first, s)) = HidType(first)
         /\ PropNid(first, s) = PropNid(first, t) => s = t
<1>1. PropNid(first, s) \in Nat
  BY DEF PropNid
<1>2. (first + 32 * (s - 1)) % 32 = first % 32
  BY SMT
<1>3. first + 32 * (s - 1) = first + 32 * (t - 1) => s = t
  BY SMT
<1> QED BY <1>1, <1>2, <1>3 DEF PropNid, HidType

(***************************************************************************)
(* The fixed sizes there are.                                              *)
(***************************************************************************)
LEMMA FixedSizes ==
  ASSUME NEW type
  PROVE  /\ FixedSize(type) \in {0, 1, 2, 4, 8, 16}
         /\ FitsRecord(type) => IsFixedSize(type)
<1>1. FixedSize(type) \in {0, 1, 2, 4, 8, 16}
  BY DEF FixedSize
<1>2. FixedSize(type) \in 1..4 => FixedSize(type) # 0
  OBVIOUS
<1> QED BY <1>1, <1>2 DEF FitsRecord, IsFixedSize

(***************************************************************************)
(* Where a well-formed property is kept, and what its size is then.        *)
(***************************************************************************)
LEMMA WhereKept ==
  ASSUME NEW p, WellDescribed(p), ~Malformed(p)
  PROVE  \/ /\ ResolveStorage(p) = "Inline" /\ FitsRecord(p.type)
            /\ p.hint = "Auto" /\ p.size <= AllocMax
         \/ /\ ResolveStorage(p) = "HnAlloc" /\ ~FitsRecord(p.type)
            /\ p.hint = "Auto" /\ p.size <= AllocMax
         \/ /\ ResolveStorage(p) = "Subnode" /\ ~FitsRecord(p.type)
            /\ p.hint = "Subnode" \/ p.size > AllocMax
<1>1. /\ p.size \in Nat /\ p.hint \in {"Auto", "Subnode"}
      /\ FitsRecord(p.type) => p.hint = "Auto"
      /\ IsFixedSize(p.type) => p.size = FixedSize(p.type)
  BY DEF WellDescribed, Malformed
<1>2. AllocMax \in Nat /\ 16 <= AllocMax
  BY IndexAssumption, HeapAssumption
<1>3. IsFixedSize(p.type) => p.size <= AllocMax
  BY <1>1, <1>2, FixedSizes
<1>4. FitsRecord(p.type) => IsFixedSize(p.type)
  BY FixedSizes
<1>5. CASE p.hint = "Subnode"
  BY <1>1, <1>5 DEF ResolveStorage
<1>6. CASE p.hint = "Auto" /\ FitsRecord(p.type)
  BY <1>3, <1>4, <1>6 DEF ResolveStorage
<1>7. CASE p.hint = "Auto" /\ ~FitsRecord(p.type)
  <2>1. CASE IsFixedSize(p.type) \/ p.size <= AllocMax
    BY <1>3, <1>7, <2>1 DEF ResolveStorage
  <2>2. CASE ~(IsFixedSize(p.type) \/ p.size <= AllocMax)
    <3>1. p.size > AllocMax
      BY <1>1, <1>2, <2>2
    <3>2. ResolveStorage(p) = "Subnode"
      BY <1>7, <2>2 DEF ResolveStorage
    <3> QED BY <1>7, <3>1, <3>2
  <2> QED BY <2>1, <2>2
<1> QED BY <1>1, <1>5, <1>6, <1>7

(***************************************************************************)
(* The subnode of a promoted property: its entry is the only one with its  *)
(* identifier.                                                             *)
(***************************************************************************)
LEMMA SubnodeOfProperty ==
  ASSUME NEW ps, IsVector(ps), NEW first \in Nat, HidType(first) # 0,
         NEW i \in 1..Len(ps), ResolveStorage(ps[i]) = "Subnode"
  PROVE  LET nid == PropNid(first, Before(ps, i, "Subnode"))
             sub == Promoted(ps, first)
         IN  /\ HidType(nid) # 0
             /\ \E s \in DOMAIN sub :
                  /\ sub[s].nid = nid /\ sub[s].tag = ps[i].tag /\ sub[s].size = ps[i].size
                  /\ \A t \in DOMAIN sub : sub[t].nid = nid => t = s
<1> DEFINE k == Before(ps, i, "Subnode")
           m == Before(ps, Len(ps), "Subnode")
           moved == Kept(ps, "Subnode")
           sub == Promoted(ps, first)
<1>1. /\ IsVector(moved) /\ Len(moved) = m /\ m \in 0..Len(ps) /\ k \in 1..m
      /\ moved[k] = ps[i]
  BY KeptInOrder
<1>2. DOMAIN moved = 1..m
  BY <1>1, Vector
<1>3. DOMAIN sub = 1..m
      /\ \A t \in 1..m : /\ sub[t].nid = PropNid(first, t)
                         /\ sub[t].tag = moved[t].tag /\ sub[t].size = moved[t].size
  BY <1>2 DEF Promoted
<1>4. Len(ps) \in Nat
  BY Vector
<1> HIDE DEF k, m, moved, sub
<1>5. m \in Nat /\ \A t \in 1..m : t \in Nat \ {0}
  BY <1>1, <1>4
<1>6. k \in Nat \ {0}
  BY <1>1, <1>5
<1>7. HidType(PropNid(first, k)) # 0
  BY <1>6, PropNidNumbering
<1>8. \A t \in 1..m : PropNid(first, t) = PropNid(first, k) => t = k
  BY <1>5, <1>6, PropNidNumbering
<1>9. sub[k].nid = PropNid(first, k) /\ sub[k].tag = ps[i].tag /\ sub[k].size = ps[i].size
  BY <1>1, <1>3
<1>10. k \in DOMAIN sub /\ \A t \in DOMAIN sub : sub[t].nid = PropNid(first, k) => t = k
  BY <1>1, <1>3, <1>8
<1> QED BY <1>7, <1>9, <1>10 DEF k, sub

(***************************************************************************)
(* A record of the leaf decodes to the property it was written for.        *)
(***************************************************************************)
LEMMA RecordDecodes ==
  ASSUME Gathered(props), NEW first, BuiltFrom(first), Needed <= OffsetRange,
         NEW ps, ps = Sorted(props), NEW i \in 1..Len(ps)
  PROVE  /\ ~Unresolvable(LeafRecord(ps, i, first), pc.hn)
         /\ SameProperty(ps[i], Decoded(LeafRecord(ps, i, first), pc.hn))
<1> DEFINE p == ps[i]
           rec == LeafRecord(ps, i, first)
           q == Decoded(rec, pc.hn)
<1>1. WellDescribed(p) /\ ~Malformed(p) /\ IsVector(ps)
  BY SortedProperties DEF Gathered
<1>2. first \in Nat /\ HidType(first) # 0 /\ pc.subnodes = Promoted(ps, first)
  BY DEF BuiltFrom
<1>3. rec.key = p.tag /\ rec.type = p.type
  BY DEF LeafRecord
<1>4. CASE /\ ResolveStorage(p) = "Inline" /\ FitsRecord(p.type)
           /\ p.hint = "Auto" /\ p.size <= AllocMax
  <2>1. rec.slot = p.value
    BY <1>4 DEF LeafRecord
  <2> HIDE DEF rec
  <2>2. q = [tag |-> p.tag, type |-> p.type, storage |-> "Inline", value |-> p.value]
    BY <1>3, <1>4, <2>1 DEF Decoded
  <2>3. ~Unresolvable(rec, pc.hn)
    BY <1>3, <1>4 DEF Unresolvable
  <2>4. ~(p.size > AllocMax)
    BY <1>1, <1>4, HeapAssumption DEF WellDescribed
  <2> HIDE DEF p, q
  <2>5. SameProperty(p, q)
    BY <1>4, <2>2, <2>4 DEF SameProperty
  <2> QED BY <2>3, <2>5 DEF p, q, rec
<1>5. CASE /\ ResolveStorage(p) = "HnAlloc" /\ ~FitsRecord(p.type)
           /\ p.hint = "Auto" /\ p.size <= AllocMax
  <2>1. rec.slot = PropHid(ps, i)
    BY <1>5 DEF LeafRecord
  <2> DEFINE r == ResolveHid(rec.slot, pc.hn)
  <2>2. /\ HidType(rec.slot) = 0 /\ r.ok /\ r.size = p.size
        /\ r.data = IF p.size = 0 THEN Nothing ELSE ValueData(p)
    BY <1>5, <2>1, HeapReadable
  <2> HIDE DEF rec
  <2>3. q = [tag |-> p.tag, type |-> p.type, storage |-> "HnAlloc",
             value |-> r.data, size |-> r.size]
    BY <1>3, <1>5, <2>2 DEF Decoded
  <2>4. ~Unresolvable(rec, pc.hn)
    BY <2>2 DEF Unresolvable
  <2>5. ~(p.size > AllocMax)
    BY <1>1, <1>5, HeapAssumption DEF WellDescribed
  <2> HIDE DEF p, q, r
  <2>6. SameProperty(p, q)
    BY <1>5, <2>2, <2>3, <2>5 DEF SameProperty
  <2> QED BY <2>4, <2>6 DEF p, q, rec
<1>6. CASE /\ ResolveStorage(p) = "Subnode" /\ ~FitsRecord(p.type)
           /\ p.hint = "Subnode" \/ p.size > AllocMax
  <2> DEFINE nid == PropNid(first, Before(ps, i, "Subnode"))
  <2>1. rec.slot = nid
    BY <1>6 DEF LeafRecord
  <2>2. /\ HidType(nid) # 0
        /\ \E s \in DOMAIN pc.subnodes :
             /\ pc.subnodes[s].nid = nid
             /\ pc.subnodes[s].tag = p.tag /\ pc.subnodes[s].size = p.size
             /\ \A t \in DOMAIN pc.subnodes : pc.subnodes[t].nid = nid => t = s
    BY <1>1, <1>2, <1>6, SubnodeOfProperty
  <2> HIDE DEF rec, nid
  <2>3. q = [tag |-> p.tag, type |-> p.type, storage |-> "Subnode", value |-> nid]
    BY <1>3, <1>6, <2>1, <2>2 DEF Decoded
  <2>4. ~Unresolvable(rec, pc.hn)
    BY <2>1, <2>2 DEF Unresolvable
  <2> HIDE DEF p, q
  <2>5. SameProperty(p, q)
    BY <1>6, <2>2, <2>3 DEF SameProperty
  <2> QED BY <2>4, <2>5 DEF p, q, rec
<1> QED BY <1>1, <1>4, <1>5, <1>6, WhereKept

-----------------------------------------------------------------------------
(* The invariant of building and reading. *)

(***************************************************************************)
(* Where the call stands without a context, and with one.                  *)
(***************************************************************************)
WithoutContext == {"gathering"} \cup Refusals
WithContext == {"built", "reading", "read", "runtime_error"}

(***************************************************************************)
(* The leaf a reader has found is the builder's.                           *)
(***************************************************************************)
LeafFrom(first) ==
  /\ Len(leaf) = Len(props)
  /\ \A k \in 1..Len(props) : \E i \in 1..Len(props) :
       leaf[k] = LeafRecord(Sorted(props), i, first)
  /\ \A k, h \in 1..Len(props) : k < h => leaf[k].key < leaf[h].key

(***************************************************************************)
(* The inductive invariant: what was built was built from the properties   *)
(* that were gathered; what was read is what the records say; and if the   *)
(* heap's bytes can be counted, the records are the builder's and the      *)
(* reader has not failed.                                                  *)
(***************************************************************************)
Context ==
  phase \in WithContext =>
    \E first : /\ BuiltFrom(first)
               /\ Needed <= OffsetRange =>
                    /\ phase # "runtime_error"
                    /\ phase \in {"reading", "read"} => LeafFrom(first)

Reader ==
  /\ IsVector(leaf) /\ IsVector(out) /\ next = Len(out) + 1 /\ Len(out) <= Len(leaf)
  /\ phase \in WithoutContext => pc = Nothing
  /\ phase \in WithoutContext \cup {"built"} => leaf = <<>>
  /\ \A k \in 1..Len(out) : out[k] = Decoded(leaf[k], pc.hn)
  /\ phase = "read" /\ Needed <= OffsetRange => Len(out) = Len(leaf)

ReadingInv ==
  /\ phase \in WithoutContext \cup WithContext
  /\ Gathered(props) /\ Len(props) <= MaxProps
  /\ Context /\ Reader

(***************************************************************************)
(* Before anything is gathered.                                            *)
(***************************************************************************)
LEMMA NothingGathered == Init => ReadingInv
<1> SUFFICES ASSUME Init PROVE ReadingInv
  OBVIOUS
<1>1. /\ props = <<>> /\ phase = "gathering" /\ pc = Nothing
      /\ leaf = <<>> /\ next = 1 /\ out = <<>>
  BY DEF Init
<1>2. IsVector(<<>>) /\ Len(<<>>) = 0
  <2>1. <<>> \in Seq({})
    OBVIOUS
  <2> QED BY <2>1 DEF IsVector
<1>3. Gathered(props)
  BY <1>1, <1>2 DEF Gathered
<1>4. Len(props) <= MaxProps
  BY <1>1, <1>2, FirstNidsAssumption
<1>5. phase \in WithoutContext /\ phase \notin WithContext
  BY <1>1 DEF WithoutContext, WithContext
<1>6. Reader
  BY <1>1, <1>2 DEF Reader
<1> QED BY <1>3, <1>4, <1>5, <1>6 DEF ReadingInv, Context

(***************************************************************************)
(* A property more.                                                        *)
(***************************************************************************)
LEMMA PropertyGathered ==
  ASSUME ReadingInv, NEW p, WellDescribed(p),
         phase = "gathering", Len(props) < MaxProps, props' = Append(props, p),
         UNCHANGED <<phase, pc, leaf, next, out>>
  PROVE  ReadingInv'
<1>1. IsVector(props) /\ Len(props) \in Nat
  BY Vector DEF ReadingInv, Gathered
<1>2. PICK S : props \in Seq(S)
  BY <1>1 DEF IsVector
<1> DEFINE T == S \cup {p}
<1>3. props \in Seq(T) /\ p \in T
  BY <1>2
<1> HIDE DEF T
<1>4. /\ props' \in Seq(T) /\ Len(props') = Len(props) + 1
      /\ \A i \in 1..Len(props) : props'[i] = props[i]
      /\ props'[Len(props) + 1] = p
  BY <1>3
<1>5. \A i \in 1..(Len(props) + 1) : i \in 1..Len(props) \/ i = Len(props) + 1
  BY <1>1
<1>6. \A i \in 1..Len(props) : WellDescribed(props[i])
  BY DEF ReadingInv, Gathered
<1>7. \A i \in 1..Len(props') : WellDescribed(props'[i])
  <2> SUFFICES ASSUME NEW i \in 1..Len(props') PROVE WellDescribed(props'[i])
    OBVIOUS
  <2>1. i \in 1..Len(props) \/ i = Len(props) + 1
    BY <1>4, <1>5
  <2> QED BY <1>4, <1>6, <2>1
<1>8. Gathered(props')
  BY <1>4, <1>7 DEF Gathered, IsVector
<1>9. Len(props') <= MaxProps
  BY <1>1, <1>4, FirstNidsAssumption
<1>10. phase \notin WithContext /\ phase # "read" /\ phase \in WithoutContext
  BY DEF WithContext, WithoutContext
<1>11. Context'
  BY <1>10 DEF Context
<1>12. Reader'
  <2>1. Reader
    BY DEF ReadingInv
  <2> QED BY <1>10, <2>1 DEF Reader
<1> QED BY <1>8, <1>9, <1>10, <1>11, <1>12 DEF ReadingInv

(***************************************************************************)
(* buildPropertyContext: a context from the gathered properties, or a      *)
(* refusal.                                                                *)
(***************************************************************************)
LEMMA ContextBuilt ==
  ASSUME ReadingInv, NEW first \in FirstNids, Build(first)
  PROVE  ReadingInv'
<1> DEFINE result == BuildPropertyContext(props, first)
<1>1. /\ phase = "gathering" /\ UNCHANGED <<props, leaf, next, out>>
      /\ result.ok => /\ phase' = "built"
                      /\ pc' = [hn |-> result.hn, subnodes |-> result.subnodes]
      /\ ~result.ok => phase' = result.why /\ pc' = pc
  BY DEF Build
<1>2. Gathered(props) /\ Len(props) <= MaxProps /\ Reader
  BY DEF ReadingInv
<1>3. leaf = <<>> /\ Len(leaf) = 0 /\ pc = Nothing
  BY <1>1, <1>2 DEF Reader, WithoutContext
<1>4. Len(out) = 0
  BY <1>2, <1>3, Vector DEF Reader
<1>5. \A k : k \notin 1..0
  OBVIOUS
<1>6. CASE result.ok
  <2>1. /\ ~(HidType(first) = 0) /\ ~DuplicateTag(props)
        /\ \A i \in DOMAIN props : ~Malformed(props[i])
        /\ LeafOf(Sorted(props), first).ok
        /\ result.hn = BuildHeapOnNode(Allocations(Sorted(props), first), "PC", MakeHid(1))
        /\ result.subnodes = Promoted(Sorted(props), first)
        /\ ~(result.hn.size > BlockBody)
    BY <1>6 DEF BuildPropertyContext
  <2>2. pc'.hn = result.hn /\ pc'.subnodes = result.subnodes
    BY <1>1, <1>6
  <2>3. DOMAIN props = 1..Len(props)
    BY <1>2, Vector DEF Gathered
  <2>4. first \in Nat
    BY FirstNidsAssumption
  <2> HIDE DEF result
  <2>5. BuiltFrom(first)'
    BY <1>1, <2>1, <2>2, <2>3, <2>4 DEF BuiltFrom
  <2>6. phase' = "built"
    BY <1>1, <1>6
  <2>7. Context'
    BY <2>5, <2>6 DEF Context
  <2>8. Reader'
    BY <1>1, <1>2, <1>3, <1>4, <1>5, <2>6 DEF Reader, WithoutContext, Refusals
  <2>9. phase' \in WithContext
    BY <2>6 DEF WithContext
  <2> QED BY <1>1, <1>2, <2>7, <2>8, <2>9 DEF ReadingInv
<1>7. CASE ~result.ok
  <2>1. result.why \in Refusals
    BY <1>7 DEF BuildPropertyContext, Refusals
  <2> HIDE DEF result
  <2>2. phase' \in Refusals /\ pc' = pc
    BY <1>1, <1>7, <2>1
  <2>3. phase' \in WithoutContext /\ phase' \notin WithContext /\ phase' # "read"
    BY <2>2 DEF WithoutContext, WithContext, Refusals
  <2>4. Context'
    BY <2>3 DEF Context
  <2>5. Reader'
    BY <1>1, <1>2, <1>3, <1>4, <1>5, <2>2, <2>3 DEF Reader
  <2> QED BY <1>1, <1>2, <2>3, <2>4, <2>5 DEF ReadingInv
<1> QED BY <1>6, <1>7

(***************************************************************************)
(* Whatever the offsets of a heap are: what lies between two of them is an *)
(* allocation's data or nothing that was written as a whole.               *)
(***************************************************************************)
LEMMA BytesWereWritten ==
  ASSUME NEW allocs, IsVector(allocs), NEW client, NEW root, NEW s, NEW e
  PROVE  \/ Bytes(BuildHeapOnNode(allocs, client, root), s, e) \in {Nothing, Garbage}
         \/ \E i \in 1..Len(allocs) :
              Bytes(BuildHeapOnNode(allocs, client, root), s, e) = allocs[i].data
<1> DEFINE h == BuildHeapOnNode(allocs, client, root)
           whole == {i \in DOMAIN h.placed :
                       /\ h.placed[i].at = s /\ h.placed[i].size = e - s
                       /\ HnHdrSize <= s /\ e <= h.ibHnpm
                       /\ \A j \in DOMAIN h.placed \ {i} :
                             \/ h.placed[j].size = 0
                             \/ Apart(h.placed[i], h.placed[j])}
           i == CHOOSE i \in whole : TRUE
<1>1. DOMAIN allocs = 1..Len(allocs)
  BY Vector
<1>2. DOMAIN h.placed = 1..Len(allocs)
      /\ \A j \in 1..Len(allocs) : h.placed[j].data = allocs[j].data
  BY <1>1 DEF BuildHeapOnNode
<1>3. Bytes(h, s, e) = IF e = s THEN Nothing
                       ELSE IF whole = {} THEN Garbage ELSE h.placed[i].data
  BY DEF Bytes
<1> HIDE DEF h
<1>4. whole \subseteq 1..Len(allocs)
  BY <1>2
<1> HIDE DEF whole
<1>5. whole # {} => i \in 1..Len(allocs)
  <2> SUFFICES ASSUME whole # {} PROVE i \in whole
    BY <1>4
  <2> QED OBVIOUS
<1> HIDE DEF i
<1> QED BY <1>2, <1>3, <1>5 DEF h

(***************************************************************************)
(* A leaf that the reader finds anywhere in a heap is a vector.            *)
(***************************************************************************)
LEMMA LeafIsVector ==
  ASSUME Gathered(props), NEW first, BuiltFrom(first), NEW hid,
         ResolveHid(hid, pc.hn).ok, ResolveHid(hid, pc.hn).data.kind = "leaf"
  PROVE  IsVector(ResolveHid(hid, pc.hn).data.records)
<1> DEFINE ps == Sorted(props)
           allocs == Allocations(ps, first)
           kept == Kept(ps, "HnAlloc")
           d == ResolveHid(hid, pc.hn).data
<1>1. Gathered(ps) /\ LeafOf(ps, first).ok
      /\ pc.hn = BuildHeapOnNode(allocs, "PC", MakeHid(1))
  BY SortedProperties DEF BuiltFrom
<1>2. /\ LeafOf(ps, first).size = Len(ps) * 8
      /\ IsVector(LeafOf(ps, first).data.records)
  BY SortedProperties, LeafRecords DEF BuiltFrom
<1>3. LeafOf(ps, first).size \in Nat
  BY <1>1, <1>2, Vector DEF Gathered
<1>4. /\ Allocated(allocs) /\ Len(allocs) = 2 + Len(kept) /\ Len(kept) \in Nat
      /\ allocs[1].data = BthHeader(2, 6, 0, MakeHid(2))
      /\ allocs[2].data = LeafOf(ps, first).data
      /\ \A k \in 1..Len(kept) : allocs[2 + k].data = ValueData(kept[k])
  BY ONLY <1>1, <1>3, ContextAllocations
<1>5. \E s, e : d = Bytes(pc.hn, s, e)
  BY DEF ResolveHid
<1> HIDE DEF ps, allocs, kept
<1>6. d \in {Nothing, Garbage} \/ \E i \in 1..Len(allocs) : d = allocs[i].data
  BY <1>1, <1>4, <1>5, BytesWereWritten DEF Allocated
<1>7. d.kind = "leaf"
  OBVIOUS
<1> HIDE DEF d
<1>8. d \notin {Nothing, Garbage}
  BY <1>7 DEF Nothing, Garbage
<1>9. PICK i \in 1..Len(allocs) : d = allocs[i].data
  BY <1>6, <1>8
<1>10. i = 1 \/ i = 2 \/ (i - 2 \in 1..Len(kept) /\ 2 + (i - 2) = i)
  BY <1>4
<1>11. i # 1
  BY <1>4, <1>7, <1>9 DEF BthHeader
<1>12. ~(i - 2 \in 1..Len(kept) /\ 2 + (i - 2) = i)
  <2> SUFFICES ASSUME i - 2 \in 1..Len(kept), 2 + (i - 2) = i PROVE FALSE
    OBVIOUS
  <2>1. allocs[2 + (i - 2)].data = ValueData(kept[i - 2])
    BY <1>4
  <2>2. d = ValueData(kept[i - 2])
    BY <1>9, <2>1
  <2> QED BY <1>7, <2>2 DEF ValueData
<1>13. d = LeafOf(ps, first).data
  BY <1>4, <1>9, <1>10, <1>11, <1>12
<1> QED BY <1>2, <1>13 DEF d, ps

(***************************************************************************)
(* A step of the reader that leaves what was built alone.                  *)
(***************************************************************************)
LEMMA ContextKept ==
  ASSUME NEW first, BuiltFrom(first), UNCHANGED <<props, pc>>
  PROVE  BuiltFrom(first)' /\ Needed' = Needed
BY DEF BuiltFrom, Needed

(***************************************************************************)
(* readPropertyContext finds the leaf: the builder's, unless the heap's    *)
(* bytes could not be counted.                                             *)
(***************************************************************************)
LEMMA LeafFound ==
  ASSUME ReadingInv, Open
  PROVE  ReadingInv'
<1> DEFINE h == pc.hn
           r == RootHeader(h)
           l == ResolveHid(r.data.hidRoot, h)
           found == IF l.size = 0 \/ l.data.kind # "leaf" THEN <<>> ELSE l.data.records
<1>1. /\ phase = "built" /\ UNCHANGED <<props, pc, next, out>>
      /\ \/ /\ ~HeaderValid(h) \/ ~PcBthValid(r)
            /\ phase' = "runtime_error" /\ leaf' = leaf
         \/ /\ HidIndex(r.data.hidRoot) = 0
            /\ phase' = "read" /\ leaf' = leaf
         \/ /\ ~l.ok \/ l.size % 8 # 0
            /\ phase' = "runtime_error" /\ leaf' = leaf
         \/ /\ l.ok
            /\ phase' = "reading" /\ leaf' = found
  BY DEF Open, Fail
<1>2. Gathered(props) /\ Len(props) <= MaxProps /\ Reader /\ Context
  BY DEF ReadingInv
<1>3. phase \in WithContext /\ phase \notin WithoutContext
  BY <1>1 DEF WithContext, WithoutContext, Refusals
<1>4. PICK first : BuiltFrom(first)
  BY <1>2, <1>3 DEF Context
<1>5. leaf = <<>> /\ Len(leaf) = 0 /\ Len(out) = 0 /\ IsVector(leaf) /\ IsVector(out) /\ next = 1
  <2>1. leaf = <<>> /\ IsVector(leaf) /\ IsVector(out) /\ next = Len(out) + 1
        /\ Len(out) <= Len(leaf)
    BY <1>1, <1>2 DEF Reader
  <2>2. Len(leaf) = 0 /\ Len(out) \in Nat
    BY <2>1, Vector
  <2> QED BY <2>1, <2>2
<1>6. BuiltFrom(first)' /\ Needed' = Needed
  BY <1>1, <1>4, ContextKept
<1>7. ASSUME Needed <= OffsetRange
      PROVE  phase' = "reading" /\ LeafFrom(first)'
  <2> DEFINE ps == Sorted(props)
             n == Len(ps)
  <2>1. /\ HeaderValid(h) /\ PcBthValid(r) /\ r.data.hidRoot = MakeHid(2)
        /\ l.ok /\ l.size = n * 8
        /\ l.size # 0 => l.data = LeafOf(ps, first).data
    BY <1>2, <1>4, <1>7, HeapReadable
  <2>2. n = Len(props) /\ n \in Nat
    BY <1>2, <1>4, SortedProperties
  <2>3. l.size % 8 = 0
    <3> HIDE DEF n, l
    <3> QED BY <2>1, <2>2, SMT
  <2>4. HidIndex(r.data.hidRoot) = 2
    BY <2>1, HidParts DEF HidIndexes
  <2> HIDE DEF r, l, h
  <2>5. phase' = "reading" /\ leaf' = found
    BY <1>1, <2>1, <2>3, <2>4
  <2>6. /\ LeafOf(ps, first).data.kind = "leaf"
        /\ Len(LeafOf(ps, first).data.records) = n
        /\ \A k \in 1..n : \E i \in 1..n :
             LeafOf(ps, first).data.records[k] = LeafRecord(ps, i, first)
        /\ \A k, j \in 1..n : k < j =>
             LeafOf(ps, first).data.records[k].key < LeafOf(ps, first).data.records[j].key
    BY <1>2, <1>4, SortedProperties, LeafRecords DEF BuiltFrom
  <2> HIDE DEF n
  <2>7. CASE n = 0
    <3>1. leaf' = <<>>
      BY <2>1, <2>5, <2>7
    <3>2. Len(leaf') = 0 /\ \A k : k \notin 1..0
      BY <3>1
    <3> QED BY <1>1, <2>2, <2>5, <2>7, <3>2 DEF LeafFrom
  <2>8. CASE n # 0
    <3>1. l.size # 0
      BY <2>1, <2>2, <2>8
    <3>2. leaf' = LeafOf(ps, first).data.records
      BY <2>1, <2>5, <2>6, <3>1
    <3>3. /\ Len(leaf') = Len(props)
          /\ \A k \in 1..Len(props) : \E i \in 1..Len(props) :
               leaf'[k] = LeafRecord(Sorted(props), i, first)
          /\ \A k, j \in 1..Len(props) : k < j => leaf'[k].key < leaf'[j].key
      BY <2>2, <2>6, <3>2
    <3> QED BY <1>1, <2>5, <3>3 DEF LeafFrom
  <2> QED BY <2>7, <2>8
<1>8. IsVector(leaf')
  <2>1. CASE leaf' = leaf
    BY <1>5, <2>1
  <2>2. CASE l.ok /\ leaf' = found
    <3>1. CASE l.size = 0 \/ l.data.kind # "leaf"
      BY <1>5, <2>2, <3>1
    <3>2. CASE ~(l.size = 0 \/ l.data.kind # "leaf")
      BY <1>2, <1>4, <2>2, <3>2, LeafIsVector
    <3> QED BY <3>1, <3>2
  <2> HIDE DEF l, found
  <2> QED BY <1>1, <2>1, <2>2
<1>9. phase' \in {"reading", "read", "runtime_error"}
  BY <1>1
<1> HIDE DEF h, r, l, found
<1>10. Context'
  BY <1>6, <1>7, <1>9 DEF Context
<1>11. Reader'
  <2>1. Len(out') = 0 /\ Len(leaf') \in Nat /\ IsVector(out') /\ next' = 1
    BY <1>1, <1>5, <1>8, Vector
  <2>2. \A k : k \notin 1..0
    OBVIOUS
  <2>3. phase' \notin WithoutContext \cup {"built"}
    BY <1>9 DEF WithoutContext, Refusals
  <2>4. ~(phase' = "read" /\ Needed' <= OffsetRange)
    BY <1>6, <1>7
  <2> QED BY <1>8, <2>1, <2>2, <2>3, <2>4 DEF Reader
<1>12. phase' \in WithContext /\ Gathered(props') /\ Len(props') <= MaxProps
  BY <1>1, <1>2, <1>9 DEF WithContext
<1> QED BY <1>10, <1>11, <1>12 DEF ReadingInv

(***************************************************************************)
(* A record more is decoded, or the reader fails over it: not over one of  *)
(* the builder's.                                                          *)
(***************************************************************************)
LEMMA RecordRead ==
  ASSUME ReadingInv, ReadRecord
  PROVE  ReadingInv'
<1> DEFINE rec == leaf[next]
           q == Decoded(rec, pc.hn)
<1>1. Gathered(props) /\ Len(props) <= MaxProps /\ Reader /\ Context
  BY DEF ReadingInv
<1>2. phase = "reading" /\ next <= Len(leaf)
      /\ UNCHANGED <<props, pc, leaf>>
      /\ \/ Unresolvable(rec, pc.hn) /\ phase' = "runtime_error" /\ UNCHANGED <<next, out>>
         \/ phase' = phase /\ out' = Append(out, q) /\ next' = next + 1
  BY DEF ReadRecord, Fail
<1> HIDE DEF rec, q
<1>3. phase \in WithContext /\ phase' \in WithContext /\ phase' \notin WithoutContext
      /\ phase' # "built" /\ phase' # "read"
  BY <1>2 DEF WithContext, WithoutContext, Refusals
<1>4. PICK first : /\ BuiltFrom(first)
                   /\ Needed <= OffsetRange => LeafFrom(first)
  BY <1>1, <1>2, <1>3 DEF Context
<1>5. BuiltFrom(first)' /\ Needed' = Needed
  BY <1>2, <1>4, ContextKept
<1>6. LeafFrom(first) => LeafFrom(first)'
  BY <1>2 DEF LeafFrom
<1>7. /\ IsVector(leaf) /\ IsVector(out) /\ next = Len(out) + 1 /\ Len(out) <= Len(leaf)
      /\ \A k \in 1..Len(out) : out[k] = Decoded(leaf[k], pc.hn)
  BY <1>1 DEF Reader
<1>8. Len(leaf) \in Nat /\ Len(out) \in Nat
  BY <1>7, Vector
<1>9. Needed <= OffsetRange => ~Unresolvable(rec, pc.hn)
  <2> SUFFICES ASSUME Needed <= OffsetRange PROVE ~Unresolvable(rec, pc.hn)
    OBVIOUS
  <2>1. next \in 1..Len(props)
    BY <1>2, <1>4, <1>7, <1>8 DEF LeafFrom
  <2>2. PICK i \in 1..Len(props) : rec = LeafRecord(Sorted(props), i, first)
    BY <1>4, <2>1 DEF LeafFrom, rec
  <2>3. i \in 1..Len(Sorted(props))
    BY <1>1, <1>4, SortedProperties
  <2>4. ~Unresolvable(LeafRecord(Sorted(props), i, first), pc.hn)
    BY <1>1, <1>4, <2>3, RecordDecodes
  <2> QED BY <2>2, <2>4
<1>10. Context'
  <2>1. Needed' <= OffsetRange => phase' # "runtime_error" /\ LeafFrom(first)'
    BY <1>2, <1>4, <1>5, <1>6, <1>9
  <2> QED BY <1>5, <2>1 DEF Context
<1>11. Reader'
  <2>1. CASE UNCHANGED <<next, out>>
    BY <1>2, <1>3, <1>7, <2>1 DEF Reader
  <2>2. CASE phase' = phase /\ out' = Append(out, q) /\ next' = next + 1
    <3>1. PICK S : out \in Seq(S)
      BY <1>7 DEF IsVector
    <3> DEFINE T == S \cup {q}
    <3>2. out \in Seq(T) /\ q \in T
      BY <3>1
    <3> HIDE DEF T
    <3>3. /\ out' \in Seq(T) /\ Len(out') = Len(out) + 1
          /\ \A k \in 1..Len(out) : out'[k] = out[k]
          /\ out'[Len(out) + 1] = q
      BY <2>2, <3>2
    <3>4. IsVector(out') /\ next' = Len(out') + 1 /\ Len(out') <= Len(leaf')
      BY <1>2, <1>7, <1>8, <2>2, <3>3 DEF IsVector
    <3>5. ASSUME NEW k \in 1..Len(out') PROVE out'[k] = Decoded(leaf'[k], pc'.hn)
      <4>1. k \in 1..Len(out) \/ k = Len(out) + 1
        BY <1>8, <3>3
      <4>2. CASE k \in 1..Len(out)
        BY <1>2, <1>7, <3>3, <4>2
      <4>3. CASE k = Len(out) + 1
        <5>1. out'[k] = q /\ leaf'[k] = rec
          BY <1>2, <1>7, <3>3, <4>3 DEF rec
        <5> QED BY <1>2, <5>1 DEF q
      <4> QED BY <4>1, <4>2, <4>3
    <3>6. IsVector(leaf')
      BY <1>2, <1>7
    <3> QED BY <1>3, <3>4, <3>5, <3>6 DEF Reader
  <2> QED BY <1>2, <2>1, <2>2
<1>12. Gathered(props') /\ Len(props') <= MaxProps
  BY <1>1, <1>2
<1> QED BY <1>3, <1>10, <1>11, <1>12 DEF ReadingInv

(***************************************************************************)
(* The reader returns when it is past the last record.                     *)
(***************************************************************************)
LEMMA ReadingFinished ==
  ASSUME ReadingInv, FinishReading
  PROVE  ReadingInv'
<1>1. Gathered(props) /\ Len(props) <= MaxProps /\ Reader /\ Context
  BY DEF ReadingInv
<1>2. phase = "reading" /\ next > Len(leaf) /\ phase' = "read"
      /\ UNCHANGED <<props, pc, leaf, next, out>>
  BY DEF FinishReading
<1>3. phase \in WithContext /\ phase' \in WithContext /\ phase' \notin WithoutContext
  BY <1>2 DEF WithContext, WithoutContext, Refusals
<1>4. PICK first : /\ BuiltFrom(first)
                   /\ Needed <= OffsetRange => LeafFrom(first)
  BY <1>1, <1>2, <1>3 DEF Context
<1>5. BuiltFrom(first)' /\ Needed' = Needed
  BY <1>2, <1>4, ContextKept
<1>6. LeafFrom(first) => LeafFrom(first)'
  BY <1>2 DEF LeafFrom
<1>7. Context'
  BY <1>2, <1>4, <1>5, <1>6 DEF Context
<1>8. Len(out) = Len(leaf)
  BY <1>1, <1>2, Vector DEF Reader
<1>9. Reader'
  BY <1>1, <1>2, <1>3, <1>8 DEF Reader
<1> QED BY <1>1, <1>2, <1>3, <1>7, <1>9 DEF ReadingInv

(***************************************************************************)
(* Every reachable state satisfies the invariant.                          *)
(***************************************************************************)
THEOREM AlwaysReading == Spec => []ReadingInv
<1>1. ReadingInv /\ [Next]_vars => ReadingInv'
  <2> SUFFICES ASSUME ReadingInv, [Next]_vars PROVE ReadingInv'
    OBVIOUS
  <2>1. ASSUME NEW tag \in Tags, NEW type, NEW size \in Nat, NEW value,
               AddProp(tag, type, size, value)
        PROVE  ReadingInv'
    <3> DEFINE p == [tag |-> tag, type |-> type, size |-> size,
                     value |-> value, hint |-> "Auto"]
    <3>1. /\ phase = "gathering" /\ Len(props) < MaxProps /\ props' = Append(props, p)
          /\ UNCHANGED <<phase, pc, leaf, next, out>>
      BY <2>1 DEF AddProp
    <3>2. WellDescribed(p)
      BY DescriptorsAssumption DEF WellDescribed
    <3> HIDE DEF p
    <3> QED BY <3>1, <3>2, PropertyGathered
  <2>2. ASSUME NEW p \in Descriptors, AddDescriptor(p) PROVE ReadingInv'
    <3>1. WellDescribed(p)
      BY DescriptorsAssumption DEF WellDescribed
    <3> QED BY <2>2, <3>1, PropertyGathered DEF AddDescriptor
  <2>3. ASSUME NEW first \in FirstNids, Build(first) PROVE ReadingInv'
    BY <2>3, ContextBuilt
  <2>4. CASE Open
    BY <2>4, LeafFound
  <2>5. CASE ReadRecord
    BY <2>5, RecordRead
  <2>6. CASE FinishReading
    BY <2>6, ReadingFinished
  <2>7. CASE UNCHANGED vars
    <3>1. UNCHANGED <<props, phase, pc, leaf, next, out>>
      BY <2>7 DEF vars
    <3>2. ASSUME NEW first PROVE /\ BuiltFrom(first)' <=> BuiltFrom(first)
                                 /\ LeafFrom(first)' <=> LeafFrom(first)
      BY <3>1 DEF BuiltFrom, LeafFrom
    <3>3. Needed' = Needed
      BY <3>1 DEF Needed
    <3>4. Context' <=> Context
      BY <3>1, <3>2, <3>3 DEF Context
    <3>5. Reader' <=> Reader
      BY <3>1, <3>3 DEF Reader
    <3> QED BY <3>1, <3>4, <3>5 DEF ReadingInv
  <2>8. ASSUME NEW tag \in Tags, NEW v, AddInt32(tag, v) PROVE ReadingInv'
    BY <2>1, <2>8 DEF AddInt32
  <2>9. ASSUME NEW tag \in Tags, NEW b \in BOOLEAN, AddBoolean(tag, b) PROVE ReadingInv'
    BY <2>1, <2>9 DEF AddBoolean
  <2>10. ASSUME NEW tag \in Tags, AddSystemTime(tag) PROVE ReadingInv'
    BY <2>1, <2>10 DEF AddSystemTime
  <2>11. ASSUME NEW tag \in Tags, NEW size \in Sizes,
                AddUnicodeString(tag, size) \/ AddBinary(tag, size)
         PROVE  ReadingInv'
    <3>1. size \in Nat
      BY DescriptorsAssumption
    <3> QED BY <2>1, <2>11, <3>1 DEF AddUnicodeString, AddBinary
  <2> QED
    BY <2>2, <2>3, <2>4, <2>5, <2>6, <2>7, <2>8, <2>9, <2>10, <2>11 DEF Next, Return
<1> QED BY <1>1, NothingGathered, PTL DEF Spec

(***************************************************************************)
(* The reader's position, its results and the context that was built stay  *)
(* in their ranges, for any number of properties and any heap.             *)
(***************************************************************************)
THEOREM TypeCorrect == Spec => []TypeOK
<1>1. ReadingInv => TypeOK
  <2> SUFFICES ASSUME ReadingInv PROVE TypeOK
    OBVIOUS
  <2>1. /\ Len(leaf) \in Nat /\ Len(out) \in Nat /\ next = Len(out) + 1
        /\ Len(out) <= Len(leaf)
        /\ phase \in WithoutContext => pc = Nothing
    BY Vector DEF ReadingInv, Reader
  <2>2. next \in 1..(Len(leaf) + 1)
    BY <2>1
  <2>3. phase \in {"gathering", "built", "reading"} \cup Finished
    BY DEF ReadingInv, WithoutContext, WithContext, Finished
  <2> QED BY <2>1, <2>2, <2>3 DEF TypeOK, ReadingInv, Reader, WithoutContext
<1> QED BY <1>1, AlwaysReading, PTL

(***************************************************************************)
(* A built context reads back to the properties that were gathered         *)
(* (buildPropertyContext and readPropertyContext, ltp.cpp), for any number *)
(* of properties of any size whose heap 16 bits can count.                 *)
(***************************************************************************)
THEOREM BuiltReadsBack == Spec => [](Needed <= OffsetRange => ReadsBack)
<1>1. ReadingInv => (Needed <= OffsetRange => ReadsBack)
  <2> SUFFICES ASSUME ReadingInv, Needed <= OffsetRange PROVE ReadsBack
    OBVIOUS
  <2>1. Gathered(props) /\ Reader /\ Context
        /\ phase \in WithoutContext \cup WithContext
    BY DEF ReadingInv
  <2>2. /\ IsVector(leaf) /\ IsVector(out) /\ Len(out) <= Len(leaf)
        /\ \A k \in 1..Len(out) : out[k] = Decoded(leaf[k], pc.hn)
        /\ phase \in WithoutContext \cup {"built"} => leaf = <<>>
        /\ phase = "read" => Len(out) = Len(leaf)
    BY <2>1 DEF Reader
  <2>3. Len(leaf) \in Nat /\ Len(out) \in Nat /\ DOMAIN out = 1..Len(out)
        /\ DOMAIN props = 1..Len(props)
    BY <2>1, <2>2, Vector DEF Gathered
  <2>4. CASE phase \in WithoutContext \cup {"built"}
    <3>1. Len(out) = 0 /\ phase # "runtime_error" /\ phase # "read"
      <4>1. Len(leaf) = 0
        BY <2>2, <2>4
      <4> QED BY <2>2, <2>3, <2>4, <4>1 DEF WithoutContext, Refusals
    <3>2. \A k : k \notin 1..0 /\ k \notin 2..0
      OBVIOUS
    <3> QED BY <2>3, <3>1, <3>2 DEF ReadsBack
  <2>5. CASE phase \in WithContext /\ phase # "built"
    <3>1. PICK first : /\ BuiltFrom(first) /\ phase # "runtime_error"
                       /\ phase \in {"reading", "read"} => LeafFrom(first)
      BY <2>1, <2>5 DEF Context
    <3>2. LeafFrom(first)
      BY <2>5, <3>1 DEF WithContext
    <3>3. Len(leaf) = Len(props) /\ Len(out) <= Len(props)
          /\ Len(out) \in Nat /\ Len(props) \in Nat
      BY <2>2, <2>3, <3>2 DEF LeafFrom
    <3>4. ASSUME NEW k \in 1..Len(out)
          PROVE  out[k].tag = leaf[k].key
                 /\ \E i \in 1..Len(props) : SameProperty(props[i], out[k])
      <4>1. k \in 1..Len(props)
        BY ONLY <3>3, k \in 1..Len(out)
      <4>2. PICK i \in 1..Len(props) : leaf[k] = LeafRecord(Sorted(props), i, first)
        BY <3>2, <4>1 DEF LeafFrom
      <4>3. i \in 1..Len(Sorted(props))
            /\ \E j \in 1..Len(props) : Sorted(props)[i] = props[j]
        BY <2>1, <3>1, SortedProperties
      <4>4. SameProperty(Sorted(props)[i],
                         Decoded(LeafRecord(Sorted(props), i, first), pc.hn))
        BY <2>1, <3>1, <4>3, RecordDecodes
      <4>5. out[k] = Decoded(leaf[k], pc.hn)
        BY <2>2
      <4>6. out[k].tag = leaf[k].key
        BY <4>5 DEF Decoded
      <4> QED BY <4>2, <4>3, <4>4, <4>5, <4>6
    <3>5. ASSUME NEW k \in 2..Len(out) PROVE out[k - 1].tag < out[k].tag
      <4>1. k - 1 \in 1..Len(out) /\ k \in 1..Len(out) /\ k - 1 < k
            /\ k - 1 \in 1..Len(props) /\ k \in 1..Len(props)
        BY ONLY <3>3, k \in 2..Len(out)
      <4>2. leaf[k - 1].key < leaf[k].key
        BY <3>2, <4>1 DEF LeafFrom
      <4> QED BY <3>4, <4>1, <4>2
    <3> QED BY <2>2, <2>3, <3>1, <3>3, <3>4, <3>5 DEF ReadsBack
  <2> QED BY <2>1, <2>4, <2>5
<1> QED BY <1>1, AlwaysReading, PTL

(***************************************************************************)
(* No context whose bytes 16 bits can count is larger than a block         *)
(* (buildPropertyContext, ltp.cpp), for any properties.                    *)
(***************************************************************************)
THEOREM OversizeNeverBuilt == Spec => []OversizeRefused
<1>1. ReadingInv => OversizeRefused
  <2> SUFFICES ASSUME ReadingInv, pc # Nothing, Needed <= OffsetRange
               PROVE  Needed <= BlockBody
    BY DEF OversizeRefused
  <2>1. phase \in WithContext
    BY DEF ReadingInv, Reader
  <2>2. PICK first : BuiltFrom(first)
    BY <2>1 DEF ReadingInv, Context
  <2>3. pc.hn.size = Needed /\ Needed \in Nat
    BY <2>2, HeapReadable DEF ReadingInv
  <2>4. ~(pc.hn.size > BlockBody)
    BY <2>2 DEF BuiltFrom
  <2> QED BY <2>3, <2>4, HeapAssumption
<1> QED BY <1>1, AlwaysReading, PTL

-----------------------------------------------------------------------------
(* The identifiers of the subnodes. *)

(***************************************************************************)
(* What a context's subnodes are numbered with: natural numbers from a     *)
(* first one whose type is not that of a heap identifier, one index apart. *)
(***************************************************************************)
Numbered(subnodes) ==
  /\ DOMAIN subnodes \subseteq Nat \ {0}
  /\ \E first \in Nat :
       /\ HidType(first) # 0
       /\ \A k \in DOMAIN subnodes : subnodes[k].nid = PropNid(first, k)

(***************************************************************************)
(* Promoted numbers what it moves to subnodes, in order.                   *)
(***************************************************************************)
LEMMA PromotedAreNumbered ==
  ASSUME NEW ps, NEW first \in Nat, HidType(first) # 0
  PROVE  Numbered(Promoted(ps, first))
<1> DEFINE n == Before(ps, Len(ps), "Subnode")
<1>1. DOMAIN Promoted(ps, first) = 1..n
  BY DEF Promoted, Kept
<1>2. \A k \in 1..n : Promoted(ps, first)[k].nid = PropNid(first, k)
  BY DEF Promoted, Kept
<1> HIDE DEF n
<1>3. 1..n \subseteq Nat \ {0}
  BY SMT
<1> QED BY <1>1, <1>2, <1>3 DEF Numbered

(***************************************************************************)
(* The invariant: a context that was built has numbered subnodes.          *)
(***************************************************************************)
BuiltIsNumbered == pc # Nothing => Numbered(pc.subnodes)

(***************************************************************************)
(* A build that succeeds numbers from an identifier it has checked, one    *)
(* that throws leaves no context.                                          *)
(***************************************************************************)
LEMMA BuildNumbers ==
  ASSUME NEW first \in FirstNids, Build(first), BuiltIsNumbered
  PROVE  BuiltIsNumbered'
<1> DEFINE result == BuildPropertyContext(props, first)
<1>0. first \in Nat
  BY FirstNidsAssumption
<1>1. CASE result.ok
  <2>1. HidType(first) # 0 /\ result.subnodes = Promoted(Sorted(props), first)
    BY <1>1 DEF BuildPropertyContext
  <2>2. pc' = [hn |-> result.hn, subnodes |-> result.subnodes]
    BY <1>1 DEF Build
  <2> QED BY <1>0, <2>1, <2>2, PromotedAreNumbered DEF BuiltIsNumbered
<1>2. CASE ~result.ok
  BY <1>2 DEF Build, BuiltIsNumbered
<1> QED BY <1>1, <1>2

(***************************************************************************)
(* Every context the program holds has its promoted values numbered as     *)
(* Numbered says: no action but Build sets pc.                             *)
(***************************************************************************)
THEOREM AlwaysNumbered == Spec => []BuiltIsNumbered
<1>1. Init => BuiltIsNumbered
  BY DEF Init, BuiltIsNumbered
<1>2. BuiltIsNumbered /\ [Next]_vars => BuiltIsNumbered'
  <2> SUFFICES ASSUME BuiltIsNumbered, [Next]_vars PROVE BuiltIsNumbered'
    OBVIOUS
  <2>1. ASSUME pc' = pc PROVE BuiltIsNumbered'
    BY <2>1 DEF BuiltIsNumbered
  <2>2. ASSUME NEW tag, NEW type, NEW size, NEW value, AddProp(tag, type, size, value)
        PROVE  BuiltIsNumbered'
    BY <2>1, <2>2 DEF AddProp
  <2>3. ASSUME NEW p \in Descriptors, AddDescriptor(p) PROVE BuiltIsNumbered'
    BY <2>1, <2>3 DEF AddDescriptor
  <2>4. ASSUME NEW first \in FirstNids, Build(first) PROVE BuiltIsNumbered'
    BY <2>4, BuildNumbers
  <2>5. CASE Open
    BY <2>1, <2>5 DEF Open, Fail
  <2>6. CASE ReadRecord
    BY <2>1, <2>6 DEF ReadRecord, Fail
  <2>7. CASE FinishReading
    BY <2>1, <2>7 DEF FinishReading
  <2>8. CASE Return \/ UNCHANGED vars
    BY <2>1, <2>8 DEF Return, vars
  <2> QED
    BY <2>2, <2>3, <2>4, <2>5, <2>6, <2>7, <2>8
    DEF Next, AddInt32, AddBoolean, AddSystemTime, AddUnicodeString, AddBinary
<1> QED BY <1>1, <1>2, PTL DEF Spec

(***************************************************************************)
(* No two promoted values of a context share a NID and none of the NIDs    *)
(* could be taken for a heap identifier (buildPropertyContext, ltp.cpp),   *)
(* for any number of properties of any size.                               *)
(***************************************************************************)
THEOREM SubnodesAreDistinct == Spec => []SubnodeNidsDistinct
<1>1. BuiltIsNumbered => SubnodeNidsDistinct
  <2> SUFFICES ASSUME Numbered(pc.subnodes), pc # Nothing,
                      NEW s \in DOMAIN pc.subnodes, NEW t \in DOMAIN pc.subnodes
               PROVE  /\ HidType(pc.subnodes[s].nid) # 0
                      /\ HidType(pc.subnodes[s].nid) = HidType(pc.subnodes[t].nid)
                      /\ pc.subnodes[s].nid = pc.subnodes[t].nid => s = t
    BY DEF BuiltIsNumbered, SubnodeNidsDistinct
  <2>1. PICK first \in Nat :
          /\ HidType(first) # 0
          /\ \A k \in DOMAIN pc.subnodes : pc.subnodes[k].nid = PropNid(first, k)
    BY DEF Numbered
  <2>2. s \in Nat \ {0} /\ t \in Nat \ {0}
    BY DEF Numbered
  <2> QED BY <2>1, <2>2, PropNidNumbering
<1> QED BY <1>1, AlwaysNumbered, PTL
=============================================================================
