-------------------------- MODULE FileWriterProofs --------------------------
(***************************************************************************)
(* For every call, every number of blocks and nodes and all sizes of pages *)
(* and trees: the two passes of the file writer agree on every offset, the *)
(* page BIDs never repeat, nothing follows a short write, what is reported *)
(* as written can be read, and pst_info tells it from what is not.         *)
(*                                                                         *)
(* The first part shows that the layout of any encoded blocks fits: what   *)
(* padTo and emit do with its pieces, one after the other, brings each to  *)
(* the place it was computed for (PlanFits).  The second is about files as *)
(* sequences of pieces, and the third the inductive invariant, that what   *)
(* is in the file is the beginning of such a plan.  The fourth is about    *)
(* page trees as the reader descends them, whatever file they are in, and  *)
(* the last brings the two together, for the reader and for pst_info.      *)
(***************************************************************************)
EXTENDS Inspector, FiniteSetTheorems, WellFoundedInduction, TLAPS

(***************************************************************************)
(* Induction over the natural numbers, for sets.                           *)
(***************************************************************************)
LEMMA Induction ==
  ASSUME NEW S, 0 \in S, \A n \in Nat : n \in S => n + 1 \in S
  PROVE  Nat \subseteq S
<1> DEFINE R == {ss \in Nat \X Nat : ss[1] < ss[2]}
<1>1. IsWellFoundedOn(R, Nat)
  BY NatLessThanWellFounded DEF OpToRel
<1> SUFFICES ASSUME Nat \ S # {} PROVE FALSE
  OBVIOUS
<1>2. PICK x \in Nat \ S : \A y \in Nat \ S : ~ (<<y, x>> \in R)
  <2> HIDE DEF R
  <2> QED BY <1>1, WFMin
<1>3. x # 0 /\ x - 1 \in Nat /\ x - 1 < x /\ x - 1 + 1 = x
  OBVIOUS
<1>4. <<x - 1, x>> \in R
  BY <1>3
<1>5. x - 1 \in S
  BY <1>2, <1>3, <1>4
<1> QED BY <1>3, <1>5

(***************************************************************************)
(* Division of natural numbers by a positive one.                          *)
(***************************************************************************)
LEMMA Division ==
  ASSUME NEW n \in Nat, NEW a \in Nat \ {0}
  PROVE  /\ n \div a \in Nat /\ n % a \in 0..(a - 1)
         /\ n = a * (n \div a) + (n % a)
OBVIOUS

(***************************************************************************)
(* alignUp goes up.                                                        *)
(***************************************************************************)
LEMMA AlignUpFacts ==
  ASSUME NEW v \in Nat, NEW a \in Nat \ {0}
  PROVE  AlignUp(v, a) \in Nat /\ AlignUp(v, a) >= v
<1> DEFINE q == (v + a - 1) \div a
<1>1. /\ q \in Nat /\ (v + a - 1) % a \in 0..(a - 1)
      /\ v + a - 1 = a * q + ((v + a - 1) % a)
  <2>1. v + a - 1 \in Nat
    OBVIOUS
  <2> QED BY <2>1, Division
<1>2. AlignUp(v, a) = q * a
  BY DEF AlignUp
<1> HIDE DEF q
<1>3. q * a = a * q /\ a * q \in Nat
  BY <1>1
<1> QED BY <1>1, <1>2, <1>3

(***************************************************************************)
(* A block has at least one unit, its trailer's.                           *)
(***************************************************************************)
LEMMA EncodedLenFacts ==
  ASSUME NEW cb \in Nat
  PROVE  EncodedLen(cb) \in Nat \ {0}
<1>1. EncodedLen(cb) = (((cb + 4) \div 4) * 4) \div 4
  BY DEF EncodedLen, AlignUp
<1> QED BY <1>1

(***************************************************************************)
(* A block of a sequence has a positive length.                            *)
(***************************************************************************)
LEMMA BlockFacts ==
  ASSUME NEW bs \in Seq(Block), NEW i \in 1..Len(bs)
  PROVE  bs[i] \in Block /\ bs[i].len \in Nat \ {0}
<1>1. bs[i] \in Block
  OBVIOUS
<1> QED BY <1>1 DEF Block

(***************************************************************************)
(* BlockIb is what its recursion says: the blocks follow one another.      *)
(***************************************************************************)
LEMMA OffsetsFacts ==
  ASSUME NEW bs \in Seq(Block)
  PROVE  /\ Offsets(bs) \in [1..(Len(bs) + 1) -> Nat]
         /\ Offsets(bs)[1] = BlocksStart
         /\ \A i \in 1..Len(bs) : Offsets(bs)[i + 1] = Offsets(bs)[i] + bs[i].len
<1> DEFINE n == Len(bs)
           Begins(f) == f[1] = BlocksStart
           Follows(f, m) == \A i \in 1..m : f[i + 1] = f[i] + bs[i].len
           S == {m \in Nat : m <= n => \E f \in [1..(m + 1) -> Nat] : Begins(f) /\ Follows(f, m)}
<1>1. n \in Nat /\ BlocksStart \in Nat
  BY SizesAssumption DEF BlocksStart
<1>2. 0 \in S
  <2>1. [i \in 1..(0 + 1) |-> BlocksStart] \in [1..(0 + 1) -> Nat]
    BY <1>1
  <2>2. Begins([i \in 1..(0 + 1) |-> BlocksStart]) /\ Follows([i \in 1..(0 + 1) |-> BlocksStart], 0)
    OBVIOUS
  <2> QED BY <2>1, <2>2
<1>3. ASSUME NEW m \in Nat, m \in S PROVE m + 1 \in S
  <2> HIDE DEF Begins, Follows
  <2> SUFFICES ASSUME m + 1 <= n
               PROVE  \E f \in [1..((m + 1) + 1) -> Nat] : Begins(f) /\ Follows(f, m + 1)
    OBVIOUS
  <2> USE DEF Begins, Follows
  <2>1. PICK f \in [1..(m + 1) -> Nat] : Begins(f) /\ Follows(f, m)
    BY <1>1, <1>3
  <2> DEFINE g == [i \in 1..((m + 1) + 1) |-> IF i = m + 2 THEN f[m + 1] + bs[m + 1].len ELSE f[i]]
  <2>2. m + 1 \in 1..n /\ bs[m + 1].len \in Nat
    BY <1>1, BlockFacts
  <2>3. g \in [1..((m + 1) + 1) -> Nat]
    BY <2>2
  <2>4. Begins(g)
    BY <2>1
  <2>5. Follows(g, m + 1)
    <3> SUFFICES ASSUME NEW i \in 1..(m + 1) PROVE g[i + 1] = g[i] + bs[i].len
      OBVIOUS
    <3>1. CASE i = m + 1
      BY <3>1
    <3>2. CASE i # m + 1
      BY <3>2, <2>1
    <3> QED BY <3>1, <3>2
  <2> QED BY <2>3, <2>4, <2>5
<1>4. n \in S
  <2> HIDE DEF S
  <2> QED BY <1>1, <1>2, <1>3, Induction
<1>5. PICK f \in [1..(n + 1) -> Nat] : Begins(f) /\ Follows(f, n)
  BY <1>1, <1>4
<1>6. f = [i \in 1..(Len(bs) + 1) |-> IF i = 1 THEN BlocksStart ELSE f[i - 1] + bs[i - 1].len]
  <2>1. ASSUME NEW i \in 1..(n + 1), i # 1 PROVE f[i] = f[i - 1] + bs[i - 1].len
    <3>1. i - 1 \in 1..n /\ (i - 1) + 1 = i
      BY <1>1, <2>1
    <3> QED BY <1>5, <3>1
  <2> QED BY <1>5, <2>1
<1> DEFINE P(h) ==
           h = [i \in 1..(Len(bs) + 1) |-> IF i = 1 THEN BlocksStart ELSE h[i - 1] + bs[i - 1].len]
<1>7. Offsets(bs) = CHOOSE h : P(h)
  BY DEF Offsets
<1>8. P(Offsets(bs))
  <2> HIDE DEF P
  <2>1. P(f)
    BY <1>6 DEF P
  <2> QED BY <1>7, <2>1
<1> DEFINE o == Offsets(bs)
<1>9. /\ DOMAIN o = 1..(n + 1) /\ o[1] = BlocksStart
      /\ \A i \in 2..(n + 1) : o[i] = o[i - 1] + bs[i - 1].len
      /\ \E e : o = [i \in 1..(n + 1) |-> e[i]]
  <2>1. o = [i \in 1..(n + 1) |-> IF i = 1 THEN BlocksStart ELSE o[i - 1] + bs[i - 1].len]
    BY <1>8
  <2> HIDE DEF o, P
  <2> DEFINE e == [i \in 1..(n + 1) |-> IF i = 1 THEN BlocksStart ELSE o[i - 1] + bs[i - 1].len]
  <2>2. o = [i \in 1..(n + 1) |-> e[i]]
    BY <2>1
  <2>3. DOMAIN o = 1..(n + 1) /\ o[1] = BlocksStart
    BY <1>1, <2>1
  <2>4. \A i \in 2..(n + 1) : o[i] = o[i - 1] + bs[i - 1].len
    BY <1>1, <2>1, SMTT(30)
  <2> HIDE DEF e
  <2> QED BY <2>2, <2>3, <2>4
<1>10. \A i \in 1..n : o[i + 1] = o[i] + bs[i].len
  <2> SUFFICES ASSUME NEW i \in 1..n PROVE o[i + 1] = o[i] + bs[i].len
    OBVIOUS
  <2>1. i + 1 \in 2..(n + 1) /\ (i + 1) - 1 = i
    BY <1>1
  <2> HIDE DEF o
  <2> QED BY <1>9, <2>1
<1> DEFINE T == {m \in Nat : m <= n => o[m + 1] \in Nat}
<1> HIDE DEF o
<1>11. 0 \in T
  BY <1>1, <1>9
<1>12. ASSUME NEW m \in Nat, m \in T PROVE m + 1 \in T
  <2> SUFFICES ASSUME m + 1 <= n PROVE o[(m + 1) + 1] \in Nat
    OBVIOUS
  <2>1. m + 1 \in 1..n /\ bs[m + 1].len \in Nat
    BY <1>1, BlockFacts
  <2>2. o[m + 1] \in Nat
    BY <1>1, <1>12
  <2> QED BY <1>10, <2>1, <2>2
<1>13. Nat \subseteq T
  <2> HIDE DEF T
  <2> QED BY <1>11, <1>12, Induction
<1>14. \A i \in 1..(n + 1) : o[i] \in Nat
  <2> SUFFICES ASSUME NEW i \in 1..(n + 1) PROVE o[i] \in Nat
    OBVIOUS
  <2>1. i - 1 \in Nat /\ i - 1 <= n /\ (i - 1) + 1 = i
    BY <1>1
  <2> QED BY <1>13, <2>1
<1>15. o \in [1..(n + 1) -> Nat]
  BY <1>9, <1>14
<1> QED BY <1>9, <1>10, <1>15 DEF o

(***************************************************************************)
(* A block begins no later than the ones after it.                         *)
(***************************************************************************)
LEMMA OffsetsGrow ==
  ASSUME NEW bs \in Seq(Block), NEW i \in 1..(Len(bs) + 1), NEW j \in i..(Len(bs) + 1)
  PROVE  Offsets(bs)[i] <= Offsets(bs)[j]
<1> DEFINE n == Len(bs)
           o == Offsets(bs)
           S == {m \in Nat : i + m <= n + 1 => o[i] <= o[i + m]}
<1>1. n \in Nat /\ i \in Nat
  OBVIOUS
<1>2. /\ o \in [1..(n + 1) -> Nat]
      /\ \A k \in 1..n : o[k + 1] = o[k] + bs[k].len
  BY OffsetsFacts
<1> HIDE DEF o
<1>3. 0 \in S
  BY <1>1, <1>2
<1>4. ASSUME NEW m \in Nat, m \in S PROVE m + 1 \in S
  <2> SUFFICES ASSUME i + (m + 1) <= n + 1 PROVE o[i] <= o[i + (m + 1)]
    OBVIOUS
  <2>1. i + m \in 1..n /\ i + (m + 1) = (i + m) + 1
    BY <1>1
  <2>2. bs[i + m].len \in Nat
    BY <2>1, BlockFacts
  <2>3. o[i] <= o[i + m]
    BY <1>1, <1>4
  <2>4. o[i] \in Nat /\ o[i + m] \in Nat
    BY <1>1, <1>2, <2>1
  <2> QED BY <1>2, <2>1, <2>2, <2>3, <2>4
<1>5. Nat \subseteq S
  <2> HIDE DEF S
  <2> QED BY <1>3, <1>4, Induction
<1>6. j - i \in Nat /\ i + (j - i) = j /\ j <= n + 1
  BY <1>1
<1> QED BY <1>5, <1>6 DEF o

-----------------------------------------------------------------------------

(***************************************************************************)
(* A function over an initial piece of the positive numbers is a sequence. *)
(***************************************************************************)
LEMMA IsSequence ==
  ASSUME NEW n \in Nat, NEW f, f = [i \in 1..n |-> f[i]]
  PROVE  /\ f \in Seq({f[i] : i \in 1..n})
         /\ Len(f) = n /\ DOMAIN f = 1..n
<1>1. f \in [1..n -> {f[i] : i \in 1..n}]
  OBVIOUS
<1> QED BY <1>1

(***************************************************************************)
(* Concatenation, whatever is in the two sequences.                        *)
(***************************************************************************)
LEMMA Concatenation ==
  ASSUME NEW S, NEW T, NEW s \in Seq(S), NEW t \in Seq(T)
  PROVE  /\ s \o t \in Seq(S \cup T)
         /\ Len(s) \in Nat /\ Len(t) \in Nat
         /\ Len(s \o t) = Len(s) + Len(t)
         /\ DOMAIN (s \o t) = 1..(Len(s) + Len(t))
         /\ \A i \in 1..Len(s) : (s \o t)[i] = s[i]
         /\ \A i \in 1..Len(t) : (s \o t)[Len(s) + i] = t[i]
<1>1. s \in Seq(S \cup T) /\ t \in Seq(S \cup T)
  OBVIOUS
<1>2. s \o t \in Seq(S \cup T) /\ Len(s \o t) = Len(s) + Len(t)
  BY <1>1
<1>3. Len(s) \in Nat /\ Len(t) \in Nat /\ DOMAIN (s \o t) = 1..(Len(s) + Len(t))
  BY <1>1, <1>2
<1>4. \A i \in 1..Len(s) : (s \o t)[i] = s[i]
  BY <1>1
<1>5. \A i \in 1..Len(t) : (s \o t)[Len(s) + i] = t[i]
  BY <1>1
<1> QED BY <1>2, <1>3, <1>4, <1>5

(***************************************************************************)
(* A tree takes as many pages as are counted for it.                       *)
(***************************************************************************)
LEMMA PageCountFacts ==
  ASSUME NEW n \in Nat, NEW max \in Nat \ {0}
  PROVE  /\ LeafCount(n, max) \in Nat \ {0}
         /\ PageCount(n, max) \in Nat \ {0}
         /\ n = 0 => PageCount(n, max) = 1
<1>1. CASE n = 0
  BY <1>1 DEF PageCount, LeafCount, HasIntermediate
<1>2. CASE n # 0
  <2> DEFINE q == (n + max - 1) \div max
  <2>1. n + max - 1 \in Nat
    OBVIOUS
  <2>2. /\ q \in Nat /\ n + max - 1 = max * q + ((n + max - 1) % max)
        /\ (n + max - 1) % max \in 0..(max - 1)
    BY <2>1, Division
  <2> HIDE DEF q
  <2>3. q # 0
    BY <2>2, <1>2
  <2>4. LeafCount(n, max) \in Nat \ {0}
    BY <1>2, <2>2, <2>3 DEF LeafCount, q
  <2> QED BY <1>2, <2>4 DEF PageCount, HasIntermediate
<1> QED BY <1>1, <1>2

(***************************************************************************)
(* The i-th page of a tree is for the i-th of the places it is given, the  *)
(* root for the last of them.                                              *)
(***************************************************************************)
LEMMA TreeFacts ==
  ASSUME NEW tree, NEW entries, Len(entries) \in Nat, NEW max \in Nat \ {0},
         NEW refs, DOMAIN refs = 1..PageCount(Len(entries), max),
         Len(refs) = PageCount(Len(entries), max)
  PROVE  LET pages == TreePages(tree, entries, max, refs)
             n     == PageCount(Len(entries), max)
         IN  /\ Len(pages) = n /\ DOMAIN pages = 1..n
             /\ \A i \in 1..n : pages[i].ref = refs[i]
<1> DEFINE m      == LeafCount(Len(entries), max)
           sorted == SortedByKey(entries)
           leaves == [i \in 1..m |-> Leaf(tree, sorted, max, i, refs[i])]
           root   == Intermediate(tree, leaves, Last(refs))
           n      == PageCount(Len(entries), max)
<1> HIDE DEF sorted
<1>1. m \in Nat \ {0} /\ n \in Nat \ {0}
  BY PageCountFacts
<1>2. leaves \in Seq({leaves[i] : i \in 1..m}) /\ Len(leaves) = m /\ DOMAIN leaves = 1..m
  BY <1>1, IsSequence
<1>3. \A i \in 1..m : leaves[i].ref = refs[i]
  BY DEF Leaf
<1>4. root.ref = refs[n]
  BY DEF Intermediate, Last
<1>5. TreePages(tree, entries, max, refs) = IF m = 1 THEN leaves ELSE Append(leaves, root)
  BY DEF TreePages, sorted
<1>6. n = IF m = 1 THEN 1 ELSE m + 1
  BY <1>1 DEF PageCount, HasIntermediate
<1> HIDE DEF leaves, root, m, n
<1>7. CASE m = 1
  BY <1>2, <1>3, <1>5, <1>6, <1>7 DEF n
<1>8. CASE m # 1
  <2> DEFINE S == {leaves[i] : i \in 1..m} \cup {root}
  <2>1. leaves \in Seq(S) /\ root \in S
    BY <1>2
  <2> HIDE DEF S
  <2>2. /\ Len(Append(leaves, root)) = m + 1 /\ DOMAIN Append(leaves, root) = 1..(m + 1)
        /\ \A i \in 1..m : Append(leaves, root)[i] = leaves[i]
        /\ Append(leaves, root)[m + 1] = root
    BY <1>1, <1>2, <2>1
  <2>3. \A i \in 1..(m + 1) : i \in 1..m \/ i = m + 1
    BY <1>1
  <2> QED BY <1>1, <1>3, <1>4, <1>5, <1>6, <1>8, <2>2, <2>3 DEF n
<1> QED BY <1>7, <1>8

(***************************************************************************)
(* What goes into the file once a call's arguments are accepted.           *)
(***************************************************************************)
Given ==
  /\ call \in Calls
  /\ blocks \in Seq(Block) /\ nodes \in Seq(Node)
  /\ call.entry = "Empty" => blocks = <<>> /\ nodes = <<>>

Pages == BbtPages + NbtPages

(***************************************************************************)
(* The numbers the layout is made of.                                      *)
(***************************************************************************)
LEMMA LayoutNumbers ==
  ASSUME Given
  PROVE  /\ Len(blocks) \in Nat /\ Len(nodes) \in Nat /\ DOMAIN blocks = 1..Len(blocks)
         /\ BbtPages \in Nat \ {0} /\ NbtPages \in Nat \ {0} /\ Pages \in Nat
         /\ BlocksStart \in Nat /\ BlocksStart = IbAMap + PageSize
         /\ PagesStart \in Nat /\ BlockIb(Len(blocks) + 1) \in Nat
         /\ PagesStart >= BlockIb(Len(blocks) + 1)
         /\ IbFileEof = PagesStart + Pages * PageSize /\ IbFileEof \in Nat
         /\ PageBids \in Nat
<1>1. Len(blocks) \in Nat /\ Len(nodes) \in Nat /\ DOMAIN blocks = 1..Len(blocks)
  BY DEF Given
<1>2. BbtPages \in Nat \ {0} /\ NbtPages \in Nat \ {0}
  BY <1>1, PageCountFacts, SizesAssumption DEF BbtPages, NbtPages
<1>3. Pages \in Nat
  BY <1>2 DEF Pages
<1>4. BlocksStart \in Nat /\ BlocksStart = IbAMap + PageSize
  BY SizesAssumption DEF BlocksStart
<1>5. BlockIb(Len(blocks) + 1) \in Nat
  <2>1. Offsets(blocks) \in [1..(Len(blocks) + 1) -> Nat]
    BY OffsetsFacts DEF Given
  <2> QED BY <1>1, <2>1 DEF BlockIb
<1>6. PagesStart \in Nat /\ PagesStart >= BlockIb(Len(blocks) + 1)
  BY <1>5, AlignUpFacts, SizesAssumption DEF PagesStart
<1>7. IbFileEof = PagesStart + Pages * PageSize
  BY DEF IbFileEof, Pages
<1>8. IbFileEof \in Nat
  <2>1. Pages * PageSize \in Nat
    BY <1>3, SizesAssumption
  <2> QED BY <1>6, <1>7, <2>1
<1>9. PageBids \in Nat
  BY SizesAssumption DEF PageBids
<1> QED BY <1>1, <1>2, <1>3, <1>4, <1>5, <1>6, <1>7, <1>8, <1>9

(***************************************************************************)
(* Each of the two trees has its pages in the places meant for it.         *)
(***************************************************************************)
LEMMA TreePlaces ==
  ASSUME Given
  PROVE  /\ Len(BbtRefs) = BbtPages /\ Len(NbtRefs) = NbtPages
         /\ Len(BbtTree) = BbtPages /\ DOMAIN BbtTree = 1..BbtPages
         /\ \A i \in 1..BbtPages : BbtTree[i].ref = BbtRefs[i]
         /\ Len(NbtTree) = NbtPages /\ DOMAIN NbtTree = 1..NbtPages
         /\ \A i \in 1..NbtPages : NbtTree[i].ref = NbtRefs[i]
<1> USE LayoutNumbers
<1>1. /\ BbtRefs = [i \in 1..BbtPages |-> BbtRefs[i]]
      /\ NbtRefs = [i \in 1..NbtPages |-> NbtRefs[i]]
  BY DEF BbtRefs, NbtRefs
<1>2. /\ DOMAIN BbtRefs = 1..BbtPages /\ Len(BbtRefs) = BbtPages
      /\ DOMAIN NbtRefs = 1..NbtPages /\ Len(NbtRefs) = NbtPages
  BY <1>1, IsSequence
<1>3. Len(BbtEntries) = Len(blocks)
  <2>1. BbtEntries = [i \in 1..Len(blocks) |-> BbtEntries[i]]
    BY DEF BbtEntries
  <2> QED BY <2>1, IsSequence
<1>4. Len(NbtEntries) = Len(nodes)
  <2>1. NbtEntries = [i \in 1..Len(nodes) |-> NbtEntries[i]]
    BY DEF NbtEntries, Given
  <2> QED BY <2>1, IsSequence
<1>5. /\ Len(BbtTree) = BbtPages /\ DOMAIN BbtTree = 1..BbtPages
      /\ \A i \in 1..BbtPages : BbtTree[i].ref = BbtRefs[i]
  BY <1>2, <1>3, TreeFacts, SizesAssumption, SMTT(30) DEF BbtTree, BbtPages
<1>6. /\ Len(NbtTree) = NbtPages /\ DOMAIN NbtTree = 1..NbtPages
      /\ \A i \in 1..NbtPages : NbtTree[i].ref = NbtRefs[i]
  BY <1>2, <1>4, TreeFacts, SizesAssumption, SMTT(30) DEF NbtTree, NbtPages
<1> QED BY <1>2, <1>5, <1>6

(***************************************************************************)
(* The pages of the two trees as they are laid out: the p-th of them has   *)
(* the p-th place and the p-th BID, although the NBT's places and BIDs are *)
(* counted apart.                                                          *)
(***************************************************************************)
LEMMA PagesFacts ==
  ASSUME Given
  PROVE  LET first  == IF call.entry = "Empty" THEN NbtTree ELSE BbtTree
             second == IF call.entry = "Empty" THEN BbtTree ELSE NbtTree
         IN  /\ Len(first) \in Nat /\ Len(second) \in Nat /\ Len(first) + Len(second) = Pages
             /\ DOMAIN first = 1..Len(first) /\ DOMAIN second = 1..Len(second)
             /\ \A i \in 1..Len(first) : first[i].ref = PageRef(i)
             /\ \A i \in 1..Len(second) : second[i].ref = PageRef(Len(first) + i)
<1> USE LayoutNumbers
<1>1. /\ Len(BbtTree) = BbtPages /\ DOMAIN BbtTree = 1..BbtPages
      /\ \A i \in 1..BbtPages : BbtTree[i].ref = BbtRefs[i]
  BY TreePlaces
<1>2. /\ Len(NbtTree) = NbtPages /\ DOMAIN NbtTree = 1..NbtPages
      /\ \A i \in 1..NbtPages : NbtTree[i].ref = NbtRefs[i]
  BY TreePlaces
<1>3. \A i \in 1..BbtPages : BbtRefs[i] = PageRef(BbtFirst + i - 1)
  BY DEF BbtRefs
<1>4. \A i \in 1..NbtPages : NbtRefs[i] = PageRef(NbtFirst + i - 1)
  <2>1. NbtFirst = NbtPlace
    BY DEF NbtFirst, NbtPlace
  <2> QED BY <2>1 DEF NbtRefs, PageRef
<1>5. CASE call.entry = "Empty"
  <2>1. NbtFirst = 1 /\ BbtFirst = NbtPages + 1
    BY <1>5 DEF NbtFirst, BbtFirst
  <2>2. \A i \in 1..NbtPages : NbtTree[i].ref = PageRef(i)
    <3>1. \A i \in 1..NbtPages : NbtFirst + i - 1 = i
      BY <2>1
    <3> QED BY <1>2, <1>4, <3>1
  <2>3. \A i \in 1..BbtPages : BbtTree[i].ref = PageRef(NbtPages + i)
    <3>1. \A i \in 1..BbtPages : BbtFirst + i - 1 = NbtPages + i
      BY <2>1
    <3> QED BY <1>1, <1>3, <3>1
  <2>4. Len(NbtTree) + Len(BbtTree) = Pages
    BY <1>1, <1>2 DEF Pages
  <2> QED BY <1>1, <1>2, <1>5, <2>2, <2>3, <2>4
<1>6. CASE call.entry # "Empty"
  <2>1. NbtFirst = BbtPages + 1 /\ BbtFirst = 1
    BY <1>6 DEF NbtFirst, BbtFirst
  <2>2. \A i \in 1..NbtPages : NbtTree[i].ref = PageRef(BbtPages + i)
    <3>1. \A i \in 1..NbtPages : NbtFirst + i - 1 = BbtPages + i
      BY <2>1
    <3> QED BY <1>2, <1>4, <3>1
  <2>3. \A i \in 1..BbtPages : BbtTree[i].ref = PageRef(i)
    <3>1. \A i \in 1..BbtPages : BbtFirst + i - 1 = i
      BY <2>1
    <3> QED BY <1>1, <1>3, <3>1
  <2>4. Len(BbtTree) + Len(NbtTree) = Pages
    BY <1>1, <1>2 DEF Pages
  <2> QED BY <1>1, <1>2, <1>6, <2>2, <2>3, <2>4
<1> QED BY <1>5, <1>6

(***************************************************************************)
(* The layout piece by piece: header, map, blocks, pages; each page of the *)
(* two trees is among them.                                                *)
(***************************************************************************)
LEMMA LayoutPieces ==
  ASSUME Given
  PROVE  /\ DOMAIN Layout = 1..(Len(blocks) + 2 + Pages)
         /\ Len(Layout) = Len(blocks) + 2 + Pages
         /\ Layout[1] = [at |-> 0, len |-> HeaderSize, data |-> Header]
         /\ Layout[2] = [at |-> IbAMap, len |-> PageSize,
                         data |-> [kind |-> "amap", marked |-> MarkedUnits]]
         /\ \A b \in 1..Len(blocks) :
              Layout[b + 2] = [at |-> BlocksStart, len |-> blocks[b].len,
                               data |-> [kind |-> "block", bid |-> blocks[b].bid]]
         /\ \A p \in 1..Pages :
              \E page : /\ page.ref = PageRef(p)
                        /\ Layout[Len(blocks) + 2 + p] =
                             [at |-> page.ref.ib, len |-> PageSize,
                              data |-> [kind |-> "page", page |-> page]]
         /\ \A i \in 1..Len(BbtTree) : \E p \in 1..Pages :
              Layout[Len(blocks) + 2 + p].data = [kind |-> "page", page |-> BbtTree[i]]
         /\ \A i \in 1..Len(NbtTree) : \E p \in 1..Pages :
              Layout[Len(blocks) + 2 + p].data = [kind |-> "page", page |-> NbtTree[i]]
<1> DEFINE piece(page) == [at |-> page.ref.ib, len |-> PageSize,
                           data |-> [kind |-> "page", page |-> page]]
           n      == Len(blocks)
           front  == << [at |-> 0, len |-> HeaderSize, data |-> Header],
                        [at |-> IbAMap, len |-> PageSize,
                         data |-> [kind |-> "amap", marked |-> MarkedUnits]] >>
           bodies == [i \in DOMAIN blocks |->
                       [at |-> BlocksStart, len |-> blocks[i].len,
                        data |-> [kind |-> "block", bid |-> blocks[i].bid]]]
           first  == IF call.entry = "Empty" THEN NbtTree ELSE BbtTree
           second == IF call.entry = "Empty" THEN BbtTree ELSE NbtTree
           one    == [i \in DOMAIN first |-> piece(first[i])]
           two    == [i \in DOMAIN second |-> piece(second[i])]
<1>1. n \in Nat /\ DOMAIN blocks = 1..n
  BY LayoutNumbers
<1>2. /\ Len(first) \in Nat /\ Len(second) \in Nat /\ Len(first) + Len(second) = Pages
      /\ DOMAIN first = 1..Len(first) /\ DOMAIN second = 1..Len(second)
      /\ \A i \in 1..Len(first) : first[i].ref = PageRef(i)
      /\ \A i \in 1..Len(second) : second[i].ref = PageRef(Len(first) + i)
  BY PagesFacts
<1>3. Layout = (front \o bodies) \o (one \o two)
  BY DEF Layout
<1> HIDE DEF first, second
<1>4. front \in Seq({front[1], front[2]}) /\ Len(front) = 2
  OBVIOUS
<1>5. bodies \in Seq({bodies[i] : i \in 1..n}) /\ Len(bodies) = n
  BY <1>1, IsSequence
<1>6. one \in Seq({one[i] : i \in 1..Len(first)}) /\ Len(one) = Len(first)
  BY <1>2, IsSequence
<1>7. two \in Seq({two[i] : i \in 1..Len(second)}) /\ Len(two) = Len(second)
  BY <1>2, IsSequence
<1>8. /\ \A i \in 1..n : bodies[i] = [at |-> BlocksStart, len |-> blocks[i].len,
                                      data |-> [kind |-> "block", bid |-> blocks[i].bid]]
      /\ \A i \in 1..Len(first) : one[i] = piece(first[i])
      /\ \A i \in 1..Len(second) : two[i] = piece(second[i])
      /\ front[1] = [at |-> 0, len |-> HeaderSize, data |-> Header]
      /\ front[2] = [at |-> IbAMap, len |-> PageSize,
                     data |-> [kind |-> "amap", marked |-> MarkedUnits]]
  BY <1>1, <1>2
<1> HIDE DEF front, bodies, one, two, piece
<1> DEFINE A == {front[1], front[2]}
           B == {bodies[i] : i \in 1..n}
           C == {one[i] : i \in 1..Len(first)}
           D == {two[i] : i \in 1..Len(second)}
           lower == front \o bodies
           upper == one \o two
<1>9. /\ lower \in Seq(A \cup B) /\ Len(lower) = n + 2
      /\ lower[1] = front[1] /\ lower[2] = front[2]
      /\ \A i \in 1..n : lower[i + 2] = bodies[i]
  <2> HIDE DEF A, B
  <2>1. front \in Seq(A) /\ bodies \in Seq(B)
    BY <1>4, <1>5 DEF A, B
  <2>2. \A i \in 1..n : 2 + i = i + 2
    BY <1>1
  <2>3. /\ front \o bodies \in Seq(A \cup B) /\ Len(front \o bodies) = Len(front) + Len(bodies)
        /\ \A i \in 1..Len(front) : (front \o bodies)[i] = front[i]
        /\ \A i \in 1..Len(bodies) : (front \o bodies)[Len(front) + i] = bodies[i]
    BY <2>1, Concatenation
  <2> QED BY <1>1, <1>4, <1>5, <2>2, <2>3, SMTT(30)
<1>10. /\ upper \in Seq(C \cup D) /\ Len(upper) = Pages
       /\ \A i \in 1..Len(first) : upper[i] = one[i]
       /\ \A i \in 1..Len(second) : upper[Len(first) + i] = two[i]
  <2> HIDE DEF C, D
  <2>1. one \in Seq(C) /\ two \in Seq(D)
    BY <1>6, <1>7 DEF C, D
  <2>2. /\ one \o two \in Seq(C \cup D) /\ Len(one \o two) = Len(one) + Len(two)
        /\ \A i \in 1..Len(one) : (one \o two)[i] = one[i]
        /\ \A i \in 1..Len(two) : (one \o two)[Len(one) + i] = two[i]
    BY <2>1, Concatenation
  <2> QED BY <1>2, <1>6, <1>7, <2>2
<1> HIDE DEF lower, upper
<1>11. /\ Len(Layout) = n + 2 + Pages /\ DOMAIN Layout = 1..(n + 2 + Pages)
       /\ \A i \in 1..(n + 2) : Layout[i] = lower[i]
       /\ \A i \in 1..Pages : Layout[n + 2 + i] = upper[i]
  <2> HIDE DEF A, B, C, D
  <2> DEFINE L == A \cup B
             U == C \cup D
  <2>1. Layout = lower \o upper
    BY <1>3 DEF lower, upper
  <2>3. lower \in Seq(L) /\ upper \in Seq(U)
    BY <1>9, <1>10
  <2> HIDE DEF L, U
  <2>2. /\ Len(lower \o upper) = Len(lower) + Len(upper)
        /\ DOMAIN (lower \o upper) = 1..(Len(lower) + Len(upper))
        /\ \A i \in 1..Len(lower) : (lower \o upper)[i] = lower[i]
        /\ \A i \in 1..Len(upper) : (lower \o upper)[Len(lower) + i] = upper[i]
    BY <2>3, Concatenation
  <2> QED BY <1>1, <1>9, <1>10, <2>1, <2>2
<1>12. Layout[1] = front[1] /\ Layout[2] = front[2]
  BY <1>1, <1>9, <1>11
<1>13. \A b \in 1..n : Layout[b + 2] = bodies[b]
  <2> SUFFICES ASSUME NEW b \in 1..n PROVE Layout[b + 2] = bodies[b]
    OBVIOUS
  <2>1. b + 2 \in 1..(n + 2)
    BY <1>1
  <2> QED BY <1>9, <1>11, <2>1
<1>14. \A p \in 1..Pages : \E page : page.ref = PageRef(p) /\ Layout[n + 2 + p] = piece(page)
  <2> SUFFICES ASSUME NEW p \in 1..Pages
               PROVE  \E page : page.ref = PageRef(p) /\ Layout[n + 2 + p] = piece(page)
    OBVIOUS
  <2>1. Layout[n + 2 + p] = upper[p]
    BY <1>11
  <2>2. CASE p \in 1..Len(first)
    BY <1>2, <1>8, <1>10, <2>1, <2>2, SMTT(30)
  <2>3. CASE p \notin 1..Len(first)
    <3>1. p - Len(first) \in 1..Len(second) /\ Len(first) + (p - Len(first)) = p
      BY <1>2, <2>3, LayoutNumbers
    <3>2. upper[p] = piece(second[p - Len(first)])
      BY <1>8, <1>10, <3>1
    <3>3. second[p - Len(first)].ref = PageRef(p)
      BY <1>2, <3>1
    <3> QED BY <2>1, <3>2, <3>3
  <2> QED BY <2>2, <2>3
<1>15. /\ \A i \in 1..Len(first) : \E p \in 1..Pages : Layout[n + 2 + p] = piece(first[i])
       /\ \A i \in 1..Len(second) : \E p \in 1..Pages : Layout[n + 2 + p] = piece(second[i])
  <2>1. ASSUME NEW i \in 1..Len(first)
        PROVE  \E p \in 1..Pages : Layout[n + 2 + p] = piece(first[i])
    <3>1. i \in 1..Pages
      BY <1>2
    <3> QED BY <1>8, <1>10, <1>11, <3>1
  <2>2. ASSUME NEW i \in 1..Len(second)
        PROVE  \E p \in 1..Pages : Layout[n + 2 + p] = piece(second[i])
    <3>1. Len(first) + i \in 1..Pages
      BY <1>2
    <3> QED BY <1>8, <1>10, <1>11, <3>1
  <2> QED BY <2>1, <2>2
<1>16. \A page : piece(page).data = [kind |-> "page", page |-> page]
  BY DEF piece
<1>17. /\ \A i \in 1..Len(BbtTree) : \E p \in 1..Pages :
            Layout[n + 2 + p].data = [kind |-> "page", page |-> BbtTree[i]]
       /\ \A i \in 1..Len(NbtTree) : \E p \in 1..Pages :
            Layout[n + 2 + p].data = [kind |-> "page", page |-> NbtTree[i]]
  <2>1. CASE call.entry = "Empty"
    <3>1. first = NbtTree /\ second = BbtTree
      BY <2>1 DEF first, second
    <3> QED BY <1>15, <1>16, <3>1
  <2>2. CASE call.entry # "Empty"
    <3>1. first = BbtTree /\ second = NbtTree
      BY <2>2 DEF first, second
    <3> QED BY <1>15, <1>16, <3>1
  <2> QED BY <2>1, <2>2
<1> QED BY <1>8, <1>11, <1>12, <1>13, <1>14, <1>17 DEF piece

-----------------------------------------------------------------------------

(***************************************************************************)
(* Where the k-th piece of a laid out file is expected: a block where it   *)
(* was encoded for, any other piece at its offset in the layout; and the   *)
(* first byte behind it.                                                   *)
(***************************************************************************)
Place(lay, k) == IF lay[k].data.kind = "block" THEN encodedAt[k - 2] ELSE lay[k].at
End(lay, k) == IF k = 0 THEN 0 ELSE Place(lay, k) + lay[k].len

PageIndices(lay) == {k \in 1..Len(lay) : lay[k].data.kind = "page"}

Covered == IbAMap .. (IbAMap + Coverage - 1)

\* The pieces: header, map, the blocks, pages.
PlanShape(lay) ==
  /\ Len(lay) \in Nat /\ DOMAIN lay = 1..Len(lay) /\ Len(lay) >= 2
  /\ lay[1].data.kind = "header" /\ lay[2].data.kind = "amap"
  /\ \A k \in 3..Len(lay) :
       \/ /\ k - 2 \in 1..Len(blocks)
          /\ lay[k].data.kind = "block" /\ lay[k].data.bid = blocks[k - 2].bid
       \/ /\ k - 2 \notin 1..Len(blocks)
          /\ lay[k].data.kind = "page" /\ lay[k].at = lay[k].data.page.ref.ib
  /\ \A k \in 1..Len(lay) : lay[k].at \in Nat /\ lay[k].len \in Nat \ {0}

\* A piece written behind the one before it, after the padding it asks for,
\* comes to lie where it is expected, and the last ends where the header says.
PlanMeets(lay) ==
  /\ lay[1].at = 0 /\ lay[2].at = IbAMap
  /\ \A k \in 1..Len(lay) :
       /\ Place(lay, k) \in Nat
       /\ Place(lay, k) = IF lay[k].at > End(lay, k - 1) THEN lay[k].at ELSE End(lay, k - 1)
       /\ End(lay, k) <= lay[1].data.ibFileEof
  /\ End(lay, Len(lay)) = lay[1].data.ibFileEof

\* The map marks what is in its range of the file and no more.
PlanMapped(lay) ==
  /\ lay[2].data.marked \subseteq 0 .. (lay[1].data.ibFileEof - 1)
  /\ Covered \cap 0 .. (lay[1].data.ibFileEof - 1) \subseteq lay[2].data.marked
  /\ Cardinality(Covered \ lay[2].data.marked) = lay[1].data.cbAMapFree

\* The pages' BIDs differ and are below the next one.
PlanBids(lay) ==
  LET bid(k) == lay[k].data.page.ref.bid
  IN  /\ \A k, l \in PageIndices(lay) : bid(k) = bid(l) => k = l
      /\ call.entry \in {"M5", "Empty"} =>
           \A k \in PageIndices(lay) : bid(k) < lay[1].data.bidNextP

PlanFits(lay) == PlanShape(lay) /\ PlanMeets(lay) /\ PlanMapped(lay) /\ PlanBids(lay)

\* The callers encoded every block for the place that the layout gives it.
Encoded ==
  /\ encodedAt \in Seq(Nat) /\ Len(encodedAt) = Len(blocks)
  /\ \A b \in 1..Len(blocks) : encodedAt[b] = Offsets(blocks)[b]

(***************************************************************************)
(* The pieces of the layout are of the right kinds and in the right order, *)
(* with natural offsets and positive lengths.                              *)
(***************************************************************************)
LEMMA LayoutShape ==
  ASSUME Given
  PROVE  PlanShape(Layout)
<1> DEFINE n == Len(blocks)
           fits(k) ==
             \/ /\ k - 2 \in 1..n
                /\ Layout[k].data.kind = "block" /\ Layout[k].data.bid = blocks[k - 2].bid
             \/ /\ k - 2 \notin 1..n
                /\ Layout[k].data.kind = "page" /\ Layout[k].at = Layout[k].data.page.ref.ib
           numbers(k) == Layout[k].at \in Nat /\ Layout[k].len \in Nat \ {0}
<1>1. /\ Len(Layout) = n + 2 + Pages /\ DOMAIN Layout = 1..Len(Layout)
      /\ n \in Nat /\ Pages \in Nat
  BY LayoutNumbers, LayoutPieces
<1>2. Layout[1].data.kind = "header" /\ Layout[2].data.kind = "amap" /\ numbers(1) /\ numbers(2)
  BY LayoutPieces, SizesAssumption DEF Header
<1>3. ASSUME NEW b \in 1..n PROVE fits(b + 2) /\ numbers(b + 2)
  <2>1. Layout[b + 2] = [at |-> BlocksStart, len |-> blocks[b].len,
                         data |-> [kind |-> "block", bid |-> blocks[b].bid]]
    BY LayoutPieces
  <2>2. (b + 2) - 2 = b
    OBVIOUS
  <2>3. blocks[b].len \in Nat \ {0} /\ BlocksStart \in Nat
    BY BlockFacts, LayoutNumbers DEF Given
  <2> QED BY <2>1, <2>2, <2>3
<1>4. ASSUME NEW p \in 1..Pages PROVE fits(n + 2 + p) /\ numbers(n + 2 + p)
  <2>1. PICK page : /\ page.ref = PageRef(p)
                    /\ Layout[n + 2 + p] = [at |-> page.ref.ib, len |-> PageSize,
                                            data |-> [kind |-> "page", page |-> page]]
    BY LayoutPieces
  <2>2. PageRef(p).ib \in Nat
    <3>1. p - 1 \in Nat /\ PageSize \in Nat /\ PagesStart \in Nat
      BY <1>1, LayoutNumbers, SizesAssumption
    <3>2. (p - 1) * PageSize \in Nat
      BY <3>1
    <3> QED BY <3>1, <3>2 DEF PageRef
  <2>3. (n + 2 + p) - 2 \notin 1..n
    BY <1>1
  <2> QED BY <2>1, <2>2, <2>3, SizesAssumption
<1>5. ASSUME NEW k \in 3..Len(Layout) PROVE fits(k) /\ numbers(k)
  <2>1. \/ k - 2 \in 1..n /\ (k - 2) + 2 = k
        \/ k - (n + 2) \in 1..Pages /\ n + 2 + (k - (n + 2)) = k
    BY <1>1
  <2> HIDE DEF fits, numbers, n
  <2>2. CASE k - 2 \in 1..n /\ (k - 2) + 2 = k
    <3>1. fits((k - 2) + 2) /\ numbers((k - 2) + 2)
      BY <1>3, <2>2
    <3> QED BY <2>2, <3>1
  <2>3. CASE k - (n + 2) \in 1..Pages /\ n + 2 + (k - (n + 2)) = k
    <3>1. fits(n + 2 + (k - (n + 2))) /\ numbers(n + 2 + (k - (n + 2)))
      BY <1>4, <2>3
    <3> QED BY <2>3, <3>1
  <2> QED BY <2>1, <2>2, <2>3
<1>6. \A k \in 1..Len(Layout) : numbers(k)
  <2>1. \A k \in 1..Len(Layout) : k = 1 \/ k = 2 \/ k \in 3..Len(Layout)
    BY <1>1
  <2> HIDE DEF numbers, fits
  <2> QED BY <1>2, <1>5, <2>1
<1>7. Len(Layout) \in Nat /\ Len(Layout) >= 2
  BY <1>1
<1> QED BY <1>1, <1>2, <1>5, <1>6, <1>7 DEF PlanShape

(***************************************************************************)
(* The first pass and the encode loops agree: behind the fixed pieces come *)
(* the blocks, each where it was encoded for, and behind them, aligned,    *)
(* one page after the other up to the end in the header.                   *)
(***************************************************************************)
LEMMA LayoutMeets ==
  ASSUME Given, Encoded
  PROVE  PlanMeets(Layout)
<1> DEFINE n == Len(blocks)
           o == Offsets(blocks)
           eof == IbFileEof
<1>1. /\ n \in Nat /\ Pages \in Nat /\ BlocksStart = IbAMap + PageSize
      /\ PagesStart \in Nat /\ PagesStart >= o[n + 1]
      /\ eof = PagesStart + Pages * PageSize /\ eof \in Nat
  BY LayoutNumbers DEF BlockIb
<1>2. /\ o \in [1..(n + 1) -> Nat] /\ o[1] = BlocksStart
      /\ \A i \in 1..n : o[i + 1] = o[i] + blocks[i].len
  BY OffsetsFacts DEF Given
<1>3. \A i \in 1..(n + 1) : o[1] <= o[i] /\ o[i] <= o[n + 1]
  BY <1>1, OffsetsGrow DEF Given
<1>4. Len(Layout) = n + 2 + Pages
  BY LayoutPieces
<1>5. /\ Layout[1].data.ibFileEof = eof /\ Layout[1].at = 0 /\ Layout[2].at = IbAMap
      /\ Place(Layout, 1) = 0 /\ End(Layout, 1) = HeaderSize
      /\ Place(Layout, 2) = IbAMap /\ End(Layout, 2) = BlocksStart
  <2>1. /\ Layout[1] = [at |-> 0, len |-> HeaderSize, data |-> Header]
        /\ Layout[2] = [at |-> IbAMap, len |-> PageSize,
                        data |-> [kind |-> "amap", marked |-> MarkedUnits]]
    BY LayoutPieces
  <2>2. Header.kind = "header" /\ Header.ibFileEof = eof
    BY DEF Header
  <2> QED BY <1>1, <2>1, <2>2, SizesAssumption DEF Place, End
<1>6. ASSUME NEW b \in 1..n
      PROVE  /\ Layout[b + 2].at = BlocksStart
             /\ Place(Layout, b + 2) = o[b] /\ End(Layout, b + 2) = o[b + 1]
  <2>1. Layout[b + 2] = [at |-> BlocksStart, len |-> blocks[b].len,
                         data |-> [kind |-> "block", bid |-> blocks[b].bid]]
    BY LayoutPieces
  <2>2. (b + 2) - 2 = b /\ b + 2 # 0
    OBVIOUS
  <2>3. Place(Layout, b + 2) = o[b]
    BY <2>1, <2>2 DEF Place, Encoded
  <2> QED BY <1>2, <2>1, <2>2, <2>3 DEF End
<1>7. \A b \in 1..n : End(Layout, (b + 2) - 1) = o[b]
  <2> SUFFICES ASSUME NEW b \in 1..n PROVE End(Layout, (b + 2) - 1) = o[b]
    OBVIOUS
  <2>1. CASE b = 1
    BY <1>2, <1>5, <2>1
  <2>2. CASE b # 1
    <3>1. b - 1 \in 1..n /\ (b - 1) + 2 = (b + 2) - 1 /\ (b - 1) + 1 = b
      BY <1>1, <2>2
    <3>2. End(Layout, (b - 1) + 2) = o[(b - 1) + 1]
      BY <1>6, <3>1
    <3> QED BY <3>1, <3>2
  <2> QED BY <2>1, <2>2
<1>8. End(Layout, n + 2) = o[n + 1]
  <2>1. CASE n = 0
    BY <1>2, <1>5, <2>1
  <2>2. CASE n # 0
    BY <1>1, <1>6, <2>2
  <2> QED BY <2>1, <2>2
<1>9. ASSUME NEW p \in 1..Pages
      PROVE  /\ (p - 1) * PageSize \in Nat /\ (p - 1) * PageSize + PageSize = p * PageSize
             /\ p * PageSize <= Pages * PageSize
             /\ Layout[n + 2 + p].at = PagesStart + (p - 1) * PageSize
             /\ Place(Layout, n + 2 + p) = PagesStart + (p - 1) * PageSize
             /\ End(Layout, n + 2 + p) = PagesStart + p * PageSize
  <2>1. (p - 1) * PageSize \in Nat /\ (p - 1) * PageSize + PageSize = p * PageSize
    <3>1. p - 1 \in Nat /\ PageSize \in Nat
      BY <1>1, SizesAssumption
    <3> QED BY <3>1
  <2>2. p * PageSize <= Pages * PageSize
    <3>1. Pages - p \in Nat /\ PageSize \in Nat /\ p \in Nat
      BY <1>1, SizesAssumption
    <3>2. (Pages - p) * PageSize \in Nat
      BY <3>1
    <3>3. Pages * PageSize = p * PageSize + (Pages - p) * PageSize
      BY <1>1, <3>1
    <3>4. p * PageSize \in Nat
      BY <3>1
    <3> QED BY <3>2, <3>3, <3>4
  <2>3. PICK page : /\ page.ref = PageRef(p)
                    /\ Layout[n + 2 + p] = [at |-> page.ref.ib, len |-> PageSize,
                                            data |-> [kind |-> "page", page |-> page]]
    BY LayoutPieces
  <2>4. PageRef(p).ib = PagesStart + (p - 1) * PageSize
    BY DEF PageRef
  <2>5. Layout[n + 2 + p].at = PagesStart + (p - 1) * PageSize
    BY <2>3, <2>4
  <2>6. Place(Layout, n + 2 + p) = PagesStart + (p - 1) * PageSize
    BY <2>3, <2>5 DEF Place
  <2>7. n + 2 + p # 0 /\ Layout[n + 2 + p].len = PageSize
    BY <1>1, <2>3
  <2>8. End(Layout, n + 2 + p) = PagesStart + (p - 1) * PageSize + PageSize
    BY <2>6, <2>7 DEF End
  <2>9. PagesStart + (p - 1) * PageSize + PageSize = PagesStart + p * PageSize
    BY <1>1, <2>1, SizesAssumption
  <2> QED BY <2>1, <2>2, <2>5, <2>6, <2>8, <2>9
<1>10. \A p \in 1..Pages :
         IF p = 1 THEN End(Layout, (n + 2 + p) - 1) = o[n + 1]
         ELSE End(Layout, (n + 2 + p) - 1) = PagesStart + (p - 1) * PageSize
  <2> SUFFICES ASSUME NEW p \in 1..Pages
               PROVE  IF p = 1 THEN End(Layout, (n + 2 + p) - 1) = o[n + 1]
                      ELSE End(Layout, (n + 2 + p) - 1) = PagesStart + (p - 1) * PageSize
    OBVIOUS
  <2>1. CASE p = 1
    <3>1. (n + 2 + p) - 1 = n + 2
      BY <1>1, <2>1
    <3> QED BY <1>8, <2>1, <3>1
  <2>2. CASE p # 1
    <3>1. p - 1 \in 1..Pages /\ n + 2 + (p - 1) = (n + 2 + p) - 1
      BY <1>1, <2>2
    <3>2. End(Layout, n + 2 + (p - 1)) = PagesStart + (p - 1) * PageSize
      BY <1>9, <3>1
    <3> QED BY <2>2, <3>1, <3>2
  <2> QED BY <2>1, <2>2
<1> DEFINE OK(k) ==
      /\ Place(Layout, k) \in Nat
      /\ Place(Layout, k) =
           IF Layout[k].at > End(Layout, k - 1) THEN Layout[k].at ELSE End(Layout, k - 1)
      /\ End(Layout, k) <= eof
<1> HIDE DEF o, eof, n
<1>11. HeaderSize <= eof /\ BlocksStart <= eof /\ o[n + 1] <= eof
  <2> DEFINE s == Pages * PageSize
  <2>1. s \in Nat /\ eof = PagesStart + s
    BY <1>1, SizesAssumption
  <2>2. o[1] \in Nat /\ o[n + 1] \in Nat /\ o[1] <= o[n + 1]
    BY <1>1, <1>2, <1>3
  <2>3. HeaderSize <= BlocksStart /\ HeaderSize \in Nat /\ BlocksStart \in Nat
    BY <1>1, SizesAssumption
  <2> HIDE DEF s
  <2>4. o[n + 1] <= PagesStart /\ PagesStart <= eof /\ PagesStart \in Nat /\ eof \in Nat
    BY <1>1, <2>1
  <2> QED BY <1>2, <2>2, <2>3, <2>4
<1>12. OK(1) /\ OK(2)
  <2>1. End(Layout, 0) = 0
    BY DEF End
  <2> QED BY <1>5, <1>11, <2>1, SizesAssumption
<1>13. ASSUME NEW b \in 1..n PROVE OK(b + 2)
  <2>1. b \in 1..(n + 1) /\ b + 1 \in 1..(n + 1)
    BY <1>1
  <2>2. /\ o[b] \in Nat /\ o[b + 1] \in Nat /\ o[n + 1] \in Nat /\ o[1] \in Nat
        /\ o[1] <= o[b] /\ o[b + 1] <= o[n + 1]
    BY <1>1, <1>2, <1>3, <2>1
  <2>3. /\ Layout[b + 2].at = o[1] /\ Place(Layout, b + 2) = o[b]
        /\ End(Layout, b + 2) = o[b + 1] /\ End(Layout, (b + 2) - 1) = o[b]
    BY <1>2, <1>6, <1>7
  <2> QED BY <1>1, <1>11, <2>2, <2>3
<1>14. ASSUME NEW p \in 1..Pages PROVE OK(n + 2 + p)
  <2> DEFINE q == (p - 1) * PageSize
             r == p * PageSize
             s == Pages * PageSize
  <2>1. /\ q \in Nat /\ q + PageSize = r /\ r <= s
        /\ Layout[n + 2 + p].at = PagesStart + q
        /\ Place(Layout, n + 2 + p) = PagesStart + q
        /\ End(Layout, n + 2 + p) = PagesStart + r
    BY <1>9
  <2>2. /\ p = 1 => q = 0 /\ End(Layout, (n + 2 + p) - 1) = o[n + 1]
        /\ p # 1 => End(Layout, (n + 2 + p) - 1) = PagesStart + q
    <3>1. (1 - 1) * PageSize = 0
      BY SizesAssumption
    <3> QED BY <1>10, <3>1
  <2>3. r \in Nat /\ s \in Nat /\ eof = PagesStart + s
    BY <1>1, <2>1, SizesAssumption
  <2>4. o[n + 1] \in Nat
    BY <1>1, <1>2
  <2> HIDE DEF q, r, s
  <2>5. PagesStart + r <= eof
    BY <1>1, <2>1, <2>3
  <2>6. PagesStart + q \in Nat
    BY <1>1, <2>1
  <2>7. CASE p = 1
    BY <1>1, <2>1, <2>2, <2>4, <2>5, <2>6, <2>7
  <2>8. CASE p # 1
    BY <2>1, <2>2, <2>5, <2>6, <2>8
  <2> QED BY <2>7, <2>8
<1>15. ASSUME NEW k \in 1..Len(Layout) PROVE OK(k)
  <2>1. \/ k = 1 \/ k = 2
        \/ k - 2 \in 1..n /\ (k - 2) + 2 = k
        \/ k - (n + 2) \in 1..Pages /\ n + 2 + (k - (n + 2)) = k
    BY <1>1, <1>4
  <2> HIDE DEF OK
  <2>2. CASE k - 2 \in 1..n /\ (k - 2) + 2 = k
    <3>1. OK((k - 2) + 2)
      BY <1>13, <2>2
    <3> QED BY <2>2, <3>1
  <2>3. CASE k - (n + 2) \in 1..Pages /\ n + 2 + (k - (n + 2)) = k
    <3>1. OK(n + 2 + (k - (n + 2)))
      BY <1>14, <2>3
    <3> QED BY <2>3, <3>1
  <2> QED BY <1>12, <2>1, <2>2, <2>3
<1>16. End(Layout, Len(Layout)) = eof
  <2>1. Pages \in 1..Pages
    BY LayoutNumbers DEF Pages
  <2> QED BY <1>1, <1>4, <1>9, <2>1
<1> QED BY <1>5, <1>15, <1>16 DEF PlanMeets

(***************************************************************************)
(* The map's bits are those of the units before the end of the file, and   *)
(* the header counts the others.                                           *)
(***************************************************************************)
LEMMA LayoutMapped ==
  ASSUME Given
  PROVE  PlanMapped(Layout)
<1> DEFINE eof == IbFileEof
           top == IbAMap + Coverage
           m   == IF eof < top THEN eof ELSE top
<1>1. /\ Layout[2].data.marked = MarkedUnits
      /\ Layout[1].data.ibFileEof = eof /\ Layout[1].data.cbAMapFree = CbAMapFree
  <2>1. Header.ibFileEof = eof /\ Header.cbAMapFree = CbAMapFree
    BY DEF Header
  <2> QED BY <2>1, LayoutPieces
<1>2. IbAMap \in Nat /\ Coverage \in Nat /\ eof \in Nat /\ IbAMap <= eof
  <2> DEFINE s == Pages * PageSize
             e == BlockIb(Len(blocks) + 1)
  <2>1. PagesStart \in Nat /\ PagesStart >= e /\ eof = PagesStart + s /\ eof \in Nat
    BY LayoutNumbers
  <2>2. s \in Nat
    BY LayoutNumbers, SizesAssumption
  <2>3. e >= BlocksStart /\ e \in Nat
    <3>1. /\ Offsets(blocks)[1] = BlocksStart
          /\ Offsets(blocks)[1] <= Offsets(blocks)[Len(blocks) + 1]
      <4>1. blocks \in Seq(Block)
        BY DEF Given
      <4>2. 1 \in 1..(Len(blocks) + 1) /\ Len(blocks) + 1 \in 1..(Len(blocks) + 1)
        BY LayoutNumbers
      <4> QED BY <4>1, <4>2, OffsetsFacts, OffsetsGrow
    <3> QED BY <3>1, LayoutNumbers DEF BlockIb
  <2>4. BlocksStart = IbAMap + PageSize
    BY DEF BlocksStart
  <2> HIDE DEF s, e, eof
  <2> QED BY <2>1, <2>2, <2>3, <2>4, SizesAssumption
<1>3. MarkedUnits = IbAMap .. (m - 1)
  BY DEF MarkedUnits
<1>4. CbAMapFree = top - m
  BY <1>2 DEF CbAMapFree
<1> HIDE DEF eof
<1>5. Cardinality(Covered \ MarkedUnits) = top - m
  <2>1. m \in Int /\ top - 1 \in Int /\ m <= top
    BY <1>2
  <2>2. Covered \ MarkedUnits = m .. (top - 1)
    BY <1>2, <1>3 DEF Covered
  <2>3. Cardinality(m .. (top - 1)) = IF m > top - 1 THEN 0 ELSE (top - 1) - m + 1
    BY <2>1, FS_Interval
  <2>4. m \in Nat /\ top \in Nat
    BY <1>2
  <2> HIDE DEF m, top
  <2>5. (IF m > top - 1 THEN 0 ELSE (top - 1) - m + 1) = top - m
    BY <2>1, <2>4
  <2> QED BY <2>2, <2>3, <2>5
<1>6. MarkedUnits \subseteq 0 .. (eof - 1)
  BY <1>2, <1>3
<1>7. Covered \cap 0 .. (eof - 1) \subseteq MarkedUnits
  BY <1>2, <1>3 DEF Covered
<1> QED BY <1>1, <1>4, <1>5, <1>6, <1>7 DEF PlanMapped

(***************************************************************************)
(* The BIDs of the pages are InternalBid of one index after the other, and *)
(* the next one that writeM5Pst and writeEmptyPst give is behind them.     *)
(***************************************************************************)
LEMMA LayoutBids ==
  ASSUME Given
  PROVE  PlanBids(Layout)
<1> DEFINE n == Len(blocks)
           bid(k) == Layout[k].data.page.ref.bid
<1>1. /\ n \in Nat /\ Pages \in Nat /\ PageBids \in Nat
      /\ BbtPages \in Nat \ {0} /\ NbtPages \in Nat \ {0}
  BY LayoutNumbers
<1>2. ASSUME NEW k \in PageIndices(Layout)
      PROVE  k - (n + 2) \in 1..Pages /\ bid(k) = InternalBid(PageBids + (k - (n + 2)) - 1)
  <2>1. /\ k \in 1..Len(Layout) /\ Layout[k].data.kind = "page"
        /\ Len(Layout) = n + 2 + Pages
    BY <1>2, LayoutPieces DEF PageIndices
  <2>2. k # 1 /\ k # 2 /\ k - 2 \notin 1..n
    BY <2>1, LayoutShape DEF PlanShape
  <2>3. k - (n + 2) \in 1..Pages /\ n + 2 + (k - (n + 2)) = k
    BY <1>1, <2>1, <2>2
  <2>4. PICK page : /\ page.ref = PageRef(k - (n + 2))
                    /\ Layout[n + 2 + (k - (n + 2))] =
                         [at |-> page.ref.ib, len |-> PageSize,
                          data |-> [kind |-> "page", page |-> page]]
    BY <2>3, LayoutPieces
  <2>5. PageRef(k - (n + 2)).bid = InternalBid(PageBids + (k - (n + 2)) - 1)
    BY DEF PageRef
  <2> QED BY <2>3, <2>4, <2>5
<1>3. \A k, l \in PageIndices(Layout) : bid(k) = bid(l) => k = l
  <2> SUFFICES ASSUME NEW k \in PageIndices(Layout), NEW l \in PageIndices(Layout), bid(k) = bid(l)
               PROVE  k = l
    OBVIOUS
  <2>1. k \in Int /\ l \in Int
    BY DEF PageIndices
  <2> DEFINE p == k - (n + 2)
             q == l - (n + 2)
  <2>2. /\ p \in 1..Pages /\ q \in 1..Pages
        /\ InternalBid(PageBids + p - 1) = InternalBid(PageBids + q - 1)
    BY <1>2
  <2>3. p = q
    <3> HIDE DEF p, q
    <3> QED BY <1>1, <2>2 DEF InternalBid
  <2> QED BY <1>1, <2>1, <2>3
<1>4. Layout[1].data.bidNextP = BidNextP
  BY LayoutPieces DEF Header
<1>5. ASSUME call.entry \in {"M5", "Empty"}, NEW k \in PageIndices(Layout)
      PROVE  bid(k) < BidNextP
  <2> DEFINE p == k - (n + 2)
  <2>1. p \in 1..Pages /\ bid(k) = InternalBid(PageBids + p - 1)
    BY <1>2
  <2> HIDE DEF p
  <2>2. CASE call.entry = "M5"
    <3>1. NbtFirst = BbtPages + 1
      BY <2>2 DEF NbtFirst
    <3>2. BidNextP = InternalBid(PageBids + (BbtPages + 1) + NbtPages - 1)
      BY <2>2, <3>1 DEF BidNextP
    <3> QED BY <1>1, <2>1, <3>2 DEF InternalBid, Pages
  <2>3. CASE call.entry = "Empty"
    <3>1. BbtPages = 1 /\ NbtPages = 1
      <4>1. Len(blocks) = 0 /\ Len(nodes) = 0
        BY <2>3 DEF Given
      <4> QED BY <4>1, PageCountFacts, SizesAssumption DEF BbtPages, NbtPages
    <3>2. BidNextP = InternalBid(4) /\ PageBids = 2
      BY <2>3 DEF BidNextP, PageBids
    <3> QED BY <2>1, <3>1, <3>2 DEF InternalBid, Pages
  <2> QED BY <1>5, <2>2, <2>3
<1> QED BY <1>3, <1>4, <1>5 DEF PlanBids

(***************************************************************************)
(* The first pass lays out a file that fits.                               *)
(***************************************************************************)
LEMMA LayoutFits ==
  ASSUME Given, Encoded
  PROVE  PlanFits(Layout)
BY LayoutShape, LayoutMeets, LayoutMapped, LayoutBids DEF PlanFits

-----------------------------------------------------------------------------

(***************************************************************************)
(* writeBlocksPst makes a block of every payload.                          *)
(***************************************************************************)
LEMMA DataBlocksFacts ==
  ASSUME NEW sizes \in Seq(Nat)
  PROVE  DataBlocks(sizes) \in Seq(Block)
<1> DEFINE n == Len(sizes)
<1>1. n \in Nat /\ DOMAIN sizes = 1..n
  OBVIOUS
<1>2. \A i \in 1..n : [bid |-> 4 * i, len |-> EncodedLen(sizes[i])] \in Block
  <2> SUFFICES ASSUME NEW i \in 1..n
               PROVE  [bid |-> 4 * i, len |-> EncodedLen(sizes[i])] \in Block
    OBVIOUS
  <2>1. sizes[i] \in Nat /\ 4 * i \in Nat
    OBVIOUS
  <2>2. EncodedLen(sizes[i]) \in Nat \ {0}
    BY <2>1, EncodedLenFacts
  <2> QED BY <2>1, <2>2 DEF Block
<1>3. DataBlocks(sizes) \in [1..n -> Block]
  BY <1>1, <1>2 DEF DataBlocks
<1> QED BY <1>1, <1>3

(***************************************************************************)
(* The chunks of a payload: the last is what is left for it.               *)
(***************************************************************************)
LEMMA XBlockFacts ==
  ASSUME NEW cb \in Nat \ {0}, NEW chunk \in Nat \ {0}
  PROVE  XBlockBlocks(cb, chunk) \in Seq(Block)
<1> DEFINE n     == ChunkCount(cb, chunk)
           sizes == [i \in 1..n |-> IF i = n THEN cb - (n - 1) * chunk ELSE chunk]
           xb    == [bid |-> InternalBid(n + 1), len |-> EncodedLen((n + 2) \div 2)]
<1>1. /\ n \in Nat /\ (cb + chunk - 1) % chunk \in 0..(chunk - 1)
      /\ cb + chunk - 1 = chunk * n + ((cb + chunk - 1) % chunk)
  <2>1. cb + chunk - 1 \in Nat
    OBVIOUS
  <2> QED BY <2>1, Division DEF ChunkCount
<1>2. XBlockBlocks(cb, chunk) = Append(DataBlocks(sizes), xb)
  BY DEF XBlockBlocks
<1> HIDE DEF n
<1>3. cb - (n - 1) * chunk \in Nat
  <2> DEFINE r == (cb + chunk - 1) % chunk
             m == chunk * n
  <2>1. (n - 1) * chunk = m - chunk
    BY <1>1
  <2>2. m \in Nat /\ r \in 0..(chunk - 1) /\ cb + chunk - 1 = m + r
    BY <1>1
  <2> HIDE DEF r, m
  <2>3. cb - (m - chunk) = 1 + r
    BY <2>2
  <2> QED BY <2>1, <2>2, <2>3
<1>4. sizes \in Seq(Nat)
  <2>1. sizes \in [1..n -> Nat]
    BY <1>3
  <2> HIDE DEF sizes
  <2> QED BY <1>1, <2>1
<1>5. xb \in Block
  <2>1. (n + 2) \div 2 \in Nat /\ InternalBid(n + 1) \in Nat
    BY <1>1 DEF InternalBid
  <2> QED BY <2>1, EncodedLenFacts DEF Block
<1> HIDE DEF sizes, xb
<1> QED BY <1>2, <1>4, <1>5, DataBlocksFacts

(***************************************************************************)
(* Whatever an entry point accepts gives it blocks that can be laid out.   *)
(***************************************************************************)
LEMMA CallGives ==
  ASSUME call \in Calls, phase = "call", Call, phase' # "refused"
  PROVE  Given'
<1>1. /\ ~BadArguments /\ call' = call
      /\ blocks' = CASE call.entry = "M5"     -> call.blocks
                     [] call.entry = "Blocks" -> DataBlocks(call.sizes)
                     [] call.entry = "XBlock" -> XBlockBlocks(call.cbPayload, call.chunkSize)
                     [] call.entry = "Empty"  -> <<>>
      /\ nodes' = IF call.entry = "M5" THEN call.nodes ELSE <<>>
  BY DEF Call
<1>2. <<>> \in Seq(Block) /\ <<>> \in Seq(Node)
  OBVIOUS
<1>3. CASE call.entry = "Empty"
  <2>1. blocks' = <<>> /\ nodes' = <<>>
    BY <1>1, <1>3
  <2> QED BY <1>1, <1>2, <2>1 DEF Given
<1>4. CASE call.entry = "Blocks" /\ call.sizes \in Seq(Nat)
  <2>1. blocks' = DataBlocks(call.sizes) /\ nodes' = <<>>
    BY <1>1, <1>4
  <2> QED BY <1>1, <1>2, <1>4, <2>1, DataBlocksFacts DEF Given
<1>5. CASE call.entry = "XBlock" /\ call.cbPayload \in Nat /\ call.chunkSize \in Nat
  <2>1. blocks' = XBlockBlocks(call.cbPayload, call.chunkSize) /\ nodes' = <<>>
    BY <1>1, <1>5
  <2>2. call.cbPayload \in Nat \ {0} /\ call.chunkSize \in Nat \ {0}
    BY <1>1, <1>5, SizesAssumption DEF BadArguments
  <2> QED BY <1>1, <1>2, <1>5, <2>1, <2>2, XBlockFacts DEF Given
<1>6. CASE call.entry = "M5" /\ call.blocks \in Seq(Block) /\ call.nodes \in Seq(Node)
  <2>1. blocks' = call.blocks /\ nodes' = call.nodes
    BY <1>1, <1>6
  <2> QED BY <1>1, <1>6, <2>1 DEF Given
<1> QED BY <1>3, <1>4, <1>5, <1>6, CallsAssumption

-----------------------------------------------------------------------------

(***************************************************************************)
(* What can be in the file: pieces of the plan, padding, a torn end.       *)
(***************************************************************************)
Contents == {plan[k].data : k \in 1..Len(plan)} \cup {[kind |-> "zeros"], [kind |-> "torn"]}
FilePiece == [ib : Nat, len : Nat \ {0}, data : Contents]

\* Whole, Rank, FileSize and the torn pieces, of any file.
WholeOf(f) == {i \in DOMAIN f : f[i].data.kind \notin {"zeros", "torn"}}
RankOf(f, i) == Cardinality(WholeOf(f) \cap 1..i)
SizeOf(f) == IF f = <<>> THEN 0 ELSE Last(f).ib + Last(f).len
TornIn(f) == {i \in DOMAIN f : f[i].data.kind = "torn"}

\* The r-th whole piece is the r-th of the plan, at its place.
RankFits(f, i) ==
  LET r == RankOf(f, i)
  IN  /\ r \in 1..Len(plan)
      /\ f[i].data = plan[r].data /\ f[i].len = plan[r].len
      /\ f[i].ib = Place(plan, r)

Contiguous(f) ==
  \A i \in 1..Len(f) : f[i].ib = IF i = 1 THEN 0 ELSE f[i - 1].ib + f[i - 1].len

\* Only the plan's last piece ends where the planned file does.
EndsWithin(f, i) ==
  LET end == f[i].ib + f[i].len
  IN  /\ end <= End(plan, Len(plan))
      /\ end = End(plan, Len(plan)) => i \in WholeOf(f) /\ RankOf(f, i) = Len(plan)

\* A file that is the beginning of the planned one.
FileFits(f) ==
  /\ f \in Seq(FilePiece) /\ Contiguous(f)
  /\ \A i \in WholeOf(f) : RankFits(f, i)
  /\ \A i \in 1..Len(f) : EndsWithin(f, i)
  /\ TornIn(f) \subseteq {Len(f)}
  /\ f # <<>> => f[1].data.kind # "zeros"

(***************************************************************************)
(* Every piece of a plan that fits ends before its last one does.          *)
(***************************************************************************)
LEMMA PlanEnds ==
  ASSUME PlanShape(plan), PlanMeets(plan)
  PROVE  /\ End(plan, Len(plan)) \in Nat /\ End(plan, Len(plan)) = plan[1].data.ibFileEof
         /\ \A k \in 1..Len(plan) :
              /\ End(plan, k) \in Nat /\ End(plan, k) <= End(plan, Len(plan))
              /\ k # Len(plan) => End(plan, k) < End(plan, Len(plan))
<1> DEFINE n == Len(plan)
           eof == plan[1].data.ibFileEof
<1>1. n \in Nat /\ n >= 2 /\ \A k \in 1..n : plan[k].len \in Nat \ {0} /\ Place(plan, k) \in Nat
  BY DEF PlanShape, PlanMeets
<1>2. End(plan, n) = eof /\ \A k \in 1..n : End(plan, k) <= eof
  BY DEF PlanMeets
<1>3. \A k \in 1..n : End(plan, k) = Place(plan, k) + plan[k].len /\ End(plan, k) \in Nat
  BY <1>1 DEF End
<1>4. ASSUME NEW k \in 1..n, k # n PROVE End(plan, k) < End(plan, n)
  <2>1. k + 1 \in 1..n /\ (k + 1) - 1 = k
    BY <1>1, <1>4
  <2>2. Place(plan, k + 1) >= End(plan, k)
    <3>1. /\ Place(plan, k + 1) = IF plan[k + 1].at > End(plan, k) THEN plan[k + 1].at ELSE End(plan, k)
          /\ plan[k + 1].at \in Nat
      BY <2>1 DEF PlanMeets, PlanShape
    <3> HIDE DEF n
    <3> QED BY <1>3, <3>1
  <2> HIDE DEF n, eof
  <2>3. /\ End(plan, k + 1) = Place(plan, k + 1) + plan[k + 1].len /\ plan[k + 1].len \in Nat \ {0}
        /\ Place(plan, k + 1) \in Nat /\ End(plan, k) \in Nat /\ End(plan, k + 1) \in Nat
        /\ End(plan, k + 1) <= End(plan, n) /\ End(plan, n) \in Nat
    <3>1. n \in 1..n
      BY <1>1
    <3> QED BY <1>1, <1>2, <1>3, <2>1, <3>1
  <2> QED BY ONLY <2>2, <2>3
<1>5. n \in 1..n
  BY <1>1
<1> QED BY <1>2, <1>3, <1>4, <1>5

(***************************************************************************)
(* Ranks count from 1, and later pieces have greater ones.                 *)
(***************************************************************************)
LEMMA RankFacts ==
  ASSUME NEW f, DOMAIN f = 1..Len(f), Len(f) \in Nat, NEW i \in 0..Len(f)
  PROVE  /\ IsFiniteSet(WholeOf(f) \cap 1..i) /\ RankOf(f, i) \in Nat
         /\ \A j \in WholeOf(f) : j > i => RankOf(f, j) > RankOf(f, i)
<1>1. \A j \in 0..Len(f) : IsFiniteSet(WholeOf(f) \cap 1..j) /\ RankOf(f, j) \in Nat
  <2> SUFFICES ASSUME NEW j \in 0..Len(f)
               PROVE  IsFiniteSet(WholeOf(f) \cap 1..j) /\ RankOf(f, j) \in Nat
    OBVIOUS
  <2>1. IsFiniteSet(1..j)
    BY FS_Interval
  <2>2. IsFiniteSet(WholeOf(f) \cap 1..j)
    BY <2>1, FS_Subset
  <2> QED BY <2>2, FS_CardinalityType DEF RankOf
<1>2. ASSUME NEW j \in WholeOf(f), j > i PROVE RankOf(f, j) > RankOf(f, i)
  <2> DEFINE A == WholeOf(f) \cap 1..i
             B == WholeOf(f) \cap 1..j
  <2>1. j \in 1..Len(f) /\ j \in 0..Len(f)
    BY DEF WholeOf
  <2>2. A \subseteq B /\ j \in B /\ j \notin A
    BY <1>2, <2>1
  <2>3. IsFiniteSet(A) /\ IsFiniteSet(B) /\ Cardinality(A) \in Nat /\ Cardinality(B) \in Nat
    <3>1. IsFiniteSet(A) /\ Cardinality(A) \in Nat
      BY <1>1 DEF RankOf
    <3>2. IsFiniteSet(B) /\ Cardinality(B) \in Nat
      BY <1>1, <2>1 DEF RankOf
    <3> QED BY <3>1, <3>2
  <2>4. Cardinality(A) <= Cardinality(B) /\ Cardinality(A) # Cardinality(B)
    <3> HIDE DEF A, B
    <3> QED BY <2>2, <2>3, FS_Subset
  <2> QED BY <2>3, <2>4 DEF RankOf
<1> QED BY <1>1, <1>2

(***************************************************************************)
(* Another piece at the end of a file.                                     *)
(***************************************************************************)
LEMMA AppendRanks ==
  ASSUME NEW S, NEW f \in Seq(S), NEW e
  PROVE  LET g == Append(f, e)
             n == Len(f)
         IN  /\ n \in Nat /\ DOMAIN f = 1..n /\ DOMAIN g = 1..(n + 1) /\ Len(g) = n + 1
             /\ g # <<>> /\ g[n + 1] = e /\ \A i \in 1..n : g[i] = f[i]
             /\ SizeOf(g) = e.ib + e.len
             /\ \A i \in 1..n : RankOf(g, i) = RankOf(f, i)
             /\ e.data.kind \in {"zeros", "torn"} =>
                  WholeOf(g) = WholeOf(f) /\ RankOf(g, n + 1) = RankOf(f, n)
             /\ e.data.kind \notin {"zeros", "torn"} =>
                  /\ WholeOf(g) = WholeOf(f) \cup {n + 1}
                  /\ RankOf(g, n + 1) = RankOf(f, n) + 1
             /\ TornIn(g) = TornIn(f) \cup (IF e.data.kind = "torn" THEN {n + 1} ELSE {})
<1> DEFINE g == Append(f, e)
           n == Len(f)
<1>1. n \in Nat /\ DOMAIN f = 1..n /\ f \in Seq(S \cup {e})
  OBVIOUS
<1>2. /\ g \in Seq(S \cup {e}) /\ DOMAIN g = 1..(n + 1) /\ Len(g) = n + 1
      /\ g[n + 1] = e /\ \A i \in 1..n : g[i] = f[i]
  BY <1>1
<1>3. g # <<>>
  BY <1>1, <1>2
<1> HIDE DEF g
<1>4. SizeOf(g) = e.ib + e.len
  BY <1>2, <1>3 DEF SizeOf, Last
<1>5. \A i \in 1..n : WholeOf(g) \cap 1..i = WholeOf(f) \cap 1..i
  BY <1>1, <1>2 DEF WholeOf
<1>6. e.data.kind \in {"zeros", "torn"} => WholeOf(g) = WholeOf(f)
  BY <1>1, <1>2 DEF WholeOf
<1>7. e.data.kind \notin {"zeros", "torn"} => WholeOf(g) = WholeOf(f) \cup {n + 1}
  BY <1>1, <1>2 DEF WholeOf
<1>8. WholeOf(f) \subseteq 1..n
  BY <1>1 DEF WholeOf
<1>9. /\ IsFiniteSet(WholeOf(f)) /\ Cardinality(WholeOf(f)) \in Nat
      /\ WholeOf(f) \cap 1..n = WholeOf(f) /\ WholeOf(f) \cap 1..(n + 1) = WholeOf(f)
  <2>1. IsFiniteSet(1..n)
    BY <1>1, FS_Interval
  <2>2. IsFiniteSet(WholeOf(f))
    BY <1>8, <2>1, FS_Subset
  <2> QED BY <1>1, <1>8, <2>2, FS_CardinalityType
<1>10. ASSUME e.data.kind \notin {"zeros", "torn"}
       PROVE  RankOf(g, n + 1) = RankOf(f, n) + 1
  <2>1. WholeOf(g) \cap 1..(n + 1) = WholeOf(f) \cup {n + 1} /\ n + 1 \notin WholeOf(f)
    BY <1>1, <1>7, <1>8, <1>10
  <2>2. Cardinality(WholeOf(f) \cup {n + 1}) = Cardinality(WholeOf(f)) + 1
    BY <1>9, <2>1, FS_AddElement
  <2> QED BY <1>9, <2>1, <2>2 DEF RankOf
<1>11. e.data.kind \in {"zeros", "torn"} => RankOf(g, n + 1) = RankOf(f, n)
  BY <1>6, <1>9 DEF RankOf
<1>12. \A i \in 1..n : RankOf(g, i) = RankOf(f, i)
  BY <1>5 DEF RankOf
<1>13. TornIn(g) = TornIn(f) \cup (IF e.data.kind = "torn" THEN {n + 1} ELSE {})
  BY <1>1, <1>2 DEF TornIn
<1> QED BY <1>1, <1>2, <1>3, <1>4, <1>6, <1>7, <1>10, <1>11, <1>12, <1>13 DEF g

(***************************************************************************)
(* The file still fits when the next piece of the plan, padding that is    *)
(* not at its beginning, or a torn piece is added to it.                   *)
(***************************************************************************)
LEMMA AppendFits ==
  ASSUME NEW f, FileFits(f), TornIn(f) = {}, NEW e \in FilePiece, e.ib = SizeOf(f),
         PlanShape(plan), PlanMeets(plan),
         \/ e.data.kind = "torn" /\ e.ib + e.len < End(plan, Len(plan))
         \/ e.data.kind = "zeros" /\ f # <<>> /\ e.ib + e.len < End(plan, Len(plan))
         \/ LET r == RankOf(f, Len(f)) + 1
            IN  /\ r \in 1..Len(plan) /\ e.data.kind \notin {"zeros", "torn"}
                /\ e.data = plan[r].data /\ e.len = plan[r].len /\ e.ib = Place(plan, r)
  PROVE  FileFits(Append(f, e))
<1> DEFINE g == Append(f, e)
           n == Len(f)
<1>1. /\ f \in Seq(FilePiece) /\ Contiguous(f) /\ \A i \in WholeOf(f) : RankFits(f, i)
      /\ \A i \in 1..n : EndsWithin(f, i)
  BY DEF FileFits
<1>2. /\ n \in Nat /\ DOMAIN f = 1..n /\ DOMAIN g = 1..(n + 1) /\ Len(g) = n + 1
      /\ g # <<>> /\ g[n + 1] = e /\ \A i \in 1..n : g[i] = f[i]
      /\ \A i \in 1..n : RankOf(g, i) = RankOf(f, i)
      /\ e.data.kind \in {"zeros", "torn"} => WholeOf(g) = WholeOf(f)
      /\ e.data.kind \notin {"zeros", "torn"} =>
           WholeOf(g) = WholeOf(f) \cup {n + 1} /\ RankOf(g, n + 1) = RankOf(f, n) + 1
      /\ TornIn(g) = TornIn(f) \cup (IF e.data.kind = "torn" THEN {n + 1} ELSE {})
  BY <1>1, AppendRanks
<1>3. g \in Seq(FilePiece)
  BY <1>1
<1> HIDE DEF g
<1>4. Contiguous(g)
  <2> SUFFICES ASSUME NEW i \in 1..(n + 1)
               PROVE  g[i].ib = IF i = 1 THEN 0 ELSE g[i - 1].ib + g[i - 1].len
    BY <1>2 DEF Contiguous
  <2>1. CASE i \in 1..n
    <3>1. g[i] = f[i] /\ (i # 1 => g[i - 1] = f[i - 1])
      BY <1>2, <2>1
    <3> QED BY <1>1, <2>1, <3>1 DEF Contiguous
  <2>2. CASE i = n + 1 /\ n = 0
    <3>1. f = <<>>
      BY <1>1, <2>2
    <3> QED BY <1>2, <2>2, <3>1 DEF SizeOf
  <2>3. CASE i = n + 1 /\ n # 0
    <3>1. f # <<>> /\ g[i] = e /\ g[i - 1] = f[n]
      BY <1>1, <1>2, <2>3
    <3> QED BY <1>2, <2>3, <3>1 DEF SizeOf, Last
  <2> QED BY <1>2, <2>1, <2>2, <2>3
<1>5. \A i \in WholeOf(f) : RankFits(g, i)
  <2> SUFFICES ASSUME NEW i \in WholeOf(f) PROVE RankFits(g, i)
    OBVIOUS
  <2>1. i \in 1..n
    BY <1>2 DEF WholeOf
  <2>2. g[i] = f[i] /\ RankOf(g, i) = RankOf(f, i) /\ RankFits(f, i)
    BY <1>1, <1>2, <2>1
  <2> QED BY <2>2 DEF RankFits
<1>6. \A i \in WholeOf(g) : RankFits(g, i)
  <2>1. CASE e.data.kind \in {"zeros", "torn"}
    BY <1>2, <1>5, <2>1
  <2>2. CASE e.data.kind \notin {"zeros", "torn"}
    <3>1. RankFits(g, n + 1)
      BY <1>2, <2>2 DEF RankFits
    <3> QED BY <1>2, <1>5, <2>2, <3>1
  <2> QED BY <2>1, <2>2
<1>7. TornIn(g) \subseteq {Len(g)}
  BY <1>2
<1>8. g[1].data.kind # "zeros"
  <2>1. CASE n = 0
    <3>1. f = <<>>
      BY <1>1, <2>1
    <3> QED BY <1>2, <2>1, <3>1
  <2>2. CASE n # 0
    <3>1. f # <<>> /\ g[1] = f[1]
      BY <1>1, <1>2, <2>2
    <3> QED BY <3>1 DEF FileFits
  <2> QED BY <2>1, <2>2
<1>9. EndsWithin(g, n + 1)
  <2>1. CASE e.data.kind \in {"zeros", "torn"}
    <3>1. e.ib + e.len < End(plan, Len(plan)) /\ e.ib + e.len \in Nat
      BY <2>1 DEF FilePiece
    <3>2. e.ib + e.len <= End(plan, Len(plan)) /\ e.ib + e.len # End(plan, Len(plan))
      BY <3>1, PlanEnds
    <3> QED BY <1>2, <3>2 DEF EndsWithin
  <2>2. CASE e.data.kind \notin {"zeros", "torn"}
    <3> DEFINE r == RankOf(f, n) + 1
    <3>1. /\ r \in 1..Len(plan) /\ e.len = plan[r].len /\ e.ib = Place(plan, r)
          /\ n + 1 \in WholeOf(g) /\ RankOf(g, n + 1) = r
      BY <1>2, <2>2
    <3> HIDE DEF r
    <3>2. e.ib + e.len = End(plan, r)
      BY <3>1 DEF End
    <3>3. End(plan, r) <= End(plan, Len(plan)) /\ (r # Len(plan) => End(plan, r) # End(plan, Len(plan)))
      BY <3>1, PlanEnds
    <3> QED BY <1>2, <3>1, <3>2, <3>3 DEF EndsWithin
  <2> QED BY <2>1, <2>2
<1>10. ASSUME NEW i \in 1..n PROVE EndsWithin(g, i)
  <2>1. /\ g[i] = f[i] /\ RankOf(g, i) = RankOf(f, i) /\ EndsWithin(f, i)
        /\ i \in WholeOf(f) => i \in WholeOf(g)
    BY <1>1, <1>2
  <2> QED BY <2>1 DEF EndsWithin
<1>11. \A i \in 1..Len(g) : EndsWithin(g, i)
  BY <1>2, <1>9, <1>10
<1> QED BY <1>3, <1>4, <1>6, <1>7, <1>8, <1>11 DEF FileFits, g

(***************************************************************************)
(* What fclose leaves of a file that fits does.                            *)
(***************************************************************************)
LEMMA PrefixFits ==
  ASSUME NEW f, FileFits(f), NEW kept \in 0..Len(f)
  PROVE  FileFits(SubSeq(f, 1, kept))
<1> DEFINE g == SubSeq(f, 1, kept)
           n == Len(f)
<1>1. /\ f \in Seq(FilePiece) /\ Contiguous(f) /\ \A i \in WholeOf(f) : RankFits(f, i)
      /\ \A i \in 1..n : EndsWithin(f, i)
      /\ n \in Nat /\ DOMAIN f = 1..n
  BY DEF FileFits
<1>2. /\ g \in Seq(FilePiece) /\ Len(g) = kept /\ DOMAIN g = 1..kept
      /\ \A i \in 1..kept : g[i] = f[i]
  BY <1>1
<1> HIDE DEF g
<1>3. Contiguous(g)
  <2> SUFFICES ASSUME NEW i \in 1..kept
               PROVE  g[i].ib = IF i = 1 THEN 0 ELSE g[i - 1].ib + g[i - 1].len
    BY <1>2 DEF Contiguous
  <2>1. i \in 1..n /\ (i # 1 => i - 1 \in 1..kept)
    BY <1>1
  <2> QED BY <1>1, <1>2, <2>1 DEF Contiguous
<1>4. \A i \in WholeOf(g) : RankFits(g, i)
  <2> SUFFICES ASSUME NEW i \in WholeOf(g) PROVE RankFits(g, i)
    OBVIOUS
  <2>1. i \in 1..kept /\ i \in WholeOf(f)
    BY <1>1, <1>2 DEF WholeOf
  <2>2. WholeOf(g) \cap 1..i = WholeOf(f) \cap 1..i
    BY <1>1, <1>2, <2>1 DEF WholeOf
  <2>3. RankOf(g, i) = RankOf(f, i) /\ g[i] = f[i] /\ RankFits(f, i)
    BY <1>1, <1>2, <2>1, <2>2 DEF RankOf
  <2> QED BY <2>3 DEF RankFits
<1>5. TornIn(g) \subseteq {Len(g)}
  <2> SUFFICES ASSUME NEW i \in TornIn(g) PROVE i = kept
    BY <1>2
  <2>1. i \in 1..kept /\ i \in TornIn(f)
    BY <1>1, <1>2 DEF TornIn
  <2>2. i = n
    BY <2>1 DEF FileFits
  <2>3. kept \in Nat /\ kept <= n
    BY <1>1
  <2> HIDE DEF n
  <2> QED BY <1>1, <2>1, <2>2, <2>3
<1>6. g # <<>> => g[1].data.kind # "zeros"
  <2> SUFFICES ASSUME g # <<>> PROVE g[1].data.kind # "zeros"
    OBVIOUS
  <2>1. kept # 0
    BY <1>2
  <2>2. 1 \in 1..kept /\ f # <<>>
    BY <1>1, <2>1
  <2> QED BY <1>2, <2>2 DEF FileFits
<1>7. ASSUME NEW i \in 1..kept PROVE EndsWithin(g, i)
  <2>1. i \in 1..n
    BY <1>1
  <2>2. WholeOf(g) \cap 1..i = WholeOf(f) \cap 1..i
    BY <1>1, <1>2, <2>1 DEF WholeOf
  <2>3. RankOf(g, i) = RankOf(f, i) /\ g[i] = f[i] /\ (i \in WholeOf(f) => i \in WholeOf(g))
    BY <1>1, <1>2, <2>1, <2>2 DEF RankOf, WholeOf
  <2> QED BY <1>1, <2>1, <2>3 DEF EndsWithin
<1> QED BY <1>2, <1>3, <1>4, <1>5, <1>6, <1>7 DEF FileFits, g

-----------------------------------------------------------------------------

\* The phases before the file is opened, and those that have a laid out file.
Before  == {"call", "encode", "open", "refused", "fopen failed"}
Planned == {"open", "emit", "written", "fopen failed", "fclose failed", "fwrite truncated"}

(***************************************************************************)
(* The inductive invariant.  Until the file is opened it is the one that   *)
(* was there; the callers have encoded the blocks so far for the places    *)
(* that the layout will give them; the layout fits; what is in the file is *)
(* its beginning; and as long as no write came short, all of its first     *)
(* pieces, up to the offset that writeM5Pst counts.                        *)
(***************************************************************************)
Control ==
  /\ phase \in {"call", "encode", "open", "emit"} \cup Outcomes
  /\ step \in Nat /\ step <= Len(plan) /\ writtenIb \in Nat /\ ok \in BOOLEAN
  /\ phase \in Before =>
       /\ step = 0 /\ writtenIb = 0 /\ ok
       /\ file = << [ib |-> 0, len |-> 1, data |-> [kind |-> "previous"]] >>

InputFits ==
  /\ Given
  /\ encodedAt \in Seq(Nat) /\ Len(encodedAt) <= Len(blocks)
  /\ \A b \in 1..Len(encodedAt) : encodedAt[b] = Offsets(blocks)[b]
  /\ phase = "call" => encodedAt = <<>>

PlanInv ==
  IF phase \in Planned THEN PlanFits(plan) ELSE plan = <<>>

Progress ==
  /\ TornIn(file) = {}
  /\ SizeOf(file) = writtenIb /\ writtenIb = End(plan, step)
  /\ RankOf(file, Len(file)) = step

FileInv ==
  /\ phase \notin Before => FileFits(file)
  /\ phase \in {"emit", "written"} => (ok => Progress)
  /\ phase = "written" => ok /\ step = Len(plan)

Inv == Control /\ InputFits /\ PlanInv /\ FileInv

-----------------------------------------------------------------------------

(***************************************************************************)
(* The definitions above, of the next state, when the inputs stay.         *)
(***************************************************************************)
LEMMA NextState ==
  ASSUME UNCHANGED <<call, blocks, nodes, encodedAt>>
  PROVE  /\ Given' <=> Given
         /\ PlanFits(plan)' <=> PlanFits(plan')
         /\ plan' = plan => (FileFits(file)' <=> FileFits(file'))
         /\ plan' = plan => End(plan, step)' = End(plan, step')
<1>1. Given' <=> Given
  BY DEF Given
<1>2. PlanShape(plan)' <=> PlanShape(plan')
  BY DEF PlanShape
<1>3. PlanMeets(plan)' <=> PlanMeets(plan')
  BY DEF PlanMeets, Place, End
<1>4. PlanMapped(plan)' <=> PlanMapped(plan')
  BY DEF PlanMapped, Covered
<1>5. PlanBids(plan)' <=> PlanBids(plan')
  BY DEF PlanBids, PageIndices
<1>6. plan' = plan => (FileFits(file)' <=> FileFits(file'))
  BY DEF FileFits, FilePiece, Contents, Contiguous, RankFits, Place, WholeOf, RankOf, TornIn,
         EndsWithin, End
<1>7. plan' = plan => End(plan, step)' = End(plan, step')
  BY DEF End, Place
<1> QED BY <1>1, <1>2, <1>3, <1>4, <1>5, <1>6, <1>7 DEF PlanFits

(***************************************************************************)
(* A call begins with nothing laid out and the old file.                   *)
(***************************************************************************)
LEMMA InitInv == Init => Inv
<1> SUFFICES ASSUME Init PROVE Inv
  OBVIOUS
<1>1. Control
  BY DEF Init, Control, Outcomes
<1>2. InputFits
  <2>1. blocks \in Seq(Block) /\ nodes \in Seq(Node) /\ encodedAt \in Seq(Nat)
    BY DEF Init
  <2> QED BY <2>1 DEF Init, InputFits, Given
<1>3. PlanInv
  BY DEF Init, PlanInv, Planned
<1>4. FileInv
  BY DEF Init, FileInv, Before
<1> QED BY <1>1, <1>2, <1>3, <1>4 DEF Inv

(***************************************************************************)
(* A call that is accepted has blocks to lay out, one that is refused      *)
(* leaves everything as it was.                                            *)
(***************************************************************************)
LEMMA CallKeeps == Inv /\ Call => Inv'
<1> SUFFICES ASSUME Inv, Call PROVE Inv'
  OBVIOUS
<1>1. /\ phase = "call" /\ phase' \in {"refused", "encode"}
      /\ UNCHANGED <<call, encodedAt, plan, step, writtenIb, ok, file>>
  BY DEF Call
<1>2. plan = <<>> /\ encodedAt = <<>>
  BY <1>1 DEF Inv, PlanInv, InputFits, Planned
<1>3. Control'
  BY <1>1 DEF Inv, Control, Before, Outcomes
<1>4. InputFits'
  <2>1. Given'
    <3>1. CASE phase' = "refused"
      <4>1. UNCHANGED <<blocks, nodes>>
        BY <3>1 DEF Call
      <4> QED BY <1>1, <4>1 DEF Inv, InputFits, Given
    <3>2. CASE phase' # "refused"
      <4>1. call \in Calls
        BY DEF Inv, InputFits, Given
      <4> QED BY <1>1, <3>2, <4>1, CallGives
    <3> QED BY <3>1, <3>2
  <2>2. encodedAt' = <<>> /\ Len(blocks') \in Nat
    BY <1>1, <1>2, <2>1 DEF Given
  <2> QED BY <1>1, <2>1, <2>2 DEF InputFits
<1>5. PlanInv'
  BY <1>1, <1>2 DEF PlanInv, Planned
<1>6. FileInv'
  BY <1>1 DEF FileInv, Before
<1> QED BY <1>3, <1>4, <1>5, <1>6 DEF Inv

(***************************************************************************)
(* The next block is encoded for the place behind the one before it.       *)
(***************************************************************************)
LEMMA EncodeBlockKeeps == Inv /\ EncodeBlock => Inv'
<1> SUFFICES ASSUME Inv, EncodeBlock PROVE Inv'
  OBVIOUS
<1> DEFINE n == Len(encodedAt)
           at == IF encodedAt = <<>> THEN BlocksStart
                 ELSE Last(encodedAt) + blocks[Len(encodedAt)].len
<1>1. /\ phase = "encode" /\ n < Len(blocks) /\ encodedAt' = Append(encodedAt, at)
      /\ UNCHANGED <<call, blocks, nodes, phase, plan, step, writtenIb, ok, file>>
  BY DEF EncodeBlock
<1>2. Control'
  BY <1>1 DEF Inv, Control
<1>3. /\ blocks \in Seq(Block) /\ Len(blocks) \in Nat
      /\ encodedAt \in Seq(Nat) /\ n \in Nat
      /\ \A b \in 1..n : encodedAt[b] = Offsets(blocks)[b]
  BY DEF Inv, InputFits, Given
<1>4. at = Offsets(blocks)[n + 1]
  <2>1. CASE encodedAt = <<>>
    <3>1. n = 0
      BY <2>1
    <3> QED BY <1>3, <2>1, <3>1, OffsetsFacts
  <2>2. CASE encodedAt # <<>>
    <3>1. n \in 1..n /\ n \in 1..Len(blocks)
      BY <1>1, <1>3, <2>2
    <3>2. Last(encodedAt) = Offsets(blocks)[n]
      BY <1>3, <3>1 DEF Last
    <3>3. Offsets(blocks)[n + 1] = Offsets(blocks)[n] + blocks[n].len
      BY <1>3, <3>1, OffsetsFacts
    <3> QED BY <2>2, <3>2, <3>3
  <2> QED BY <2>1, <2>2
<1>5. at \in Nat
  <2>1. n + 1 \in 1..(Len(blocks) + 1)
    BY <1>1, <1>3
  <2>2. Offsets(blocks) \in [1..(Len(blocks) + 1) -> Nat]
    BY <1>3, OffsetsFacts
  <2> HIDE DEF at
  <2> QED BY <1>4, <2>1, <2>2
<1> HIDE DEF at
<1>6. InputFits'
  <2>1. /\ encodedAt' \in Seq(Nat) /\ Len(encodedAt') = n + 1
        /\ encodedAt'[n + 1] = at /\ \A b \in 1..n : encodedAt'[b] = encodedAt[b]
    BY <1>1, <1>3, <1>5
  <2>2. \A b \in 1..(n + 1) : encodedAt'[b] = Offsets(blocks)[b]
    BY <1>3, <1>4, <2>1, SMTT(30)
  <2>3. n + 1 <= Len(blocks)
    BY <1>1, <1>3
  <2>4. Given'
    BY <1>1 DEF Inv, InputFits, Given
  <2> QED BY <1>1, <2>1, <2>2, <2>3, <2>4 DEF InputFits
<1>7. PlanInv'
  BY <1>1 DEF Inv, PlanInv, Planned
<1>8. FileInv'
  BY <1>1 DEF FileInv, Before
<1> QED BY <1>2, <1>6, <1>7, <1>8 DEF Inv

(***************************************************************************)
(* The layout of encoded blocks fits (LayoutFits).                         *)
(***************************************************************************)
LEMMA LayOutKeeps == Inv /\ LayOut => Inv'
<1> SUFFICES ASSUME Inv, LayOut PROVE Inv'
  OBVIOUS
<1>1. /\ phase = "encode" /\ Len(encodedAt) = Len(blocks)
      /\ UNCHANGED <<call, blocks, nodes, encodedAt, step, writtenIb, ok, file>>
      /\ \/ phase' = "refused" /\ plan' = plan
         \/ phase' = "open" /\ plan' = Layout
  BY DEF LayOut
<1>2. Given /\ Encoded
  BY <1>1 DEF Inv, InputFits, Encoded
<1>3. Len(Layout) \in Nat
  BY <1>2, LayoutShape DEF PlanShape
<1>4. Control'
  <2>1. step = 0 /\ step <= Len(plan)
    BY <1>1 DEF Inv, Control, Before
  <2>2. step <= Len(Layout)
    BY <1>3, <2>1
  <2> QED BY <1>1, <2>1, <2>2 DEF Inv, Control, Before, Outcomes
<1>5. InputFits'
  BY <1>1 DEF Inv, InputFits, Given
<1>6. PlanInv'
  <2>1. CASE phase' = "refused" /\ plan' = plan
    BY <1>1, <2>1 DEF Inv, PlanInv, Planned
  <2>2. CASE phase' = "open" /\ plan' = Layout
    <3>1. PlanFits(plan')
      BY <1>2, <2>2, LayoutFits
    <3>2. PlanFits(plan)'
      BY <1>1, <3>1, NextState
    <3> QED BY <2>2, <3>2 DEF PlanInv, Planned
  <2> QED BY <1>1, <2>1, <2>2
<1>7. FileInv'
  BY <1>1 DEF FileInv, Before
<1> QED BY <1>4, <1>5, <1>6, <1>7 DEF Inv

(***************************************************************************)
(* An opened file is empty and has the first 0 pieces of the plan.         *)
(***************************************************************************)
LEMMA OpenKeeps == Inv /\ (OpenWb \/ OpenFails) => Inv'
<1> SUFFICES ASSUME Inv, OpenWb \/ OpenFails PROVE Inv'
  OBVIOUS
<1>1. /\ phase = "open" /\ UNCHANGED <<call, blocks, nodes, encodedAt, plan, step, writtenIb, ok>>
      /\ \/ phase' = "emit" /\ file' = <<>>
         \/ phase' = "fopen failed" /\ file' = file
  BY DEF OpenWb, OpenFails
<1>2. PlanFits(plan) /\ step = 0 /\ writtenIb = 0
  BY <1>1 DEF Inv, PlanInv, Control, Planned, Before
<1>3. Control'
  BY <1>1 DEF Inv, Control, Before, Outcomes
<1>4. InputFits'
  BY <1>1 DEF Inv, InputFits, Given
<1>5. PlanInv'
  <2>1. PlanFits(plan)'
    BY <1>1, <1>2, NextState
  <2> QED BY <1>1, <2>1 DEF PlanInv, Planned
<1>6. FileInv'
  <2>1. CASE phase' = "fopen failed"
    BY <2>1 DEF FileInv, Before
  <2>2. CASE phase' = "emit" /\ file' = <<>>
    <3>1. <<>> \in Seq(FilePiece) /\ Len(<<>>) = 0 /\ DOMAIN <<>> = {}
      OBVIOUS
    <3>2. WholeOf(<<>>) = {} /\ TornIn(<<>>) = {}
      BY <3>1 DEF WholeOf, TornIn
    <3>3. FileFits(file')
      BY <2>2, <3>1, <3>2 DEF FileFits, Contiguous
    <3>4. FileFits(file)'
      BY <1>1, <3>3, NextState
    <3>5. RankOf(<<>>, 0) = 0
      BY <3>2, FS_EmptySet DEF RankOf
    <3>6. Progress'
      BY <1>1, <1>2, <2>2, <3>1, <3>2, <3>5 DEF Progress, SizeOf, End
    <3> QED BY <2>2, <3>4, <3>6 DEF FileInv, Before
  <2> QED BY <1>1, <2>1, <2>2
<1> QED BY <1>3, <1>4, <1>5, <1>6 DEF Inv

(***************************************************************************)
(* Writing one piece or nothing.                                           *)
(***************************************************************************)
LEMMA OnePiece ==
  ASSUME NEW S, NEW f \in Seq(S), NEW e \in S
  PROVE  f \o <<e>> = Append(f, e) /\ f \o <<>> = f /\ <<>> \o <<e>> = <<e>>
OBVIOUS

(***************************************************************************)
(* Writing padding and a piece.                                            *)
(***************************************************************************)
LEMMA TwoPieces ==
  ASSUME NEW S, NEW f \in Seq(S), NEW z \in S, NEW e \in S
  PROVE  f \o (<<z>> \o <<e>>) = Append(Append(f, z), e)
OBVIOUS

(***************************************************************************)
(* The next piece of a plan that fits: it is not padding, and behind the   *)
(* padding that padTo writes it lies at its place.                         *)
(***************************************************************************)
LEMMA NextPiece ==
  ASSUME PlanFits(plan), step \in Nat, step < Len(plan), writtenIb \in Nat,
         writtenIb = End(plan, step)
  PROVE  LET piece == plan[step + 1]
         IN  /\ piece.at \in Nat /\ piece.len \in Nat \ {0}
             /\ piece.data \in Contents /\ piece.data.kind \notin {"zeros", "torn"}
             /\ Padding(piece.at) \in Nat
             /\ writtenIb + Padding(piece.at) = Place(plan, step + 1)
             /\ writtenIb + (Padding(piece.at) + piece.len) = End(plan, step + 1)
             /\ step = 0 => Padding(piece.at) = 0
<1> DEFINE k == step + 1
           piece == plan[k]
<1>1. /\ k \in 1..Len(plan) /\ k # 0 /\ k - 1 = step
      /\ PlanShape(plan) /\ PlanMeets(plan)
  BY DEF PlanFits, PlanShape
<1>2. piece.at \in Nat /\ piece.len \in Nat \ {0}
  BY <1>1 DEF PlanShape
<1>3. piece.data.kind \notin {"zeros", "torn"}
  <2>1. k = 1 \/ k = 2 \/ k \in 3..Len(plan)
    BY <1>1
  <2> HIDE DEF k
  <2> QED BY <1>1, <2>1 DEF PlanShape
<1>4. piece.data \in Contents
  BY <1>1 DEF Contents
<1>5. Place(plan, k) = IF piece.at > writtenIb THEN piece.at ELSE writtenIb
  BY <1>1 DEF PlanMeets
<1>6. step = 0 => piece.at = 0
  BY <1>1 DEF PlanMeets
<1>7. End(plan, k) = Place(plan, k) + piece.len
  BY <1>1 DEF End
<1> HIDE DEF piece, k
<1>8. /\ Padding(piece.at) \in Nat /\ writtenIb + Padding(piece.at) = Place(plan, k)
      /\ step = 0 => Padding(piece.at) = 0
  BY <1>2, <1>5, <1>6 DEF Padding
<1>9. writtenIb + (Padding(piece.at) + piece.len) = End(plan, k)
  BY <1>2, <1>7, <1>8
<1> QED BY <1>2, <1>3, <1>4, <1>8, <1>9 DEF piece, k

(***************************************************************************)
(* A piece that is written whole lies at its place, behind padding if it   *)
(* needs some, and is the next of the plan; a short write leaves a torn    *)
(* piece at the end or nothing, and nothing is written after it.           *)
(***************************************************************************)
LEMMA EmitKeeps == Inv /\ Emit => Inv'
<1> SUFFICES ASSUME Inv, Emit PROVE Inv'
  OBVIOUS
<1> DEFINE piece == plan[step + 1]
           pad   == Padding(piece.at)
           all   == pad + piece.len
           zeros == [ib |-> FileSize + 0, len |-> pad, data |-> [kind |-> "zeros"]]
           whole == [ib |-> FileSize + pad, len |-> piece.len, data |-> piece.data]
           torn(wrote) == [ib |-> FileSize + 0, len |-> wrote, data |-> [kind |-> "torn"]]
<1>1. /\ phase = "emit" /\ step < Len(plan) /\ step' = step + 1
      /\ UNCHANGED <<call, blocks, nodes, encodedAt, phase, plan>>
      /\ writtenIb' = writtenIb + all
  BY DEF Emit
<1>2. PICK wrote \in 0..all :
        /\ ok' = Ok(wrote = all)
        /\ file' = file \o
             (IF ~Ok(TRUE) THEN <<>>
              ELSE IF wrote < all THEN IF wrote = 0 THEN <<>> ELSE <<torn(wrote)>>
              ELSE (IF pad = 0 THEN <<>> ELSE <<zeros>>)
                     \o (IF piece.len = 0 THEN <<>> ELSE <<whole>>))
  BY DEF Emit
<1>3. /\ PlanFits(plan) /\ FileFits(file) /\ file \in Seq(FilePiece)
      /\ step \in Nat /\ writtenIb \in Nat /\ ok \in BOOLEAN
      /\ ok => Progress
  BY <1>1 DEF Inv, Control, PlanInv, FileInv, Planned, Before, FileFits
<1>4. Len(plan) \in Nat
  BY <1>3 DEF PlanFits, PlanShape
<1>5. pad \in Nat /\ piece.len \in Nat \ {0} /\ all \in Nat
  <2>1. piece.at \in Nat /\ piece.len \in Nat \ {0}
    <3>1. step + 1 \in 1..Len(plan)
      BY <1>1, <1>3, <1>4
    <3> QED BY <1>3, <3>1 DEF PlanFits, PlanShape
  <2> HIDE DEF piece
  <2> QED BY <1>3, <2>1, SMTT(30) DEF Padding
<1>6. ok' \in BOOLEAN
  BY <1>2, <1>3 DEF Ok
<1>7. Control'
  BY <1>1, <1>3, <1>4, <1>5, <1>6 DEF Inv, Control, Before, Outcomes
<1>8. InputFits'
  BY <1>1 DEF Inv, InputFits, Given
<1>9. PlanInv'
  <2>1. PlanFits(plan)'
    BY <1>1, <1>3, NextState
  <2> QED BY <1>1, <2>1 DEF PlanInv, Planned
<1>10. ASSUME FileFits(file'),
              ok' => /\ TornIn(file') = {} /\ SizeOf(file') = writtenIb + all
                     /\ writtenIb + all = End(plan, step + 1)
                     /\ RankOf(file', Len(file')) = step + 1
       PROVE  FileInv'
  <2>1. FileFits(file)'
    BY <1>1, <1>10, NextState
  <2>2. End(plan, step)' = End(plan, step + 1)
    BY <1>1, NextState
  <2>3. ok' => Progress'
    BY <1>1, <1>10, <2>2 DEF Progress
  <2> QED BY <1>1, <2>1, <2>3 DEF FileInv
<1> HIDE DEF piece, pad, all, zeros, whole, torn
<1>11. ASSUME ~ok PROVE FileInv'
  <2>1. file' = file \o <<>> /\ ~ok'
    BY <1>2, <1>3, <1>11 DEF Ok
  <2>2. file' = file
    BY <1>3, <2>1, OnePiece
  <2> QED BY <1>3, <1>10, <2>1, <2>2
<1>12. ASSUME ok PROVE FileInv'
  <2>1. /\ TornIn(file) = {} /\ FileSize = SizeOf(file) /\ FileSize = writtenIb
        /\ writtenIb = End(plan, step) /\ RankOf(file, Len(file)) = step
    BY <1>3, <1>12 DEF Progress, FileSize, SizeOf
  <2>2. /\ piece.data \in Contents /\ piece.data.kind \notin {"zeros", "torn"}
        /\ writtenIb + pad = Place(plan, step + 1)
        /\ writtenIb + all = End(plan, step + 1)
        /\ step = 0 => pad = 0
    BY <1>1, <1>3, <2>1, NextPiece DEF piece, pad, all
  <2>3. /\ step + 1 \in 1..Len(plan) /\ Len(file) \in Nat
    BY <1>1, <1>3, <1>4
  <2>11. /\ PlanShape(plan) /\ PlanMeets(plan)
         /\ writtenIb + all <= End(plan, Len(plan)) /\ End(plan, Len(plan)) \in Nat
    BY <1>3, <2>2, <2>3, PlanEnds DEF PlanFits
  <2> DEFINE added == (IF pad = 0 THEN <<>> ELSE <<zeros>>)
                        \o (IF piece.len = 0 THEN <<>> ELSE <<whole>>)
  <2>4. file' = file \o (IF wrote < all THEN IF wrote = 0 THEN <<>> ELSE <<torn(wrote)>> ELSE added)
    BY <1>2, <1>12 DEF Ok
  <2> HIDE DEF added
  <2>5. (wrote < all => ~ok') /\ (~(wrote < all) => file' = file \o added)
    <3>1. wrote < all => wrote # all
      BY <1>2, <1>5
    <3> QED BY <1>2, <2>4, <3>1 DEF Ok
  <2>6. CASE wrote < all /\ wrote = 0
    <3>1. file' = file \o <<>> /\ ~ok'
      BY <2>6, <2>4, <2>5
    <3>2. file' = file
      BY <1>3, <3>1, OnePiece
    <3> QED BY <1>3, <1>10, <3>1, <3>2
  <2>7. CASE wrote < all /\ wrote # 0
    <3>1. file' = file \o <<torn(wrote)>> /\ ~ok'
      BY <2>7, <2>4, <2>5
    <3>2. /\ torn(wrote) \in FilePiece /\ torn(wrote).ib = SizeOf(file)
          /\ torn(wrote).data.kind = "torn"
      BY <1>2, <1>3, <1>5, <2>1, <2>7 DEF torn, FilePiece, Contents
    <3>3. file' = Append(file, torn(wrote))
      BY <1>3, <3>1, <3>2, OnePiece
    <3>4. torn(wrote).ib + torn(wrote).len < End(plan, Len(plan))
      <4>1. torn(wrote).ib = writtenIb /\ torn(wrote).len = wrote /\ writtenIb \in Nat
        BY <1>3, <2>1 DEF torn
      <4> HIDE DEF torn
      <4> QED BY <1>2, <1>5, <2>7, <2>11, <4>1
    <3>5. FileFits(file')
      BY <1>3, <2>1, <2>11, <3>2, <3>3, <3>4, AppendFits
    <3> QED BY <1>10, <3>1, <3>5
  <2>8. ASSUME NEW f, FileFits(f), TornIn(f) = {}, RankOf(f, Len(f)) = step,
               SizeOf(f) = writtenIb + pad, file' = Append(f, whole)
        PROVE  FileInv'
    <3>1. f \in Seq(FilePiece)
      BY <2>8 DEF FileFits
    <3>2. /\ whole.ib = Place(plan, step + 1) /\ whole.len = piece.len /\ whole.data = piece.data
          /\ whole.ib = SizeOf(f) /\ whole \in FilePiece
      BY <1>3, <1>5, <2>1, <2>2, <2>8 DEF whole, FilePiece
    <3>3. FileFits(file')
      <4>1. LET r == RankOf(f, Len(f)) + 1
            IN  /\ r \in 1..Len(plan) /\ whole.data.kind \notin {"zeros", "torn"}
                /\ whole.data = plan[r].data /\ whole.len = plan[r].len
                /\ whole.ib = Place(plan, r)
        BY <2>2, <2>3, <2>8, <3>2 DEF piece
      <4> QED BY <2>8, <2>11, <3>2, <4>1, AppendFits
    <3>4. /\ TornIn(file') = {} /\ SizeOf(file') = whole.ib + whole.len
          /\ Len(file') = Len(f) + 1 /\ RankOf(file', Len(f) + 1) = step + 1
      BY <2>2, <2>8, <3>1, <3>2, AppendRanks
    <3>5. SizeOf(file') = writtenIb + all
      BY <1>3, <1>5, <2>8, <3>2, <3>4 DEF all
    <3> QED BY <1>10, <2>2, <3>3, <3>4, <3>5
  <2>9. CASE ~(wrote < all) /\ pad = 0
    <3>1. file' = file \o (<<>> \o <<whole>>)
      BY <1>5, <2>9, <2>5 DEF added
    <3>2. whole \in FilePiece
      BY <1>3, <1>5, <2>1, <2>2 DEF whole, FilePiece
    <3>3. file' = Append(file, whole)
      BY <1>3, <3>1, <3>2, OnePiece
    <3>4. SizeOf(file) = writtenIb + pad
      BY <1>3, <2>1, <2>9
    <3> QED BY <1>3, <2>1, <2>8, <3>3, <3>4
  <2>10. CASE ~(wrote < all) /\ pad # 0
    <3>1. file' = file \o (<<zeros>> \o <<whole>>)
      BY <1>5, <2>10, <2>5 DEF added
    <3>2. /\ zeros \in FilePiece /\ zeros.ib = SizeOf(file) /\ zeros.len = pad
          /\ zeros.data.kind = "zeros" /\ whole \in FilePiece
      BY <1>3, <1>5, <2>1, <2>2, <2>10, SMTT(30) DEF zeros, whole, FilePiece, Contents
    <3>3. file' = Append(Append(file, zeros), whole)
      BY <1>3, <3>1, <3>2, TwoPieces, SMTT(30)
    <3>4. file # <<>>
      <4> SUFFICES ASSUME file = <<>> PROVE FALSE
        OBVIOUS
      <4>1. WholeOf(<<>>) = {} /\ Len(<<>>) = 0
        BY DEF WholeOf
      <4>2. RankOf(<<>>, 0) = 0
        BY <4>1, FS_EmptySet DEF RankOf
      <4> QED BY <2>1, <2>2, <2>10, <4>1, <4>2
    <3> DEFINE f == Append(file, zeros)
    <3>8. zeros.ib + zeros.len < End(plan, Len(plan))
      <4>1. zeros.ib = writtenIb
        BY <2>1, <3>2
      <4> HIDE DEF zeros
      <4> QED BY <1>3, <1>5, <2>11, <3>2, <4>1 DEF all
    <3>5. FileFits(f)
      BY <1>3, <2>1, <2>11, <3>2, <3>4, <3>8, AppendFits
    <3>6. /\ TornIn(f) = {} /\ SizeOf(f) = zeros.ib + zeros.len
          /\ Len(f) = Len(file) + 1 /\ RankOf(f, Len(file) + 1) = step
      <4>1. zeros.data.kind \in {"zeros", "torn"} /\ zeros.data.kind # "torn"
        BY <3>2
      <4>2. /\ TornIn(f) =
                 TornIn(file) \cup (IF zeros.data.kind = "torn" THEN {Len(file) + 1} ELSE {})
            /\ SizeOf(f) = zeros.ib + zeros.len /\ Len(f) = Len(file) + 1
            /\ RankOf(f, Len(file) + 1) = RankOf(file, Len(file))
        BY <1>3, <4>1, AppendRanks
      <4> HIDE DEF f
      <4> QED BY <2>1, <4>1, <4>2
    <3>7. SizeOf(f) = writtenIb + pad
      BY <2>1, <3>2, <3>6
    <3> HIDE DEF f
    <3> QED BY <2>8, <3>3, <3>5, <3>6, <3>7 DEF f
  <2> QED BY <2>6, <2>7, <2>9, <2>10
<1> QED BY <1>3, <1>7, <1>8, <1>9, <1>11, <1>12 DEF Inv

(***************************************************************************)
(* A file is reported as written only when all pieces were, and what a     *)
(* failing fclose loses is its end.                                        *)
(***************************************************************************)
LEMMA FcloseKeeps == Inv /\ Fclose => Inv'
<1> SUFFICES ASSUME Inv, Fclose PROVE Inv'
  OBVIOUS
<1>1. /\ phase = "emit" /\ step = Len(plan)
      /\ UNCHANGED <<call, blocks, nodes, encodedAt, plan, step, writtenIb, ok>>
      /\ \/ phase' = (IF ok THEN "written" ELSE "fwrite truncated") /\ file' = file
         \/ /\ phase' = "fclose failed"
            /\ \E kept \in 0..Len(file) : file' = SubSeq(file, 1, kept)
  BY DEF Fclose
<1>2. PlanFits(plan) /\ FileFits(file) /\ (ok => Progress)
  BY <1>1 DEF Inv, PlanInv, FileInv, Planned, Before
<1>3. Control'
  BY <1>1 DEF Inv, Control, Before, Outcomes
<1>4. InputFits'
  BY <1>1 DEF Inv, InputFits, Given
<1>5. PlanInv'
  <2>1. PlanFits(plan)'
    BY <1>1, <1>2, NextState
  <2> QED BY <1>1, <2>1 DEF PlanInv, Planned
<1>6. FileFits(file)'
  <2>1. FileFits(file')
    BY <1>1, <1>2, PrefixFits
  <2> QED BY <1>1, <2>1, NextState
<1>7. FileInv'
  <2>1. CASE phase' = "written"
    <3>1. ok /\ file' = file
      BY <1>1, <2>1
    <3>2. End(plan, step)' = End(plan, step)
      BY <1>1, NextState
    <3>3. Progress'
      BY <1>1, <1>2, <3>1, <3>2 DEF Progress
    <3> QED BY <1>1, <1>6, <2>1, <3>1, <3>3 DEF FileInv
  <2>2. CASE phase' # "written"
    BY <1>1, <1>6, <2>2 DEF FileInv
  <2> QED BY <2>1, <2>2
<1> QED BY <1>3, <1>4, <1>5, <1>7 DEF Inv

(***************************************************************************)
(* Nothing changes when nothing happens.                                   *)
(***************************************************************************)
LEMMA StutterKeeps == Inv /\ UNCHANGED vars => Inv'
<1> SUFFICES ASSUME Inv, UNCHANGED vars PROVE Inv'
  OBVIOUS
<1>1. UNCHANGED <<call, blocks, nodes, encodedAt, phase, plan, step, writtenIb, ok, file>>
  BY DEF vars
<1>2. Control' /\ InputFits'
  BY <1>1 DEF Inv, Control, InputFits, Given
<1>3. PlanInv'
  BY <1>1, NextState DEF Inv, PlanInv
<1>4. FileInv'
  <2>1. FileFits(file)' <=> FileFits(file)
    BY <1>1, NextState
  <2>2. Progress' <=> Progress
    <3>1. End(plan, step)' = End(plan, step)
      BY <1>1, NextState
    <3> QED BY <1>1, <3>1 DEF Progress
  <2> QED BY <1>1, <2>1, <2>2 DEF Inv, FileInv
<1> QED BY <1>2, <1>3, <1>4 DEF Inv

(***************************************************************************)
(* The inductive invariant holds of every behaviour.                       *)
(***************************************************************************)
LEMMA Invariance == Spec => []Inv
<1>1. Inv /\ [Next]_vars => Inv'
  <2> SUFFICES ASSUME Inv, [Next]_vars PROVE Inv'
    OBVIOUS
  <2>1. CASE Call
    BY <2>1, CallKeeps
  <2>2. CASE EncodeBlock
    BY <2>2, EncodeBlockKeeps
  <2>3. CASE LayOut
    BY <2>3, LayOutKeeps
  <2>4. CASE OpenWb \/ OpenFails
    BY <2>4, OpenKeeps
  <2>5. CASE Emit
    BY <2>5, EmitKeeps
  <2>6. CASE Fclose
    BY <2>6, FcloseKeeps
  <2>7. CASE Return \/ UNCHANGED vars
    BY <2>7, StutterKeeps DEF Return
  <2> QED BY <2>1, <2>2, <2>3, <2>4, <2>5, <2>6, <2>7 DEF Next
<1> QED BY <1>1, InitInv, PTL DEF Spec

-----------------------------------------------------------------------------

(***************************************************************************)
(* Before the file is opened there is only the one that was there, and it  *)
(* has none of the pieces that a store is made of.                         *)
(***************************************************************************)
LEMMA OldFile ==
  ASSUME Inv, phase \in Before
  PROVE  /\ Data("header") = {} /\ Data("amap") = {} /\ Data("block") = {} /\ Data("page") = {}
         /\ Data("torn") = {} /\ Data("previous") = DOMAIN file /\ file # <<>>
         /\ DOMAIN file = {1} /\ Len(file) = 1
         /\ file[1].ib = 0 /\ file[1].len = 1
<1>1. file = << [ib |-> 0, len |-> 1, data |-> [kind |-> "previous"]] >>
  BY DEF Inv, Control
<1>2. DOMAIN file = {1} /\ Len(file) = 1 /\ file # <<>> /\ file[1].data.kind = "previous"
      /\ file[1].ib = 0 /\ file[1].len = 1
  BY <1>1
<1> QED BY <1>2 DEF Data

(***************************************************************************)
(* After that, a piece that is not padding or torn is one of the plan's,   *)
(* the one of its rank, and the header is there if anything else is.       *)
(***************************************************************************)
LEMMA NewFile ==
  ASSUME Inv, phase \notin Before
  PROVE  /\ phase \in Planned /\ PlanShape(plan) /\ PlanMeets(plan) /\ PlanMapped(plan)
         /\ PlanBids(plan) /\ FileFits(file)
         /\ Len(file) \in Nat /\ DOMAIN file = 1..Len(file)
         /\ Whole = WholeOf(file) /\ \A i : Rank(i) = RankOf(file, i)
         /\ \A i \in Whole : /\ i \in 1..Len(file) /\ Rank(i) \in 1..Len(plan)
                             /\ file[i].data = plan[Rank(i)].data
                             /\ file[i].len = plan[Rank(i)].len
                             /\ file[i].ib = Place(plan, Rank(i))
         /\ \A i \in 1..Len(file) : EndsWithin(file, i)
         /\ Data("torn") = TornIn(file) /\ TornIn(file) \subseteq {Len(file)}
         /\ \A kind \in {"amap", "block", "page"} : Data(kind) \subseteq Whole
         /\ \A i \in Whole : i # 1 => 1 \in Whole
<1>1. phase \in Planned /\ PlanFits(plan) /\ FileFits(file)
  BY DEF Inv, Control, PlanInv, FileInv, Planned, Before, Outcomes
<1>2. Len(file) \in Nat /\ DOMAIN file = 1..Len(file)
  BY <1>1 DEF FileFits
<1>3. Whole = WholeOf(file) /\ Data("torn") = TornIn(file) /\ \A i : Rank(i) = RankOf(file, i)
  BY DEF Whole, WholeOf, Data, TornIn, Rank, RankOf
<1>4. \A i \in Whole : /\ i \in 1..Len(file) /\ Rank(i) \in 1..Len(plan)
                       /\ file[i].data = plan[Rank(i)].data
                       /\ file[i].len = plan[Rank(i)].len
                       /\ file[i].ib = Place(plan, Rank(i))
  <2> SUFFICES ASSUME NEW i \in Whole
               PROVE  /\ i \in 1..Len(file) /\ Rank(i) \in 1..Len(plan)
                      /\ file[i].data = plan[Rank(i)].data
                      /\ file[i].len = plan[Rank(i)].len
                      /\ file[i].ib = Place(plan, Rank(i))
    OBVIOUS
  <2>1. i \in 1..Len(file)
    BY <1>2, <1>3 DEF WholeOf
  <2>2. RankFits(file, i)
    BY <1>1, <1>3 DEF FileFits
  <2> QED BY <1>3, <2>1, <2>2 DEF RankFits
<1>5. \A kind \in {"amap", "block", "page"} : Data(kind) \subseteq Whole
  BY DEF Data, Whole
<1>6. TornIn(file) \subseteq {Len(file)} /\ \A i \in 1..Len(file) : EndsWithin(file, i)
  BY <1>1 DEF FileFits
<1>7. ASSUME NEW i \in Whole, i # 1 PROVE 1 \in Whole
  <2>1. 1 \in DOMAIN file /\ 1 # Len(file) /\ file # <<>>
    BY <1>2, <1>4, <1>7
  <2>2. file[1].data.kind # "zeros"
    BY <1>1, <2>1 DEF FileFits
  <2>3. file[1].data.kind # "torn"
    BY <1>6, <2>1 DEF TornIn
  <2> QED BY <2>1, <2>2, <2>3 DEF Whole
<1> QED BY <1>1, <1>2, <1>3, <1>4, <1>5, <1>6, <1>7 DEF PlanFits

(***************************************************************************)
(* The header is the first piece of the plan and of the file.              *)
(***************************************************************************)
LEMMA HeaderFirst ==
  ASSUME Inv, phase \notin Before, NEW i \in Whole
  PROVE  /\ 1 \in Whole /\ Rank(1) = 1 /\ file[1].data = plan[1].data
         /\ file[i].data.kind # "header" => i # 1
<1>1. 1 \in Whole /\ 1 \in 1..Len(file) /\ Rank(1) \in 1..Len(plan)
      /\ file[1].data = plan[Rank(1)].data /\ Rank(1) = RankOf(file, 1)
  BY NewFile
<1>2. Rank(1) = 1
  <2>1. WholeOf(file) \cap 1..1 = {1}
    BY <1>1, NewFile
  <2>2. Cardinality({1}) = 1
    BY FS_Singleton
  <2> QED BY <1>1, <2>1, <2>2 DEF RankOf
<1>3. plan[1].data.kind = "header"
  BY NewFile DEF PlanShape
<1> QED BY <1>1, <1>2, <1>3

(***************************************************************************)
(* Different pieces are different pieces of the plan.                      *)
(***************************************************************************)
LEMMA SameRank ==
  ASSUME Inv, phase \notin Before, NEW i \in Whole, NEW j \in Whole, Rank(i) = Rank(j)
  PROVE  i = j
<1>1. /\ i \in 0..Len(file) /\ j \in 0..Len(file) /\ Len(file) \in Nat /\ DOMAIN file = 1..Len(file)
      /\ i \in WholeOf(file) /\ j \in WholeOf(file) /\ RankOf(file, i) = RankOf(file, j)
  BY NewFile
<1>2. /\ RankOf(file, i) \in Nat /\ RankOf(file, j) \in Nat
      /\ j > i => RankOf(file, j) > RankOf(file, i)
      /\ i > j => RankOf(file, i) > RankOf(file, j)
  BY <1>1, RankFacts
<1> QED BY <1>1, <1>2

(***************************************************************************)
(* The variables have their types, and the pieces of a file follow one     *)
(* another without a gap, whatever is written and wherever it stops.       *)
(***************************************************************************)
THEOREM TypeCorrect == Spec => []TypeOK
<1>1. Inv => TypeOK
  <2> SUFFICES ASSUME Inv PROVE TypeOK
    OBVIOUS
  <2>1. \A i \in DOMAIN file :
          /\ file[i].len \in Nat \ {0}
          /\ file[i].ib = IF i = 1 THEN 0 ELSE file[i - 1].ib + file[i - 1].len
    <3>1. CASE phase \in Before
      BY <3>1, OldFile
    <3>2. CASE phase \notin Before
      <4>1. FileFits(file) /\ DOMAIN file = 1..Len(file)
        BY <3>2, NewFile
      <4>2. \A i \in 1..Len(file) : file[i] \in FilePiece
        BY <4>1 DEF FileFits
      <4> QED BY <4>1, <4>2 DEF FileFits, Contiguous, FilePiece
    <3> QED BY <3>1, <3>2
  <2>2. step \in 0..Len(plan)
    <3>1. Len(plan) \in Nat
      <4>1. CASE phase \in Planned
        BY <4>1 DEF Inv, PlanInv, PlanFits, PlanShape
      <4>2. CASE phase \notin Planned
        <5>1. plan = <<>>
          BY <4>2 DEF Inv, PlanInv
        <5> QED BY <5>1
      <4> QED BY <4>1, <4>2
    <3> QED BY <3>1 DEF Inv, Control
  <2> QED BY <2>1, <2>2 DEF Inv, Control, InputFits, TypeOK
<1> QED BY <1>1, Invariance, PTL

(***************************************************************************)
(* Whatever is in the file is the beginning of what was to be written, and *)
(* nothing is written after a short write, so that only a file that has    *)
(* all of it is reported as written; a refused call leaves the old file.   *)
(***************************************************************************)
THEOREM ShortWriteIsLast == Spec => []NothingAfterAShortWrite
<1>1. Inv => NothingAfterAShortWrite
  <2> SUFFICES ASSUME Inv PROVE NothingAfterAShortWrite
    OBVIOUS
  <2>1. CASE phase \in Before
    BY <2>1, OldFile DEF NothingAfterAShortWrite, Before
  <2>2. CASE phase \notin Before
    <3>1. \A i \in Whole : Rank(i) \in DOMAIN plan /\ file[i].data = plan[Rank(i)].data
      BY <2>2, NewFile DEF PlanShape
    <3>2. Data("torn") \subseteq {Len(file)}
      BY <2>2, NewFile
    <3>3. phase = "written" => Rank(Len(file)) = Len(plan)
      <4>1. \A i : Rank(i) = RankOf(file, i)
        BY <2>2, NewFile
      <4> QED BY <4>1 DEF Inv, FileInv, Progress
    <3> QED BY <2>2, <3>1, <3>2, <3>3 DEF NothingAfterAShortWrite, Before
  <2> QED BY <2>1, <2>2
<1> QED BY <1>1, Invariance, PTL

(***************************************************************************)
(* No two pages of a file have one BID, and bidNextP is above them, for    *)
(* any number of blocks and nodes.                                         *)
(***************************************************************************)
THEOREM PageBidsNeverRepeat == Spec => []PageBidsDistinct
<1>1. Inv => PageBidsDistinct
  <2> SUFFICES ASSUME Inv PROVE PageBidsDistinct
    OBVIOUS
  <2> DEFINE bid(i) == file[i].data.page.ref.bid
  <2>1. CASE phase \in Before
    BY <2>1, OldFile DEF PageBidsDistinct
  <2>2. CASE phase \notin Before
    <3>1. ASSUME NEW i \in Data("page")
          PROVE  /\ i \in Whole /\ Rank(i) \in PageIndices(plan)
                 /\ bid(i) = plan[Rank(i)].data.page.ref.bid
                 /\ file[1].data = plan[1].data
      <4>1. i \in Whole /\ Rank(i) \in 1..Len(plan) /\ file[i].data = plan[Rank(i)].data
        BY <2>2, NewFile
      <4>2. plan[Rank(i)].data.kind = "page"
        BY <4>1 DEF Data
      <4>3. file[1].data = plan[1].data
        BY <2>2, <4>1, HeaderFirst
      <4> QED BY <4>1, <4>2, <4>3 DEF PageIndices
    <3>2. PlanBids(plan)
      BY <2>2, NewFile
    <3>3. \A i, j \in Data("page") : bid(i) = bid(j) => i = j
      <4> SUFFICES ASSUME NEW i \in Data("page"), NEW j \in Data("page"), bid(i) = bid(j)
                   PROVE  i = j
        OBVIOUS
      <4>1. Rank(i) = Rank(j)
        BY <3>1, <3>2 DEF PlanBids
      <4> QED BY <2>2, <3>1, <4>1, SameRank
    <3>4. call.entry \in {"M5", "Empty"} => \A i \in Data("page") : bid(i) < file[1].data.bidNextP
      BY <3>1, <3>2 DEF PlanBids
    <3> QED BY <3>3, <3>4 DEF PageBidsDistinct
  <2> QED BY <2>1, <2>2
<1> QED BY <1>1, Invariance, PTL

(***************************************************************************)
(* Every piece of a file is where the first pass and the encode loops said *)
(* it would be; a file written in full has the header's length, and its    *)
(* map marks what is in it and nothing else.                               *)
(***************************************************************************)
THEOREM EverythingInPlace == Spec => []PlacedWhereComputed
<1>1. Inv => PlacedWhereComputed
  <2> SUFFICES ASSUME Inv PROVE PlacedWhereComputed
    OBVIOUS
  <2>1. CASE phase \in Before
    BY <2>1, OldFile DEF PlacedWhereComputed, Before
  <2>2. CASE phase \notin Before
    <3>1. /\ PlanShape(plan) /\ PlanMeets(plan) /\ PlanMapped(plan)
          /\ \A i \in Whole : /\ i \in 1..Len(file) /\ Rank(i) \in 1..Len(plan)
                              /\ file[i].data = plan[Rank(i)].data
                              /\ file[i].len = plan[Rank(i)].len
                              /\ file[i].ib = Place(plan, Rank(i))
          /\ \A kind \in {"amap", "block", "page"} : Data(kind) \subseteq Whole
      BY <2>2, NewFile
    <3>2. ASSUME NEW i \in Whole
          PROVE  /\ file[i].data.kind = "amap" => Rank(i) = 2
                 /\ file[i].data.kind = "page" =>
                      plan[Rank(i)].at = plan[Rank(i)].data.page.ref.ib
                 /\ file[i].data.kind = "block" =>
                      /\ Rank(i) - 2 \in 1..Len(blocks)
                      /\ plan[Rank(i)].data.bid = blocks[Rank(i) - 2].bid
      <4> DEFINE r == Rank(i)
      <4>1. r \in 1..Len(plan) /\ file[i].data = plan[r].data /\ Len(plan) \in Nat
        BY <3>1, <3>2 DEF PlanShape
      <4> HIDE DEF r
      <4>2. r = 1 \/ r = 2 \/ r \in 3..Len(plan)
        BY <4>1
      <4>3. CASE r = 1
        BY <3>1, <4>1, <4>3 DEF PlanShape, r
      <4>4. CASE r = 2
        BY <3>1, <4>1, <4>4 DEF PlanShape, r
      <4>5. CASE r \in 3..Len(plan)
        BY <3>1, <4>1, <4>5 DEF PlanShape, r
      <4> QED BY <4>2, <4>3, <4>4, <4>5
    <3>3. \A i \in Data("amap") : file[i].ib = IbAMap
      <4> SUFFICES ASSUME NEW i \in Data("amap") PROVE file[i].ib = IbAMap
        OBVIOUS
      <4>1. i \in Whole /\ file[i].data.kind = "amap" /\ Rank(i) = 2
        BY <3>1, <3>2 DEF Data
      <4> QED BY <3>1, <4>1 DEF PlanMeets, PlanShape, Place
    <3>4. \A i \in Data("page") : file[i].ib = file[i].data.page.ref.ib
      <4> SUFFICES ASSUME NEW i \in Data("page") PROVE file[i].ib = file[i].data.page.ref.ib
        OBVIOUS
      <4>1. i \in Whole /\ file[i].data.kind = "page"
        BY <3>1 DEF Data
      <4> QED BY <3>1, <3>2, <4>1 DEF Place
    <3>5. \A i \in Data("block") :
            \E b \in DOMAIN blocks : file[i].data.bid = blocks[b].bid /\ file[i].ib = encodedAt[b]
      <4> SUFFICES ASSUME NEW i \in Data("block")
                   PROVE  \E b \in DOMAIN blocks :
                            file[i].data.bid = blocks[b].bid /\ file[i].ib = encodedAt[b]
        OBVIOUS
      <4>1. i \in Whole /\ file[i].data.kind = "block"
        BY <3>1 DEF Data
      <4>2. DOMAIN blocks = 1..Len(blocks)
        BY DEF Inv, InputFits, Given
      <4> QED BY <3>1, <3>2, <4>1, <4>2 DEF Place
    <3>6. ASSUME phase = "written"
          PROVE  LET covered == IbAMap .. (IbAMap + Coverage - 1)
                     used(i) == file[i].ib .. (file[i].ib + file[i].len - 1)
                     kept    == Data("amap") \cup Data("page") \cup Data("block")
                 IN  /\ FileSize = file[1].data.ibFileEof
                     /\ \A i \in Data("amap") :
                          /\ \A k \in kept : used(k) \cap covered \subseteq file[i].data.marked
                          /\ Cardinality(covered \ file[i].data.marked) = file[1].data.cbAMapFree
                          /\ file[i].data.marked \subseteq 0 .. (FileSize - 1)
      <4> DEFINE used(i) == file[i].ib .. (file[i].ib + file[i].len - 1)
                 eof == plan[1].data.ibFileEof
      <4>1. /\ step = Len(plan) /\ FileSize = SizeOf(file) /\ SizeOf(file) = End(plan, step)
            /\ RankOf(file, Len(file)) = step
        BY <3>6 DEF Inv, FileInv, Progress, FileSize, SizeOf
      <4>2. FileSize = eof
        BY <3>1, <4>1 DEF PlanMeets
      <4>3. \E i \in Whole : TRUE
        <5> SUFFICES ASSUME Whole = {} PROVE FALSE
          OBVIOUS
        <5>1. RankOf(file, Len(file)) = 0
          BY <2>2, NewFile, FS_EmptySet DEF RankOf
        <5> QED BY <3>1, <4>1, <5>1 DEF PlanShape
      <4>4. file[1].data = plan[1].data
        BY <2>2, <4>3, HeaderFirst
      <4>5. \A k \in Whole : used(k) \subseteq 0 .. (eof - 1)
        <5> SUFFICES ASSUME NEW k \in Whole PROVE used(k) \subseteq 0 .. (eof - 1)
          OBVIOUS
        <5> DEFINE r == Rank(k)
        <5>1. r \in 1..Len(plan) /\ file[k].ib = Place(plan, r) /\ file[k].len = plan[r].len
          BY <3>1
        <5>2. /\ Place(plan, r) \in Nat /\ plan[r].len \in Nat
              /\ End(plan, r) = Place(plan, r) + plan[r].len /\ End(plan, r) <= eof
              /\ End(plan, Len(plan)) = eof
          BY <3>1, <5>1 DEF PlanMeets, PlanShape, End
        <5>3. eof \in Nat
          <6>1. Len(plan) \in 1..Len(plan) /\ Len(plan) # 0
            BY <3>1 DEF PlanShape
          <6>2. /\ Place(plan, Len(plan)) \in Nat /\ plan[Len(plan)].len \in Nat
                /\ End(plan, Len(plan)) = Place(plan, Len(plan)) + plan[Len(plan)].len
            BY <3>1, <6>1 DEF PlanMeets, PlanShape, End
          <6> QED BY <5>2, <6>2
        <5> HIDE DEF r, eof
        <5> QED BY <5>1, <5>2, <5>3
      <4>6. ASSUME NEW i \in Data("amap")
            PROVE  /\ \A k \in Whole : used(k) \cap Covered \subseteq file[i].data.marked
                   /\ Cardinality(Covered \ file[i].data.marked) = file[1].data.cbAMapFree
                   /\ file[i].data.marked \subseteq 0 .. (eof - 1)
        <5>1. i \in Whole /\ file[i].data.kind = "amap" /\ Rank(i) = 2
          BY <3>1, <3>2 DEF Data
        <5>2. file[i].data = plan[2].data
          BY <3>1, <5>1
        <5> HIDE DEF used
        <5> QED BY <3>1, <4>4, <4>5, <5>2 DEF PlanMapped
      <4>7. Data("amap") \cup Data("page") \cup Data("block") \subseteq Whole
        BY <3>1
      <4> HIDE DEF used, eof
      <4>8. \A i \in Data("amap") :
              /\ \A k \in Data("amap") \cup Data("page") \cup Data("block") :
                   used(k) \cap Covered \subseteq file[i].data.marked
              /\ Cardinality(Covered \ file[i].data.marked) = file[1].data.cbAMapFree
              /\ file[i].data.marked \subseteq 0 .. (FileSize - 1)
        BY <4>2, <4>6, <4>7
      <4> QED BY <4>2, <4>4, <4>8 DEF Covered, used, eof
    <3> QED BY <3>3, <3>4, <3>5, <3>6 DEF PlacedWhereComputed
  <2> QED BY <2>1, <2>2
<1> QED BY <1>1, Invariance, PTL

-----------------------------------------------------------------------------
\* Vectors and sorting: the lemmas proved with the table contexts, none of
\* which depends on a table.
Lib == INSTANCE TableContextProofs WITH
    OffsetRange <- 1, BlockBody <- 0, AllocMax <- 16, Schemas <- {}, RowIds <- {},
    CellSizes <- {}, FirstNids <- {}, MaxRows <- 0, cols <- file, rows <- file, tc <- file

(***************************************************************************)
(* The assumptions under which they were proved.                           *)
(***************************************************************************)
LEMMA Assumed ==
  /\ 1 \in Nat \ {0} /\ 0 \in Nat /\ 16 \in Nat /\ 0 < 1
  /\ \A cs \in {} : Lib!LaidOut(cs)
  /\ {} \subseteq Nat
OBVIOUS

\* A sequence, whatever is in it.
IsVector(s) == \E S : s \in Seq(S)

(***************************************************************************)
(* It is indexed from 1 to its length.                                     *)
(***************************************************************************)
LEMMA Vector ==
  ASSUME NEW s, IsVector(s)
  PROVE  Len(s) \in Nat /\ DOMAIN s = 1..Len(s)
BY DEF IsVector

(***************************************************************************)
(* A function on the numbers from 1 to n is a sequence of n.               *)
(***************************************************************************)
LEMMA FunctionIsVector ==
  ASSUME NEW n \in Nat, NEW f, f = [i \in 1..n |-> f[i]]
  PROVE  IsVector(f) /\ Len(f) = n /\ DOMAIN f = 1..n
BY IsSequence DEF IsVector

(***************************************************************************)
(* Sorting entries of different keys: every entry has one place, and the   *)
(* keys ascend.                                                            *)
(***************************************************************************)
LEMMA Sorted ==
  ASSUME NEW entries, IsVector(entries), \A i \in 1..Len(entries) : entries[i].key \in Nat,
         \A i, j \in 1..Len(entries) : entries[i].key = entries[j].key => i = j
  PROVE  /\ IsVector(SortedByKey(entries)) /\ Len(SortedByKey(entries)) = Len(entries)
         /\ \A k \in 1..Len(entries) : \E i \in 1..Len(entries) : SortedByKey(entries)[k] = entries[i]
         /\ \A i \in 1..Len(entries) : \E k \in 1..Len(entries) : SortedByKey(entries)[k] = entries[i]
         /\ \A k, h \in 1..Len(entries) : k < h =>
              SortedByKey(entries)[k].key < SortedByKey(entries)[h].key
<1> DEFINE n == Len(entries)
           p == Lib!SortedIdx(entries)
<1>1. n \in Nat /\ DOMAIN entries = 1..n
  BY Vector
<1>2. \A S : Cardinality(S) = Lib!Cardinality(S)
  BY DEF Cardinality, Lib!Cardinality
<1>3. \A i : PlaceOf(entries, i) = Lib!PlaceOf(entries, i)
  BY <1>2 DEF PlaceOf, Lib!PlaceOf, Lib!KeyLess
<1>4. SortedByKey(entries) = [k \in 1..n |-> entries[p[k]]]
  <2> DEFINE mine(k) == CHOOSE i \in 1..n : PlaceOf(entries, i) = k
             its(k)  == CHOOSE i \in 1..n : Lib!PlaceOf(entries, i) = k
  <2>1. \A k : mine(k) = its(k)
    BY <1>3
  <2>2. p = [k \in 1..n |-> its(k)]
    BY <1>1 DEF Lib!SortedIdx
  <2>3. SortedByKey(entries) = [k \in 1..n |-> entries[mine(k)]]
    BY <1>1 DEF SortedByKey
  <2> HIDE DEF p, n, mine, its
  <2>4. \A k \in 1..n : p[k] = mine(k)
    BY <2>1, <2>2
  <2> QED BY <2>3, <2>4
<1>5. /\ p \in [1..n -> 1..n]
      /\ \A i \in 1..n : \E k \in 1..n : p[k] = i
      /\ \A k, h \in 1..n : k < h => entries[p[k]].key < entries[p[h]].key
  BY Lib!SortingPermutes, Assumed DEF IsVector, Lib!IsVector
<1> DEFINE s == SortedByKey(entries)
<1>6. s = [k \in 1..n |-> s[k]]
  BY <1>4
<1> HIDE DEF p
<1>7. \A k \in 1..n : p[k] \in 1..n /\ s[k] = entries[p[k]]
  BY <1>4, <1>5
<1> HIDE DEF s
<1>8. IsVector(s) /\ Len(s) = n
  BY <1>1, <1>6, FunctionIsVector
<1>9. ASSUME NEW i \in 1..n PROVE \E k \in 1..n : s[k] = entries[i]
  <2>1. PICK k \in 1..n : p[k] = i
    BY <1>5
  <2> QED BY <1>7, <2>1
<1>10. ASSUME NEW k \in 1..n, NEW h \in 1..n, k < h PROVE s[k].key < s[h].key
  <2>1. entries[p[k]].key < entries[p[h]].key
    BY <1>5, <1>10
  <2> QED BY <1>7, <2>1
<1> QED BY <1>7, <1>8, <1>9, <1>10 DEF s

(***************************************************************************)
(* Entries of which some may have the same key: each has one place still.  *)
(***************************************************************************)
LEMMA SortedAnyway ==
  ASSUME NEW entries, IsVector(entries), \A i \in 1..Len(entries) : entries[i].key \in Nat
  PROVE  /\ IsVector(SortedByKey(entries)) /\ Len(SortedByKey(entries)) = Len(entries)
         /\ \A k \in 1..Len(entries) : \E i \in 1..Len(entries) : SortedByKey(entries)[k] = entries[i]
         /\ \A i \in 1..Len(entries) : \E k \in 1..Len(entries) : SortedByKey(entries)[k] = entries[i]
<1> DEFINE n == Len(entries)
           key(i) == entries[i].key
           upTo(i) == {j \in 1..n : key(j) < key(i) \/ (key(j) = key(i) /\ j <= i)}
           place == [i \in 1..n |-> Cardinality(upTo(i))]
           s == SortedByKey(entries)
<1>1. n \in Nat /\ DOMAIN entries = 1..n /\ \A i \in 1..n : key(i) \in Nat
  BY Vector
<1>2. \A i \in 1..n : PlaceOf(entries, i) = place[i]
  BY <1>1 DEF PlaceOf
<1>3. s = [k \in 1..n |-> entries[CHOOSE i \in 1..n : PlaceOf(entries, i) = k]]
  BY <1>1 DEF SortedByKey
<1> HIDE DEF n, key, s
<1>4. IsFiniteSet(1..n) /\ Cardinality(1..n) = n
  <2>1. 1 \in Int /\ n \in Int
    BY <1>1
  <2>2. IsFiniteSet(1..n) /\ Cardinality(1..n) = IF 1 > n THEN 0 ELSE n - 1 + 1
    BY ONLY <2>1, FS_Interval
  <2> QED BY <1>1, <2>2
<1>5. ASSUME NEW i \in 1..n
      PROVE  /\ upTo(i) \in SUBSET (1..n) /\ i \in upTo(i)
             /\ IsFiniteSet(upTo(i)) /\ place[i] = Cardinality(upTo(i)) /\ place[i] \in 1..n
  <2>1. upTo(i) \in SUBSET (1..n) /\ i \in upTo(i)
    OBVIOUS
  <2> DEFINE B == upTo(i)
  <2>2. place[i] = Cardinality(B)
    OBVIOUS
  <2> HIDE DEF B, place
  <2>3. IsFiniteSet(B) /\ Cardinality(B) <= n
    BY <1>4, <2>1, FS_Subset DEF B
  <2>4. Cardinality(B) \in Nat /\ Cardinality(B) # 0
    BY <2>1, <2>3, FS_CardinalityType, FS_EmptySet DEF B
  <2>5. place[i] \in 1..n
    BY <1>1, <2>2, <2>3, <2>4
  <2> QED BY <2>1, <2>2, <2>3, <2>5 DEF B
<1>6. ASSUME NEW i \in 1..n, NEW j \in 1..n, i \in upTo(j), i # j PROVE place[i] < place[j]
  <2>1. upTo(i) \subseteq upTo(j) /\ j \notin upTo(i)
    BY <1>1, <1>6
  <2> DEFINE B == upTo(i)
             C == upTo(j)
  <2>2. /\ B \in SUBSET C /\ B # C /\ IsFiniteSet(C) /\ IsFiniteSet(B)
        /\ place[i] = Cardinality(B) /\ place[j] = Cardinality(C)
        /\ place[i] \in 1..n /\ place[j] \in 1..n
    BY <1>5, <2>1
  <2> HIDE DEF B, C, place
  <2>3. Cardinality(B) <= Cardinality(C) /\ Cardinality(B) # Cardinality(C)
    BY <2>2, FS_Subset
  <2> QED BY <1>1, <2>2, <2>3
<1>7. ASSUME NEW i \in 1..n, NEW j \in 1..n, place[i] = place[j] PROVE i = j
  <2> SUFFICES ASSUME i # j PROVE FALSE
    OBVIOUS
  <2>1. i \in upTo(j) \/ j \in upTo(i)
    BY <1>1
  <2> HIDE DEF place, upTo
  <2>2. place[i] < place[j] \/ place[j] < place[i]
    BY <1>6, <2>1
  <2>3. place[i] \in 1..n
    BY <1>5
  <2> QED BY <1>1, <1>7, <2>2, <2>3
<1>8. DOMAIN place = 1..n
  OBVIOUS
<1> HIDE DEF place
<1>9. place \in Injection(1..n, 1..n)
  <2>1. place = [i \in 1..n |-> place[i]]
    BY DEF place
  <2>2. place \in [1..n -> 1..n]
    BY <1>5, <2>1
  <2> QED BY <1>7, <2>2 DEF Injection, IsInjective
<1>10. \A k \in 1..n : \E i \in 1..n : place[i] = k
  <2>1. place \in Surjection(1..n, 1..n)
    BY <1>4, <1>9, FS_Injection
  <2> QED BY <2>1 DEF Surjection
<1>11. ASSUME NEW k \in 1..n PROVE \E i \in 1..n : place[i] = k /\ s[k] = entries[i]
  <2> DEFINE i == CHOOSE i \in 1..n : PlaceOf(entries, i) = k
  <2>1. i \in 1..n /\ PlaceOf(entries, i) = k
    BY <1>2, <1>10
  <2>2. s[k] = entries[i]
    BY <1>3
  <2> HIDE DEF i
  <2> QED BY <1>2, <2>1, <2>2
<1>12. ASSUME NEW i \in 1..n PROVE \E k \in 1..n : s[k] = entries[i]
  <2>1. place[i] \in 1..n
    BY <1>5
  <2>2. PICK j \in 1..n : place[j] = place[i] /\ s[place[i]] = entries[j]
    BY <1>11, <2>1
  <2>3. j = i
    BY <1>7, <2>2
  <2> QED BY <2>1, <2>2, <2>3
<1>13. IsVector(s) /\ Len(s) = n
  <2>1. s = [k \in 1..n |-> s[k]]
    BY <1>3
  <2> QED BY <1>1, <2>1, FunctionIsVector
<1> QED BY <1>11, <1>12, <1>13 DEF n, s

(***************************************************************************)
(* Division by the size of a leaf: which leaf a position falls into.       *)
(***************************************************************************)
LEMMA LeafOfPosition ==
  ASSUME NEW n \in Nat \ {0}, NEW max \in Nat \ {0}
  PROVE  LET m == LeafCount(n, max)
         IN  /\ m \in Nat \ {0} /\ (m - 1) * max < n /\ n <= m * max
             /\ \A q \in 1..n : \E i \in 1..m : (i - 1) * max < q /\ q <= i * max
<1> DEFINE m == LeafCount(n, max)
<1>1. m = (n + max - 1) \div max
  BY DEF LeafCount
<1>2. /\ m \in Nat /\ (n + max - 1) % max \in 0..(max - 1)
      /\ n + max - 1 = max * m + ((n + max - 1) % max)
  <2>1. n + max - 1 \in Nat
    OBVIOUS
  <2> QED BY <1>1, <2>1, Division
<1> HIDE DEF m
<1>3. (m - 1) * max = max * m - max /\ m * max = max * m /\ max * m \in Nat
  BY <1>2
<1>4. (m - 1) * max < n /\ n <= m * max
  BY <1>2, <1>3
<1>5. m # 0
  BY <1>2
<1>6. ASSUME NEW q \in 1..n PROVE \E i \in 1..m : (i - 1) * max < q /\ q <= i * max
  <2> DEFINE a == (q - 1) \div max
             i == a + 1
  <2>1. /\ a \in Nat /\ (q - 1) % max \in 0..(max - 1)
        /\ q - 1 = max * a + ((q - 1) % max)
    <3>1. q - 1 \in Nat
      OBVIOUS
    <3> QED BY <3>1, Division
  <2> HIDE DEF a
  <2>2. (i - 1) * max = max * a /\ i * max = max * a + max /\ max * a \in Nat
    BY <2>1
  <2>3. (i - 1) * max < q /\ q <= i * max
    BY <2>1, <2>2
  <2>4. i <= m
    <3> SUFFICES ASSUME m <= a PROVE FALSE
      BY <1>2, <2>1
    <3>1. max * m <= max * a
      BY <1>2, <2>1
    <3> QED BY <1>3, <1>4, <2>1, <2>2, <3>1
  <2> QED BY <2>1, <2>3, <2>4
<1> QED BY <1>2, <1>4, <1>5, <1>6 DEF m

\* How many entries there are in the leaves before the i-th, and up to it.
Skipped(i, max) == (i - 1) * max
UpTo(i, max, n) == IF i * max < n THEN i * max ELSE n

\* The i-th leaf has the entries behind those of the leaves before it.
LeafFacts(sorted, max, i) ==
  LET a == Skipped(i, max)
      b == UpTo(i, max, Len(sorted))
      s == LeafShare(sorted, max, i)
  IN  /\ a \in Nat /\ b \in Nat /\ a < b /\ b <= Len(sorted)
      /\ IsVector(s) /\ Len(s) = b - a
      /\ \A j \in 1..(b - a) : a + j \in 1..Len(sorted) /\ s[j] = sorted[a + j]

(***************************************************************************)
(* Each leaf of a tree that is not empty has entries, the ones from their  *)
(* place in the order on.                                                  *)
(***************************************************************************)
LEMMA LeafEntries ==
  ASSUME NEW sorted, IsVector(sorted), Len(sorted) # 0, NEW max \in Nat \ {0}
  PROVE  /\ LeafCount(Len(sorted), max) \in Nat \ {0}
         /\ \A i \in 1..LeafCount(Len(sorted), max) : LeafFacts(sorted, max, i)
         /\ UpTo(LeafCount(Len(sorted), max), max, Len(sorted)) = Len(sorted)
<1> DEFINE n == Len(sorted)
           m == LeafCount(n, max)
<1>1. n \in Nat \ {0} /\ DOMAIN sorted = 1..n
  BY Vector
<1>2. m \in Nat \ {0} /\ (m - 1) * max < n /\ n <= m * max
  <2> HIDE DEF n
  <2> QED BY <1>1, LeafOfPosition
<1>3. UpTo(m, max, n) = n
  <2> HIDE DEF n, m
  <2> QED BY <1>1, <1>2 DEF UpTo
<1>4. ASSUME NEW i \in 1..m PROVE LeafFacts(sorted, max, i)
  <2> DEFINE a == Skipped(i, max)
             b == UpTo(i, max, n)
             s == LeafShare(sorted, max, i)
  <2>0. i \in Nat \ {0} /\ i <= m
    <3> HIDE DEF m
    <3> QED BY <1>2
  <2>1. a \in Nat /\ i * max = a + max
    BY <2>0 DEF Skipped
  <2>2. a <= (m - 1) * max
    <3>1. i - 1 \in Nat /\ m - 1 \in Nat /\ i - 1 <= m - 1
      <4> HIDE DEF m
      <4> QED BY <1>2, <2>0
    <3> HIDE DEF m
    <3> QED BY <3>1 DEF Skipped
  <2>3. b \in Nat /\ a < b /\ b <= n
    <3> HIDE DEF a, n, m
    <3>1. (m - 1) * max \in Int
      BY <1>2
    <3> QED BY <1>1, <1>2, <2>1, <2>2, <3>1 DEF UpTo
  <2>4. s = SubSeq(sorted, a + 1, b)
    BY DEF LeafShare, Skipped, UpTo
  <2>5. SubSeq(sorted, a + 1, b) = [j \in 1..(b - a) |-> sorted[a + j]]
    <3>1. PICK S : sorted \in Seq(S)
      BY DEF IsVector
    <3> HIDE DEF a, b, s
    <3>2. (1 + b) - (a + 1) = b - a /\ \A j \in 1..(b - a) : ((a + 1) + j) - 1 = a + j
      BY <2>1, <2>3
    <3>3. SubSeq(sorted, a + 1, b) = [j \in 1..((1 + b) - (a + 1)) |-> sorted[((a + 1) + j) - 1]]
      BY <2>1, <2>3, <3>1, SMTT(20)
    <3> QED BY <3>2, <3>3, SMTT(20)
  <2> HIDE DEF a, b, s, n
  <2>6. s = [j \in 1..(b - a) |-> s[j]] /\ \A j \in 1..(b - a) : s[j] = sorted[a + j]
    BY <2>4, <2>5
  <2>7. IsVector(s) /\ Len(s) = b - a
    BY <2>1, <2>3, <2>6, FunctionIsVector
  <2>8. \A j \in 1..(b - a) : a + j \in 1..n
    BY <1>1, <2>1, <2>3
  <2> QED BY <2>1, <2>3, <2>6, <2>7, <2>8 DEF a, b, s, n, LeafFacts
<1> QED BY <1>2, <1>3, <1>4

(***************************************************************************)
(* Each entry is in a leaf, and the leaves' shares follow one another.     *)
(***************************************************************************)
LEMMA LeafPlaces ==
  ASSUME NEW n \in Nat \ {0}, NEW max \in Nat \ {0}
  PROVE  /\ \A q \in 1..n : \E i \in 1..LeafCount(n, max) :
              Skipped(i, max) < q /\ q <= UpTo(i, max, n)
         /\ \A i, h \in 1..LeafCount(n, max) : i < h => UpTo(i, max, n) <= Skipped(h, max)
         /\ \A i \in 1..(LeafCount(n, max) - 1) : UpTo(i, max, n) = Skipped(i + 1, max)
         /\ Skipped(1, max) = 0
<1> DEFINE m == LeafCount(n, max)
<1>1. /\ m \in Nat \ {0} /\ (m - 1) * max < n
      /\ \A q \in 1..n : \E i \in 1..m : (i - 1) * max < q /\ q <= i * max
  BY LeafOfPosition
<1> HIDE DEF m
<1>2. ASSUME NEW q \in 1..n
      PROVE  \E i \in 1..m : Skipped(i, max) < q /\ q <= UpTo(i, max, n)
  <2>1. PICK i \in 1..m : (i - 1) * max < q /\ q <= i * max
    BY <1>1
  <2> QED BY <2>1 DEF Skipped, UpTo
<1>3. ASSUME NEW i \in 1..m, NEW h \in 1..m, i < h
      PROVE  /\ UpTo(i, max, n) <= Skipped(h, max)
             /\ UpTo(i, max, n) = Skipped(i + 1, max)
  <2>1. i \in Nat /\ h - 1 \in Nat /\ m - 1 \in Nat /\ i <= h - 1 /\ h - 1 <= m - 1
    BY <1>1, <1>3
  <2> DEFINE x == i * max
             y == (h - 1) * max
             z == (m - 1) * max
  <2>2. x <= y /\ y <= z /\ x \in Int /\ y \in Int /\ z \in Int
    BY ONLY <2>1, max \in Nat \ {0}
  <2>3. z < n
    BY <1>1
  <2>4. Skipped(i + 1, max) = x
    <3>1. (i + 1) - 1 = i
      BY <2>1
    <3> QED BY <3>1 DEF Skipped
  <2>5. UpTo(i, max, n) = IF x < n THEN x ELSE n
    BY DEF UpTo
  <2>6. Skipped(h, max) = y
    BY DEF Skipped
  <2> HIDE DEF x, y, z
  <2>7. x < n
    BY <2>2, <2>3
  <2> QED BY <2>2, <2>4, <2>5, <2>6, <2>7
<1>4. ASSUME NEW i \in 1..(m - 1) PROVE UpTo(i, max, n) = Skipped(i + 1, max)
  <2>1. i \in 1..m /\ m \in 1..m /\ i < m
    BY <1>1
  <2> QED BY <1>3, <2>1
<1>5. Skipped(1, max) = 0
  BY DEF Skipped
<1> QED BY <1>2, <1>3, <1>4, <1>5 DEF m

(***************************************************************************)
(* Entries that a tree has room for take no more leaves than the page      *)
(* above them can list.                                                    *)
(***************************************************************************)
LEMMA LeavesFit ==
  ASSUME NEW n \in Nat \ {0}, NEW max \in Nat \ {0}, n <= max * BtMax
  PROVE  LeafCount(n, max) <= BtMax
<1> DEFINE m == LeafCount(n, max)
           x == m - 1
<1>1. m \in Nat \ {0} /\ x * max < n
  BY LeafOfPosition
<1> HIDE DEF m
<1>2. x \in Nat /\ BtMax \in Nat /\ m = x + 1
  BY <1>1, BtMaxAssumption
<1> HIDE DEF x
<1>3. ~(BtMax <= x)
  <2> SUFFICES ASSUME BtMax <= x PROVE FALSE
    OBVIOUS
  <2>1. BtMax * max <= x * max /\ BtMax * max = max * BtMax
        /\ x * max \in Int /\ max * BtMax \in Int
    BY ONLY <1>2, BtMax <= x, max \in Nat \ {0}
  <2> QED BY <1>1, <2>1
<1> QED BY <1>2, <1>3 DEF m

(***************************************************************************)
(* What the leaves share is the entries, and nothing else.                 *)
(***************************************************************************)
LEMMA SharesCover ==
  ASSUME NEW s, IsVector(s), NEW max \in Nat \ {0}
  PROVE  LET m == LeafCount(Len(s), max)
         IN  /\ \A i \in 1..m : \A e \in ToSet(LeafShare(s, max, i)) : \E q \in 1..Len(s) : e = s[q]
             /\ \A q \in 1..Len(s) : \E i \in 1..m : s[q] \in ToSet(LeafShare(s, max, i))
             /\ Len(s) # 0 => \A i \in 1..m : LeafShare(s, max, i) # <<>>
<1> DEFINE n == Len(s)
           m == LeafCount(n, max)
<1>1. n \in Nat
  BY Vector
<1>2. CASE n = 0
  <2>1. m = 1
    BY <1>2 DEF LeafCount
  <2>2. LeafShare(s, max, 1) = <<>>
    <3>1. (1 - 1) * max + 1 = 1 /\ 1 * max = max /\ ~(max < 0)
      OBVIOUS
    <3>2. LeafShare(s, max, 1) = SubSeq(s, 1, 0)
      BY <1>2, <3>1 DEF LeafShare
    <3>3. PICK S : s \in Seq(S)
      BY DEF IsVector
    <3> QED BY <3>2, <3>3
  <2>3. ToSet(<<>>) = {}
    BY DEF ToSet
  <2> HIDE DEF m
  <2> QED BY <1>2, <2>1, <2>2, <2>3 DEF m
<1>3. CASE n # 0
  <2>1. \A i \in 1..m : LeafFacts(s, max, i)
    BY <1>3, LeafEntries
  <2> HIDE DEF m
  <2>2. ASSUME NEW i \in 1..m
        PROVE  LET a == Skipped(i, max)
                   b == UpTo(i, max, n)
                   t == LeafShare(s, max, i)
               IN  /\ a \in Nat /\ b \in Nat /\ a < b /\ b <= n
                   /\ t # <<>> /\ DOMAIN t = 1..(b - a)
                   /\ \A j \in 1..(b - a) : a + j \in 1..n /\ t[j] = s[a + j]
    <3> DEFINE a == Skipped(i, max)
               b == UpTo(i, max, n)
               t == LeafShare(s, max, i)
    <3>1. /\ a \in Nat /\ b \in Nat /\ a < b /\ b <= n
          /\ IsVector(t) /\ Len(t) = b - a
          /\ \A j \in 1..(b - a) : a + j \in 1..n /\ t[j] = s[a + j]
      BY <2>1 DEF LeafFacts
    <3> HIDE DEF a, b, t
    <3>2. DOMAIN t = 1..(b - a)
      BY <3>1, Vector
    <3>3. t # <<>>
      <4>1. 1 \in DOMAIN t
        BY <3>1, <3>2
      <4> QED BY <4>1
    <3> QED BY <3>1, <3>2, <3>3 DEF a, b, t
  <2>3. ASSUME NEW i \in 1..m, NEW e \in ToSet(LeafShare(s, max, i))
        PROVE  \E q \in 1..n : e = s[q]
    <3> DEFINE t == LeafShare(s, max, i)
    <3>1. PICK j \in DOMAIN t : e = t[j]
      BY DEF ToSet
    <3> QED BY <2>2, <3>1
  <2>4. ASSUME NEW q \in 1..n PROVE \E i \in 1..m : s[q] \in ToSet(LeafShare(s, max, i))
    <3>1. PICK i \in 1..m : Skipped(i, max) < q /\ q <= UpTo(i, max, n)
      BY <1>1, <1>3, LeafPlaces DEF m
    <3> DEFINE a == Skipped(i, max)
               b == UpTo(i, max, n)
               t == LeafShare(s, max, i)
    <3>2. /\ a \in Nat /\ b \in Nat /\ a < q /\ q <= b /\ DOMAIN t = 1..(b - a)
          /\ \A j \in 1..(b - a) : t[j] = s[a + j]
      BY <2>2, <3>1
    <3> HIDE DEF a, b, t
    <3>3. q - a \in 1..(b - a) /\ a + (q - a) = q
      BY <1>1, <3>2
    <3>4. t[q - a] = s[q] /\ q - a \in DOMAIN t
      BY <3>2, <3>3
    <3>5. s[q] \in ToSet(t)
      BY <3>4 DEF ToSet
    <3> QED BY <3>5 DEF t
  <2> QED BY <1>3, <2>2, <2>3, <2>4 DEF m
<1> QED BY <1>2, <1>3

\* A tree's leaves.
LeavesOf(tree, entries, max, refs) ==
  [i \in 1..LeafCount(Len(entries), max) |->
    Leaf(tree, SortedByKey(entries), max, i, refs[i])]

(***************************************************************************)
(* The pages of a tree: its leaves and, if there are several, the page     *)
(* above them.                                                             *)
(***************************************************************************)
LEMMA TreeShape ==
  ASSUME NEW tree, NEW entries, Len(entries) \in Nat, NEW max \in Nat \ {0}, NEW refs
  PROVE  LET m      == LeafCount(Len(entries), max)
             pages  == TreePages(tree, entries, max, refs)
             leaves == LeavesOf(tree, entries, max, refs)
         IN  /\ m \in Nat \ {0} /\ IsVector(leaves) /\ Len(leaves) = m
             /\ \A i \in 1..m : pages[i] = leaves[i]
             /\ m = 1 => PageCount(Len(entries), max) = 1
             /\ m # 1 => /\ PageCount(Len(entries), max) = m + 1
                         /\ pages[m + 1] = Intermediate(tree, leaves, Last(refs))
<1> DEFINE n      == Len(entries)
           m      == LeafCount(n, max)
           pages  == TreePages(tree, entries, max, refs)
           leaves == LeavesOf(tree, entries, max, refs)
           root   == Intermediate(tree, leaves, Last(refs))
<1>1. m \in Nat \ {0}
  <2> HIDE DEF n
  <2> QED BY PageCountFacts DEF n
<1>2. PageCount(n, max) = m + (IF m > 1 THEN 1 ELSE 0)
  BY DEF PageCount, HasIntermediate
<1>3. pages = IF m = 1 THEN leaves ELSE Append(leaves, root)
  BY DEF TreePages, LeavesOf
<1>4. leaves = [i \in 1..m |-> leaves[i]]
  BY DEF LeavesOf
<1> HIDE DEF m, leaves, pages, root
<1>5. IsVector(leaves) /\ Len(leaves) = m
  BY <1>1, <1>4, FunctionIsVector
<1>6. /\ Append(leaves, root)[m + 1] = root
      /\ \A i \in 1..m : Append(leaves, root)[i] = leaves[i]
  <2> DEFINE S == {leaves[i] : i \in 1..m} \cup {root}
  <2>1. leaves \in Seq({leaves[i] : i \in 1..m})
    BY <1>1, <1>4, IsSequence
  <2>2. leaves \in Seq(S) /\ root \in S
    BY <2>1
  <2> HIDE DEF S
  <2> QED BY <1>1, <1>5, <2>2
<1>7. CASE m = 1
  BY <1>1, <1>2, <1>3, <1>5, <1>7 DEF m, leaves, pages, root
<1>8. CASE m # 1
  <2>1. PageCount(n, max) = m + 1
    BY <1>1, <1>2, <1>8
  <2>2. \A i \in 1..m : pages[i] = leaves[i]
    BY <1>3, <1>6, <1>8
  <2>3. pages[m + 1] = root
    BY <1>3, <1>6, <1>8
  <2> QED BY <1>1, <1>5, <1>8, <2>1, <2>2, <2>3 DEF m, leaves, pages, root
<1> QED BY <1>7, <1>8

(***************************************************************************)
(* The page above leaves that all have entries lists them from the first   *)
(* on, as many as fit.                                                     *)
(***************************************************************************)
LEMMA ChildrenListed ==
  ASSUME NEW tree, NEW leaves, IsVector(leaves), NEW ref,
         \A i \in 1..Len(leaves) : leaves[i].entries # <<>>
  PROVE  LET page == Intermediate(tree, leaves, ref)
         IN  /\ page.tree = tree /\ page.level = 1
             /\ page.entries = [i \in {i \in 1..Len(leaves) : i <= BtMax} |->
                                  [key |-> BtKey(leaves[i]), ref |-> leaves[i].ref]]
<1> DEFINE n == Len(leaves)
           Step(f, i) == IF i = 0 THEN <<>>
                         ELSE f[i - 1] \o (IF leaves[i].entries = <<>> THEN <<>> ELSE <<leaves[i]>>)
           P(f) == f = [i \in 0..n |-> Step(f, i)]
           filled == CHOOSE f : P(f)
           upto == [i \in 0..n |-> [j \in 1..i |-> leaves[j]]]
<1>1. n \in Nat /\ DOMAIN leaves = 1..n
  BY Vector
<1>2. P(upto)
  <2> SUFFICES ASSUME NEW i \in 0..n PROVE [j \in 1..i |-> leaves[j]] = Step(upto, i)
    OBVIOUS
  <2>1. CASE i = 0
    BY <2>1
  <2>2. CASE i # 0
    <3> DEFINE a == [j \in 1..(i - 1) |-> leaves[j]]
               b == <<leaves[i]>>
               c == [j \in 1..i |-> leaves[j]]
    <3>1. i \in 1..n /\ i - 1 \in 0..n /\ i - 1 \in Nat
      BY <1>1, <2>2
    <3>2. upto[i - 1] = a
      BY <3>1
    <3>3. Step(upto, i) = a \o b
      BY <2>2, <3>1, <3>2
    <3> DEFINE S == {leaves[j] : j \in 1..n}
    <3>4. leaves[i] \in S /\ \A j \in 1..(i - 1) : leaves[j] \in S
      BY <3>1
    <3>5. a \in Seq(S) /\ Len(a) = i - 1
      <4> HIDE DEF S
      <4>1. a \in [1..(i - 1) -> S]
        BY <3>4
      <4> QED BY <3>1, <4>1
    <3>6. b \in Seq(S) /\ Len(b) = 1 /\ b[1] = leaves[i]
      <4> HIDE DEF S
      <4> QED BY <3>4
    <3> HIDE DEF S
    <3>7. \A j \in 1..(i - 1) : a[j] = leaves[j]
      OBVIOUS
    <3> HIDE DEF a, b
    <3>8. a \o b = c
      <4> DEFINE d == a \o b
      <4>a. a \in Seq(S) /\ b \in Seq(S)
        BY <3>5, <3>6
      <4>0. /\ d \in Seq(S \cup S) /\ Len(d) = Len(a) + Len(b)
            /\ DOMAIN d = 1..(Len(a) + Len(b))
            /\ \A j \in 1..Len(a) : d[j] = a[j]
            /\ \A j \in 1..Len(b) : d[Len(a) + j] = b[j]
        BY ONLY <4>a, Concatenation
      <4>1. /\ d \in Seq(S \cup S) /\ DOMAIN d = 1..i
            /\ \A j \in 1..(i - 1) : d[j] = a[j]
            /\ d[i] = b[1]
        <5> HIDE DEF d
        <5> QED BY <3>1, <3>5, <3>6, <4>0
      <4>2. d = [j \in 1..i |-> d[j]]
        <5> HIDE DEF d
        <5> QED BY <4>1
      <4>3. \A j \in 1..i : j = i \/ j \in 1..(i - 1)
        BY <3>1
      <4> HIDE DEF d
      <4>4. \A j \in 1..i : d[j] = leaves[j]
        BY <3>6, <3>7, <4>1, <4>3
      <4> QED BY <4>2, <4>4 DEF d
    <3> QED BY <3>3, <3>8
  <2> QED BY <2>1, <2>2
<1>3. P(filled)
  <2> HIDE DEF P, upto
  <2> QED BY <1>2
<1> DEFINE T == {i \in Nat : i <= n => filled[i] = upto[i]}
<1>4. Nat \subseteq T
  <2> HIDE DEF filled, upto
  <2>1. \A i \in 0..n : filled[i] = Step(filled, i) /\ upto[i] = Step(upto, i)
    <3> HIDE DEF Step
    <3> QED BY <1>2, <1>3
  <2> HIDE DEF P
  <2>2. 0 \in T
    <3>1. Step(filled, 0) = <<>> /\ Step(upto, 0) = <<>> /\ 0 \in 0..n
      BY <1>1
    <3> HIDE DEF Step
    <3> QED BY <2>1, <3>1
  <2>3. ASSUME NEW i \in Nat, i \in T PROVE i + 1 \in T
    <3> SUFFICES ASSUME i + 1 <= n PROVE filled[i + 1] = upto[i + 1]
      OBVIOUS
    <3>1. i + 1 \in 0..n /\ (i + 1) - 1 = i /\ filled[i] = upto[i] /\ i + 1 # 0
      BY <1>1, <2>3
    <3> QED BY <2>1, <3>1
  <2> HIDE DEF T
  <2> QED BY <2>2, <2>3, Induction
<1>5. filled[n] = upto[n]
  <2> HIDE DEF filled, upto
  <2> QED BY <1>1, <1>4
<1> DEFINE page == Intermediate(tree, leaves, ref)
           children == filled[n]
<1>6. /\ page.tree = tree /\ page.level = 1
      /\ page.entries = [i \in {i \in DOMAIN children : i <= BtMax} |->
                           [key |-> BtKey(children[i]), ref |-> children[i].ref]]
  BY DEF Intermediate
<1> HIDE DEF filled, page
<1>7. /\ DOMAIN children = 1..n /\ \A i \in 1..n : children[i] = leaves[i]
  BY <1>1, <1>5
<1> HIDE DEF children
<1>8. page.entries = [i \in {i \in 1..n : i <= BtMax} |->
                       [key |-> BtKey(leaves[i]), ref |-> leaves[i].ref]]
  BY <1>6, <1>7
<1> QED BY <1>6, <1>8 DEF page

(***************************************************************************)
(* ... each of them, as long as there are no more than fit.                *)
(***************************************************************************)
LEMMA ChildPages ==
  ASSUME NEW tree, NEW leaves, IsVector(leaves), NEW ref,
         \A i \in 1..Len(leaves) : leaves[i].entries # <<>>, Len(leaves) <= BtMax
  PROVE  LET page == Intermediate(tree, leaves, ref)
         IN  /\ page.tree = tree /\ page.level = 1
             /\ IsVector(page.entries) /\ Len(page.entries) = Len(leaves)
             /\ \A i \in 1..Len(leaves) :
                  /\ page.entries[i].key = BtKey(leaves[i])
                  /\ page.entries[i].ref = leaves[i].ref
<1> DEFINE n == Len(leaves)
           page == Intermediate(tree, leaves, ref)
           es == page.entries
<1>1. n \in Nat /\ n <= BtMax
  BY Vector
<1>2. /\ page.tree = tree /\ page.level = 1
      /\ es = [i \in {i \in 1..n : i <= BtMax} |->
                [key |-> BtKey(leaves[i]), ref |-> leaves[i].ref]]
  <2> HIDE DEF page
  <2> QED BY ChildrenListed DEF page
<1> HIDE DEF page
<1>3. {i \in 1..n : i <= BtMax} = 1..n
  BY <1>1, BtMaxAssumption
<1> HIDE DEF es
<1>4. es = [i \in 1..n |-> es[i]]
      /\ \A i \in 1..n : es[i].key = BtKey(leaves[i]) /\ es[i].ref = leaves[i].ref
  BY <1>2, <1>3
<1>5. IsVector(es) /\ Len(es) = n
  BY <1>1, <1>4, FunctionIsVector
<1> QED BY <1>2, <1>4, <1>5 DEF es, page

(***************************************************************************)
(* searchLeaf finds the entry under a key, if there is one.                *)
(***************************************************************************)
LEMMA LeafSearched ==
  ASSUME NEW leaf, IsVector(leaf.entries), NEW key
  PROVE  /\ (\A i \in 1..Len(leaf.entries) : leaf.entries[i].key # key) =>
              SearchLeaf(leaf, key) = <<>>
         /\ \A j \in 1..Len(leaf.entries) :
              (\A i \in 1..Len(leaf.entries) : leaf.entries[i].key = key <=> i = j) =>
                SearchLeaf(leaf, key) = <<leaf.entries[j]>>
<1> DEFINE n == Len(leaf.entries)
           found == {i \in DOMAIN leaf.entries : leaf.entries[i].key = key}
<1>1. n \in Nat /\ DOMAIN leaf.entries = 1..n
  BY Vector
<1>2. SearchLeaf(leaf, key) = IF found = {} THEN <<>> ELSE <<leaf.entries[Min(found)]>>
  BY DEF SearchLeaf
<1>3. found = {i \in 1..n : leaf.entries[i].key = key}
  BY <1>1
<1>4. ASSUME \A i \in 1..n : leaf.entries[i].key # key PROVE SearchLeaf(leaf, key) = <<>>
  <2>1. found = {}
    BY <1>3, <1>4
  <2> QED BY <1>2, <2>1
<1>5. ASSUME NEW j \in 1..n, \A i \in 1..n : leaf.entries[i].key = key <=> i = j
      PROVE  SearchLeaf(leaf, key) = <<leaf.entries[j]>>
  <2>1. found = {j}
    BY <1>3, <1>5
  <2>2. Min({j}) = j
    BY <1>1 DEF Min
  <2> QED BY <1>2, <2>1, <2>2
<1> QED BY <1>4, <1>5

(***************************************************************************)
(* descendIntermediate chooses the last child that begins no later than    *)
(* the key; whatever the key, it chooses a child or none.                  *)
(***************************************************************************)
LEMMA Descends ==
  ASSUME NEW page, NEW key \in Int, IsVector(page.entries),
         \A i \in 1..Len(page.entries) : page.entries[i].key \in Nat,
         \A i, h \in 1..Len(page.entries) : i < h =>
           page.entries[i].key < page.entries[h].key
  PROVE  /\ \/ Descend(page, key) = <<>>
            \/ \E j \in 1..Len(page.entries) : Descend(page, key) = <<page.entries[j].ref.ib>>
         /\ \A j \in 1..Len(page.entries) :
              (/\ page.entries[j].key <= key
               /\ \A h \in 1..Len(page.entries) : j < h => key < page.entries[h].key) =>
                Descend(page, key) = <<page.entries[j].ref.ib>>
<1> DEFINE es == page.entries
           n == Len(es)
           Right(c) == /\ \A i \in 1..c : es[i].key <= key
                       /\ c < n => es[c + 1].key > key
           chosen == CHOOSE c \in 0..n : Right(c)
<1>1. n \in Nat
  BY Vector
<1>2. Descend(page, key) = IF chosen = 0 THEN <<>> ELSE <<es[chosen].ref.ib>>
  BY DEF Descend
<1>3. \E c \in 0..n : Right(c)
  <2> HIDE DEF es, n
  <2> DEFINE T == {c \in Nat : c <= n /\ (\A i \in 1..c : es[i].key <= key) =>
                     \E d \in 0..n : Right(d)}
  <2> SUFFICES ASSUME ~ \E c \in 0..n : Right(c) PROVE FALSE
    OBVIOUS
  <2> DEFINE U == {c \in Nat : c <= n => \A i \in 1..c : es[i].key <= key}
  <2>1. 0 \in U
    OBVIOUS
  <2>2. ASSUME NEW c \in Nat, c \in U PROVE c + 1 \in U
    <3> SUFFICES ASSUME c + 1 <= n PROVE \A i \in 1..(c + 1) : es[i].key <= key
      OBVIOUS
    <3>1. \A i \in 1..c : es[i].key <= key
      BY <1>1, <2>2
    <3>2. c \in 0..n /\ c < n /\ c + 1 \in 1..n
      BY <1>1
    <3>3. ~(es[c + 1].key > key)
      BY <3>1, <3>2
    <3>4. es[c + 1].key \in Nat
      BY <3>2 DEF es, n
    <3>5. \A i \in 1..(c + 1) : i \in 1..c \/ i = c + 1
      OBVIOUS
    <3> QED BY <3>1, <3>3, <3>4, <3>5
  <2>3. n \in U
    <3> HIDE DEF U
    <3> QED BY <1>1, <2>1, <2>2, Induction
  <2>4. Right(n) /\ n \in 0..n
    BY <1>1, <2>3
  <2> HIDE DEF Right
  <2> QED BY <2>4
<1>4. chosen \in 0..n /\ Right(chosen)
  <2> HIDE DEF Right
  <2> QED BY <1>3
<1> HIDE DEF chosen
<1>5. \/ Descend(page, key) = <<>>
      \/ \E j \in 1..n : Descend(page, key) = <<es[j].ref.ib>>
  <2>1. chosen = 0 \/ chosen \in 1..n
    BY <1>1, <1>4
  <2> QED BY <1>2, <2>1
<1>6. ASSUME NEW j \in 1..n, es[j].key <= key, \A h \in 1..n : j < h => key < es[h].key
      PROVE  Descend(page, key) = <<es[j].ref.ib>>
  <2>1. \A i \in 1..n : es[i].key \in Nat
    OBVIOUS
  <2> HIDE DEF es, n
  <2>2. ~(j < chosen)
    <3> SUFFICES ASSUME j < chosen PROVE FALSE
      OBVIOUS
    <3>1. chosen \in 1..n /\ chosen \in 1..chosen
      BY <1>1, <1>4
    <3>2. es[chosen].key <= key /\ key < es[chosen].key
      BY <1>4, <1>6, <3>1
    <3> QED BY <2>1, <3>1, <3>2
  <2>3. ~(chosen < j)
    <3> SUFFICES ASSUME chosen < j PROVE FALSE
      OBVIOUS
    <3>1. chosen < n /\ chosen + 1 \in 1..n /\ es[chosen + 1].key > key
      BY <1>1, <1>4
    <3>2. chosen + 1 = j \/ chosen + 1 < j
      BY <1>1, <1>4
    <3>3. es[chosen + 1].key <= es[j].key
      <4>1. CASE chosen + 1 = j
        BY <2>1, <4>1
      <4>2. CASE chosen + 1 < j
        <5>1. es[chosen + 1].key < es[j].key
          BY <3>1, <4>2 DEF es, n
        <5> QED BY <2>1, <3>1, <5>1
      <4> QED BY <3>2, <4>1, <4>2
    <3> QED BY <1>6, <2>1, <3>1, <3>3
  <2>4. chosen = j
    BY <1>1, <1>4, <2>2, <2>3
  <2> QED BY <1>1, <1>2, <2>4
<1> QED BY <1>5, <1>6

(***************************************************************************)
(* The leaves of a tree, read one after the other, are its sorted entries. *)
(***************************************************************************)
LEMMA LeavesInOrder ==
  ASSUME NEW sorted, IsVector(sorted), Len(sorted) # 0, NEW max \in Nat \ {0},
         NEW shares, IsVector(shares), Len(shares) = LeafCount(Len(sorted), max),
         \A i \in 1..Len(shares) : shares[i] = LeafShare(sorted, max, i)
  PROVE  FlattenSeq(shares) = sorted
<1> DEFINE n == Len(sorted)
           m == Len(shares)
           from(i) == Skipped(i, max)
           last(i) == UpTo(i, max, n)
           Upto(b) == [j \in 1..b |-> sorted[j]]
<1>1. /\ n \in Nat \ {0} /\ DOMAIN sorted = 1..n
      /\ m \in Nat \ {0} /\ last(m) = n
  BY Vector, LeafEntries
<1>2. ASSUME NEW i \in 1..m
      PROVE  /\ from(i) \in Nat /\ last(i) \in Nat /\ from(i) < last(i) /\ last(i) <= n
             /\ IsVector(shares[i]) /\ Len(shares[i]) = last(i) - from(i)
             /\ \A j \in 1..(last(i) - from(i)) : shares[i][j] = sorted[from(i) + j]
  <2>1. i \in 1..LeafCount(Len(sorted), max) /\ shares[i] = LeafShare(sorted, max, i)
    OBVIOUS
  <2>2. LeafFacts(sorted, max, i)
    BY <2>1, LeafEntries
  <2> QED BY <2>1, <2>2 DEF LeafFacts
<1>3. PICK f : /\ FlattenSeq(shares) = f[m]
               /\ f[1] = shares[1]
               /\ \A i \in 2..m : f[i] = f[i - 1] \o shares[i]
  <2>1. FlattenSeq(shares) = Lib!FlattenSeq(shares)
    BY DEF FlattenSeq, Lib!FlattenSeq
  <2>2. Lib!IsVector(shares)
    BY DEF IsVector, Lib!IsVector
  <2> HIDE DEF m
  <2>3. \E f : /\ Lib!FlattenSeq(shares) = f[Len(shares)]
               /\ f[1] = shares[1]
               /\ \A i \in 2..Len(shares) : f[i] = f[i - 1] \o shares[i]
    BY <1>1, <2>2, Lib!FlattensStepwise, Assumed DEF m
  <2> QED BY <2>1, <2>3 DEF m
<1>4. from(1) = 0 /\ \A i \in 1..(m - 1) : last(i) = from(i + 1)
  <2>1. m = LeafCount(n, max)
    OBVIOUS
  <2> HIDE DEF n, m
  <2> QED BY <1>1, <2>1, LeafPlaces
<1> DEFINE T == {i \in Nat : i + 1 <= m => f[i + 1] = Upto(last(i + 1))}
<1> HIDE DEF n, m, from, last
<1>5. 0 \in T
  <2> DEFINE b == last(1)
             s == shares[1]
  <2>1. 1 \in 1..m
    BY <1>1
  <2>2. IsVector(s) /\ b \in Nat /\ Len(s) = b - 0 /\ \A j \in 1..(b - 0) : s[j] = sorted[0 + j]
    BY <1>2, <1>4, <2>1
  <2> HIDE DEF b, s
  <2>3. DOMAIN s = 1..b /\ \A j \in 1..b : s[j] = sorted[j]
    BY <1>1, <2>2, Vector
  <2>4. s = [j \in 1..b |-> s[j]]
    <3>1. PICK S : s \in Seq(S)
      BY <2>2 DEF IsVector
    <3> QED BY <2>3, <3>1
  <2>5. s = Upto(b)
    BY <2>3, <2>4
  <2> QED BY <1>3, <2>5 DEF b, s
<1>6. ASSUME NEW i \in Nat, i \in T PROVE i + 1 \in T
  <2> SUFFICES ASSUME (i + 1) + 1 <= m PROVE f[(i + 1) + 1] = Upto(last((i + 1) + 1))
    OBVIOUS
  <2> DEFINE k == (i + 1) + 1
             a == last(i + 1)
             b == last(k)
             s == shares[k]
             t == Upto(a)
  <2>1. k \in 2..m /\ k \in 1..m /\ k - 1 = i + 1 /\ i + 1 \in 1..m /\ i + 1 \in 1..(m - 1)
    BY <1>1
  <2>2. f[k] = t \o s
    <3>1. f[i + 1] = t
      BY <1>1, <1>6, <2>1
    <3>2. f[k] = f[k - 1] \o shares[k]
      BY <1>3, <2>1
    <3> HIDE DEF t, k
    <3> QED BY <2>1, <3>1, <3>2
  <2>3. from(k) = a
    BY <1>4, <2>1
  <2>4. /\ IsVector(s) /\ a \in Nat /\ b \in Nat /\ a < b /\ b <= n
        /\ Len(s) = b - a
        /\ \A j \in 1..(b - a) : s[j] = sorted[a + j]
    <3> HIDE DEF k
    <3> QED BY <1>2, <2>1, <2>3
  <2> HIDE DEF a, b, s, k
  <2>5. t = [j \in 1..a |-> t[j]] /\ \A j \in 1..a : t[j] = sorted[j]
    OBVIOUS
  <2>6. IsVector(t) /\ Len(t) = a
    <3> HIDE DEF t
    <3> QED BY <2>4, <2>5, FunctionIsVector
  <2> HIDE DEF t
  <2> DEFINE c == t \o s
  <2>7. /\ DOMAIN c = 1..b
        /\ \A j \in 1..a : c[j] = t[j]
        /\ \A j \in 1..(b - a) : c[a + j] = s[j]
        /\ \E S : c \in Seq(S)
    <3>1. PICK S : t \in Seq(S)
      BY <2>6 DEF IsVector
    <3>2. PICK R : s \in Seq(R)
      BY <2>4 DEF IsVector
    <3>3. /\ c \in Seq(S \cup R)
          /\ DOMAIN c = 1..(Len(t) + Len(s))
          /\ \A j \in 1..Len(t) : c[j] = t[j]
          /\ \A j \in 1..Len(s) : c[Len(t) + j] = s[j]
      BY <3>1, <3>2, Concatenation
    <3> HIDE DEF c
    <3>4. Len(t) + Len(s) = b
      BY <2>4, <2>6
    <3> QED BY <2>4, <2>6, <3>3, <3>4
  <2> HIDE DEF c
  <2>8. c = [j \in 1..b |-> c[j]]
    BY <2>7
  <2>9. ASSUME NEW j \in 1..b PROVE c[j] = sorted[j]
    <3>1. CASE j <= a
      BY <2>4, <2>5, <2>7, <3>1
    <3>2. CASE ~(j <= a)
      <4>1. j - a \in 1..(b - a) /\ a + (j - a) = j
        BY <2>4, <3>2
      <4> QED BY <2>4, <2>7, <4>1
    <3> QED BY <3>1, <3>2
  <2>10. c = Upto(b)
    BY <2>8, <2>9
  <2> QED BY <2>2, <2>10 DEF b, c, k
<1>7. f[m] = Upto(n)
  <2>1. m - 1 \in Nat /\ (m - 1) + 1 = m
    BY <1>1
  <2>2. m - 1 \in T
    <3> HIDE DEF T
    <3> QED BY <1>5, <1>6, <2>1, Induction
  <2>3. f[m] = Upto(last(m))
    BY <1>1, <2>1, <2>2
  <2> QED BY <1>1, <2>3
<1>8. sorted = Upto(n)
  <2>1. PICK S : sorted \in Seq(S)
    BY DEF IsVector
  <2> QED BY <1>1, <2>1
<1> QED BY <1>3, <1>7, <1>8

\* Entries of different keys.
Keyed(entries) ==
  /\ IsVector(entries)
  /\ \A i \in 1..Len(entries) : entries[i].key \in Nat
  /\ \A i, j \in 1..Len(entries) : entries[i].key = entries[j].key => i = j

\* What Readable says of one tree, and of more keys.
Reads(pageAt, tree, root, entries) ==
  LET keys == {entries[i].key : i \in DOMAIN entries}
  IN  /\ \A i \in DOMAIN entries :
           Find(pageAt, tree, root, entries[i].key) = <<entries[i]>>
      /\ \A k \in Int \ keys : Find(pageAt, tree, root, k) = <<>>
      /\ ForEach(pageAt, tree, root) = SortedByKey(entries)

\* The entries in the order of their keys: each key has the place of its entry
\* and no other.
Ordered(entries, s) ==
  LET n == Len(entries)
  IN  /\ n \in Nat /\ IsVector(s) /\ Len(s) = n
      /\ DOMAIN entries = 1..n /\ DOMAIN s = 1..n
      /\ \A k \in 1..n : s[k].key \in Nat
      /\ \A k, h \in 1..n : k < h => s[k].key < s[h].key
      /\ \A i \in 1..n : \E q \in 1..n :
           s[q] = entries[i] /\ \A h \in 1..n : s[h].key = entries[i].key <=> h = q
      /\ \A key : (\A i \in 1..n : entries[i].key # key) => \A h \in 1..n : s[h].key # key

(***************************************************************************)
(* So are the sorted entries.                                              *)
(***************************************************************************)
LEMMA SortedKeys ==
  ASSUME NEW entries, Keyed(entries)
  PROVE  Ordered(entries, SortedByKey(entries))
<1> DEFINE n == Len(entries)
           s == SortedByKey(entries)
<1>1. /\ IsVector(entries)
      /\ \A i \in 1..n : entries[i].key \in Nat
      /\ \A i, j \in 1..n : entries[i].key = entries[j].key => i = j
  BY DEF Keyed
<1>2. n \in Nat /\ DOMAIN entries = 1..n
  BY <1>1, Vector
<1>3. /\ IsVector(s) /\ Len(s) = n
      /\ \A k \in 1..n : \E i \in 1..n : s[k] = entries[i]
      /\ \A i \in 1..n : \E k \in 1..n : s[k] = entries[i]
      /\ \A k, h \in 1..n : k < h => s[k].key < s[h].key
  BY <1>1, Sorted
<1>4. DOMAIN s = 1..n
  BY <1>3, Vector
<1> HIDE DEF n, s
<1>5. ASSUME NEW k \in 1..n PROVE s[k].key \in Nat
  <2>1. PICK i \in 1..n : s[k] = entries[i]
    BY <1>3
  <2>2. entries[i].key \in Nat
    BY <1>1
  <2> QED BY <2>1, <2>2
<1>6. ASSUME NEW i \in 1..n
      PROVE  \E q \in 1..n :
               s[q] = entries[i] /\ \A h \in 1..n : s[h].key = entries[i].key <=> h = q
  <2>1. PICK q \in 1..n : s[q] = entries[i]
    BY <1>3
  <2>2. ASSUME NEW h \in 1..n, s[h].key = entries[i].key PROVE h = q
    <3>1. s[h].key = s[q].key /\ s[q].key \in Nat
      BY <1>5, <2>1, <2>2
    <3>2. h < q => s[h].key < s[q].key
      BY <1>3
    <3>3. q < h => s[q].key < s[h].key
      BY <1>3
    <3>4. ~(h < q) /\ ~(q < h)
      BY <3>1, <3>2, <3>3
    <3> QED BY <1>2, <3>4
  <2> QED BY <2>1, <2>2
<1>7. ASSUME NEW key, \A i \in 1..n : entries[i].key # key, NEW h \in 1..n
      PROVE  s[h].key # key
  <2>1. PICK i \in 1..n : s[h] = entries[i]
    BY <1>3
  <2> QED BY <1>7, <2>1
<1>8. \A key : (\A i \in 1..n : entries[i].key # key) => \A h \in 1..n : s[h].key # key
  BY <1>7
<1> QED BY <1>2, <1>3, <1>4, <1>5, <1>6, <1>8 DEF n, s, Ordered

(***************************************************************************)
(* A tree of a single leaf reads as it should.                             *)
(***************************************************************************)
LEMMA LoneLeafReads ==
  ASSUME NEW tree, NEW entries, Keyed(entries), NEW pageAt, NEW root, root \in DOMAIN pageAt,
         pageAt[root].tree = tree, pageAt[root].level = 0,
         pageAt[root].entries = SortedByKey(entries)
  PROVE  Reads(pageAt, tree, root, entries)
<1> DEFINE n == Len(entries)
           s == SortedByKey(entries)
           page == pageAt[root]
<1>0. Ordered(entries, s)
  BY SortedKeys
<1>1. /\ n \in Nat /\ IsVector(s) /\ Len(s) = n /\ DOMAIN entries = 1..n
      /\ \A i \in 1..n : \E q \in 1..n :
           s[q] = entries[i] /\ \A h \in 1..n : s[h].key = entries[i].key <=> h = q
      /\ \A key : (\A i \in 1..n : entries[i].key # key) => \A h \in 1..n : s[h].key # key
  <2> HIDE DEF s
  <2> QED BY ONLY <1>0 DEF Ordered, n
<1>2. ASSUME NEW key PROVE Find(pageAt, tree, root, key) = SearchLeaf(page, key)
  <2>1. Valid(pageAt, tree, root) /\ page.level = 0
    BY DEF Valid
  <2> HIDE DEF page
  <2> QED BY <2>1 DEF Find, page
<1>3. page.entries = s
  OBVIOUS
<1> HIDE DEF n, s, page
<1>4. ASSUME NEW i \in 1..n
      PROVE  Find(pageAt, tree, root, entries[i].key) = <<entries[i]>>
  <2>1. PICK q \in 1..n :
          s[q] = entries[i] /\ \A h \in 1..n : s[h].key = entries[i].key <=> h = q
    BY <1>1
  <2>2. SearchLeaf(page, entries[i].key) = <<s[q]>>
    <3>1. IsVector(page.entries) /\ q \in 1..Len(page.entries)
      BY <1>1, <1>3
    <3>2. \A h \in 1..Len(page.entries) : page.entries[h].key = entries[i].key <=> h = q
      BY <1>1, <1>3, <2>1
    <3>3. SearchLeaf(page, entries[i].key) = <<page.entries[q]>>
      BY <3>1, <3>2, LeafSearched
    <3> QED BY <1>3, <3>3
  <2> QED BY <1>2, <2>1, <2>2
<1>5. ASSUME NEW key, \A i \in 1..n : entries[i].key # key
      PROVE  Find(pageAt, tree, root, key) = <<>>
  <2>1. \A h \in 1..n : s[h].key # key
    BY <1>1, <1>5
  <2>2. \A h \in 1..Len(page.entries) : page.entries[h].key # key
    BY <1>1, <1>3, <2>1
  <2>3. SearchLeaf(page, key) = <<>>
    <3>1. IsVector(page.entries)
      BY <1>1, <1>3
    <3> QED BY ONLY <2>2, <3>1, LeafSearched
  <2> QED BY <1>2, <2>3
<1>6. ForEach(pageAt, tree, root) = s
  <2>1. page.level = 0
    BY DEF page
  <2> QED BY <1>3, <2>1 DEF ForEach, page
<1>7. \A k \in Int \ {entries[i].key : i \in DOMAIN entries} :
         Find(pageAt, tree, root, k) = <<>>
  <2> SUFFICES ASSUME NEW k \in Int \ {entries[i].key : i \in DOMAIN entries}
               PROVE  Find(pageAt, tree, root, k) = <<>>
    OBVIOUS
  <2>0. DOMAIN entries = 1..n
    BY <1>1
  <2>1. \A i \in 1..n : entries[i].key # k
    BY ONLY <2>0, k \in Int \ {entries[i].key : i \in DOMAIN entries}
  <2> QED BY <1>5, <2>1
<1> QED BY <1>1, <1>4, <1>6, <1>7 DEF Reads, s

(***************************************************************************)
(* Leaves under one page: where each entry is, by the keys.                *)
(***************************************************************************)
LEMMA TwoLevelsRead ==
  ASSUME NEW tree, NEW entries, Keyed(entries), Len(entries) # 0, NEW max \in Nat \ {0},
         LeafCount(Len(entries), max) <= BtMax,
         NEW refs, NEW leaves, NEW root, NEW pageAt, NEW ref,
         IsVector(leaves), Len(leaves) = LeafCount(Len(entries), max),
         \A i \in 1..LeafCount(Len(entries), max) :
           leaves[i] = Leaf(tree, SortedByKey(entries), max, i, refs[i]),
         root \in DOMAIN pageAt, pageAt[root] = Intermediate(tree, leaves, ref),
         \A i \in 1..LeafCount(Len(entries), max) :
           refs[i].ib \in DOMAIN pageAt /\ pageAt[refs[i].ib] = leaves[i]
  PROVE  Reads(pageAt, tree, root, entries)
<1> DEFINE n == Len(entries)
           s == SortedByKey(entries)
           m == LeafCount(n, max)
           share(i) == LeafShare(s, max, i)
           from(i) == Skipped(i, max)
           last(i) == UpTo(i, max, n)
           page == pageAt[root]
           es == page.entries
<1>0. Ordered(entries, s)
  BY SortedKeys
<1>1. /\ n \in Nat \ {0} /\ IsVector(s) /\ Len(s) = n /\ DOMAIN entries = 1..n
      /\ \A k \in 1..n : s[k].key \in Nat
      /\ \A k, h \in 1..n : k < h => s[k].key < s[h].key
      /\ \A i \in 1..n : \E q \in 1..n :
           s[q] = entries[i] /\ \A h \in 1..n : s[h].key = entries[i].key <=> h = q
      /\ \A key : (\A i \in 1..n : entries[i].key # key) => \A h \in 1..n : s[h].key # key
  <2>1. n # 0
    OBVIOUS
  <2> HIDE DEF s
  <2> QED BY ONLY <1>0, <2>1 DEF Ordered, n
<1>2. /\ m \in Nat \ {0}
      /\ \A i \in 1..m : LeafFacts(s, max, i)
  <2>1. IsVector(s) /\ Len(s) = n /\ Len(s) # 0
    BY <1>1
  <2> HIDE DEF s, n
  <2> QED BY <2>1, LeafEntries
<1>3. ASSUME NEW i \in 1..m
      PROVE  /\ IsVector(share(i))
             /\ from(i) \in Nat /\ last(i) \in Nat /\ from(i) < last(i) /\ last(i) <= n
             /\ Len(share(i)) = last(i) - from(i)
             /\ \A j \in 1..(last(i) - from(i)) :
                  from(i) + j \in 1..n /\ share(i)[j] = s[from(i) + j]
  <2>1. LeafFacts(s, max, i) /\ Len(s) = n
    BY <1>1, <1>2
  <2> HIDE DEF m, s, n
  <2> QED BY ONLY <2>1 DEF LeafFacts
<1>4. /\ \A q \in 1..n : \E i \in 1..m : from(i) < q /\ q <= last(i)
      /\ \A i, h \in 1..m : i < h => last(i) <= from(h)
  <2> HIDE DEF n
  <2> QED BY <1>1, LeafPlaces
<1>5. /\ IsVector(leaves) /\ Len(leaves) = m
      /\ \A i \in 1..m : /\ leaves[i].tree = tree /\ leaves[i].level = 0
                         /\ leaves[i].ref = refs[i] /\ leaves[i].entries = share(i)
  <2>1. \A i \in 1..m : leaves[i] = Leaf(tree, s, max, i, refs[i])
    OBVIOUS
  <2>3. IsVector(leaves) /\ Len(leaves) = m
    OBVIOUS
  <2> HIDE DEF m, s, n
  <2>4. ASSUME NEW i \in 1..m
        PROVE  /\ leaves[i].tree = tree /\ leaves[i].level = 0
               /\ leaves[i].ref = refs[i] /\ leaves[i].entries = share(i)
    <3>1. leaves[i] = Leaf(tree, s, max, i, refs[i])
      BY <2>1
    <3> QED BY ONLY <3>1 DEF Leaf, share
  <2> QED BY <2>3, <2>4
<1>6. /\ m <= BtMax /\ page = Intermediate(tree, leaves, ref) /\ root \in DOMAIN pageAt
      /\ \A i \in 1..m : refs[i].ib \in DOMAIN pageAt /\ pageAt[refs[i].ib] = leaves[i]
  OBVIOUS
<1> HIDE DEF n, s, m, share, page, from, last
<1>7. \A i \in 1..m : /\ from(i) + 1 \in 1..n /\ 1 \in 1..(last(i) - from(i))
                      /\ share(i)[1] = s[from(i) + 1] /\ Len(share(i)) # 0
  <2> SUFFICES ASSUME NEW i \in 1..m
               PROVE  /\ from(i) + 1 \in 1..n /\ 1 \in 1..(last(i) - from(i))
                      /\ share(i)[1] = s[from(i) + 1] /\ Len(share(i)) # 0
    OBVIOUS
  <2>1. 1 \in 1..(last(i) - from(i))
    BY <1>3
  <2> QED BY <1>3, <2>1
<1>8. \A i \in 1..m : share(i) # <<>> /\ BtKey(leaves[i]) = s[from(i) + 1].key
  <2> SUFFICES ASSUME NEW i \in 1..m
               PROVE  share(i) # <<>> /\ BtKey(leaves[i]) = s[from(i) + 1].key
    OBVIOUS
  <2>1. PICK S : share(i) \in Seq(S)
    BY <1>3 DEF IsVector
  <2>2. share(i) # <<>> /\ Head(share(i)) = share(i)[1]
    BY ONLY <1>7, <2>1, i \in 1..m
  <2> QED BY <1>5, <1>7, <2>2 DEF BtKey
<1>9. /\ page.tree = tree /\ page.level = 1 /\ IsVector(es) /\ Len(es) = m
      /\ \A i \in 1..m : es[i].key = BtKey(leaves[i]) /\ es[i].ref = leaves[i].ref
  <2>1. \A i \in 1..Len(leaves) : leaves[i].entries # <<>>
    BY <1>5, <1>8
  <2>2. Len(leaves) <= BtMax
    BY <1>5, <1>6
  <2> DEFINE new == Intermediate(tree, leaves, ref)
  <2>3. /\ new.tree = tree /\ new.level = 1
        /\ IsVector(new.entries) /\ Len(new.entries) = Len(leaves)
        /\ \A i \in 1..Len(leaves) :
             new.entries[i].key = BtKey(leaves[i]) /\ new.entries[i].ref = leaves[i].ref
    BY ONLY <1>5, <2>1, <2>2, ChildPages DEF new
  <2> HIDE DEF new
  <2>4. page = new
    BY <1>6 DEF new
  <2> QED BY <1>5, <2>3, <2>4
<1>10. ASSUME NEW i \in 1..m
       PROVE  es[i].key = s[from(i) + 1].key /\ es[i].key \in Nat /\ es[i].ref = refs[i]
  <2>1. s[from(i) + 1].key \in Nat
    BY <1>1, <1>7
  <2> QED BY <1>5, <1>8, <1>9, <2>1
<1>11. ASSUME NEW i \in 1..m, NEW h \in 1..m, i < h PROVE es[i].key < es[h].key
  <2>1. from(i) + 1 < from(h) + 1 /\ from(i) + 1 \in 1..n /\ from(h) + 1 \in 1..n
    <3>1. last(i) <= from(h)
      BY <1>4, <1>11
    <3> QED BY <1>3, <1>7, <3>1
  <2>2. s[from(i) + 1].key < s[from(h) + 1].key
    BY <1>1, <2>1
  <2> QED BY <1>10, <2>2
<1>12. /\ \A i \in 1..Len(es) : es[i].key \in Nat
       /\ \A i, h \in 1..Len(es) : i < h => es[i].key < es[h].key
  BY <1>9, <1>10, <1>11
<1>13. ASSUME NEW key
       PROVE  /\ \A j \in 1..m : Descend(page, key) = <<refs[j].ib>> =>
                   Find(pageAt, tree, root, key) = SearchLeaf(leaves[j], key)
              /\ Descend(page, key) = <<>> => Find(pageAt, tree, root, key) = <<>>
  <2>1. Valid(pageAt, tree, root) /\ page.level # 0
    BY <1>6, <1>9 DEF Valid, page
  <2>2. es # <<>>
    <3>1. PICK S : es \in Seq(S)
      BY <1>9 DEF IsVector
    <3> HIDE DEF es
    <3> QED BY <1>2, <1>9, <3>1
  <2> DEFINE child == Descend(page, key)
             rest == IF child = <<>> THEN <<>>
                     ELSE IF ~Valid(pageAt, tree, child[1]) \/ pageAt[child[1]].level # 0
                     THEN "throws"
                     ELSE SearchLeaf(pageAt[child[1]], key)
  <2>3. Find(pageAt, tree, root, key) = rest
    BY <2>1, <2>2 DEF Find, page
  <2> HIDE DEF child
  <2>4. ASSUME NEW j \in 1..m, child = <<refs[j].ib>>
        PROVE  Find(pageAt, tree, root, key) = SearchLeaf(leaves[j], key)
    <3>1. pageAt[refs[j].ib] = leaves[j] /\ refs[j].ib \in DOMAIN pageAt
      BY <1>6
    <3>2. Valid(pageAt, tree, refs[j].ib) /\ pageAt[refs[j].ib].level = 0
      <4>1. leaves[j].tree = tree /\ leaves[j].level = 0
        BY <1>5
      <4> QED BY ONLY <3>1, <4>1 DEF Valid
    <3>3. child # <<>> /\ child[1] = refs[j].ib
      BY <2>4
    <3> QED BY <2>3, <3>1, <3>2, <3>3
  <2> QED BY <2>3, <2>4 DEF child
<1>14. ASSUME NEW i \in 1..n
       PROVE  Find(pageAt, tree, root, entries[i].key) = <<entries[i]>>
  <2> DEFINE key == entries[i].key
  <2>1. PICK q \in 1..n : s[q] = entries[i] /\ \A h \in 1..n : s[h].key = key <=> h = q
    BY <1>1
  <2>2. PICK l \in 1..m : from(l) < q /\ q <= last(l)
    BY <1>4
  <2>3. s[q].key = key /\ key \in Nat
    BY <1>1, <2>1
  <2> HIDE DEF key
  <2>4. es[l].key <= key
    <3>1. from(l) + 1 = q \/ from(l) + 1 < q
      <4>1. from(l) \in Nat /\ q \in Nat
        BY <1>1, <1>3
      <4> QED BY ONLY <2>2, <4>1
    <3>2. from(l) + 1 < q => s[from(l) + 1].key < s[q].key
      BY <1>1, <1>7
    <3>3. s[from(l) + 1].key \in Nat
      BY <1>1, <1>7
    <3>4. s[from(l) + 1].key <= key
      BY <2>3, <3>1, <3>2, <3>3
    <3> QED BY <1>10, <3>4
  <2>5. ASSUME NEW h \in 1..Len(es), l < h PROVE key < es[h].key
    <3>0. h \in 1..m
      BY <1>9
    <3>1. last(l) <= from(h)
      BY <1>4, <2>5, <3>0
    <3>2. q < from(h) + 1 /\ from(h) + 1 \in 1..n
      BY <1>3, <1>7, <2>2, <3>0, <3>1
    <3>3. s[q].key < s[from(h) + 1].key
      BY <1>1, <3>2
    <3> QED BY <1>10, <2>3, <3>0, <3>3
  <2>6. Descend(page, key) = <<es[l].ref.ib>>
    <3>1. l \in 1..Len(es) /\ key \in Int
      BY <1>9, <2>3
    <3> QED BY <1>9, <1>12, <2>4, <2>5, <3>1, Descends
  <2> DEFINE j == q - from(l)
  <2>7. j \in 1..(last(l) - from(l)) /\ from(l) + j = q
    <3>1. from(l) \in Nat /\ last(l) \in Nat /\ q \in Nat
      BY <1>1, <1>3
    <3> HIDE DEF from, last
    <3> QED BY ONLY <2>2, <3>1
  <2> HIDE DEF j
  <2>8. SearchLeaf(leaves[l], key) = <<entries[i]>>
    <3>1. IsVector(share(l)) /\ j \in 1..Len(share(l)) /\ share(l)[j] = entries[i]
      BY <1>3, <2>1, <2>7
    <3>2. ASSUME NEW h \in 1..Len(share(l)) PROVE share(l)[h].key = key <=> h = j
      <4>1. from(l) + h \in 1..n /\ share(l)[h] = s[from(l) + h]
        BY <1>3
      <4>2. from(l) + h = q <=> h = j
        BY <1>3, <2>7
      <4> QED BY <2>1, <4>1, <4>2
    <3>3. leaves[l].entries = share(l)
      BY <1>5
    <3>4. SearchLeaf(leaves[l], key) = <<leaves[l].entries[j]>>
      <4> DEFINE leaf == leaves[l]
      <4>1. /\ IsVector(leaf.entries) /\ j \in 1..Len(leaf.entries)
            /\ \A h \in 1..Len(leaf.entries) : leaf.entries[h].key = key <=> h = j
        BY <3>1, <3>2, <3>3
      <4> HIDE DEF leaf
      <4>2. SearchLeaf(leaf, key) = <<leaf.entries[j]>>
        BY ONLY <4>1, LeafSearched
      <4> QED BY <4>2 DEF leaf
    <3> QED BY <3>1, <3>3, <3>4
  <2>9. Descend(page, key) = <<refs[l].ib>>
    BY <1>10, <2>6
  <2> QED BY <1>13, <2>8, <2>9 DEF key
<1>15. ASSUME NEW key \in Int, \A i \in 1..n : entries[i].key # key
       PROVE  Find(pageAt, tree, root, key) = <<>>
  <2>1. \A h \in 1..n : s[h].key # key
    BY <1>1, <1>15
  <2>2. Descend(page, key) = <<>> \/ \E l \in 1..m : Descend(page, key) = <<es[l].ref.ib>>
    BY <1>9, <1>12, Descends
  <2>3. CASE Descend(page, key) = <<>>
    BY <1>13, <2>3
  <2>4. ASSUME NEW l \in 1..m, Descend(page, key) = <<es[l].ref.ib>>
        PROVE  Find(pageAt, tree, root, key) = <<>>
    <3>1. Descend(page, key) = <<refs[l].ib>>
      BY <1>10, <2>4
    <3>2. ASSUME NEW h \in 1..Len(share(l)) PROVE share(l)[h].key # key
      <4>1. from(l) + h \in 1..n /\ share(l)[h] = s[from(l) + h]
        BY <1>3
      <4> QED BY <2>1, <4>1
    <3>3. SearchLeaf(leaves[l], key) = <<>>
      <4>1. leaves[l].entries = share(l) /\ IsVector(share(l))
        BY <1>3, <1>5
      <4> QED BY <3>2, <4>1, LeafSearched
    <3> QED BY <1>13, <3>1, <3>3
  <2> QED BY <2>2, <2>3, <2>4
<1>16. ForEach(pageAt, tree, root) = s
  <2> DEFINE shares == [i \in DOMAIN es |-> pageAt[es[i].ref.ib].entries]
  <2>1. ForEach(pageAt, tree, root) = FlattenSeq(shares)
    <3>1. page.level # 0
      BY <1>9
    <3> QED BY <3>1 DEF ForEach, page
  <2>2. DOMAIN es = 1..m
    BY <1>9, Vector
  <2>3. ASSUME NEW i \in 1..m PROVE pageAt[es[i].ref.ib].entries = share(i)
    BY <1>5, <1>6, <1>10
  <2>4. shares = [i \in 1..m |-> shares[i]] /\ \A i \in 1..m : shares[i] = share(i)
    BY <2>2, <2>3
  <2> HIDE DEF shares
  <2>5. IsVector(shares) /\ Len(shares) = m
    BY <1>2, <2>4, FunctionIsVector
  <2>6. FlattenSeq(shares) = s
    <3>1. Len(s) # 0 /\ Len(shares) = LeafCount(Len(s), max)
      BY <1>1, <2>5 DEF m
    <3>2. \A i \in 1..Len(shares) : shares[i] = LeafShare(s, max, i)
      BY <2>4, <2>5 DEF share
    <3> QED BY <1>1, <2>5, <3>1, <3>2, LeavesInOrder
  <2> QED BY <2>1, <2>6
<1>17. \A k \in Int \ {entries[i].key : i \in DOMAIN entries} :
         Find(pageAt, tree, root, k) = <<>>
  <2> SUFFICES ASSUME NEW k \in Int \ {entries[i].key : i \in DOMAIN entries}
               PROVE  Find(pageAt, tree, root, k) = <<>>
    OBVIOUS
  <2>0. DOMAIN entries = 1..n
    BY <1>1
  <2>1. k \in Int /\ \A i \in 1..n : entries[i].key # k
    BY ONLY <2>0, k \in Int \ {entries[i].key : i \in DOMAIN entries}
  <2> QED BY <1>15, <2>1
<1> QED BY <1>1, <1>14, <1>16, <1>17 DEF Reads, s

(***************************************************************************)
(* A tree that fits under one page and is in the file where its places say *)
(* reads as it should from the last of them, the root's.                   *)
(***************************************************************************)
LEMMA TreeReads ==
  ASSUME NEW tree, NEW entries, Keyed(entries), NEW max \in Nat \ {0},
         Len(entries) <= max * BtMax,
         NEW refs, Len(refs) = PageCount(Len(entries), max), NEW pageAt,
         \A i \in 1..PageCount(Len(entries), max) :
           /\ refs[i].ib \in DOMAIN pageAt
           /\ pageAt[refs[i].ib] = TreePages(tree, entries, max, refs)[i]
  PROVE  Reads(pageAt, tree, Last(refs).ib, entries)
<1> DEFINE n == Len(entries)
           s == SortedByKey(entries)
           m == LeafCount(n, max)
           c == PageCount(n, max)
           pages == TreePages(tree, entries, max, refs)
           leaves == [i \in 1..m |-> Leaf(tree, s, max, i, refs[i])]
           root == Intermediate(tree, leaves, Last(refs))
<1>1. Ordered(entries, s)
  BY SortedKeys
<1>2. n \in Nat /\ IsVector(s) /\ Len(s) = n
  <2> HIDE DEF s
  <2> QED BY ONLY <1>1 DEF Ordered, n
<1>3. m \in Nat \ {0} /\ c = (IF m = 1 THEN 1 ELSE m + 1)
  <2> HIDE DEF n
  <2>1. LeafCount(n, max) \in Nat \ {0}
    BY <1>2, PageCountFacts
  <2>2. PageCount(n, max)
          = LeafCount(n, max) + (IF LeafCount(n, max) > 1 THEN 1 ELSE 0)
    BY DEF PageCount, HasIntermediate
  <2> QED BY ONLY <2>1, <2>2
<1>4. /\ Last(refs) = refs[c]
      /\ \A i \in 1..c : refs[i].ib \in DOMAIN pageAt /\ pageAt[refs[i].ib] = pages[i]
  BY DEF Last
<1>5. pages = IF m = 1 THEN leaves ELSE Append(leaves, root)
  BY DEF TreePages
<1>6. \A i \in 1..m : leaves[i] = Leaf(tree, s, max, i, refs[i])
  OBVIOUS
<1>7. leaves \in Seq({leaves[i] : i \in 1..m}) /\ Len(leaves) = m /\ DOMAIN leaves = 1..m
  <2>1. leaves = [i \in 1..m |-> leaves[i]]
    OBVIOUS
  <2> HIDE DEF leaves, m
  <2> QED BY <1>3, <2>1, IsSequence
<1>8. CASE m = 1
  <2>1. pages[1] = Leaf(tree, s, max, 1, refs[1])
    <3> HIDE DEF pages, leaves, m
    <3> QED BY <1>5, <1>6, <1>8
  <2>2. c = 1
    BY <1>3, <1>8
  <2>3. LeafShare(s, max, 1) = s
    <3>1. n <= max
      <4>1. CASE n = 0
        BY <4>1
      <4>2. CASE n # 0
        <5> HIDE DEF n, m
        <5>1. m = LeafCount(n, max)
          BY DEF m
        <5>2. n <= m * max
          BY <1>2, <4>2, <5>1, LeafOfPosition
        <5> QED BY <1>8, <5>2
      <4> QED BY <4>1, <4>2
    <3>2. LeafShare(s, max, 1) = SubSeq(s, 1, n)
      <4>1. (1 - 1) * max + 1 = 1 /\ 1 * max = max
        OBVIOUS
      <4>2. (IF 1 * max < Len(s) THEN 1 * max ELSE Len(s)) = n
        <5> HIDE DEF n, s
        <5> QED BY <1>2, <3>1, <4>1
      <4> HIDE DEF n, s
      <4> QED BY <4>1, <4>2 DEF LeafShare
    <3>3. PICK S : s \in Seq(S)
      BY <1>2 DEF IsVector
    <3> HIDE DEF s, n
    <3> QED BY <1>2, <3>2, <3>3
  <2> DEFINE ib == refs[1].ib
  <2>4. ib \in DOMAIN pageAt /\ pageAt[ib] = Leaf(tree, s, max, 1, refs[1])
    <3>1. 1 \in 1..c
      BY <2>2
    <3> HIDE DEF pages, s, c
    <3> QED BY <1>4, <2>1, <3>1
  <2>5. Last(refs).ib = ib
    BY <1>4, <2>2
  <2> HIDE DEF ib, s
  <2>6. pageAt[ib].tree = tree /\ pageAt[ib].level = 0 /\ pageAt[ib].entries = s
    BY <2>3, <2>4 DEF Leaf
  <2>7. Reads(pageAt, tree, ib, entries)
    BY <2>4, <2>6, LoneLeafReads DEF s
  <2> QED BY <2>5, <2>7
<1>9. CASE m # 1
  <2>1. /\ Append(leaves, root)[m + 1] = root
        /\ \A i \in 1..m : Append(leaves, root)[i] = leaves[i]
    <3> DEFINE S == {leaves[i] : i \in 1..m} \cup {root}
    <3>1. leaves \in Seq(S) /\ root \in S
      BY <1>7
    <3> HIDE DEF S, leaves, root, m
    <3> QED BY <1>3, <1>7, <3>1
  <2>2. c = m + 1 /\ pages = Append(leaves, root)
    BY <1>3, <1>5, <1>9
  <2>3. n # 0 /\ m <= BtMax
    <3>1. n # 0
      BY <1>9 DEF LeafCount
    <3>2. m <= BtMax
      <4>1. n \in Nat \ {0} /\ n <= max * BtMax
        BY <1>2, <3>1
      <4> HIDE DEF n
      <4> QED BY <4>1, LeavesFit
    <3> QED BY <3>1, <3>2
  <2>4. Last(refs).ib \in DOMAIN pageAt /\ pageAt[Last(refs).ib] = root
    <3>1. m + 1 \in 1..c
      <4> HIDE DEF m
      <4> QED BY <1>3, <2>2
    <3> HIDE DEF leaves, root, m, c, pages
    <3> QED BY <1>4, <2>1, <2>2, <3>1
  <2>5. \A i \in 1..m : refs[i].ib \in DOMAIN pageAt /\ pageAt[refs[i].ib] = leaves[i]
    <3> SUFFICES ASSUME NEW i \in 1..m
                 PROVE  refs[i].ib \in DOMAIN pageAt /\ pageAt[refs[i].ib] = leaves[i]
      OBVIOUS
    <3>1. i \in 1..c
      <4> HIDE DEF m
      <4> QED BY <1>3, <2>2
    <3> HIDE DEF leaves, root, m, c, pages
    <3> QED BY <1>4, <2>1, <2>2, <3>1
  <2> DEFINE ib == Last(refs).ib
             ref == Last(refs)
  <2>6. /\ ib \in DOMAIN pageAt /\ pageAt[ib] = Intermediate(tree, leaves, ref)
        /\ IsVector(leaves) /\ Len(leaves) = LeafCount(Len(entries), max)
        /\ \A i \in 1..LeafCount(Len(entries), max) :
             leaves[i] = Leaf(tree, SortedByKey(entries), max, i, refs[i])
        /\ Len(entries) # 0 /\ LeafCount(Len(entries), max) <= BtMax
        /\ \A i \in 1..LeafCount(Len(entries), max) :
             refs[i].ib \in DOMAIN pageAt /\ pageAt[refs[i].ib] = leaves[i]
    BY <1>6, <1>7, <2>3, <2>4, <2>5 DEF IsVector
  <2> HIDE DEF leaves, ib, ref, n, m, s, c
  <2>7. Reads(pageAt, tree, ib, entries)
    BY ONLY <2>6, Keyed(entries), max \in Nat \ {0}, TwoLevelsRead
  <2> QED BY <2>7 DEF ib
<1> QED BY <1>8, <1>9

-----------------------------------------------------------------------------

\* What the call gave the writer.
Taken ==
  /\ ~BadArguments
  /\ blocks = CASE call.entry = "M5"     -> call.blocks
                [] call.entry = "Blocks" -> DataBlocks(call.sizes)
                [] call.entry = "XBlock" -> XBlockBlocks(call.cbPayload, call.chunkSize)
                [] call.entry = "Empty"  -> <<>>
  /\ nodes = IF call.entry = "M5" THEN call.nodes ELSE <<>>

(***************************************************************************)
(* The keys that writeM5Pst's callers bring differ.  writer.hpp leaves it  *)
(* to them: the writer sorts the entries and looks no closer.              *)
(***************************************************************************)
KeysDistinct ==
  call.entry = "M5" =>
    /\ \A i, j \in DOMAIN call.blocks : call.blocks[i].bid = call.blocks[j].bid => i = j
    /\ \A i, j \in DOMAIN call.nodes : call.nodes[i].nid = call.nodes[j].nid => i = j

(***************************************************************************)
(* The BIDs of data blocks are the writer's own and ascend.                *)
(***************************************************************************)
LEMMA DataBlocksBids ==
  ASSUME NEW sizes, NEW n \in Nat, DOMAIN sizes = 1..n
  PROVE  /\ IsVector(DataBlocks(sizes)) /\ Len(DataBlocks(sizes)) = n
         /\ \A i \in 1..n : DataBlocks(sizes)[i].bid = 4 * i
<1> DEFINE bs == DataBlocks(sizes)
<1>1. bs = [i \in 1..n |-> bs[i]] /\ \A i \in 1..n : bs[i].bid = 4 * i
  BY DEF DataBlocks
<1> HIDE DEF bs
<1>2. IsVector(bs) /\ Len(bs) = n
  BY <1>1, FunctionIsVector
<1> QED BY <1>1, <1>2 DEF bs

(***************************************************************************)
(* ... and that of the XBLOCK is another.                                  *)
(***************************************************************************)
LEMMA XBlockBids ==
  ASSUME NEW cb \in Nat \ {0}, NEW chunk \in Nat \ {0}
  PROVE  LET n  == ChunkCount(cb, chunk)
             bs == XBlockBlocks(cb, chunk)
         IN  /\ n \in Nat /\ Len(bs) = n + 1
             /\ \A i \in 1..n : bs[i].bid = 4 * i
             /\ bs[n + 1].bid = 4 * (n + 1) + 2
<1> DEFINE n     == ChunkCount(cb, chunk)
           sizes == [i \in 1..n |-> IF i = n THEN cb - (n - 1) * chunk ELSE chunk]
           xb    == [bid |-> InternalBid(n + 1), len |-> EncodedLen((n + 2) \div 2)]
           ds    == DataBlocks(sizes)
<1>1. n \in Nat
  <2>1. cb + chunk - 1 \in Nat
    OBVIOUS
  <2> QED BY <2>1, Division DEF ChunkCount
<1>2. XBlockBlocks(cb, chunk) = Append(ds, xb)
  BY DEF XBlockBlocks
<1>3. DOMAIN sizes = 1..n /\ xb.bid = 4 * (n + 1) + 2
  BY DEF InternalBid
<1> HIDE DEF n, sizes, xb
<1>4. IsVector(ds) /\ Len(ds) = n /\ \A i \in 1..n : ds[i].bid = 4 * i
  BY <1>1, <1>3, DataBlocksBids
<1> HIDE DEF ds
<1>5. PICK S : ds \in Seq(S)
  BY <1>4 DEF IsVector
<1>6. /\ Len(Append(ds, xb)) = n + 1 /\ Append(ds, xb)[n + 1] = xb
      /\ \A i \in 1..n : Append(ds, xb)[i] = ds[i]
  <2> DEFINE T == S \cup {xb}
  <2>1. ds \in Seq(T) /\ xb \in T
    BY <1>5
  <2> HIDE DEF T
  <2> QED BY <1>1, <1>4, <2>1
<1> QED BY <1>1, <1>2, <1>3, <1>4, <1>6 DEF n

(***************************************************************************)
(* The BIDs of the blocks and the NIDs of the nodes differ, and the trees  *)
(* have room for all of them.                                              *)
(***************************************************************************)
LEMMA KeysAndRoom ==
  ASSUME Given, Taken, ~TooManyEntries, KeysDistinct, RoomForXBlock
  PROVE  /\ \A i, j \in 1..Len(blocks) : blocks[i].bid = blocks[j].bid => i = j
         /\ \A i, j \in 1..Len(nodes) : nodes[i].nid = nodes[j].nid => i = j
         /\ Len(blocks) <= BbtLeafMax * BtMax /\ Len(nodes) <= NbtLeafMax * BtMax
<1> DEFINE X == BbtLeafMax * BtMax
           Y == NbtLeafMax * BtMax
<1>1. X \in Nat /\ Y \in Nat
  BY ONLY SizesAssumption, BtMaxAssumption
<1>2. Len(blocks) \in Nat /\ Len(nodes) \in Nat
  BY DEF Given
<1>3. RoomForXBlock <=> (call.entry = "XBlock" => ChunkCount(call.cbPayload, call.chunkSize) < X)
  BY DEF RoomForXBlock
<1>4. TooManyEntries <=> (call.entry = "M5" /\ (Len(blocks) > X \/ Len(nodes) > Y))
  BY DEF TooManyEntries
<1>5. call.entry = "Blocks" => ~(Len(call.sizes) > X)
  BY DEF Taken, BadArguments
<1> HIDE DEF X, Y
<1>6. CASE call.entry = "Empty"
  <2>1. Len(blocks) = 0 /\ Len(nodes) = 0
    BY <1>6 DEF Given
  <2> QED BY <1>1, <2>1 DEF X, Y
<1>7. CASE call.entry = "Blocks" /\ call.sizes \in Seq(Nat)
  <2> DEFINE n == Len(call.sizes)
  <2>1. n \in Nat /\ DOMAIN call.sizes = 1..n
    BY <1>7
  <2>2. blocks = DataBlocks(call.sizes) /\ nodes = <<>>
    BY <1>7 DEF Taken
  <2>3. Len(nodes) = 0
    BY <2>2
  <2> HIDE DEF n
  <2>4. Len(blocks) = n /\ \A i \in 1..n : blocks[i].bid = 4 * i
    BY <2>1, <2>2, DataBlocksBids
  <2>5. n <= X
    BY <1>1, <1>5, <1>7, <2>1 DEF n
  <2>6. \A i, j \in 1..n : 4 * i = 4 * j => i = j
    BY <2>1
  <2> QED BY <1>1, <2>3, <2>4, <2>5, <2>6 DEF X, Y
<1>8. CASE call.entry = "XBlock" /\ call.cbPayload \in Nat /\ call.chunkSize \in Nat
  <2> DEFINE cb == call.cbPayload
             chunk == call.chunkSize
             n == ChunkCount(cb, chunk)
  <2>1. cb \in Nat \ {0} /\ chunk \in Nat \ {0}
    BY <1>8, SizesAssumption DEF Taken, BadArguments
  <2>2. blocks = XBlockBlocks(cb, chunk) /\ nodes = <<>>
    BY <1>8 DEF Taken
  <2>3. Len(nodes) = 0
    BY <2>2
  <2>4. n < X
    BY <1>3, <1>8
  <2> HIDE DEF cb, chunk
  <2>5. /\ n \in Nat /\ Len(blocks) = n + 1
        /\ \A i \in 1..n : blocks[i].bid = 4 * i
        /\ blocks[n + 1].bid = 4 * (n + 1) + 2
    BY <2>1, <2>2, XBlockBids
  <2> HIDE DEF n
  <2>6. ASSUME NEW i \in 1..(n + 1), NEW j \in 1..(n + 1), blocks[i].bid = blocks[j].bid
        PROVE  i = j
    <3>1. i \in 1..n \/ i = n + 1
      BY <2>5
    <3>2. j \in 1..n \/ j = n + 1
      BY <2>5
    <3> QED BY <2>5, <2>6, <3>1, <3>2
  <2> QED BY <1>1, <2>3, <2>4, <2>5, <2>6 DEF X, Y
<1>9. CASE call.entry = "M5" /\ call.blocks \in Seq(Block) /\ call.nodes \in Seq(Node)
  <2>1. blocks = call.blocks /\ nodes = call.nodes
    BY <1>9 DEF Taken
  <2>2. DOMAIN blocks = 1..Len(blocks) /\ DOMAIN nodes = 1..Len(nodes)
    BY DEF Given
  <2>3. ~(Len(blocks) > X) /\ ~(Len(nodes) > Y)
    BY <1>4, <1>9
  <2>4. Len(blocks) <= X /\ Len(nodes) <= Y
    BY ONLY <1>1, <1>2, <2>3
  <2> QED BY <1>9, <2>1, <2>2, <2>4 DEF KeysDistinct, X, Y
<1> QED BY <1>6, <1>7, <1>8, <1>9, CallsAssumption DEF Given

(***************************************************************************)
(* The entries of the two trees, one for each block and each node.         *)
(***************************************************************************)
LEMMA EntryFacts ==
  ASSUME Given
  PROVE  /\ IsVector(BbtEntries) /\ Len(BbtEntries) = Len(blocks)
         /\ \A i \in 1..Len(blocks) : BbtEntries[i].key = blocks[i].bid /\ BbtEntries[i].key \in Nat
         /\ IsVector(NbtEntries) /\ Len(NbtEntries) = Len(nodes)
         /\ \A i \in 1..Len(nodes) : /\ NbtEntries[i].key = nodes[i].nid
                                     /\ NbtEntries[i].key \in Nat
                                     /\ NbtEntries[i].bidSub = nodes[i].bidSub
<1>1. /\ Len(blocks) \in Nat /\ DOMAIN blocks = 1..Len(blocks)
      /\ Len(nodes) \in Nat /\ DOMAIN nodes = 1..Len(nodes)
      /\ \A i \in 1..Len(blocks) : blocks[i].bid \in Nat
      /\ \A i \in 1..Len(nodes) : nodes[i].nid \in Nat
  <2>1. blocks \in Seq(Block) /\ nodes \in Seq(Node)
    BY DEF Given
  <2>2. /\ Len(blocks) \in Nat /\ DOMAIN blocks = 1..Len(blocks)
        /\ Len(nodes) \in Nat /\ DOMAIN nodes = 1..Len(nodes)
    BY <2>1
  <2>3. \A i \in 1..Len(blocks) : blocks[i] \in Block
    BY <2>1
  <2>4. \A i \in 1..Len(nodes) : nodes[i] \in Node
    BY <2>1
  <2> QED BY <2>2, <2>3, <2>4 DEF Block, Node
<1>2. /\ BbtEntries = [i \in 1..Len(blocks) |-> BbtEntries[i]]
      /\ \A i \in 1..Len(blocks) : BbtEntries[i].key = blocks[i].bid
  BY <1>1 DEF BbtEntries
<1>3. /\ NbtEntries = [i \in 1..Len(nodes) |-> NbtEntries[i]]
      /\ \A i \in 1..Len(nodes) : /\ NbtEntries[i].key = nodes[i].nid
                                  /\ NbtEntries[i].bidSub = nodes[i].bidSub
  BY <1>1 DEF NbtEntries
<1>4. IsVector(BbtEntries) /\ Len(BbtEntries) = Len(blocks)
  BY <1>1, <1>2, FunctionIsVector
<1>5. IsVector(NbtEntries) /\ Len(NbtEntries) = Len(nodes)
  BY <1>1, <1>3, FunctionIsVector
<1> QED BY <1>1, <1>2, <1>3, <1>4, <1>5

(***************************************************************************)
(* They have keys of their own, if the call's differ and there is room.    *)
(***************************************************************************)
LEMMA EntriesKeyed ==
  ASSUME Given, Taken, ~TooManyEntries, KeysDistinct, RoomForXBlock
  PROVE  /\ Keyed(BbtEntries) /\ Len(BbtEntries) = Len(blocks)
         /\ Keyed(NbtEntries) /\ Len(NbtEntries) = Len(nodes)
<1>1. /\ \A i, j \in 1..Len(blocks) : blocks[i].bid = blocks[j].bid => i = j
      /\ \A i, j \in 1..Len(nodes) : nodes[i].nid = nodes[j].nid => i = j
  BY KeysAndRoom
<1> QED BY <1>1, EntryFacts DEF Keyed

(***************************************************************************)
(* Pages lie one after the other behind the blocks.                        *)
(***************************************************************************)
LEMMA PagesBehind ==
  ASSUME Given, NEW h \in PageIndices(Layout)
  PROVE  LET p == h - (Len(blocks) + 2)
         IN  /\ p \in 1..Pages /\ Layout[h].at = PagesStart + (p - 1) * PageSize
             /\ Layout[h].at \in Nat /\ Layout[h].at >= PagesStart
             /\ Layout[h].len = PageSize
<1> DEFINE n == Len(blocks)
<1>0. n \in Nat /\ Pages \in Nat /\ PagesStart \in Nat /\ PageSize \in Nat \ {0}
  BY LayoutNumbers, SizesAssumption
<1>1. /\ h \in 1..(n + 2 + Pages) /\ Layout[h].data.kind = "page"
      /\ Layout[1].data.kind # "page" /\ Layout[2].data.kind # "page"
      /\ \A b \in 1..n : Layout[b + 2].data.kind # "page"
  <2>1. h \in 1..Len(Layout) /\ Layout[h].data.kind = "page"
    BY DEF PageIndices
  <2>2. Len(Layout) = n + 2 + Pages
    BY LayoutPieces
  <2>3. Layout[1].data.kind = "header"
    <3>1. Layout[1].data = Header
      BY LayoutPieces
    <3> QED BY <3>1 DEF Header
  <2>4. Layout[2].data.kind = "amap"
    BY LayoutPieces
  <2>5. ASSUME NEW b \in 1..n PROVE Layout[b + 2].data.kind = "block"
    <3>1. Layout[b + 2] = [at |-> BlocksStart, len |-> blocks[b].len,
                           data |-> [kind |-> "block", bid |-> blocks[b].bid]]
      BY LayoutPieces
    <3> QED BY ONLY <3>1
  <2> QED BY <2>1, <2>2, <2>3, <2>4, <2>5
<1>2. h # 1 /\ h # 2
  BY <1>1
<1>3. h - 2 \notin 1..n
  <2>1. (h - 2) + 2 = h
    BY <1>0, <1>1
  <2> QED BY <1>1, <2>1
<1> DEFINE p == h - (n + 2)
<1>4. p \in 1..Pages /\ n + 2 + p = h
  BY <1>0, <1>1, <1>2, <1>3
<1> HIDE DEF p
<1>5. PICK page : /\ page.ref = PageRef(p)
                  /\ Layout[n + 2 + p] = [at |-> page.ref.ib, len |-> PageSize,
                                          data |-> [kind |-> "page", page |-> page]]
  BY <1>4, LayoutPieces
<1>6. Layout[h].at = PagesStart + (p - 1) * PageSize
  BY <1>4, <1>5 DEF PageRef
<1>7. Layout[h].len = PageSize
  BY <1>4, <1>5
<1>8. Layout[h].at \in Nat /\ Layout[h].at >= PagesStart
  <2>1. p - 1 \in Nat
    BY <1>4
  <2>2. (p - 1) * PageSize \in Nat
    BY <1>0, <2>1
  <2> QED BY <1>0, <1>6, <2>2
<1> QED BY <1>4, <1>6, <1>7, <1>8 DEF p

(***************************************************************************)
(* No two pages of the layout are in one place.                            *)
(***************************************************************************)
LEMMA PagePlaces ==
  ASSUME Given, NEW k \in PageIndices(Layout), NEW l \in PageIndices(Layout),
         Layout[k].at = Layout[l].at
  PROVE  k = l
<1> DEFINE n == Len(blocks)
<1>1. n \in Nat /\ Pages \in Nat /\ PagesStart \in Nat /\ PageSize \in Nat \ {0}
  BY LayoutNumbers, SizesAssumption
<1>2. ASSUME NEW h \in PageIndices(Layout)
      PROVE  /\ h - (n + 2) \in 1..Pages
             /\ Layout[h].at = PagesStart + ((h - (n + 2)) - 1) * PageSize
  BY PagesBehind
<1> DEFINE p == k - (n + 2)
           q == l - (n + 2)
<1>3. /\ p \in 1..Pages /\ q \in 1..Pages
      /\ PagesStart + (p - 1) * PageSize = PagesStart + (q - 1) * PageSize
  BY <1>2
<1>4. k \in Int /\ l \in Int
  BY LayoutPieces DEF PageIndices
<1>5. p = q => k = l
  BY <1>1, <1>4
<1> HIDE DEF p, q
<1>6. p = q
  <2> DEFINE x == p - 1
             y == q - 1
  <2>1. x \in Nat /\ y \in Nat /\ p = x + 1 /\ q = y + 1
    BY <1>3
  <2> HIDE DEF x, y
  <2>2. x * PageSize = y * PageSize
    <3>1. x * PageSize \in Int /\ y * PageSize \in Int
      BY ONLY <1>1, <2>1
    <3>2. PagesStart + x * PageSize = PagesStart + y * PageSize
      BY <1>3 DEF x, y
    <3> QED BY ONLY <1>1, <3>1, <3>2
  <2>3. x = y
    <3>1. x < y => x * PageSize < y * PageSize
      BY ONLY <1>1, <2>1
    <3>2. y < x => y * PageSize < x * PageSize
      BY ONLY <1>1, <2>1
    <3>3. x * PageSize \in Int /\ y * PageSize \in Int
      BY ONLY <1>1, <2>1
    <3> QED BY ONLY <2>1, <2>2, <3>1, <3>2, <3>3
  <2> QED BY <2>1, <2>3
<1> QED BY <1>5, <1>6

(***************************************************************************)
(* The map is the second piece, and no other is one.                       *)
(***************************************************************************)
LEMMA MapSecond ==
  ASSUME PlanShape(plan), NEW k \in 1..Len(plan), plan[k].data.kind = "amap"
  PROVE  k = 2
<1>1. Len(plan) \in Nat /\ plan[1].data.kind # "amap"
      /\ \A h \in 3..Len(plan) : plan[h].data.kind # "amap"
  BY DEF PlanShape
<1>2. k # 1 /\ k \notin 3..Len(plan)
  BY <1>1
<1> QED BY <1>1, <1>2

(***************************************************************************)
(* Pages lie behind the blocks.                                            *)
(***************************************************************************)
LEMMA PagesBehindBlocks ==
  ASSUME Given
  PROVE  PagesStart >= BlocksStart
<1>1. /\ Len(blocks) \in Nat /\ BlocksStart \in Nat /\ PagesStart \in Nat
      /\ BlockIb(Len(blocks) + 1) \in Nat /\ PagesStart >= BlockIb(Len(blocks) + 1)
  BY LayoutNumbers
<1>2. Offsets(blocks)[1] = BlocksStart /\ Offsets(blocks)[1] <= Offsets(blocks)[Len(blocks) + 1]
  BY <1>1, OffsetsFacts, OffsetsGrow DEF Given
<1> QED BY <1>1, <1>2 DEF BlockIb

(***************************************************************************)
(* Every rank up to that of a file's last piece is that of a whole piece.  *)
(***************************************************************************)
LEMMA RanksReached ==
  ASSUME NEW f, DOMAIN f = 1..Len(f), Len(f) \in Nat
  PROVE  \A k \in 1..RankOf(f, Len(f)) : \E i \in WholeOf(f) : RankOf(f, i) = k
<1> DEFINE W == WholeOf(f)
           T == {j \in Nat : j <= Len(f) =>
                   \A k \in 1..RankOf(f, j) : \E i \in W : RankOf(f, i) = k}
<1>1. \A j \in 0..Len(f) : IsFiniteSet(W \cap 1..j) /\ RankOf(f, j) \in Nat
  BY RankFacts
<1>2. 0 \in T
  <2>1. W \cap 1..0 = {}
    OBVIOUS
  <2>2. RankOf(f, 0) = 0
    BY <2>1, FS_EmptySet DEF RankOf
  <2> QED BY <2>2
<1>3. ASSUME NEW j \in Nat, j \in T PROVE j + 1 \in T
  <2> SUFFICES ASSUME j + 1 <= Len(f), NEW k \in 1..RankOf(f, j + 1)
               PROVE  \E i \in W : RankOf(f, i) = k
    OBVIOUS
  <2>1. j \in 0..Len(f) /\ j + 1 \in 0..Len(f)
    OBVIOUS
  <2>2. \A h \in 1..RankOf(f, j) : \E i \in W : RankOf(f, i) = h
    BY <1>3, <2>1
  <2>3. CASE j + 1 \in W
    <3>1. /\ W \cap 1..(j + 1) = (W \cap 1..j) \cup {j + 1}
          /\ j + 1 \notin W \cap 1..j
      BY <2>3
    <3>2. RankOf(f, j + 1) = RankOf(f, j) + 1
      <4> DEFINE A == W \cap 1..j
      <4>1. IsFiniteSet(A)
        BY <1>1, <2>1
      <4>2. W \cap 1..(j + 1) = A \cup {j + 1} /\ j + 1 \notin A
        BY <3>1
      <4> HIDE DEF A
      <4>3. Cardinality(A \cup {j + 1}) = Cardinality(A) + 1
        BY <4>1, <4>2, FS_AddElement
      <4> QED BY <4>2, <4>3 DEF RankOf, A
    <3>3. k \in 1..RankOf(f, j) \/ k = RankOf(f, j + 1)
      <4> DEFINE r == RankOf(f, j)
                 s == RankOf(f, j + 1)
      <4>1. r \in Nat /\ s = r + 1 /\ k \in 1..s
        BY <1>1, <2>1, <3>2
      <4> HIDE DEF r, s
      <4>2. k \in 1..r \/ k = s
        BY ONLY <4>1
      <4> QED BY <4>2 DEF r, s
    <3> QED BY <2>2, <2>3, <3>3
  <2>4. CASE j + 1 \notin W
    <3>1. W \cap 1..(j + 1) = W \cap 1..j
      BY <2>4
    <3>2. RankOf(f, j + 1) = RankOf(f, j)
      BY <3>1 DEF RankOf
    <3> QED BY <2>2, <3>2
  <2> QED BY <2>3, <2>4
<1>4. Len(f) \in T
  <2> HIDE DEF T
  <2> QED BY <1>2, <1>3, Induction
<1> QED BY <1>4

\* The plan's last piece is in the file.
Full == \E i \in Whole : Rank(i) = Len(plan)

(***************************************************************************)
(* It is the file's last, too, which is as long as planned then, and all   *)
(* other pieces are before it.                                             *)
(***************************************************************************)
LEMMA FullFile ==
  ASSUME Inv, phase \notin Before, Full
  PROVE  /\ FileSize = End(plan, Len(plan))
         /\ \A k \in 1..Len(plan) : \E i \in Whole : Rank(i) = k
<1> DEFINE n == Len(file)
           eof == End(plan, Len(plan))
<1>1. PICK i \in Whole : Rank(i) = Len(plan)
  BY DEF Full
<1>2. /\ PlanShape(plan) /\ PlanMeets(plan) /\ file \in Seq(FilePiece) /\ Contiguous(file)
      /\ n \in Nat /\ DOMAIN file = 1..n /\ i \in 1..n
      /\ \A j : Rank(j) = RankOf(file, j)
      /\ Whole = WholeOf(file) /\ \A j \in 1..n : EndsWithin(file, j)
      /\ file[i].len = plan[Rank(i)].len /\ file[i].ib = Place(plan, Rank(i))
  BY NewFile DEF FileFits
<1>3. eof \in Nat /\ Len(plan) # 0
  <2>1. Len(plan) # 0
    BY <1>2 DEF PlanShape
  <2>2. eof \in Nat
    BY ONLY <1>2, PlanEnds
  <2> QED BY ONLY <2>1, <2>2
<1>4. file[i].ib + file[i].len = eof
  BY <1>1, <1>2, <1>3 DEF End
<1>5. i = n
  <2> SUFFICES ASSUME i # n PROVE FALSE
    OBVIOUS
  <2>1. i + 1 \in 1..n /\ (i + 1) - 1 = i /\ i + 1 # 1
    BY <1>2
  <2>2. file[i + 1].ib = file[i].ib + file[i].len
    BY <1>2, <2>1 DEF Contiguous
  <2>3. file[i + 1].len \in Nat \ {0}
    <3>1. FileFits(file)
      BY NewFile
    <3>2. \A j \in 1..Len(file) : file[j] \in FilePiece
      BY <3>1 DEF FileFits
    <3> QED BY ONLY <2>1, <3>2 DEF FilePiece
  <2>4. file[i + 1].ib + file[i + 1].len <= eof
    BY <1>2, <2>1 DEF EndsWithin
  <2> HIDE DEF eof
  <2> QED BY <1>3, <1>4, <2>2, <2>3, <2>4
<1>6. FileSize = eof
  <2>1. file # <<>>
    BY <1>2
  <2> QED BY <1>4, <1>5, <2>1 DEF FileSize, Last
<1>7. RankOf(file, n) = Len(plan)
  BY <1>1, <1>2, <1>5
<1> QED BY <1>2, <1>6, <1>7, RanksReached

(***************************************************************************)
(* A file that is reported as written has all pieces.                      *)
(***************************************************************************)
LEMMA WrittenIsFull ==
  ASSUME Inv, phase = "written"
  PROVE  phase \notin Before /\ Full
<1>1. phase \notin Before
  BY DEF Before
<1>2. /\ PlanShape(plan) /\ Len(file) \in Nat /\ DOMAIN file = 1..Len(file)
      /\ Whole = WholeOf(file) /\ \A i : Rank(i) = RankOf(file, i)
  BY <1>1, NewFile
<1>3. RankOf(file, Len(file)) = Len(plan) /\ Len(plan) \in 1..Len(plan)
  BY <1>2 DEF Inv, FileInv, Progress, PlanShape
<1>4. \E i \in WholeOf(file) : RankOf(file, i) = Len(plan)
  BY <1>2, <1>3, RanksReached
<1> QED BY <1>1, <1>2, <1>4 DEF Full

\* The pages of the file as the reader sees them.
Seen == [ib \in DOMAIN PageAt |-> file[PageAt[ib]].data.page]

(***************************************************************************)
(* A page of the plan is seen where its trailer says, in a file that has   *)
(* all of the plan, by the reader and by pst_info.                         *)
(***************************************************************************)
LEMMA PageSeen ==
  ASSUME Inv, phase \notin Before, Full, plan = Layout, NEW page, NEW k \in 1..Len(plan),
         plan[k].data = [kind |-> "page", page |-> page]
  PROVE  /\ page.ref.ib \in DOMAIN Seen /\ Seen[page.ref.ib] = page
         /\ PageChecks(page.ref.ib) /\ TreePage(page.ref.ib) = page
<1>1. phase \notin Before
  OBVIOUS
<1>2. /\ PlanShape(plan) /\ PlanMeets(plan) /\ Len(file) \in Nat /\ DOMAIN file = 1..Len(file)
      /\ Whole = WholeOf(file) /\ \A i : Rank(i) = RankOf(file, i)
      /\ \A i \in Whole : /\ i \in 1..Len(file) /\ Rank(i) \in 1..Len(plan)
                          /\ file[i].data = plan[Rank(i)].data
                          /\ file[i].len = plan[Rank(i)].len
                          /\ file[i].ib = Place(plan, Rank(i))
      /\ Data("page") \subseteq Whole /\ Data("amap") \subseteq Whole
      /\ \A i \in 1..Len(file) : EndsWithin(file, i)
  BY <1>1, NewFile
<1>4. PICK i \in Whole : Rank(i) = k
  BY FullFile
<1>5. ASSUME NEW h \in 1..Len(plan), plan[h].data.kind = "page"
      PROVE  Place(plan, h) = plan[h].at /\ plan[h].at = plan[h].data.page.ref.ib
  <2>1. h \in 3..Len(plan)
    <3>1. plan[1].data.kind = "header" /\ plan[2].data.kind = "amap" /\ Len(plan) \in Nat
      BY <1>2 DEF PlanShape
    <3>2. h # 1 /\ h # 2
      BY <1>5, <3>1
    <3> QED BY <3>1, <3>2
  <2>2. plan[h].at = plan[h].data.page.ref.ib
    BY <1>2, <1>5, <2>1 DEF PlanShape
  <2> QED BY <1>5, <2>2 DEF Place
<1>6. plan[k].data.kind = "page" /\ plan[k].data.page = page
  OBVIOUS
<1>7. file[i].data = plan[k].data /\ file[i].ib = page.ref.ib
  BY <1>2, <1>4, <1>5, <1>6
<1>8. i \in Data("page")
  BY <1>2, <1>4, <1>6, <1>7 DEF Data
<1>9. ASSUME NEW j \in Data("page"), file[j].ib = page.ref.ib PROVE j = i
  <2>1. j \in Whole /\ file[j].data.kind = "page"
    BY <1>2 DEF Data
  <2>2. /\ Rank(j) \in 1..Len(plan) /\ plan[Rank(j)].data.kind = "page"
        /\ file[j].ib = Place(plan, Rank(j))
    BY <1>2, <2>1
  <2>3. plan[Rank(j)].at = plan[k].at
    BY <1>5, <1>6, <1>9, <2>2
  <2>4. Rank(j) \in PageIndices(Layout) /\ k \in PageIndices(Layout)
    BY <1>6, <2>2 DEF PageIndices
  <2>5. Rank(j) = k
    BY <2>3, <2>4, PagePlaces DEF Inv, InputFits
  <2> QED BY <1>1, <1>4, <2>1, <2>5, SameRank
<1>10. page.ref.ib \in DOMAIN PageAt /\ PageAt[page.ref.ib] = i
  <2> DEFINE ib == page.ref.ib
             places == {file[j].ib : j \in Data("page")}
             at(b) == CHOOSE j \in Data("page") : file[j].ib = b
  <2>1. ib \in places
    BY <1>7, <1>8
  <2>2. at(ib) = i
    BY <1>7, <1>8, <1>9
  <2>3. PageAt = [b \in places |-> at(b)]
    BY DEF PageAt
  <2> HIDE DEF ib, places, at
  <2>4. ib \in DOMAIN PageAt /\ PageAt[ib] = i
    BY <2>1, <2>2, <2>3
  <2> QED BY <2>4 DEF ib
<1>11. page.ref.ib # IbAMap
  <2>1. Given
    BY DEF Inv, InputFits
  <2>2. k \in PageIndices(Layout)
    BY <1>6 DEF PageIndices
  <2>3. page.ref.ib = Layout[k].at
    BY <1>5, <1>6
  <2>4. Layout[k].at >= PagesStart /\ Layout[k].at \in Nat
    BY <2>1, <2>2, PagesBehind
  <2>5. PagesStart \in Nat /\ PagesStart >= BlocksStart /\ BlocksStart = IbAMap + PageSize
    BY <2>1, PagesBehindBlocks, LayoutNumbers
  <2> QED BY <2>3, <2>4, <2>5, SizesAssumption
<1>12. PagesAt(page.ref.ib) = {i}
  <2>1. ASSUME NEW j \in PagesAt(page.ref.ib) PROVE j = i
    <3>1. j \in DOMAIN file /\ file[j].ib = page.ref.ib /\ file[j].data.kind \in {"page", "amap"}
      BY <2>1 DEF PagesAt, At
    <3>2. CASE file[j].data.kind = "page"
      BY <1>9, <3>1, <3>2 DEF Data
    <3>3. CASE file[j].data.kind = "amap"
      <4>1. j \in Whole
        BY <1>2, <3>1, <3>3 DEF Data
      <4>2. plan[Rank(j)].data.kind = "amap" /\ Rank(j) \in 1..Len(plan)
        BY <1>2, <3>3, <4>1
      <4>3. Rank(j) = 2
        BY <1>2, <4>2, MapSecond
      <4>4. file[j].ib = IbAMap
        BY <1>2, <4>1, <4>2, <4>3 DEF Place, PlanMeets
      <4> QED BY <1>11, <3>1, <4>4
    <3> QED BY <3>1, <3>2, <3>3
  <2>2. i \in PagesAt(page.ref.ib)
    BY <1>6, <1>7, <1>8 DEF PagesAt, At, Data
  <2> QED BY <2>1, <2>2
<1>13. TreePage(page.ref.ib) = page
  BY <1>6, <1>7, <1>12 DEF TreePage
<1>14. InFile(page.ref.ib, PageSize)
  <2>1. i \in 1..Len(file) /\ file[i].len = PageSize
    <3>1. k \in PageIndices(Layout)
      BY <1>6 DEF PageIndices
    <3>2. Layout[k].len = PageSize
      BY <3>1, PagesBehind DEF Inv, InputFits
    <3> QED BY <1>2, <1>4, <3>2
  <2>2. file[i].ib + file[i].len <= End(plan, Len(plan))
    BY <1>2, <2>1 DEF EndsWithin
  <2> QED BY <1>7, <2>1, <2>2, FullFile DEF InFile
<1> QED BY <1>6, <1>7, <1>10, <1>12, <1>13, <1>14 DEF Seen, PageChecks

-----------------------------------------------------------------------------

(***************************************************************************)
(* Where the plan comes from: the blocks and nodes are the call's, and the *)
(* plan is their layout.  With Inv it is inductive.                        *)
(***************************************************************************)
Sourced ==
  /\ phase \notin {"call", "refused"} => Taken
  /\ phase \in Planned => plan = Layout /\ Len(encodedAt) = Len(blocks) /\ ~TooManyEntries

(***************************************************************************)
(* The layout depends on the call, the blocks and the nodes only.          *)
(***************************************************************************)
LEMMA SameLayout ==
  ASSUME UNCHANGED <<call, blocks, nodes>>
  PROVE  /\ Layout' = Layout /\ (TooManyEntries' <=> TooManyEntries) /\ (Taken' <=> Taken)
<1>1. \A i : BlockIb(i)' = BlockIb(i)
  BY DEF BlockIb
<1>2. PagesStart' = PagesStart
  BY DEF PagesStart, BlockIb
<1>3. BbtPages' = BbtPages /\ NbtPages' = NbtPages
  BY DEF BbtPages, NbtPages
<1>4. IbFileEof' = IbFileEof
  BY <1>2, <1>3 DEF IbFileEof
<1>5. PageBids' = PageBids
  BY DEF PageBids
<1>6. ASSUME NEW p PROVE PageRef(p)' = PageRef(p)
  BY <1>2, <1>5 DEF PageRef
<1>7. /\ BbtFirst' = BbtFirst /\ NbtFirst' = NbtFirst /\ NbtPlace' = NbtPlace
  BY <1>3 DEF BbtFirst, NbtFirst, NbtPlace
<1>8. BbtRefs' = BbtRefs
  BY <1>2, <1>3, <1>5, <1>7 DEF BbtRefs, PageRef
<1>9. NbtRefs' = NbtRefs
  BY <1>2, <1>3, <1>5, <1>7 DEF NbtRefs, PageRef
<1>10. BbtEntries' = BbtEntries
  BY DEF BbtEntries, BlockIb
<1>11. NbtEntries' = NbtEntries
  BY DEF NbtEntries
<1>12. BbtTree' = BbtTree /\ NbtTree' = NbtTree
  BY <1>8, <1>9, <1>10, <1>11 DEF BbtTree, NbtTree
<1>13. MarkedUnits' = MarkedUnits /\ CbAMapFree' = CbAMapFree
  BY <1>4 DEF MarkedUnits, CbAMapFree
<1>14. BidNextP' = BidNextP
  BY <1>3, <1>5, <1>7 DEF BidNextP
<1>15. Header' = Header
  BY <1>4, <1>8, <1>9, <1>13, <1>14 DEF Header
<1>16. Layout' = Layout
  BY <1>12, <1>13, <1>15 DEF Layout
<1>17. (TooManyEntries' <=> TooManyEntries) /\ (BadArguments' <=> BadArguments)
  BY DEF TooManyEntries, BadArguments
<1>18. Taken' <=> Taken
  BY <1>17 DEF Taken
<1> QED BY <1>16, <1>17, <1>18

(***************************************************************************)
(* Init has no plan, Call takes what the call gives, LayOut plans it, and  *)
(* no other step touches the one or the other.                             *)
(***************************************************************************)
LEMMA SourcedAlways == Spec => []Sourced
<1>1. Init => Sourced
  BY DEF Init, Sourced, Planned
<1>2. Inv /\ Sourced /\ [Next]_vars => Sourced'
  <2> SUFFICES ASSUME Inv, Sourced, [Next]_vars PROVE Sourced'
    OBVIOUS
  <2>1. CASE Call
    <3>1. phase' \in {"refused", "encode"} /\ call' = call
      BY <2>1 DEF Call
    <3>2. ASSUME phase' = "encode" PROVE Taken'
      <4>1. /\ ~BadArguments
            /\ blocks' = CASE call.entry = "M5"     -> call.blocks
                           [] call.entry = "Blocks" -> DataBlocks(call.sizes)
                           [] call.entry = "XBlock" -> XBlockBlocks(call.cbPayload, call.chunkSize)
                           [] call.entry = "Empty"  -> <<>>
            /\ nodes' = IF call.entry = "M5" THEN call.nodes ELSE <<>>
        BY <2>1, <3>2 DEF Call
      <4>2. BadArguments' <=> BadArguments
        BY <3>1 DEF BadArguments
      <4> QED BY <3>1, <4>1, <4>2 DEF Taken
    <3> QED BY <3>1, <3>2 DEF Sourced, Planned
  <2>2. CASE LayOut
    <3>1. /\ phase = "encode" /\ Len(encodedAt) = Len(blocks)
          /\ UNCHANGED <<call, blocks, nodes, encodedAt>>
          /\ \/ phase' = "refused"
             \/ phase' = "open" /\ plan' = Layout /\ ~TooManyEntries
      BY <2>2 DEF LayOut
    <3>2. Taken
      BY <3>1 DEF Sourced
    <3>3. Layout' = Layout /\ (TooManyEntries' <=> TooManyEntries) /\ (Taken' <=> Taken)
      BY <3>1, SameLayout
    <3> QED BY <3>1, <3>2, <3>3 DEF Sourced, Planned
  <2>3. ASSUME UNCHANGED <<call, blocks, nodes, encodedAt, plan>>,
               phase' \notin {"call", "refused"} => phase \notin {"call", "refused"},
               phase' \in Planned => phase \in Planned
        PROVE  Sourced'
    <3>1. Layout' = Layout /\ (TooManyEntries' <=> TooManyEntries) /\ (Taken' <=> Taken)
      BY <2>3, SameLayout
    <3> QED BY <2>3, <3>1 DEF Sourced
  <2>4. CASE EncodeBlock
    <3>1. /\ phase = "encode" /\ phase' = "encode"
          /\ UNCHANGED <<call, blocks, nodes>>
      BY <2>4 DEF EncodeBlock
    <3>2. Taken' <=> Taken
      BY <3>1, SameLayout
    <3> QED BY <3>1, <3>2 DEF Sourced, Planned
  <2>5. CASE OpenWb
    BY <2>3, <2>5 DEF OpenWb, Planned
  <2>6. CASE OpenFails
    BY <2>3, <2>6 DEF OpenFails, Planned
  <2>7. CASE Emit
    BY <2>3, <2>7 DEF Emit, Planned
  <2>8. CASE Fclose
    BY <2>3, <2>8 DEF Fclose, Planned
  <2>9. CASE Return \/ UNCHANGED vars
    BY <2>3, <2>9 DEF Return, vars
  <2> QED BY <2>1, <2>2, <2>4, <2>5, <2>6, <2>7, <2>8, <2>9 DEF Next
<1> QED BY <1>1, <1>2, Invariance, PTL DEF Spec

\* A page that is where the places of its tree say.
InPlace(ref, page) ==
  /\ ref.ib \in DOMAIN Seen /\ Seen[ref.ib] = page
  /\ PageChecks(ref.ib) /\ TreePage(ref.ib) = page

(***************************************************************************)
(* In a file that has all of its plan, the pages of a tree are seen where  *)
(* the tree's places say.                                                  *)
(***************************************************************************)
LEMMA TreesSeen ==
  ASSUME Inv, Sourced, phase \notin Before, Full
  PROVE  /\ \A i \in 1..BbtPages : InPlace(BbtRefs[i], BbtTree[i])
         /\ \A i \in 1..NbtPages : InPlace(NbtRefs[i], NbtTree[i])
         /\ Len(BbtRefs) = BbtPages /\ Len(NbtRefs) = NbtPages
         /\ file[1].data = Header
<1>1. Given /\ plan = Layout
  BY NewFile DEF Inv, InputFits, Sourced
<1>2. Len(plan) = Len(blocks) + 2 + Pages /\ Len(blocks) \in Nat /\ Pages \in Nat
  BY <1>1, LayoutPieces, LayoutNumbers
<1>3. /\ Len(BbtRefs) = BbtPages /\ Len(NbtRefs) = NbtPages
      /\ Len(BbtTree) = BbtPages /\ Len(NbtTree) = NbtPages
      /\ \A i \in 1..BbtPages : BbtTree[i].ref = BbtRefs[i]
      /\ \A i \in 1..NbtPages : NbtTree[i].ref = NbtRefs[i]
  BY <1>1, TreePlaces
<1>4. ASSUME NEW page, NEW p \in 1..Pages,
             Layout[Len(blocks) + 2 + p].data = [kind |-> "page", page |-> page]
      PROVE  InPlace(page.ref, page)
  <2> DEFINE k == Len(blocks) + 2 + p
  <2>1. k \in 1..Len(plan)
    BY <1>2
  <2>2. plan[k].data = [kind |-> "page", page |-> page]
    BY <1>1, <1>4
  <2> HIDE DEF k
  <2> QED BY <1>1, <2>1, <2>2, PageSeen DEF InPlace
<1>5. ASSUME NEW i \in 1..BbtPages PROVE InPlace(BbtRefs[i], BbtTree[i])
  <2>1. PICK p \in 1..Pages :
          Layout[Len(blocks) + 2 + p].data = [kind |-> "page", page |-> BbtTree[i]]
    BY <1>1, <1>3, LayoutPieces
  <2>2. InPlace(BbtTree[i].ref, BbtTree[i])
    BY <1>4, <2>1
  <2>3. BbtTree[i].ref = BbtRefs[i]
    BY <1>3
  <2> QED BY <2>2, <2>3
<1>6. ASSUME NEW i \in 1..NbtPages PROVE InPlace(NbtRefs[i], NbtTree[i])
  <2>1. PICK p \in 1..Pages :
          Layout[Len(blocks) + 2 + p].data = [kind |-> "page", page |-> NbtTree[i]]
    BY <1>1, <1>3, LayoutPieces
  <2>2. InPlace(NbtTree[i].ref, NbtTree[i])
    BY <1>4, <2>1
  <2>3. NbtTree[i].ref = NbtRefs[i]
    BY <1>3
  <2> QED BY <2>2, <2>3
<1>7. file[1].data = Header
  <2>1. PICK i \in Whole : TRUE
    BY DEF Full
  <2>2. file[1].data = plan[1].data
    BY <2>1, HeaderFirst
  <2> QED BY <1>1, <2>2, LayoutPieces
<1> QED BY <1>3, <1>5, <1>6, <1>7

(***************************************************************************)
(* A store that is reported as written can be read: the header leads to    *)
(* two trees in which every block and node is found under its key, no      *)
(* other key leads anywhere, and reading all of a tree gives its entries   *)
(* in order; for any number of blocks and nodes that the call accepts, as  *)
(* long as the keys it brings differ and an XBLOCK has room in the tree.   *)
(***************************************************************************)
THEOREM ReadableWhenWritten ==
  Spec => [](KeysDistinct => ReadableWhereRoom)
<1>1. Inv /\ Sourced => (KeysDistinct => ReadableWhereRoom)
  <2> SUFFICES ASSUME Inv, Sourced, KeysDistinct, phase = "written", RoomForXBlock
               PROVE  Readable
    BY DEF ReadableWhereRoom
  <2>1. Given /\ Taken /\ ~TooManyEntries /\ Len(encodedAt) = Len(blocks)
    BY DEF Inv, InputFits, Sourced, Planned
  <2> DEFINE bbt == [i \in DOMAIN blocks |->
                      [key |-> blocks[i].bid, ib |-> encodedAt[i], cb |-> blocks[i].len]]
  <2>2. bbt = BbtEntries
    <3>1. \A i \in DOMAIN blocks : encodedAt[i] = BlockIb(i)
      <4>1. DOMAIN blocks = 1..Len(encodedAt)
        BY <2>1, LayoutNumbers
      <4> QED BY <4>1 DEF Inv, InputFits, BlockIb
    <3> QED BY <3>1 DEF BbtEntries
  <2>3. /\ Keyed(BbtEntries) /\ Len(BbtEntries) = Len(blocks)
        /\ Keyed(NbtEntries) /\ Len(NbtEntries) = Len(nodes)
    BY <2>1, EntriesKeyed
  <2>4. Len(blocks) <= BbtLeafMax * BtMax /\ Len(nodes) <= NbtLeafMax * BtMax
    BY <2>1, KeysAndRoom
  <2>5. /\ \A i \in 1..BbtPages : /\ BbtRefs[i].ib \in DOMAIN Seen
                                  /\ Seen[BbtRefs[i].ib] = BbtTree[i]
        /\ \A i \in 1..NbtPages : /\ NbtRefs[i].ib \in DOMAIN Seen
                                  /\ Seen[NbtRefs[i].ib] = NbtTree[i]
        /\ Len(BbtRefs) = BbtPages /\ Len(NbtRefs) = NbtPages
        /\ file[1].data.brefBbt = Last(BbtRefs) /\ file[1].data.brefNbt = Last(NbtRefs)
    BY WrittenIsFull, TreesSeen DEF InPlace, Header
  <2>6. Reads(Seen, "BBT", file[1].data.brefBbt.ib, BbtEntries)
    <3>1. BbtPages = PageCount(Len(BbtEntries), BbtLeafMax)
      BY <2>3 DEF BbtPages
    <3>2. Reads(Seen, "BBT", Last(BbtRefs).ib, BbtEntries)
      <4>1. /\ BbtLeafMax \in Nat \ {0} /\ Len(BbtEntries) <= BbtLeafMax * BtMax
            /\ Len(BbtRefs) = PageCount(Len(BbtEntries), BbtLeafMax)
        BY <2>3, <2>4, <2>5, <3>1, SizesAssumption
      <4>2. \A i \in 1..PageCount(Len(BbtEntries), BbtLeafMax) :
              /\ BbtRefs[i].ib \in DOMAIN Seen
              /\ Seen[BbtRefs[i].ib] = TreePages("BBT", BbtEntries, BbtLeafMax, BbtRefs)[i]
        BY <2>5, <3>1 DEF BbtTree
      <4> QED BY ONLY <2>3, <4>1, <4>2, TreeReads
    <3> QED BY <2>5, <3>2
  <2>7. Reads(Seen, "NBT", file[1].data.brefNbt.ib, NbtEntries)
    <3>1. NbtPages = PageCount(Len(NbtEntries), NbtLeafMax)
      BY <2>3 DEF NbtPages
    <3>2. Reads(Seen, "NBT", Last(NbtRefs).ib, NbtEntries)
      <4>1. /\ NbtLeafMax \in Nat \ {0} /\ Len(NbtEntries) <= NbtLeafMax * BtMax
            /\ Len(NbtRefs) = PageCount(Len(NbtEntries), NbtLeafMax)
        BY <2>3, <2>4, <2>5, <3>1, SizesAssumption
      <4>2. \A i \in 1..PageCount(Len(NbtEntries), NbtLeafMax) :
              /\ NbtRefs[i].ib \in DOMAIN Seen
              /\ Seen[NbtRefs[i].ib] = TreePages("NBT", NbtEntries, NbtLeafMax, NbtRefs)[i]
        BY <2>5, <3>1 DEF NbtTree
      <4> QED BY ONLY <2>3, <4>1, <4>2, TreeReads
    <3> QED BY <2>5, <3>2
  <2> DEFINE reads(tree, root, entries) ==
               LET keys == {entries[i].key : i \in DOMAIN entries}
               IN  /\ \A i \in DOMAIN entries :
                        Find(Seen, tree, root, entries[i].key) = <<entries[i]>>
                   /\ \A k \in {key + d : key \in keys, d \in {-1, 1}} \ keys :
                        Find(Seen, tree, root, k) = <<>>
                   /\ ForEach(Seen, tree, root) = SortedByKey(entries)
  <2>8. ASSUME NEW tree, NEW root, NEW entries, Keyed(entries), Reads(Seen, tree, root, entries)
        PROVE  reads(tree, root, entries)
    <3> DEFINE keys == {entries[i].key : i \in DOMAIN entries}
    <3>1. keys \subseteq Int
      <4>1. DOMAIN entries = 1..Len(entries) /\ \A i \in 1..Len(entries) : entries[i].key \in Nat
        BY <2>8, Vector DEF Keyed
      <4> QED BY <4>1
    <3>2. ASSUME NEW k \in {key + d : key \in keys, d \in {-1, 1}} \ keys
          PROVE  Find(Seen, tree, root, k) = <<>>
      <4>1. k \in Int \ keys
        <5> HIDE DEF keys
        <5> QED BY <3>1
      <4> QED BY <2>8, <4>1 DEF Reads
    <3> QED BY <2>8, <3>2 DEF Reads
  <2>9. /\ reads("NBT", file[1].data.brefNbt.ib, NbtEntries)
        /\ reads("BBT", file[1].data.brefBbt.ib, BbtEntries)
    <3> HIDE DEF reads
    <3> QED BY <2>3, <2>6, <2>7, <2>8
  <2>10. reads("BBT", file[1].data.brefBbt.ib, bbt)
    <3> HIDE DEF reads, bbt
    <3> QED BY <2>2, <2>9
  <2> QED BY <2>9, <2>10 DEF Readable, Seen
<1> QED BY <1>1, Invariance, SourcedAlways, PTL

-----------------------------------------------------------------------------

\* What pst_info finds under the root of a tree that is in its places: pages
\* of the tree, in its leaves only entries of the tree, and all of them as long
\* as the tree has room for them.
UnderRoot(entries, max, refs) ==
  LET root == Last(refs).ib
  IN  /\ \A ib \in Children(TreePage(root)) :
           \E i \in 1..PageCount(Len(entries), max) : ib = refs[i].ib
      /\ \A ib \in LeavesUnder(root) : \A e \in ToSet(TreePage(ib).entries) :
           \E j \in 1..Len(entries) : e = entries[j]
      /\ Len(entries) <= max * BtMax =>
           \A j \in 1..Len(entries) :
             \E ib \in LeavesUnder(root) : entries[j] \in ToSet(TreePage(ib).entries)

\* The pages of a tree are where it has its places.
TreeInPlace(tree, entries, max, refs) ==
  /\ Len(refs) = PageCount(Len(entries), max)
  /\ \A i \in 1..PageCount(Len(entries), max) :
       TreePage(refs[i].ib) = TreePages(tree, entries, max, refs)[i]

(***************************************************************************)
(* A tree whose pages are all in their places is found whole.              *)
(***************************************************************************)
LEMMA TreeUnder ==
  ASSUME NEW tree, NEW entries, IsVector(entries),
         \A i \in 1..Len(entries) : entries[i].key \in Nat,
         NEW max \in Nat \ {0}, NEW refs, TreeInPlace(tree, entries, max, refs)
  PROVE  UnderRoot(entries, max, refs)
<1> DEFINE n == Len(entries)
           m == LeafCount(n, max)
           c == PageCount(n, max)
           s == SortedByKey(entries)
           pages == TreePages(tree, entries, max, refs)
           leaves == LeavesOf(tree, entries, max, refs)
           root == Last(refs).ib
<1>1. n \in Nat
  BY Vector
<1>2. /\ IsVector(s) /\ Len(s) = n
      /\ \A k \in 1..n : \E i \in 1..n : s[k] = entries[i]
      /\ \A i \in 1..n : \E k \in 1..n : s[k] = entries[i]
  BY SortedAnyway
<1>3. /\ m \in Nat \ {0} /\ IsVector(leaves) /\ Len(leaves) = m
      /\ \A i \in 1..m : pages[i] = leaves[i]
      /\ m = 1 => c = 1
      /\ m # 1 => c = m + 1 /\ pages[m + 1] = Intermediate(tree, leaves, Last(refs))
  <2>1. Len(entries) \in Nat /\ max \in Nat \ {0}
    BY <1>1
  <2> QED BY ONLY <2>1, TreeShape
<1>4. \A i \in 1..m : /\ leaves[i].level = 0 /\ leaves[i].ref = refs[i]
                      /\ leaves[i].entries = LeafShare(s, max, i)
  BY DEF Leaf, LeavesOf
<1>5. /\ \A i \in 1..m : \A e \in ToSet(LeafShare(s, max, i)) : \E q \in 1..n : e = s[q]
      /\ \A q \in 1..n : \E i \in 1..m : s[q] \in ToSet(LeafShare(s, max, i))
      /\ n # 0 => \A i \in 1..m : LeafShare(s, max, i) # <<>>
  <2>1. IsVector(s) /\ Len(s) = n
    BY <1>2
  <2> HIDE DEF s, n
  <2> QED BY <2>1, SharesCover DEF m
<1>6. \A i \in 1..c : TreePage(refs[i].ib) = pages[i]
  BY DEF TreeInPlace
<1>7. root = refs[c].ib
  BY DEF Last, TreeInPlace
<1>8. m # 1 => n # 0
  BY DEF LeafCount
<1>9. n # 0 /\ n <= max * BtMax => m <= BtMax
  <2> HIDE DEF n
  <2> QED BY <1>1, LeavesFit DEF m
<1> HIDE DEF n, m, c, s, pages, leaves, root
<1>10. \A i \in 1..m : i \in 1..c /\ TreePage(refs[i].ib) = leaves[i]
  <2>1. \A i \in 1..m : i \in 1..c
    BY <1>3
  <2> QED BY <1>3, <1>6, <2>1
<1>11. ASSUME NEW i \in 1..m, NEW e \in ToSet(TreePage(refs[i].ib).entries)
       PROVE  \E j \in 1..n : e = entries[j]
  <2>1. PICK q \in 1..n : e = s[q]
    BY <1>4, <1>5, <1>10, <1>11
  <2> QED BY <1>2, <2>1
<1>12. ASSUME NEW j \in 1..n
       PROVE  \E i \in 1..m : entries[j] \in ToSet(TreePage(refs[i].ib).entries)
  <2>1. PICK q \in 1..n : s[q] = entries[j]
    BY <1>2
  <2> QED BY <1>4, <1>5, <1>10, <2>1
<1>13. CASE m = 1
  <2>1. c = 1 /\ root = refs[1].ib /\ TreePage(root).level = 0
    BY <1>3, <1>4, <1>7, <1>10, <1>13
  <2>2. Children(TreePage(root)) = {} /\ LeavesUnder(root) = {refs[1].ib}
    BY <2>1 DEF Children, LeavesUnder
  <2>3. ASSUME NEW ib \in LeavesUnder(root), NEW e \in ToSet(TreePage(ib).entries)
        PROVE  \E j \in 1..n : e = entries[j]
    <3>1. 1 \in 1..m /\ e \in ToSet(TreePage(refs[1].ib).entries)
      BY <1>13, <2>2
    <3> QED BY <1>11, <3>1
  <2>4. \A j \in 1..n : \E ib \in LeavesUnder(root) : entries[j] \in ToSet(TreePage(ib).entries)
    BY <1>12, <1>13, <2>2
  <2> QED BY <2>2, <2>3, <2>4 DEF n, c, root, UnderRoot
<1>14. CASE m # 1
  <2> DEFINE page == TreePage(root)
             M == {i \in 1..m : i <= BtMax}
  <2>1. page = Intermediate(tree, leaves, Last(refs))
    BY <1>3, <1>6, <1>7, <1>14
  <2>2. \A i \in 1..Len(leaves) : leaves[i].entries # <<>>
    BY <1>3, <1>4, <1>5, <1>8, <1>14
  <2>3. /\ page.level = 1
        /\ page.entries = [i \in M |-> [key |-> BtKey(leaves[i]), ref |-> leaves[i].ref]]
    <3> HIDE DEF page
    <3> QED BY <1>3, <2>1, <2>2, ChildrenListed
  <2> HIDE DEF page
  <2>4. Children(page) = {e.ref.ib : e \in ToSet(page.entries)}
    BY <2>3 DEF Children
  <2>5. ToSet(page.entries) = {page.entries[i] : i \in M}
    BY <2>3 DEF ToSet
  <2>6. \A i \in M : page.entries[i].ref = refs[i]
    BY <1>4, <2>3
  <2>7. Children(page) = {refs[i].ib : i \in M}
    BY <2>4, <2>5, <2>6
  <2>8. LeavesUnder(root) = Children(page)
    BY <2>3 DEF LeavesUnder, page
  <2>9. \A ib \in Children(page) : \E i \in 1..c : ib = refs[i].ib
    BY <1>10, <2>7
  <2>10. \A ib \in LeavesUnder(root) : \A e \in ToSet(TreePage(ib).entries) :
           \E j \in 1..n : e = entries[j]
    BY <1>11, <2>7, <2>8
  <2>11. ASSUME n <= max * BtMax, NEW j \in 1..n
         PROVE  \E ib \in LeavesUnder(root) : entries[j] \in ToSet(TreePage(ib).entries)
    <3>1. PICK i \in 1..m : entries[j] \in ToSet(TreePage(refs[i].ib).entries)
      BY <1>12
    <3>2. i \in M
      <4>1. m <= BtMax
        BY <1>8, <1>9, <1>14, <2>11
      <4> QED BY <1>3, <4>1, BtMaxAssumption
    <3> QED BY <2>7, <2>8, <3>1, <3>2
  <2> QED BY <2>9, <2>10, <2>11 DEF n, c, root, page, UnderRoot
<1> QED BY <1>13, <1>14
(***************************************************************************)
(* All of the plan is in the file exactly when its last piece is, a page   *)
(* that no other is like.                                                  *)
(***************************************************************************)
LEMMA KeptIsFull ==
  ASSUME Inv, Sourced, phase \notin Before
  PROVE  Full <=> \A k \in DOMAIN plan : plan[k].data \in Kept
<1>1. /\ Given /\ plan = Layout /\ PlanShape(plan) /\ DOMAIN plan = 1..Len(plan)
      /\ \A i \in Whole : Rank(i) \in 1..Len(plan) /\ file[i].data = plan[Rank(i)].data
  BY NewFile DEF Inv, InputFits, Sourced, PlanShape
<1>2. ASSUME Full, NEW k \in DOMAIN plan PROVE plan[k].data \in Kept
  <2>1. PICK i \in Whole : Rank(i) = k
    BY <1>1, <1>2, FullFile
  <2> QED BY <1>1, <2>1 DEF Kept
<1>3. ASSUME \A k \in DOMAIN plan : plan[k].data \in Kept PROVE Full
  <2> DEFINE n == Len(plan)
  <2>1. /\ n = Len(blocks) + 2 + Pages /\ Len(blocks) \in Nat /\ Pages \in Nat /\ Pages # 0
        /\ n \in DOMAIN plan
    <3>1. /\ BbtPages \in Nat \ {0} /\ NbtPages \in Nat \ {0} /\ Len(blocks) \in Nat
          /\ Len(Layout) = Len(blocks) + 2 + Pages
      BY <1>1, LayoutNumbers, LayoutPieces
    <3>2. Pages \in Nat /\ Pages # 0
      BY ONLY <3>1 DEF Pages
    <3>3. n = Len(blocks) + 2 + Pages /\ DOMAIN plan = 1..n
      BY <1>1, <3>1
    <3> HIDE DEF n
    <3>4. n \in 1..n
      BY ONLY <3>1, <3>2, <3>3
    <3> QED BY <3>1, <3>2, <3>3, <3>4
  <2>2. plan[n].data.kind = "page"
    <3>1. n \in 3..n /\ n - 2 \notin 1..Len(blocks)
      BY <2>1
    <3> QED BY <1>1, <3>1 DEF PlanShape
  <2>3. PICK i \in Whole : file[i].data = plan[n].data
    BY <1>3, <2>1 DEF Kept
  <2> HIDE DEF n
  <2>4. /\ Rank(i) \in 1..Len(plan) /\ plan[Rank(i)].data = plan[n].data
        /\ n \in 1..Len(plan)
    BY <1>1, <2>1, <2>3
  <2>5. ASSUME NEW k \in 1..Len(plan), plan[k].data.kind = "page"
        PROVE  plan[k].at = plan[k].data.page.ref.ib /\ k \in PageIndices(Layout)
    <3>1. k \in 3..Len(plan)
      <4>1. plan[1].data.kind = "header" /\ plan[2].data.kind = "amap" /\ Len(plan) \in Nat
        BY <1>1 DEF PlanShape
      <4>2. k # 1 /\ k # 2
        BY <2>5, <4>1
      <4> QED BY <4>1, <4>2
    <3> QED BY <1>1, <2>5, <3>1 DEF PlanShape, PageIndices
  <2>6. Layout[Rank(i)].at = Layout[n].at /\ Rank(i) \in PageIndices(Layout)
        /\ n \in PageIndices(Layout)
    BY <1>1, <2>2, <2>4, <2>5
  <2>7. Rank(i) = n
    BY <1>1, <2>6, PagePlaces
  <2> QED BY <2>7 DEF Full, n
<1> QED BY <1>2, <1>3

(***************************************************************************)
(* Each block is where its entry in the block tree says, as long as that.  *)
(***************************************************************************)
LEMMA BlocksCheck ==
  ASSUME Inv, Sourced, phase \notin Before, Full, NEW b \in 1..Len(blocks)
  PROVE  BlockChecks(BbtEntries[b])
<1> DEFINE k == b + 2
<1>1. /\ Given /\ plan = Layout /\ Len(encodedAt) = Len(blocks)
      /\ Len(plan) = Len(blocks) + 2 + Pages /\ Len(blocks) \in Nat /\ Pages \in Nat
      /\ DOMAIN blocks = 1..Len(blocks) /\ DOMAIN file = 1..Len(file)
      /\ encodedAt[b] = BlockIb(b)
  BY NewFile, LayoutPieces, LayoutNumbers DEF Inv, InputFits, Sourced, BlockIb
<1>2. /\ k \in 1..Len(plan) /\ k - 2 = b
      /\ plan[k] = [at |-> BlocksStart, len |-> blocks[b].len,
                    data |-> [kind |-> "block", bid |-> blocks[b].bid]]
  BY <1>1, LayoutPieces
<1> HIDE DEF k
<1>3. PICK i \in Whole : Rank(i) = k
  BY <1>2, FullFile
<1>4. /\ i \in 1..Len(file) /\ file[i].data = plan[k].data /\ file[i].len = plan[k].len
      /\ file[i].ib = Place(plan, k) /\ EndsWithin(file, i)
  BY <1>3, NewFile
<1>5. file[i].data.kind = "block" /\ file[i].len = blocks[b].len /\ file[i].ib = BlockIb(b)
  BY <1>1, <1>2, <1>4 DEF Place
<1>6. file[i].ib + file[i].len <= FileSize
  BY <1>4, FullFile DEF EndsWithin
<1>7. BbtEntries[b].ib = BlockIb(b) /\ BbtEntries[b].cb = blocks[b].len
  BY <1>1 DEF BbtEntries
<1> QED BY <1>1, <1>4, <1>5, <1>6, <1>7 DEF BlockChecks, InFile, At

(***************************************************************************)
(* No two blocks have one place.                                           *)
(***************************************************************************)
LEMMA BlocksApart ==
  ASSUME Given, NEW a \in 1..Len(blocks), NEW b \in 1..Len(blocks), BlockIb(a) = BlockIb(b)
  PROVE  a = b
<1> DEFINE n == Len(blocks)
           o == Offsets(blocks)
<1>1. n \in Nat /\ o \in [1..(n + 1) -> Nat] /\ \A k \in 1..n : o[k + 1] = o[k] + blocks[k].len
  BY LayoutNumbers, OffsetsFacts DEF Given
<1>2. ASSUME NEW c \in 1..n, NEW d \in 1..n, c < d PROVE o[c] < o[d]
  <2>1. c + 1 \in 1..(n + 1) /\ d \in (c + 1)..(n + 1)
    BY <1>1, <1>2
  <2>2. o[c + 1] <= o[d]
    BY <2>1, OffsetsGrow DEF Given
  <2>3. blocks[c].len \in Nat \ {0}
    BY BlockFacts DEF Given
  <2> HIDE DEF o
  <2>4. o[c] \in Nat /\ o[d] \in Nat /\ o[c + 1] = o[c] + blocks[c].len
    <3>1. c \in 1..(n + 1) /\ d \in 1..(n + 1)
      BY <1>1
    <3> HIDE DEF n
    <3> QED BY <1>1, <1>2, <3>1
  <2> QED BY ONLY <2>2, <2>3, <2>4
<1>3. o[a] = o[b] /\ o[a] \in Nat /\ o[b] \in Nat /\ a \in Nat /\ b \in Nat
  <2>1. o[a] = o[b]
    BY DEF BlockIb
  <2>2. a \in Nat /\ b \in Nat /\ a \in 1..(n + 1) /\ b \in 1..(n + 1)
    BY <1>1
  <2> HIDE DEF n, o
  <2> QED BY ONLY <1>1, <2>1, <2>2
<1> HIDE DEF n, o
<1>4. ~(a < b) /\ ~(b < a)
  <2>1. a \in 1..n /\ b \in 1..n
    BY DEF n
  <2>2. a < b => o[a] < o[b]
    BY <1>2, <2>1
  <2>3. b < a => o[b] < o[a]
    BY <1>2, <2>1
  <2> QED BY ONLY <1>3, <2>2, <2>3
<1> QED BY ONLY <1>3, <1>4

(***************************************************************************)
(* A block in the file is one of the call's, in its place.                 *)
(***************************************************************************)
LEMMA BlockOfCall ==
  ASSUME Inv, Sourced, phase \notin Before,
         NEW i \in DOMAIN file, file[i].data.kind = "block"
  PROVE  \E b \in 1..Len(blocks) :
           file[i].data.bid = blocks[b].bid /\ file[i].ib = BlockIb(b)
<1>1. /\ PlanShape(plan) /\ Len(encodedAt) = Len(blocks) /\ Given
      /\ \A b \in 1..Len(encodedAt) : encodedAt[b] = BlockIb(b)
  BY NewFile DEF Inv, InputFits, Sourced, BlockIb
<1>2. i \in Whole
  BY DEF Whole
<1> DEFINE k == Rank(i)
<1>3. k \in 1..Len(plan) /\ file[i].data = plan[k].data /\ file[i].ib = Place(plan, k)
  BY <1>2, NewFile
<1> HIDE DEF k
<1>4. k \in 3..Len(plan)
  <2>1. k # 1 /\ k # 2
    BY <1>1, <1>3 DEF PlanShape
  <2> QED BY <1>3, <2>1
<1>5. k - 2 \in 1..Len(blocks) /\ plan[k].data.bid = blocks[k - 2].bid
  BY <1>1, <1>3, <1>4 DEF PlanShape
<1>6. file[i].ib = BlockIb(k - 2)
  BY <1>1, <1>3, <1>5 DEF Place
<1> QED BY <1>3, <1>5, <1>6

(***************************************************************************)
(* What pst_info walks as the payload of a data block is the payload of    *)
(* that block.                                                             *)
(***************************************************************************)
LEMMA NothingElseWalked ==
  ASSUME Inv, Sourced, phase \notin Before, ~TakenForHeap, NEW root,
         \A ib \in LeavesUnder(root) : \A e \in ToSet(TreePage(ib).entries) :
           \E j \in 1..Len(blocks) : e = BbtEntries[j]
  PROVE  LtpChecks(root)
<1> SUFFICES ASSUME NEW ib \in LeavesUnder(root), NEW e \in ToSet(TreePage(ib).entries),
                    IsData(e.key), NEW i \in At(e.ib), file[i].data.kind = "block",
                    WalkFails(call, file[i].data.bid)
             PROVE  FALSE
  BY DEF LtpChecks
<1>1. PICK j \in 1..Len(blocks) : e = BbtEntries[j]
  OBVIOUS
<1>2. Given /\ DOMAIN blocks = 1..Len(blocks)
  BY LayoutNumbers, NewFile DEF Inv, InputFits
<1>3. e.key = blocks[j].bid /\ e.ib = BlockIb(j)
  BY <1>1, <1>2 DEF BbtEntries
<1>4. i \in DOMAIN file /\ file[i].ib = BlockIb(j)
  BY <1>3 DEF At
<1>5. PICK b \in 1..Len(blocks) : file[i].data.bid = blocks[b].bid /\ file[i].ib = BlockIb(b)
  BY <1>4, BlockOfCall
<1>6. b = j
  BY <1>2, <1>4, <1>5, BlocksApart
<1> QED BY <1>2, <1>3, <1>5, <1>6 DEF TakenForHeap

(***************************************************************************)
(* What writeM5Pst's callers owe it: a subnode tree that a node names is   *)
(* among the blocks.                                                       *)
(***************************************************************************)
SubnodesGiven ==
  call.entry = "M5" =>
    \A i \in DOMAIN call.nodes :
      \/ call.nodes[i].bidSub = 0
      \/ \E b \in DOMAIN call.blocks : call.blocks[b].bid = call.nodes[i].bidSub

(***************************************************************************)
(* The trees of a file that has all of its plan pass, and so do the data   *)
(* blocks.                                                                 *)
(***************************************************************************)
LEMMA TreesCheck ==
  ASSUME Inv, Sourced, SubnodesGiven, ~TakenForHeap, phase \notin Before, Full
  PROVE  LET bbt == Last(BbtRefs).ib
             nbt == Last(NbtRefs).ib
         IN  /\ PageChecks(bbt) /\ PageChecks(nbt)
             /\ BbtChecks(bbt) /\ NbtChecks(nbt, AllBbtBids(bbt)) /\ LtpChecks(bbt)
<1> DEFINE bbt == Last(BbtRefs).ib
           nbt == Last(NbtRefs).ib
<1>1. Given /\ Taken /\ ~TooManyEntries
  <2>1. phase \in Planned /\ phase \notin {"call", "refused"}
    BY NewFile DEF Before
  <2> QED BY <2>1 DEF Inv, InputFits, Sourced
<1>2. /\ IsVector(BbtEntries) /\ Len(BbtEntries) = Len(blocks)
      /\ \A i \in 1..Len(blocks) : BbtEntries[i].key = blocks[i].bid /\ BbtEntries[i].key \in Nat
      /\ IsVector(NbtEntries) /\ Len(NbtEntries) = Len(nodes)
      /\ \A i \in 1..Len(nodes) : /\ NbtEntries[i].key \in Nat
                                  /\ NbtEntries[i].bidSub = nodes[i].bidSub
  BY <1>1, EntryFacts
<1>3. /\ Len(blocks) \in Nat /\ Len(nodes) \in Nat
      /\ DOMAIN blocks = 1..Len(blocks) /\ DOMAIN nodes = 1..Len(nodes)
      /\ BbtPages \in Nat \ {0} /\ NbtPages \in Nat \ {0}
  BY <1>1, LayoutNumbers DEF Given
<1>4. /\ \A i \in 1..BbtPages : PageChecks(BbtRefs[i].ib) /\ TreePage(BbtRefs[i].ib) = BbtTree[i]
      /\ \A i \in 1..NbtPages : PageChecks(NbtRefs[i].ib) /\ TreePage(NbtRefs[i].ib) = NbtTree[i]
      /\ Len(BbtRefs) = BbtPages /\ Len(NbtRefs) = NbtPages
  BY TreesSeen DEF InPlace
<1>5. PageChecks(bbt) /\ PageChecks(nbt)
  <2>1. bbt = BbtRefs[BbtPages].ib /\ nbt = NbtRefs[NbtPages].ib
    BY <1>4 DEF Last
  <2> QED BY <1>3, <1>4, <2>1
<1>6. UnderRoot(BbtEntries, BbtLeafMax, BbtRefs) /\ UnderRoot(NbtEntries, NbtLeafMax, NbtRefs)
  <2>1. /\ BbtPages = PageCount(Len(BbtEntries), BbtLeafMax)
        /\ NbtPages = PageCount(Len(NbtEntries), NbtLeafMax)
    BY <1>2 DEF BbtPages, NbtPages
  <2>2. TreeInPlace("BBT", BbtEntries, BbtLeafMax, BbtRefs)
    BY <1>4, <2>1 DEF BbtTree, TreeInPlace
  <2>3. TreeInPlace("NBT", NbtEntries, NbtLeafMax, NbtRefs)
    BY <1>4, <2>1 DEF NbtTree, TreeInPlace
  <2>4. /\ \A i \in 1..Len(BbtEntries) : BbtEntries[i].key \in Nat
        /\ \A i \in 1..Len(NbtEntries) : NbtEntries[i].key \in Nat
        /\ BbtLeafMax \in Nat \ {0} /\ NbtLeafMax \in Nat \ {0}
    BY <1>2, SizesAssumption
  <2>5. UnderRoot(BbtEntries, BbtLeafMax, BbtRefs)
    BY <1>2, <2>2, <2>4, TreeUnder
  <2>6. UnderRoot(NbtEntries, NbtLeafMax, NbtRefs)
    BY <1>2, <2>3, <2>4, TreeUnder
  <2> QED BY <2>5, <2>6
<1>7. /\ \A ib \in Children(TreePage(bbt)) : \E i \in 1..BbtPages : ib = BbtRefs[i].ib
      /\ \A ib \in LeavesUnder(bbt) : \A e \in ToSet(TreePage(ib).entries) :
           \E j \in 1..Len(blocks) : e = BbtEntries[j]
      /\ Len(blocks) <= BbtLeafMax * BtMax =>
           \A j \in 1..Len(blocks) :
             \E ib \in LeavesUnder(bbt) : BbtEntries[j] \in ToSet(TreePage(ib).entries)
      /\ \A ib \in LeavesUnder(nbt) : \A e \in ToSet(TreePage(ib).entries) :
           \E j \in 1..Len(nodes) : e = NbtEntries[j]
  BY <1>2, <1>6 DEF UnderRoot, BbtPages
<1> HIDE DEF bbt, nbt
<1>8. BbtChecks(bbt)
  <2>1. \A ib \in Children(TreePage(bbt)) : PageChecks(ib)
    BY <1>4, <1>7
  <2>2. \A ib \in LeavesUnder(bbt) : \A e \in ToSet(TreePage(ib).entries) : BlockChecks(e)
    BY <1>7, BlocksCheck
  <2> QED BY <2>1, <2>2 DEF BbtChecks
<1>9. ASSUME NEW j \in 1..Len(nodes)
      PROVE  nodes[j].bidSub = 0 \/ nodes[j].bidSub \in AllBbtBids(bbt)
  <2>1. call.entry = "M5" /\ nodes = call.nodes /\ blocks = call.blocks
    <3>1. nodes # <<>>
      BY <1>3, <1>9
    <3> QED BY <1>1, <3>1 DEF Taken
  <2>2. Len(blocks) <= BbtLeafMax * BtMax
    <3> DEFINE X == BbtLeafMax * BtMax
    <3>1. X \in Nat
      BY ONLY SizesAssumption, BtMaxAssumption
    <3>2. ~(Len(blocks) > X)
      BY <1>1, <2>1 DEF TooManyEntries
    <3> HIDE DEF X
    <3>3. Len(blocks) <= X
      BY ONLY <1>3, <3>1, <3>2
    <3> QED BY <3>3 DEF X
  <2>3. CASE nodes[j].bidSub = 0
    BY <2>3
  <2>4. CASE nodes[j].bidSub # 0
    <3>1. PICK b \in 1..Len(blocks) : blocks[b].bid = nodes[j].bidSub
      BY <1>3, <2>1, <2>4 DEF SubnodesGiven
    <3>2. PICK ib \in LeavesUnder(bbt) : BbtEntries[b] \in ToSet(TreePage(ib).entries)
      BY <1>7, <2>2
    <3>3. BbtEntries[b].key = nodes[j].bidSub
      BY <1>2, <3>1
    <3> QED BY <3>2, <3>3 DEF AllBbtBids
  <2> QED BY <2>3, <2>4
<1>10. NbtChecks(nbt, AllBbtBids(bbt))
  <2> SUFFICES ASSUME NEW ib \in LeavesUnder(nbt), NEW e \in ToSet(TreePage(ib).entries)
               PROVE  e.bidSub = 0 \/ e.bidSub \in AllBbtBids(bbt)
    BY DEF NbtChecks
  <2>1. PICK j \in 1..Len(nodes) : e = NbtEntries[j]
    BY <1>7
  <2> QED BY <1>2, <1>9, <2>1
<1>11. LtpChecks(bbt)
  BY <1>7, NothingElseWalked
<1> QED BY <1>5, <1>8, <1>10, <1>11 DEF bbt, nbt

(***************************************************************************)
(* pst_info passes a file that has all of its plan and no payload that it  *)
(* takes for a damaged heap ...                                            *)
(***************************************************************************)
LEMMA FullPasses ==
  ASSUME Inv, Sourced, SubnodesGiven, ~TakenForHeap, phase \notin Before, Full
  PROVE  PstInfoPasses
<1>1. /\ PlanShape(plan) /\ PlanMeets(plan) /\ plan = Layout /\ Given
      /\ DOMAIN file = 1..Len(file) /\ Len(plan) \in Nat /\ Len(plan) >= 2
  BY NewFile DEF Inv, InputFits, Sourced, PlanShape
<1>2. /\ plan[1].at = 0 /\ plan[1].len = HeaderSize /\ plan[1].data = Header
      /\ plan[2].at = IbAMap /\ plan[2].len = PageSize /\ plan[2].data.kind = "amap"
  BY <1>1, LayoutPieces
<1>3. file[1].data = Header
  BY TreesSeen
<1>4. /\ Header.kind = "header" /\ Header.brefBbt = Last(BbtRefs)
      /\ Header.brefNbt = Last(NbtRefs) /\ Header.ibAMapLast = IbAMap
  BY DEF Header
<1>5. FileSize = Header.ibFileEof
  BY <1>1, <1>2, FullFile, PlanEnds
<1>6. FileSize >= HeaderSize
  <2>1. 1 \in 1..Len(plan)
    BY <1>1
  <2>2. End(plan, 1) = HeaderSize
    BY <1>2, <1>4, SizesAssumption DEF End, Place
  <2>3. End(plan, 1) <= End(plan, Len(plan)) /\ End(plan, Len(plan)) \in Nat
    BY <1>1, <2>1, PlanEnds
  <2>4. FileSize = End(plan, Len(plan))
    BY FullFile
  <2> QED BY <2>2, <2>3, <2>4, SizesAssumption
<1>7. PageChecks(IbAMap)
  <2>1. 2 \in 1..Len(plan)
    BY <1>1
  <2>2. PICK i \in Whole : Rank(i) = 2
    BY <2>1, FullFile
  <2>3. /\ i \in 1..Len(file) /\ file[i].data = plan[2].data /\ file[i].len = PageSize
        /\ file[i].ib = Place(plan, 2) /\ EndsWithin(file, i)
    BY <1>2, <2>2, NewFile
  <2>4. file[i].ib = IbAMap /\ file[i].data.kind = "amap"
    BY <1>2, <2>3 DEF Place
  <2>5. IbAMap + PageSize <= FileSize
    BY <2>3, <2>4, FullFile DEF EndsWithin
  <2>6. i \in PagesAt(IbAMap)
    BY <1>1, <2>3, <2>4 DEF PagesAt, At
  <2> QED BY <2>5, <2>6 DEF PageChecks, InFile
<1>8. /\ PageChecks(Last(BbtRefs).ib) /\ PageChecks(Last(NbtRefs).ib)
      /\ BbtChecks(Last(BbtRefs).ib)
      /\ NbtChecks(Last(NbtRefs).ib, AllBbtBids(Last(BbtRefs).ib))
      /\ LtpChecks(Last(BbtRefs).ib)
  BY TreesCheck
<1> QED BY <1>3, <1>4, <1>5, <1>6, <1>7, <1>8 DEF PstInfoPasses

(***************************************************************************)
(* ... and no other: its header tells where the file is to end, which only *)
(* the last piece reaches.                                                 *)
(***************************************************************************)
LEMMA PassingIsFull ==
  ASSUME Inv, phase \notin Before, PstInfoPasses
  PROVE  Full
<1> DEFINE n == Len(file)
<1>1. /\ PlanShape(plan) /\ PlanMeets(plan) /\ n \in Nat /\ DOMAIN file = 1..n
      /\ Whole = WholeOf(file) /\ \A i : Rank(i) = RankOf(file, i)
      /\ \A i \in 1..n : EndsWithin(file, i)
  BY NewFile
<1>2. FileSize >= HeaderSize /\ file[1].data.kind = "header" /\ file[1].data.ibFileEof = FileSize
  BY DEF PstInfoPasses
<1>3. file # <<>> /\ n # 0
  <2>1. file # <<>>
    BY <1>2, SizesAssumption DEF FileSize
  <2>2. FileFits(file)
    BY NewFile
  <2> QED BY <2>1, <2>2 DEF FileFits
<1>4. 1 \in Whole
  BY <1>1, <1>2, <1>3 DEF Whole
<1>5. file[1].data = plan[1].data
  BY <1>4, HeaderFirst
<1>6. FileSize = End(plan, Len(plan))
  BY <1>1, <1>2, <1>5, PlanEnds
<1>7. file[n].ib + file[n].len = End(plan, Len(plan)) /\ n \in 1..n
  BY <1>1, <1>3, <1>6 DEF FileSize, Last
<1>8. n \in WholeOf(file) /\ RankOf(file, n) = Len(plan)
  BY <1>1, <1>7 DEF EndsWithin
<1> QED BY <1>1, <1>8 DEF Full

(***************************************************************************)
(* Once the file has been opened and the call has returned, pst_info       *)
(* passes no file that lacks a piece of the plan, wherever the writing     *)
(* stopped and whatever fclose lost, and every file that has them all and  *)
(* no payload that is taken for a damaged heap; for any number of blocks   *)
(* and nodes and all sizes, as long as the subnode trees that nodes name   *)
(* are among the blocks.                                                   *)
(***************************************************************************)
THEOREM PstInfoTells == Spec => [](SubnodesGiven => InspectorTells)
<1>1. Inv /\ Sourced => (SubnodesGiven => InspectorTells)
  <2> SUFFICES ASSUME Inv, Sourced, SubnodesGiven, phase \in Outcomes \ {"refused", "fopen failed"}
               PROVE  /\ PstInfoPasses => Complete
                      /\ Complete /\ ~TakenForHeap => PstInfoPasses
    BY DEF InspectorTells
  <2>1. phase \notin Before
    BY DEF Outcomes, Before
  <2>2. Full <=> Complete
    BY <2>1, KeptIsFull DEF Complete
  <2>3. Full /\ ~TakenForHeap => PstInfoPasses
    BY <2>1, FullPasses
  <2>4. PstInfoPasses => Full
    BY <2>1, PassingIsFull
  <2> QED BY <2>2, <2>3, <2>4
<1> QED BY <1>1, Invariance, SourcedAlways, PTL

=============================================================================
