------------------------------ MODULE PageTree ------------------------------
(***************************************************************************)
(* The two page trees of a store, the node tree (NBT) and the block tree   *)
(* (BBT): how writeM5Pst splits sorted entries over leaf pages and builds  *)
(* the one page above them, and how nbt.cpp's reader finds an entry again. *)
(* An entry is a record with a "key"; a page is [tree, level, ref,         *)
(* entries], where ref = [bid, ib] stands in the page's trailer.           *)
(***************************************************************************)
EXTENDS Integers, FiniteSets, SequencesExt

CONSTANT BtMax   \* entries of a page above the leaves: 20

ASSUME BtMaxAssumption == BtMax \in Nat

\* The place of the i-th entry in the order of the keys.
PlaceOf(entries, i) ==
  Cardinality({j \in DOMAIN entries : \/ entries[j].key < entries[i].key
                                      \/ entries[j].key = entries[i].key /\ j <= i})

SortedByKey(entries) ==
  [k \in DOMAIN entries |->
    entries[CHOOSE i \in DOMAIN entries : PlaceOf(entries, i) = k]]

\* An empty tree is one empty leaf.
LeafCount(n, max) == IF n = 0 THEN 1 ELSE (n + max - 1) \div max

HasIntermediate(n, max) == LeafCount(n, max) > 1

\* How many pages the tree takes.
PageCount(n, max) ==
  LeafCount(n, max) + (IF HasIntermediate(n, max) THEN 1 ELSE 0)

\* The i-th leaf's share of the sorted entries.
LeafShare(sorted, max, i) ==
  SubSeq(sorted, (i - 1) * max + 1,
         IF i * max < Len(sorted) THEN i * max ELSE Len(sorted))

Leaf(tree, sorted, max, i, ref) ==
  [tree |-> tree, level |-> 0, ref |-> ref, entries |-> LeafShare(sorted, max, i)]

LastKey(leaf) == Last(leaf.entries).key   \* mutant: a child under its largest key
\* A child stands in the page above under its smallest key.
BtKey(leaf) == Head(leaf.entries).key

\* The page above the leaves, which lists the ones with entries, as many as
\* fit.  buildBbtIntermediate drops the others without a word; the NBT's
\* buildBtIntermediate would throw, but no caller lets it come to that.
Intermediate(tree, leaves, ref) ==
  LET filled[i \in 0..Len(leaves)] ==
        IF i = 0 THEN <<>>
        ELSE filled[i - 1] \o (IF leaves[i].entries = <<>> THEN <<>> ELSE <<leaves[i]>>)
      children == filled[Len(leaves)]
  IN  [tree |-> tree, level |-> 1, ref |-> ref,
       entries |-> [i \in {i \in DOMAIN children : i <= BtMax} |->
                     [key |-> BtKey(children[i]), ref |-> children[i].ref]]]

LeavesTwice(tree, entries, max, refs) ==   \* mutant: it is written as a leaf, too
  LET sorted == SortedByKey(entries)
      n      == LeafCount(Len(entries), max)
      leaves == [i \in 1..n |-> Leaf(tree, sorted, max, i, refs[i])]
  IN  IF n = 1 THEN leaves \o leaves
      ELSE Append(leaves, Intermediate(tree, leaves, Last(refs)))

\* The pages of a tree in file order, the root last; refs are their places.
\* A single leaf is the root and is written once.
TreePages(tree, entries, max, refs) ==
  LET sorted == SortedByKey(entries)
      n      == LeafCount(Len(entries), max)
      leaves == [i \in 1..n |-> Leaf(tree, sorted, max, i, refs[i])]
  IN  IF n = 1 THEN leaves
      ELSE Append(leaves, Intermediate(tree, leaves, Last(refs)))

-----------------------------------------------------------------------------

(***************************************************************************)
(* The reader.  PageAt maps each offset at which a page begins to the page *)
(* there, so that an offset outside its domain is one the reader refuses.  *)
(***************************************************************************)

\* fetchAndValidatePage: a page of the tree of at most two levels.
Valid(pageAt, tree, ib) ==
  ib \in DOMAIN pageAt /\ pageAt[ib].tree = tree /\ pageAt[ib].level \in {0, 1}

\* searchLeaf: the first entry under the key, as a sequence of at most one.
SearchLeaf(leaf, key) ==
  LET found == {i \in DOMAIN leaf.entries : leaf.entries[i].key = key}
  IN  IF found = {} THEN <<>> ELSE <<leaf.entries[Min(found)]>>

\* descendIntermediate: the last child before the first whose btkey is above
\* the key.  None if there is no such child.
Descend(page, key) ==
  LET es     == page.entries
      chosen == CHOOSE n \in 0..Len(es) : /\ \A i \in 1..n : es[i].key <= key
                                          /\ n < Len(es) => es[n + 1].key > key
  IN  IF chosen = 0 THEN <<>> ELSE <<es[chosen].ref.ib>>

\* nbtFind: the entry under the key as a sequence of at most one; "throws" for
\* a tree the reader does not accept.
Find(pageAt, tree, rootIb, key) ==
  LET root  == pageAt[rootIb]
      child == Descend(root, key)
  IN  CASE ~Valid(pageAt, tree, rootIb) -> "throws"
        [] Valid(pageAt, tree, rootIb) /\ root.level = 0 -> SearchLeaf(root, key)
        [] OTHER ->
             IF root.entries = <<>> THEN "throws"
             ELSE IF child = <<>> THEN <<>>
             ELSE IF ~Valid(pageAt, tree, child[1]) \/ pageAt[child[1]].level # 0
             THEN "throws"
             ELSE SearchLeaf(pageAt[child[1]], key)

\* nbtForEach: every entry in the order of the pages.
ForEach(pageAt, tree, rootIb) ==
  LET root == pageAt[rootIb]
  IN  IF root.level = 0 THEN root.entries
      ELSE FlattenSeq([i \in DOMAIN root.entries |->
                        pageAt[root.entries[i].ref.ib].entries])

=============================================================================
