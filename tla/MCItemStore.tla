---------------------------- MODULE MCItemStore ----------------------------
(* ItemStore with up to four folders, of which the fourth finds no index   *)
(* and the third no room in the hierarchy table.                           *)
EXTENDS ItemStore

Item(body)  == [kind |-> "item", body |-> body]
NullItem    == [kind |-> "null", body |-> <<>>]
Misfit      == [kind |-> "misfit", body |-> <<>>]
Folder(items) == [parent |-> NID_IPM_SUBTREE, items |-> items]

ShortItem     == Item(<<>>)
LongBodyItem  == Item(<<2>>)

Lists ==
  {<<>>, <<ShortItem>>, <<NullItem, ShortItem>>, <<ShortItem, NullItem, ShortItem>>,
   <<ShortItem, Misfit>>}

MCConfigs ==
  {[omitRft |-> o, folders |-> fs] :
     o \in BOOLEAN,
     fs \in {<<>>} \cup {<<Folder(a)>> : a \in Lists}
            \cup {<<Folder(a), Folder(b)>> : a, b \in Lists}}
  \cup {[omitRft |-> FALSE, folders |-> [i \in 1..n |-> Folder(<<ShortItem>>)]] :
         n \in {3, 4}}

\* An event with a body that does not fit the heap of its PC.
LongBodyConfig == {[omitRft |-> FALSE, folders |-> <<Folder(<<LongBodyItem>>)>>]}

=============================================================================
