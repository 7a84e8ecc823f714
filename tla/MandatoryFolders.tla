-------------------------- MODULE MandatoryFolders --------------------------
(***************************************************************************)
(* The folders every store has, whatever its configuration: as writeM6Pst  *)
(* writes them (src/src/messaging.cpp) and as buildPstBaselineEntries does *)
(* for the other writers (src/src/pst_baseline.cpp).  Both spell out each  *)
(* folder's properties, and apart from them the rows of the root folder's  *)
(* hierarchy table.                                                        *)
(***************************************************************************)
EXTENDS Integers, Sequences

MandatoryFolder(nid, parent, name, subfolders) ==
    [id |-> nid, parent |-> parent, name |-> name, subfolders |-> subfolders,
     count |-> 0, unread |-> 0]

\* What is the same in both: all folders but the root.
BelowRoot ==
    {MandatoryFolder(\h2223, \h0122, <<"Spam Search Folder">>, FALSE),
     MandatoryFolder(\h8022, \h0122, <<"Top of Personal Folders">>, TRUE),
     MandatoryFolder(\h8042, \h0122, <<"Search Root">>, FALSE),
     MandatoryFolder(\h8062, \h8022, <<"Deleted Items">>, FALSE)}

\* writeM6Pst, which gives the root no name.
MinimalFolders == {MandatoryFolder(\h0122, \h0122, <<>>, TRUE)} \cup BelowRoot

\* buildPstBaselineEntries, for a store of the given name.
BaselineFolders(display) ==
    {MandatoryFolder(\h0122, \h0122,
            IF display = <<>> THEN <<"Outlook Data File">> ELSE display, TRUE)}
      \cup BelowRoot

\* rootHier, in either.
RootHier ==
    <<[id |-> \h2223, name |-> <<"Spam Search Folder">>, subfolders |-> FALSE],
      [id |-> \h8022, name |-> <<"Top of Personal Folders">>, subfolders |-> TRUE],
      [id |-> \h8042, name |-> <<"Search Root">>, subfolders |-> FALSE]>>

InRootHier(f) == \E i \in DOMAIN RootHier : RootHier[i].id = f.id

HierarchyRowOf(f) ==
    LET r == RootHier[CHOOSE i \in DOMAIN RootHier : RootHier[i].id = f.id]
    IN  [id |-> r.id, name |-> r.name, containerClass |-> <<>>, count |-> 0, unread |-> 0,
         subfolders |-> r.subfolders]

\* The lists agree: a folder has subfolders if one names it as its parent, and
\* the root's table lists just the folders below the root.
ASSUME MandatoryFoldersAssumption ==
    \A folders \in {MinimalFolders, BaselineFolders(<<>>)} : \A f \in folders :
        /\ f.subfolders = \E g \in folders \ {f} : g.parent = f.id
        /\ InRootHier(f) = (f.parent = \h0122 /\ f.id # f.parent)

=============================================================================
