--------------------------- MODULE MCTableContext ---------------------------
(***************************************************************************)
(* Instances of TableContext: two tables with columns out of tag order, a  *)
(* column of two bytes, and a block that holds two or three rows.          *)
(***************************************************************************)
EXTENDS TableContext

Col(tag, ib, cb, bit) == [tag |-> tag, ib |-> ib, cb |-> cb, bit |-> bit]

\* Row identifier, row version, a name, a flag; with a second cell of
\* variable size, a word and a flag.
NarrowSchema ==
    <<Col(9, 0, 4, 0), Col(10, 4, 4, 1), Col(5, 8, 4, 2), Col(3, 12, 1, 3)>>
WideSchema ==
    <<Col(9, 0, 4, 0), Col(10, 4, 4, 1), Col(5, 12, 4, 3), Col(2, 8, 4, 2),
      Col(7, 16, 2, 5), Col(4, 18, 1, 4)>>

MCSchemas == {NarrowSchema, WideSchema}

\* The tables a store is written with, in blocks of the size it has.
Stored  == INSTANCE TableSchemas
Written == INSTANCE TableContext WITH BlockBody <- 8176

Untyped(cs) == [i \in DOMAIN cs |-> Col(cs[i].tag, cs[i].ib, cs[i].cb, cs[i].bit)]

\* What TableContext assumes of a table holds of every one of them.
ASSUME StoredTablesAreLaidOut ==
    \A table \in Stored!Tables : Written!LaidOut(Untyped(Stored!Columns(table)))
=============================================================================
