---------------------------- MODULE TableSchemas ----------------------------
(***************************************************************************)
(* The columns of the tables a store is written with (src/src/messaging.cpp*)
(* and src/src/mail.cpp), and the sizes of row the builders assume of      *)
(* them.  The builders write cells at literal offsets, set bits by literal *)
(* number and name columns by literal position: nothing but these tables   *)
(* says what the literals mean.                                            *)
(***************************************************************************)
EXTENDS RowLayout

C(tag, type, ib, cb, bit) ==
    [tag |-> tag, type |-> type, ib |-> ib, cb |-> cb, bit |-> bit]

\* A folder per row.
kHierarchyCols ==
    <<C(\h0E30, "Binary", 20, 4, 6), C(\h0E33, "Int64", 24, 8, 7),
      C(\h0E34, "Binary", 32, 4, 8), C(\h0E38, "Int32", 36, 4, 9),
      C(\h3001, "Unicode", 8, 4, 2), C(\h3602, "Int32", 12, 4, 3),
      C(\h3603, "Int32", 16, 4, 4), C(\h360A, "Boolean", 52, 1, 5),
      C(\h3613, "Unicode", 40, 4, 10), C(\h6635, "Int32", 44, 4, 11),
      C(\h6636, "Int32", 48, 4, 12), C(\h67F2, "Int32", 0, 4, 0),
      C(\h67F3, "Int32", 4, 4, 1)>>

\* A message per row.
kContentsCols ==
    <<C(\h0017, "Int32", 20, 4, 5), C(\h001A, "Unicode", 12, 4, 3),
      C(\h0036, "Int32", 60, 4, 15), C(\h0037, "Unicode", 28, 4, 7),
      C(\h0039, "SystemTime", 40, 8, 9), C(\h0042, "Unicode", 24, 4, 6),
      C(\h0057, "Boolean", 120, 1, 13), C(\h0058, "Boolean", 121, 1, 14),
      C(\h0070, "Unicode", 68, 4, 17), C(\h0071, "Binary", 72, 4, 18),
      C(\h0E03, "Unicode", 56, 4, 12), C(\h0E04, "Unicode", 52, 4, 11),
      C(\h0E06, "SystemTime", 32, 8, 8), C(\h0E07, "Int32", 16, 4, 4),
      C(\h0E08, "Int32", 48, 4, 10), C(\h0E17, "Int32", 8, 4, 2),
      C(\h0E30, "Binary", 88, 4, 21), C(\h0E33, "Int64", 92, 8, 22),
      C(\h0E34, "Binary", 100, 4, 23), C(\h0E38, "Int32", 112, 4, 26),
      C(\h0E3C, "Binary", 108, 4, 25), C(\h0E3D, "Binary", 104, 4, 24),
      C(\h1097, "Int32", 64, 4, 16), C(\h3008, "SystemTime", 80, 8, 20),
      C(\h3013, "Binary", 116, 4, 27), C(\h65C6, "Int32", 76, 4, 19),
      C(\h67F2, "Int32", 0, 4, 0), C(\h67F3, "Int32", 4, 4, 1)>>

\* Associated items, always empty.
kFaiContentsCols ==
    <<C(\h001A, "Unicode", 12, 4, 3), C(\h003A, "Unicode", 60, 4, 16),
      C(\h0070, "Unicode", 56, 4, 15), C(\h0E07, "Int32", 16, 4, 4),
      C(\h0E17, "Int32", 8, 4, 2), C(\h3001, "Unicode", 20, 4, 5),
      C(\h67F2, "Int32", 0, 4, 0), C(\h67F3, "Int32", 4, 4, 1),
      C(\h6800, "Unicode", 44, 4, 11), C(\h6803, "Boolean", 64, 1, 12),
      C(\h6805, "MvInt32", 48, 4, 13), C(\h682F, "Unicode", 52, 4, 14),
      C(\h7003, "Int32", 24, 4, 6), C(\h7004, "Binary", 28, 4, 7),
      C(\h7005, "Binary", 32, 4, 8), C(\h7006, "Unicode", 36, 4, 9),
      C(\h7007, "Int32", 40, 4, 10)>>

\* A recipient per row; mail.cpp repeats it.
kRecipientCols ==
    <<C(\h0C15, "Int32", 8, 4, 2), C(\h0E0F, "Boolean", 48, 1, 3),
      C(\h0FF9, "Binary", 12, 4, 4), C(\h0FFE, "Int32", 16, 4, 5),
      C(\h0FFF, "Binary", 20, 4, 6), C(\h3001, "Unicode", 24, 4, 7),
      C(\h3002, "Unicode", 28, 4, 8), C(\h3003, "Unicode", 32, 4, 9),
      C(\h300B, "Binary", 36, 4, 10), C(\h3900, "Int32", 40, 4, 11),
      C(\h39FF, "Unicode", 44, 4, 12), C(\h3A40, "Boolean", 49, 1, 13),
      C(\h67F2, "Int32", 0, 4, 0), C(\h67F3, "Int32", 4, 4, 1)>>

\* An attachment per row; mail.cpp repeats it.
kAttachmentCols ==
    <<C(\h0E20, "Int32", 8, 4, 2), C(\h3704, "Unicode", 12, 4, 3),
      C(\h3705, "Int32", 16, 4, 4), C(\h370B, "Int32", 20, 4, 5),
      C(\h67F2, "Int32", 0, 4, 0), C(\h67F3, "Int32", 4, 4, 1)>>

\* mutant: the time overlaps the slots of class and folder
ReceiveFolderOverlap ==
    <<C(\h001A, "Unicode", 8, 4, 2), C(\h3008, "SystemTime", 12, 8, 4),
      C(\h3667, "Binary", 12, 4, 3), C(\h67F2, "Int32", 0, 4, 0),
      C(\h67F3, "Int32", 4, 4, 1)>>

\* Where mail of a class is delivered.
kReceiveFolderCols ==
    <<C(\h001A, "Unicode", 8, 4, 2), C(\h3008, "SystemTime", 16, 8, 4),
      C(\h3667, "Binary", 12, 4, 3), C(\h67F2, "Int32", 0, 4, 0),
      C(\h67F3, "Int32", 4, 4, 1)>>

\* What a search folder would list, always empty.
kSearchContentsCols ==
    <<C(\h0017, "Int32", 20, 4, 5), C(\h001A, "Unicode", 12, 4, 3),
      C(\h0036, "Int32", 60, 4, 15), C(\h0037, "Unicode", 28, 4, 7),
      C(\h0039, "SystemTime", 40, 8, 9), C(\h0042, "Unicode", 24, 4, 6),
      C(\h0057, "Boolean", 128, 1, 13), C(\h0058, "Boolean", 129, 1, 14),
      C(\h0070, "Unicode", 68, 4, 17), C(\h0071, "Binary", 72, 4, 18),
      C(\h0E03, "Unicode", 56, 4, 12), C(\h0E04, "Unicode", 52, 4, 11),
      C(\h0E05, "Unicode", 124, 4, 28), C(\h0E06, "SystemTime", 32, 8, 8),
      C(\h0E07, "Int32", 16, 4, 4), C(\h0E08, "Int32", 48, 4, 10),
      C(\h0E17, "Int32", 8, 4, 2), C(\h0E2A, "Boolean", 130, 1, 30),
      C(\h0E30, "Binary", 88, 4, 21), C(\h0E33, "Int64", 92, 8, 22),
      C(\h0E34, "Binary", 100, 4, 23), C(\h0E38, "Int32", 112, 4, 26),
      C(\h0E3C, "Binary", 108, 4, 25), C(\h0E3D, "Binary", 104, 4, 24),
      C(\h1097, "Int32", 64, 4, 16), C(\h3008, "SystemTime", 80, 8, 20),
      C(\h3013, "Binary", 116, 4, 27), C(\h65C6, "Int32", 76, 4, 19),
      C(\h67F1, "Int32", 120, 4, 29), C(\h67F2, "Int32", 0, 4, 0),
      C(\h67F3, "Int32", 4, 4, 1)>>

-----------------------------------------------------------------------------
(* Sizes of row and places of the existence block, as the builders have    *)
(* them.  Rows of the other tables are never built.                        *)

RowShape(table) ==
    CASE table = "hierarchy"     -> [size |-> 55,  ceb |-> 53]
      [] table = "contents"      -> [size |-> 126, ceb |-> 122]
      [] table = "recipients"    -> [size |-> 52,  ceb |-> 50]
      [] table = "attachments"   -> [size |-> 25,  ceb |-> 24]
      [] table = "receiveFolder" -> [size |-> 25,  ceb |-> 24]

Columns(table) ==
    CASE table = "hierarchy"     -> kHierarchyCols
      [] table = "contents"      -> kContentsCols
      [] table = "associated"    -> kFaiContentsCols
      [] table = "recipients"    -> kRecipientCols
      [] table = "attachments"   -> kAttachmentCols
      [] table = "receiveFolder" -> kReceiveFolderCols
      [] table = "search"        -> kSearchContentsCols

RowTables == {"hierarchy", "contents", "recipients", "attachments", "receiveFolder"}
Tables    == RowTables \cup {"associated", "search"}

IsVariable(type) == type \in {"Unicode", "Binary", "MvInt32"}

-----------------------------------------------------------------------------
(* What a reader of such a table relies on. *)

Bytes(c)      == c.ib .. (c.ib + c.cb - 1)
Region(cs, c) ==
    CASE c.cb \in {4, 8} -> 0 .. (TcRgib(cs).end4b - 1)
      [] c.cb = 2        -> TcRgib(cs).end4b .. (TcRgib(cs).end2b - 1)
      [] c.cb = 1        -> TcRgib(cs).end2b .. (TcRgib(cs).end1b - 1)

\* Columns are listed by tag, their cells share no byte and lie in the region
\* of their width, and every column has a bit of its own.
WellLaidOut(cs) ==
    /\ \A i \in 1..(Len(cs) - 1) : cs[i].tag < cs[i + 1].tag
    /\ \A i, j \in DOMAIN cs : i # j => Bytes(cs[i]) \cap Bytes(cs[j]) = {}
    /\ \A i \in DOMAIN cs : Bytes(cs[i]) \subseteq Region(cs, cs[i])
    /\ {cs[i].bit : i \in DOMAIN cs} = 0 .. (Len(cs) - 1)
    /\ \A i \in DOMAIN cs : IsVariable(cs[i].type) => cs[i].cb = 4
=============================================================================
