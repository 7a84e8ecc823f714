----------------------------- MODULE RowLayout -----------------------------
(***************************************************************************)
(* Where the cells of a table's rows lie.  A column is [tag, ib, cb, bit]: *)
(* its cell takes cb bytes at offset ib of every row, and bit of the row's *)
(* existence block tells whether the cell has a value.  computeTcRgib      *)
(* (src/src/ltp.cpp) derives the ends of the regions of a row.             *)
(***************************************************************************)
EXTENDS Integers, Sequences, FiniteSetsExt

\* The places of a row's cells.
Offsets(cs) == {cs[i].ib : i \in DOMAIN cs}

(* computeTcRgib: where the regions of a row end. *)

Ends(cs, widths) == {cs[i].ib + cs[i].cb : i \in {j \in DOMAIN cs : cs[j].cb \in widths}}

EndOr(ends, default) == IF ends = {} THEN default ELSE Max(ends)

\* mutant: the one-byte cells are forgotten, the bits follow the words
RgibNoBytes(cs) ==
    LET end4b == EndOr(Ends(cs, {4, 8}), 0)
        end2b == EndOr(Ends(cs, {2}), end4b)
    IN  [end4b |-> end4b, end2b |-> end2b, end1b |-> end2b,
         endBm |-> end2b + ((Len(cs) + 7) \div 8)]

TcRgib(cs) ==
    LET end4b == EndOr(Ends(cs, {4, 8}), 0)
        end2b == EndOr(Ends(cs, {2}), end4b)
        end1b == EndOr(Ends(cs, {1}), end2b)
    IN  [end4b |-> end4b, end2b |-> end2b, end1b |-> end1b,
         endBm |-> end1b + ((Len(cs) + 7) \div 8)]

RowBytes(cs) == TcRgib(cs).endBm
=============================================================================
