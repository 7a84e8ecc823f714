---------------------------- MODULE TableContext ----------------------------
(***************************************************************************)
(* Table contexts: buildTableContext (src/src/ltp.cpp) lays out a table in *)
(* a heap (row index, column descriptors, row matrix, one allocation per   *)
(* cell of variable size) and moves the matrix to a subnode when the heap  *)
(* would outgrow a block; pst_info (src/tools/pst_info.cpp) walks such a   *)
(* heap.                                                                   *)
(*                                                                         *)
(* A column is [tag, ib, cb, bit]: its cell takes cb bytes at offset ib of *)
(* every row.  A row as the caller gives it is [id, size, fixed, cells]:   *)
(* fixed[ib] stands for the bytes the caller wrote at ib, cells lists the  *)
(* cells of variable size, each [col, size].  The bytes of a cell are told *)
(* apart by the row and the column they belong to.                         *)
(***************************************************************************)
EXTENDS Heap, RowLayout

CONSTANTS
    Schemas,      \* the tables: sequences of columns
    RowIds,       \* node identifiers, the keys of the rows
    CellSizes,    \* byte lengths of cells of variable size
    FirstNids,    \* what a caller offers for the matrix; 0 forbids the move
    MaxRows       \* bound: rows of a table

VARIABLES
    cols,     \* the table's columns
    rows,     \* the rows gathered, in the order the caller lists them
    phase,    \* where the call stands
    tc        \* the TcResult: [hn, subnodes]

vars == <<cols, rows, phase, tc>>

Refusals == {"invalid_argument", "length_error", "estimator_drift"}

-----------------------------------------------------------------------------
(* buildTableContext, piece by piece. *)

ValidColumns(cs) == cs # <<>> /\ \A i \in DOMAIN cs : cs[i].cb \in {1, 2, 4, 8}

ValidRow(cs, r) ==
    /\ r.size = RowBytes(cs)
    /\ \A j \in DOMAIN r.cells :
          /\ r.cells[j].col \in DOMAIN cs
          /\ cs[r.cells[j].col].cb = 4

SortedRows(rs) ==
    LET rowOrder == SortedIdx([i \in DOMAIN rs |-> [key |-> rs[i].id]])
    IN  [s \in DOMAIN rs |-> rs[rowOrder[s]]]

SortedColumns(cs) ==
    LET colOrder == SortedIdx([i \in DOMAIN cs |-> [key |-> cs[i].tag]])
    IN  [s \in DOMAIN cs |-> cs[colOrder[s]]]

\* The leaf of the row index: identifiers and places in the matrix, from 0.
RowIndex(rs) ==
    [s \in DOMAIN rs |-> [key |-> SortedRows(rs)[s].id, data |-> s - 1]]

CellData(id, col) == [kind |-> "cell", row |-> id, col |-> col]

\* The cells of variable size, row by row, with the place of their slot.
Varlens(cs, rs) ==
    FlattenSeq([s \in DOMAIN rs |->
        LET r == SortedRows(rs)[s]
        IN  [j \in DOMAIN r.cells |->
                [row |-> s, ib |-> cs[r.cells[j].col].ib, size |-> r.cells[j].size,
                 data |-> CellData(r.id, r.cells[j].col)]]])

MatrixSize(cs, rs) == Len(rs) * RowBytes(cs)
TcInfoSize(cs) == 22 + 8 * Len(cs)

\* mutant: the estimate forgets the phantom allocation's entry in the map
EstimateNoPhantom(cs, rs, promoted) ==
    LET cells == Varlens(cs, rs)
        total == 8 + TcInfoSize(cs) + 8 * Len(rs) + TotalSize(cells)
                   + (IF promoted THEN 0 ELSE MatrixSize(cs, rs))
        count == 3 + Len(cells) + (IF promoted THEN 0 ELSE 1)
        end   == ((HnHdrSize + total + 3) \div 4) * 4
    IN  end + PageMapBytes(count)

\* How long the heap would be, computed before it is built.
EstimateHnSize(cs, rs, promoted) ==
    LET cells   == Varlens(cs, rs)
        total   == 8 + TcInfoSize(cs) + 8 * Len(rs) + TotalSize(cells)
                     + (IF promoted THEN 0 ELSE MatrixSize(cs, rs))
        count   == 3 + Len(cells) + (IF promoted THEN 0 ELSE 1)
        raw     == HnHdrSize + total
        aligned == ((raw + 3) \div 4) * 4
    IN  aligned + PageMapBytes(count + IF raw # aligned THEN 1 ELSE 0)

TooLong(cs, rs, promoted) == EstimateHnSize(cs, rs, promoted) > BlockBody

\* The row matrix has to leave the heap; it may, if an identifier is offered.
Overflows(cs, rs) == TooLong(cs, rs, FALSE) /\ rs # <<>>

\* mutant: slots are numbered as if the matrix were still in the heap
SlotAfterMatrix(promote) == 5

FirstVarlenSlot(promote) == IF promote THEN 4 ELSE 5

\* The rows in the order of their identifiers, the slots of their cells of
\* variable size overwritten with heap identifiers.
Matrix(cs, rs, promote) ==
    LET cells == Varlens(cs, rs)
        Slot(s, ib) == {k \in DOMAIN cells : cells[k].row = s /\ cells[k].ib = ib}
    IN  [s \in DOMAIN rs |->
            [ib \in Offsets(cs) |->
                IF Slot(s, ib) = {} THEN SortedRows(rs)[s].fixed[ib]
                ELSE MakeHid(FirstVarlenSlot(promote) + Max(Slot(s, ib)) - 1)]]

MatrixData(cs, rs, promote) == [kind |-> "matrix", rows |-> Matrix(cs, rs, promote)]

TcInfo(cs, rs, promote, first) ==
    [kind |-> "tcinfo", cCols |-> Len(cs) % 256, rgib |-> TcRgib(cs),
     hidRowIndex |-> MakeHid(1),
     hnidRows |-> IF rs = <<>> THEN 0 ELSE IF promote THEN first ELSE MakeHid(4),
     desc |-> SortedColumns(cs)]

Allocations(cs, rs, promote, first) ==
    LET cells == Varlens(cs, rs)
        header == BthHeader(4, 4, 0, IF rs = <<>> THEN 0 ELSE MakeHid(3))
    IN  <<[size |-> 8, data |-> header],
          [size |-> TcInfoSize(cs), data |-> TcInfo(cs, rs, promote, first)],
          [size |-> 8 * Len(rs),
           data |-> [kind |-> "leaf", records |-> RowIndex(rs)]]>>
        \o (IF promote THEN <<>>
            ELSE <<[size |-> MatrixSize(cs, rs), data |-> MatrixData(cs, rs, FALSE)]>>)
        \o [k \in DOMAIN cells |-> [size |-> cells[k].size, data |-> cells[k].data]]

\* mutant: one subnode per row
SubnodePerRow(cs, rs, promote, first) ==
    IF promote
    THEN [s \in DOMAIN rs |-> [nid |-> first, size |-> RowBytes(cs),
                               data |-> MatrixData(cs, rs, TRUE)]]
    ELSE <<>>

Subnodes(cs, rs, promote, first) ==
    IF promote
    THEN <<[nid |-> first, size |-> MatrixSize(cs, rs),
            data |-> MatrixData(cs, rs, TRUE)]>>
    ELSE <<>>

BuildTableContext(cs, rs, first) ==
    LET promote == Overflows(cs, rs)
        hn == BuildHeapOnNode(Allocations(cs, rs, promote, first), "TC", MakeHid(2))
    IN  IF \/ ~ValidColumns(cs)
           \/ first # 0 /\ HidType(first) = 0
           \/ \E i \in DOMAIN rs : ~ValidRow(cs, rs[i])
        THEN [ok |-> FALSE, why |-> "invalid_argument"]
        ELSE IF promote /\ (first = 0 \/ TooLong(cs, rs, TRUE))
        THEN [ok |-> FALSE, why |-> "length_error"]
        ELSE IF hn.size > BlockBody
        THEN [ok |-> FALSE, why |-> "estimator_drift"]
        ELSE [ok |-> TRUE, hn |-> hn, subnodes |-> Subnodes(cs, rs, promote, first)]

(***************************************************************************)
(* What the tables of messaging.cpp and mail.cpp have in common: tags and  *)
(* places of their own, the words behind all wider cells and the bytes     *)
(* behind the words, a bit for every column, few enough columns for their  *)
(* count of eight bits and for a table without rows to fit a block.        *)
(***************************************************************************)
LaidOut(cs) ==
    /\ cs \in Seq([tag : Nat, ib : Nat, cb : Nat, bit : Nat])
    /\ Len(cs) \in 1..255
    /\ \A i \in DOMAIN cs : cs[i].bit < Len(cs)
    /\ \A i, j \in DOMAIN cs :
          /\ i # j => cs[i].tag # cs[j].tag /\ cs[i].ib # cs[j].ib
          /\ cs[j].cb < 4 /\ cs[j].cb < cs[i].cb => cs[i].ib + cs[i].cb <= cs[j].ib
    /\ ~TooLong(cs, <<>>, FALSE)

ASSUME SchemasAssumption == \A cs \in Schemas : LaidOut(cs)

ASSUME RowsAssumption ==
    /\ RowIds \subseteq Nat /\ CellSizes \subseteq Nat /\ FirstNids \subseteq Nat
    /\ MaxRows \in Nat

-----------------------------------------------------------------------------
Init == cols \in Schemas /\ rows = <<>> /\ phase = "gathering" /\ tc = Nothing

\* A caller lists a row: the bytes it wrote (its size may be wrong), and
\* which of the columns have a cell of variable size.
AddRow(id, size, cells) ==
    /\ phase = "gathering" /\ Len(rows) < MaxRows
    /\ \A i \in DOMAIN rows : rows[i].id # id
    /\ rows' = Append(rows, [id |-> id, size |-> size, cells |-> cells,
                             fixed |-> [ib \in Offsets(cols) |-> id]])
    /\ UNCHANGED <<cols, phase, tc>>

Build(first) ==
    LET result == BuildTableContext(cols, rows, first)
    IN  /\ phase = "gathering"
        /\ IF result.ok
           THEN phase' = "built" /\ tc' = [hn |-> result.hn, subnodes |-> result.subnodes]
           ELSE phase' = result.why /\ UNCHANGED tc
        /\ UNCHANGED <<cols, rows>>

Return == phase \in {"built"} \cup Refusals /\ UNCHANGED vars

\* Any of the four-byte columns may have a cell, columns 1 and 2 excepted,
\* which hold the row's identifier and version.
CellLists ==
    LET wide == {i \in DOMAIN cols : i > 2 /\ cols[i].cb = 4}
    IN  UNION {{[j \in DOMAIN order |-> [col |-> order[j], size |-> sizes[order[j]]]] :
                   order \in SetToSeqs(chosen), sizes \in [chosen -> CellSizes]} :
               chosen \in SUBSET wide}

Next ==
    \/ \E id \in RowIds : \E cells \in CellLists : AddRow(id, RowBytes(cols), cells)
    \/ \E id \in RowIds : AddRow(id, RowBytes(cols) + 1, <<>>)
    \/ \E id \in RowIds : AddRow(id, RowBytes(cols), <<[col |-> Len(cols), size |-> 1]>>)
    \/ \E first \in FirstNids : Build(first)
    \/ Return

Spec == Init /\ [][Next]_vars

-----------------------------------------------------------------------------
(* Reading a table: runPstInfo's walk, and a look-up by row and tag. *)

\* walkHnDataBlock: offsets rise and stay below the page map.
SlotsOrdered(h) ==
    \A i \in 1..(h.cAlloc + 1) :
        /\ h.rgib[i] <= h.ibHnpm
        /\ i > 1 => h.rgib[i - 1] <= h.rgib[i]

\* The rows the row index counts; -1 when its header is not as expected.
IndexedRows(info, h) ==
    LET header == ResolveHid(info.hidRowIndex, h)
        l == ResolveHid(header.data.hidRoot, h)
    IN  IF ~header.ok \/ header.size # 8 \/ header.data.kind # "bth" THEN -1
        ELSE IF header.data.cbKey # 4 \/ header.data.cbEnt # 4
                \/ header.data.idxLevels # 0 THEN -1
        ELSE IF HidIndex(header.data.hidRoot) = 0 THEN 0
        ELSE IF ~l.ok \/ l.size % 8 # 0 THEN -1
        ELSE l.size \div 8

\* The checks of a table that pst_info reports as failures.
WalkFails(h) ==
    LET root == ResolveHid(h.root, h)
        info == root.data
        count == IndexedRows(info, h)
        rm == ResolveHid(info.hnidRows, h)
    IN  \/ h.ibHnpm + PageMapBytes(h.cAlloc) > h.size
        \/ ~SlotsOrdered(h)
        \/ ~root.ok \/ root.size < 22 \/ info.kind # "tcinfo"
        \/ root.size # 22 + 8 * info.cCols
        \/ count = -1
        \/ /\ count > 0 /\ info.hnidRows # 0 /\ HidType(info.hnidRows) = 0
           /\ ~rm.ok \/ rm.size # count * info.rgib.endBm

\* The matrix, from the heap or from the subnode hnidRows names.
FoundRows(info) ==
    IF info.hnidRows = 0 THEN <<>>
    ELSE IF HidType(info.hnidRows) = 0
    THEN ResolveHid(info.hnidRows, tc.hn).data.rows
    ELSE tc.subnodes[CHOOSE k \in DOMAIN tc.subnodes :
                        tc.subnodes[k].nid = info.hnidRows].data.rows

FoundInfo == ResolveHid(tc.hn.root, tc.hn).data

\* The bytes at offset ib of the row with the given identifier.
Found(id, ib) ==
    LET info  == FoundInfo
        index == ResolveHid(info.hidRowIndex, tc.hn).data
        recs  == ResolveHid(index.hidRoot, tc.hn).data.records
        k     == CHOOSE i \in DOMAIN recs : recs[i].key = id
    IN  FoundRows(info)[recs[k].data + 1][ib]

-----------------------------------------------------------------------------
TypeOK ==
    /\ cols \in Schemas
    /\ Len(rows) <= MaxRows
    /\ phase \in {"gathering", "built"} \cup Refusals
    /\ tc = Nothing <=> phase # "built"
    /\ tc # Nothing => Len(tc.subnodes) <= 1

(***************************************************************************)
(* Every cell of every row comes back: looked up through the row index,    *)
(* the matrix (in the heap or moved to the subnode) and the cell's own     *)
(* identifier, a cell of variable size holds exactly its bytes, and a      *)
(* fixed one what the caller wrote.                                        *)
(***************************************************************************)
RowsReadBack ==
    tc # Nothing =>
        \A i \in DOMAIN rows : \A c \in DOMAIN cols :
            LET own  == {j \in DOMAIN rows[i].cells : rows[i].cells[j].col = c}
                seen == Found(rows[i].id, cols[c].ib)
                cell == ResolveHid(seen, tc.hn)
            IN  IF own = {} THEN seen = rows[i].fixed[cols[c].ib]
                ELSE LET size == rows[i].cells[CHOOSE j \in own : TRUE].size
                     IN  /\ cell.ok /\ cell.size = size
                         /\ cell.data = IF size = 0 THEN Nothing
                                        ELSE CellData(rows[i].id, c)

(***************************************************************************)
(* The estimate the layout is chosen by is the size that is built: the     *)
(* code's own guard against drift never fires, and a matrix leaves the     *)
(* heap only when the heap with it does not fit a block.                   *)
(***************************************************************************)
EstimateExact ==
    /\ phase # "estimator_drift"
    /\ tc # Nothing =>
         /\ tc.hn.size = EstimateHnSize(cols, rows, tc.subnodes # <<>>)
         /\ tc.hn.size <= BlockBody
         /\ tc.subnodes # <<>> =>
              NeededBytes(Allocations(cols, rows, FALSE, 0)) > BlockBody

(***************************************************************************)
(* pst_info reports no failure for a table that was built (the walk and    *)
(* the builder are written apart), it counts every row, and what it prints *)
(* is a table a reader can use: descriptors in the order of their tags,    *)
(* and the bits of a row behind all of its cells, one for each column.     *)
(***************************************************************************)
WalkAccepts ==
    tc # Nothing =>
        /\ ~WalkFails(tc.hn)
        /\ \A k \in 2..Len(cols) : FoundInfo.desc[k - 1].tag < FoundInfo.desc[k].tag
        /\ \A i \in DOMAIN cols :
              /\ cols[i].ib + cols[i].cb <= FoundInfo.rgib.end1b
              /\ FoundInfo.rgib.end1b * 8 + cols[i].bit < FoundInfo.rgib.endBm * 8
        /\ IndexedRows(FoundInfo, tc.hn) = Len(rows)
=============================================================================
