----------------------------- MODULE ObjectRows -----------------------------
(***************************************************************************)
(* An object is written twice: its properties in a property context of its *)
(* own, and a selection of them in a row of the table of its parent.  The  *)
(* two are derived separately from the Graph object (src/src/mail.cpp,     *)
(* contact.cpp, event.cpp) by builders that know the table's columns by    *)
(* literal offset, bit and position (src/src/messaging.cpp, mail.cpp).     *)
(*                                                                         *)
(* A row as built is [cells, ceb, varlen]: what was written at each offset,*)
(* the set of bits of the existence block, and the cells of variable size  *)
(* by position of their column, from 0.                                    *)
(***************************************************************************)
EXTENDS TableSchemas, ObjectProperties, MandatoryFolders, TextConversion, TLC

CONSTANT
    Families         \* the objects written, a sequence of sets of [kind, obj]

VARIABLES
    item,    \* the object
    phase,   \* what has been built of it
    row,     \* its row; <<>> until it is built
    props    \* its properties; <<>> until they are gathered

vars == <<item, phase, row, props>>

-----------------------------------------------------------------------------
(* Rows. *)

On(cond, bit) == IF cond THEN {bit} ELSE {}

\* Cells of variable size that are not empty: <<position, bit, value>>.
Given(list)  == SelectSeq(list, LAMBDA v : v[3] # <<>>)
Cells(list)  == [col \in {Given(list)[i][1] : i \in DOMAIN Given(list)} |->
                    LET i == CHOOSE j \in DOMAIN Given(list) : Given(list)[j][1] = col
                    IN  Given(list)[i][3]]
BitsOf(list) == {Given(list)[i][2] : i \in DOMAIN Given(list)}

\* A literal existence block: bit 0 is the highest of the first byte.
StaticCeb(bytes) ==
    {b \in 0 .. (8 * Len(bytes) - 1) :
        (bytes[(b \div 8) + 1] \div (2 ^ (7 - (b % 8)))) % 2 = 1}

Row(table, cells, ceb, varlen) ==
    [table |-> table, cells |-> cells, ceb |-> ceb, varlen |-> varlen]

\* mutant: the class is put one column too early
HierarchyVarlensEarly(src) == <<<<4, 2, src.name>>, <<7, 10, src.containerClass>>>>

\* buildFolderHierarchyTc.
HierarchyVarlens(src) == <<<<4, 2, src.name>>, <<8, 10, src.containerClass>>>>

HierarchyRow(src) ==
    Row("hierarchy",
        0 :> src.id @@ 4 :> 0 @@ 12 :> src.count @@ 16 :> src.unread
          @@ 52 :> (IF src.subfolders THEN 1 ELSE 0),
        {0, 1, 3, 4, 5} \cup BitsOf(HierarchyVarlens(src)),
        Cells(HierarchyVarlens(src)))

\* buildFolderContentsTc.
ContentsVarlens(src) ==
    <<<<1, 3, src.messageClass>>, <<5, 6, src.sentRepresentingName>>,
      <<3, 7, src.subject>>, <<11, 11, src.displayTo>>, <<10, 12, src.displayCc>>,
      <<8, 17, src.conversationTopic>>, <<9, 18, src.conversationIndex>>,
      <<24, 27, src.changeKey>>>>

\* mutant: bits of values the message may lack are set all the same
ContentsCebStatic(src) ==
    {0, 1, 2, 4, 5, 8, 9, 10, 13, 14, 15, 20} \cup BitsOf(ContentsVarlens(src))

ContentsCeb(src) ==
    {0, 1, 4, 5, 10}
      \cup On(src.messageStatus # 0, 2)  \cup On(src.sensitivity # 0, 15)
      \cup On(src.deliveryTime # 0, 8)   \cup On(src.submitTime # 0, 9)
      \cup On(src.modificationTime # 0, 20)
      \cup On(src.messageToMe, 13)       \cup On(src.messageCcMe, 14)
      \cup BitsOf(ContentsVarlens(src))

ContentsRow(src) ==
    Row("contents",
        0 :> src.id @@ 4 :> src.rowVer @@ 8 :> src.messageStatus
          @@ 16 :> src.messageFlags @@ 20 :> src.importance
          @@ 32 :> src.deliveryTime @@ 40 :> src.submitTime
          @@ 48 :> src.messageSize @@ 60 :> src.sensitivity
          @@ 80 :> src.modificationTime
          @@ 120 :> (IF src.messageToMe THEN 1 ELSE 0)
          @@ 121 :> (IF src.messageCcMe THEN 1 ELSE 0),
        ContentsCeb(src), Cells(ContentsVarlens(src)))

\* buildRecipientTc: row i, of n.  Every bit is set, whatever is empty.
RecipientVarlens(r) ==
    <<<<5, 7, r.name>>, <<6, 8, <<"SMTP">>>>, <<7, 9, r.address>>,
      <<4, 6, OneOffEntryId(r)>>, <<8, 10, SearchKey(r.address)>>,
      <<2, 4, SearchKey(r.address)>>, <<10, 12, r.name>>>>

RecipientRow(r, i) ==
    Row("recipients",
        0 :> i @@ 4 :> i @@ 8 :> r.kind @@ 16 :> 6 @@ 40 :> 0 @@ 48 :> 0 @@ 49 :> 0,
        StaticCeb(<<255, 252>>), Cells(RecipientVarlens(r)))

\* buildAttachmentTc.
AttachmentRow(a, nid) ==
    Row("attachments",
        0 :> nid @@ 4 :> 0 @@ 8 :> Word(a.size) @@ 16 :> AttachMethod(a) @@ 20 :> Word(-1),
        StaticCeb(<<252>>), Cells(<<<<1, 3, a.name>>>>))

\* buildReceiveFolderTableTc: the one row, for messages of any class.
ReceiveFolderRow ==
    Row("receiveFolder", 0 :> 0 @@ 4 :> 1, StaticCeb(<<240>>),
        Cells(<<<<0, 2, <<"nul">>>>, <<2, 3, EntryId(<<"default">>, \h8022)>>>>))

-----------------------------------------------------------------------------
(* What the writers give the row builders. *)

\* The name a row shows for whom a message is from: that of from, else that
\* of the sender.
RepresentingName(m) ==
    IF m.from # <<>> /\ m.from[1].name # <<>> THEN m.from[1].name
    ELSE IF m.sender # <<>> THEN m.sender[1].name ELSE <<>>

Topic(m) == SplitSubject(m.subject).normalized

\* writeM7Pst: the row of a message in the contents of its folder.
MessageRow(m) ==
    ContentsRow(
        [id |-> 4, rowVer |-> 1, messageStatus |-> 0, sensitivity |-> 0,
         messageFlags |-> ComputeMessageFlags(m), importance |-> m.importance,
         messageSize |-> EstimateMessageSize(m),
         deliveryTime |-> Ticks(m.received), submitTime |-> Ticks(m.sent),
         modificationTime |-> Ticks(m.modified),
         messageToMe |-> FALSE, messageCcMe |-> FALSE,
         messageClass |-> <<"IPM.Note">>, subject |-> m.subject,
         sentRepresentingName |-> RepresentingName(m), conversationTopic |-> Topic(m),
         displayTo |-> JoinRecipientDisplay(m.to), displayCc |-> JoinRecipientDisplay(m.cc),
         conversationIndex |-> m.conversationIndex, changeKey |-> <<>>])

\* The row of a folder in the hierarchy of the folder above it: only the mail
\* writer hands the container class on.
FolderRow(f) ==
    HierarchyRow([f EXCEPT !.containerClass = IF f.writer = "M7" THEN @ ELSE <<>>])

-----------------------------------------------------------------------------
(* The two things built of an object.  A template is a table without rows, *)
(* of which nothing but the columns is written; literals, binaries and     *)
(* dates are what an object's strings are converted from.                  *)

Kinds == {"message", "attachment", "folder", "listedFolder", "unlistedFolder", "recipient",
          "receiveFolder", "contact", "event", "store", "nameMap", "template",
          "literal", "binary", "date"}

WithoutBoth    == {"template", "literal", "binary", "date"}
HasRow(kind)   ==
    kind \notin {"unlistedFolder", "contact", "event", "store", "nameMap"} \cup WithoutBoth
HasProps(kind) == kind \notin {"recipient", "receiveFolder"} \cup WithoutBoth
RowFirst(kind) == kind \in {"message", "attachment"}

RowOf(it) ==
    CASE it.kind = "message"         -> MessageRow(it.obj)
      [] it.kind = "attachment"      -> AttachmentRow(it.obj, 37)
      [] it.kind = "folder"          -> FolderRow(it.obj)
      [] it.kind = "listedFolder"    -> HierarchyRow(HierarchyRowOf(it.obj))
      [] it.kind = "recipient"       -> RecipientRow(it.obj, 1)
      [] it.kind = "receiveFolder"   -> ReceiveFolderRow

PropsOf(it) ==
    CASE it.kind = "message"         -> MailProps(it.obj)
      [] it.kind = "attachment"      -> AttachmentProps(it.obj)
      [] it.kind = "folder"          -> MailFolderProps(it.obj)
      [] it.kind \in {"listedFolder", "unlistedFolder"} -> FolderProps(it.obj)
      [] it.kind = "contact"         -> ContactProps(it.obj)
      [] it.kind = "event"           -> EventProps(it.obj)
      [] it.kind = "store"           -> MessageStoreProps(it.obj)
      [] it.kind = "nameMap"         -> NameToIdMapProps

Init ==
    /\ \E f \in DOMAIN Families : item \in Families[f]
    /\ phase = IF item.kind \in WithoutBoth THEN "written" ELSE "given"
    /\ row = <<>> /\ props = <<>>

BuildRow ==
    /\ HasRow(item.kind) /\ row = <<>>
    /\ HasProps(item.kind) /\ ~RowFirst(item.kind) => props # <<>>
    /\ row' = RowOf(item)
    /\ phase' = IF props # <<>> \/ ~HasProps(item.kind) THEN "written" ELSE "row"
    /\ UNCHANGED <<item, props>>

GatherProps ==
    /\ HasProps(item.kind) /\ props = <<>>
    /\ RowFirst(item.kind) => row # <<>>
    /\ props' = PropsOf(item)
    /\ phase' = IF row # <<>> \/ ~HasRow(item.kind) THEN "written" ELSE "props"
    /\ UNCHANGED <<item, row>>

Next == BuildRow \/ GatherProps
Spec == Init /\ [][Next]_vars
-----------------------------------------------------------------------------
(* How a reader of the table sees a row: through the columns. *)

ColumnsOf(r) == Columns(r.table)

\* What the row holds for a column, whatever its bit says.
CellOf(r, i) ==
    LET c == ColumnsOf(r)[i]
    IN  IF IsVariable(c.type)
        THEN IF i - 1 \in DOMAIN r.varlen THEN r.varlen[i - 1] ELSE <<>>
        ELSE IF c.ib \in DOMAIN r.cells THEN r.cells[c.ib] ELSE 0

Claimed(r, i) == ColumnsOf(r)[i].bit \in r.ceb

Tagged(ps, tag)  == {k \in DOMAIN ps : ps[k].tag = tag}
IsDefault(p)     == IF IsVariable(p.type) THEN p.value = <<>> ELSE p.value = 0

\* A claimed cell is a property of the object, with the same type and value;
\* a property the row does not claim has the default value.
Agrees(r, i, ps) ==
    LET same == Tagged(ps, ColumnsOf(r)[i].tag)
    IN  IF Claimed(r, i)
        THEN \E k \in same : ps[k].type = ColumnsOf(r)[i].type /\ ps[k].value = CellOf(r, i)
        ELSE \A k \in same : IsDefault(ps[k])

\* The columns that describe the row and not the object.
RowTags == {\h67F2, \h67F3}

Mismatches(r, ps) ==
    {ColumnsOf(r)[i].tag : i \in {j \in DOMAIN ColumnsOf(r) :
        ColumnsOf(r)[j].tag \notin RowTags /\ ~Agrees(r, j, ps)}}

\* Where the two derivations are known to part: the name of whom a message is
\* from when it has both a sender and a from, the size of an attachment Graph
\* gives none for, the bit of an attachment's missing name, the container
\* class in the rows of the contact and the event writer.
KnownMismatches(it) ==
    CASE it.kind = "message" /\ it.obj.sender # <<>> /\ it.obj.from # <<>> -> {\h0042}
      [] it.kind = "attachment" ->
            (IF Word(it.obj.size) = 0 THEN {\h0E20} ELSE {})
              \cup (IF it.obj.name = <<>> THEN {\h3704} ELSE {})
      [] it.kind = "folder" /\ it.obj.writer # "M7" -> {\h3613}
      [] OTHER -> {}

-----------------------------------------------------------------------------
(***************************************************************************)
(* Type invariant: what has been built fits the phase.                     *)
(***************************************************************************)
TypeOK ==
    /\ item.kind \in Kinds
    /\ phase \in {"given", "row", "props", "written"}
    /\ row # <<>> =>
          /\ row.table \in RowTables
          /\ row.ceb \subseteq 0 .. (8 * (RowShape(row.table).size - RowShape(row.table).ceb) - 1)
          /\ \A ib \in DOMAIN row.cells :
                row.cells[ib] \in 0 .. (WordRange - 1) /\ ib < RowShape(row.table).ceb
    /\ \A k \in DOMAIN props : props[k].tag \in 1 .. 65535

(***************************************************************************)
(* A row says of its object what the object's own properties say           *)
(* (KNOWN_UNVERIFIED.md, M11-M: Outlook refuses a store over one row that  *)
(* does not match its sub-object), at every column but the known ones.     *)
(* The row is read as a reader reads it, through the table's columns, so   *)
(* that a wrong offset, bit or position in a builder is a mismatch too.    *)
(***************************************************************************)
RowsMatchObjects ==
    phase = "written" /\ HasRow(item.kind) /\ HasProps(item.kind)
        => Mismatches(row, props) \subseteq KnownMismatches(item)

(***************************************************************************)
(* The same without exception, as M11-M has it for the mail writer.        *)
(***************************************************************************)
RowMatchesSubObject ==
    phase = "written" /\ HasRow(item.kind) /\ HasProps(item.kind)
        => Mismatches(row, props) = {}

(***************************************************************************)
(* Every cell of variable size a builder supplies belongs to a column of   *)
(* variable size whose bit is set, and every written offset is the place   *)
(* of a column of fixed size: no value of a row is invisible or lands in   *)
(* the cell of another (setCebBit and the literals of the row builders).   *)
(***************************************************************************)
CellsHaveColumns ==
    row # <<>> =>
        /\ \A col \in DOMAIN row.varlen :
              /\ col + 1 \in DOMAIN ColumnsOf(row)
              /\ IsVariable(ColumnsOf(row)[col + 1].type)
              /\ Claimed(row, col + 1)
        /\ \A ib \in DOMAIN row.cells : \E i \in DOMAIN ColumnsOf(row) :
              ColumnsOf(row)[i].ib = ib /\ ~IsVariable(ColumnsOf(row)[i].type)

(***************************************************************************)
(* Every table's columns are listed by tag, take disjoint bytes in the     *)
(* order of the regions TCINFO describes, and have a bit each; the rows a  *)
(* builder makes have the size computeTcRgib computes and their existence  *)
(* block where the last cell ends (buildSearchContentsTemplateTc tells of  *)
(* a table that did not).                                                  *)
(***************************************************************************)
TablesWellLaidOut ==
    /\ item.kind = "template" => WellLaidOut(Columns(item.obj))
    /\ row # <<>> => RowShape(row.table) =
          [size |-> RowBytes(ColumnsOf(row)), ceb |-> TcRgib(ColumnsOf(row)).end1b]

(***************************************************************************)
(* What a builder gathers can be written: no tag twice, which              *)
(* buildPropertyContext refuses, and no value of variable size that is     *)
(* empty (KNOWN_UNVERIFIED.md, M11-K: such an allocation is an invalid     *)
(* HNID), except the store's name when the caller left it empty and the    *)
(* root folder's, which writeM6Pst leaves empty; and no more values of     *)
(* fixed size than PropBuilder reserves room for, whose descriptors point  *)
(* into a vector that must not grow.                                       *)
(***************************************************************************)
PropertiesWritable ==
    /\ \A j, k \in DOMAIN props : j # k => props[j].tag # props[k].tag
    /\ Len(SelectSeq(props, LAMBDA p : ~IsVariable(p.type))) <= PropBuilderReserve
    /\ \A k \in DOMAIN props :
          IsVariable(props[k].type) /\ props[k].value = <<>>
            => item.kind \in {"store", "unlistedFolder"} /\ props[k].tag = \h3001

(***************************************************************************)
(* Strings and binaries arrive as they were meant: a literal's code units, *)
(* escaped or not, are those of the property (a pair of surrogates as one  *)
(* code point in between), a literal that is no UTF-16 is refused, no      *)
(* bytes whatever become UTF-16 with a lone surrogate, and base64 yields   *)
(* the encoded bytes with and without its padding and line breaks.  And a  *)
(* subject's prefix, one to three letters, a colon and a blank, and its    *)
(* normalized subject are the subject again, in order (splitSubject).      *)
(***************************************************************************)
TextsSurvive ==
    /\ item.kind = "message" =>
          LET parts == SplitSubject(item.obj.subject)
          IN  /\ parts.prefix \o parts.normalized = item.obj.subject
              /\ parts.prefix # <<>> =>
                    /\ Len(parts.prefix) \in 3..5
                    /\ parts.prefix[Len(parts.prefix) - 1] = ":"
                    /\ parts.prefix[Len(parts.prefix)] = " "
    /\ item.kind = "literal" =>
          LET s == ParseString(item.obj)
              u == CodeUnits(item.obj)
          IN  IF s = Thrown THEN ~WellFormed(u)
              ELSE IF \A i \in DOMAIN item.obj : "b" \in DOMAIN item.obj[i] => item.obj[i].b < 128
              THEN WellFormed(u) /\ Utf16(s) = u
              ELSE Utf16(s) = Thrown \/ WellFormed(Utf16(s))
    /\ item.kind = "binary" =>
          LET b64 == Base64Encode(item.obj)
          IN  /\ Base64Decode(b64) = item.obj
              /\ Base64Decode(WithoutPadding(b64)) = item.obj
              /\ Base64Decode(FlattenSeq([i \in DOMAIN b64 |-> <<b64[i], Blank>>])) = item.obj
              /\ Base64Decode(<<Other>> \o b64) = Thrown

(***************************************************************************)
(* A date is the FILETIME the calendar gives: the days since 1601 with the *)
(* leap years in between, less the zone's offset, which may take it into   *)
(* another day or year; before 1601 it is refused.                         *)
(***************************************************************************)
FiletimesExact ==
    item.kind = "date" =>
        LET d       == item.obj
            offset  == d.zone.sign * (d.zone.h * 60 + d.zone.m)
            minutes == d.hour * 60 + d.minute - offset
            at      == FiletimeTicks(d)
        IN  IF CalendarDays(d) = 0 /\ minutes < 0 THEN at = Thrown
            ELSE /\ Len(at) = 3 /\ at[2] \in 0..86399 /\ at[3] \in 0..9999999
                 /\ (at[1] - CalendarDays(d)) * 1440 + (at[2] \div 60) = minutes
                 /\ at[2] % 60 = d.second
                 /\ \A i \in 1..7 : (at[3] \div 10 ^ (7 - i)) % 10 =
                        (IF i <= Len(d.fraction) THEN d.fraction[i] ELSE 0)
=============================================================================
