# A model of pstwriter

pstwriter is a C++17 library that turns mail, contacts and events (Microsoft
Graph JSON, or structs) into Unicode PST files, and a reader of the node tree of
such files. It is sequential: no threads, no callbacks, no network. What makes it
hard is that a file is a web of numbers - node identifiers (NIDs), block
identifiers (BIDs), file offsets, counts and lengths - that are computed in one
loop and used in another, often twice and independently, and that a failure of
any step leaves either no file or half of one.

This directory holds TLA+ models of that machinery, configurations for TLC,
theorems checked by TLAPS, and `PROJECT.json`, which maps every definition to
the lines it stands for.

    tlc -config MCMailStore.cfg MCMailStore.tla     # one model
    tlapm StoreNodesProofs.tla                      # one module of proofs

## Inventory

| component | source | state it keeps | operations | what makes it correct |
|---|---|---|---|---|
| node identifiers, `M5Allocator` | `types.hpp`, `m5_allocator.cpp` | set of taken NIDs, one counter per type | `allocate`, `registerExternal` | no NID twice, no index lost, 27 bits |
| store baseline | `pst_baseline.cpp` | - | `buildPstBaselineEntries`, `registerBaselineReservedNids` | the mandatory nodes exist, agree with their rows, and nothing else takes their NIDs |
| mail writer (M7) | `mail.cpp` | folder and message records, lists of scheduled data, X- and SLBLOCKs and nodes, two BID counters | `writeM7Pst`: nine loops; `buildMailPc`, `buildAttachmentPc`, row builders | every node, block, row and subnode refers to what exists, once; a row says of an object what its properties say |
| contact and event writers (M8, M9) | `contact.cpp`, `event.cpp` | the same with fewer kinds of blocks | `writeM8Pst`, `writeM9Pst`, `buildContactPc`, `buildEventPc` | the same |
| file writer (M2, M3, M5) | `writer.cpp` | layout, page BIDs, `writtenIb`, `ok` | `writeEmptyPst`, `writeBlocksPst`, `writeXBlockPst`, `writeM5Pst` | what was computed is what is written; success means readable |
| page trees, reader | `nbt.cpp`, `page.cpp` | - | `buildNbtTree`, `nbtFind`, `nbtForEach` | the reader finds exactly what was put in |
| blocks | `block.cpp` | - | `buildDataBlock`, `buildXBlock`, ... | lengths and signatures |
| LTP: heap, property and table contexts | `ltp.cpp` | the heap under construction; the reader's position | `buildHeapOnNode`, `buildPropertyContext`, `readPropertyContext`, `buildTableContext` | what does not fit is promoted, what is stored is found again |
| messaging schemas, M6 writer | `messaging.cpp` | like the mail writer | `writeM6Pst`, the schemas, row and property builders | rows hit their columns; no property twice |
| header, allocation map | `ndb.cpp`, `page.cpp` | - | `serializeHeader`, `buildAMap` | free bytes and bitmap agree |
| CRC, encoding | `crc.cpp`, `encoding.cpp` | - | tables over bytes | pinned by byte-exact tests |
| Graph JSON | `graph_*.cpp`, `internal_json.hpp` | the parser's call stack and position | parsing, mapping, conversion | the grammar and nothing else; fields arrive where they belong, texts and dates unchanged |
| tools | `pst_convert.cpp`, `pst_info.cpp` | - | from command line to exit code; the inspection of a file | every call ends with a code; no file is approved that lacks a piece |

How they interact: a store writer (M7, M8, M9) takes a configuration, asks the
allocator for NIDs, lets the LTP builders produce bytes, schedules those as
blocks and nodes, encodes the blocks for the offsets at which it expects them,
and hands blocks and nodes to `writeM5Pst`, which lays out and writes the file.
Everything is a call; what they share is numbers. The behaviours that are hard
to test follow from that, and `PROJECT.json` lists them as hazards: NIDs derived
from other NIDs without a check, table rows written before the nodes they name
and from other fields than the nodes' own properties, offsets computed twice,
counters of two kinds folded into one, exact multiples of capacities, a write
that comes short, sums in 16 bits, and capacities that are checked at one level
and not at another.

## Modules

| module | models | how |
|---|---|---|
| `NidSpace` | the NID encoding, the reserved NIDs, the baseline's and those of `writeM6Pst` | operators; `MaxNidIndex` is the allocator's ceiling |
| `NidService` | what an identifier service promises | abstract: a set of taken NIDs, grants and refusals |
| `NidAllocator` | `M5Allocator` | one action per public method; a throw is an outcome (`ret.ok`) |
| `StoreNodes` | what the three store writers promise about nodes | abstract over the order and contents of nodes; instantiates `NidAllocator` |
| `BlockScheduler` | `scheduleDataBlock`, `schedulePayload`, SLBLOCKs | pure operators over a record of the lists of scheduled blocks |
| `StoreWriter` | what the three store writers share | one action per iteration of a loop; `phase` is the running loop, `step` its completed iterations |
| `MailStore` | `writeM7Pst` | extends `StoreWriter` with the loops over messages and contents tables |
| `ItemStore` | `writeM8Pst`, `writeM9Pst` | extends `StoreWriter` with the loop over items |
| `Heap` | `buildHeapOnNode`, B-trees on heaps, heap identifiers | pure operators; an allocation is a size and an opaque value, offsets are taken modulo `OffsetRange` |
| `PropertyContext` | `PropBuilder`, `buildPropertyContext`, `readPropertyContext` | a machine: gather properties one by one, build, read back one record per step; a throw is a phase |
| `RowLayout` | `computeTcRgib` | operators over columns `[tag, ib, cb, bit]` |
| `TableContext` | `buildTableContext`, the table walk of `pst_info` | rows are added one by one, then the table is built; the walk is an operator on the result |
| `TableSchemas` | the columns of every table the writers build | constants, digit for digit |
| `ObjectProperties` | the property lists of messages, attachments, folders, contacts, events, the store and the map of names | one operator per builder, in the builder's order |
| `MandatoryFolders` | the folders every store has, as `writeM6Pst` and `buildPstBaselineEntries` each spell them out, and their rows | operators |
| `ObjectRows` | the row builders of all tables | an object is picked, its properties are built, then its row; the properties relate the two |
| `TextConversion` | string literals, UTF-8 to UTF-16, base64, dates to FILETIMEs | folds over bytes; integers of the code's widths |
| `JsonParser` | `Parser` of `internal_json.hpp` and of `graph_message.cpp` | recursive descent as a stack of frames; the text is chosen while it is read |
| `GraphJson` | `parseGraph*`: which member becomes which field | pure operators over JSON values |
| `PstConvert` | `main` of `pst_convert.cpp` | composes the two: one step per step of the parser, two attempts, the writer's outcome, the exit code |
| `PageTree` | building and reading the page trees | pure operators; a page is a record |
| `FileWriter` | the four entry points of `writer.cpp` | one action per encoded block, per layout, per written piece; a file is a sequence of pieces `[ib, len, data]` |
| `Inspector` | `pst_info` over the files of `FileWriter` | extends it with what the tool checks, as operators on the file; `WalkFails` says which payloads it takes for a heap and finds damaged |
| `MC*` | small instances | constants, inputs |
| `*Proofs` | theorems | `NidAllocatorProofs` (with lemmas on NIDs), `StoreNodesProofs`, `StoreWriterProofs` (lemmas on the shared loops, blocks and tables), `MailStoreProofs`, `ItemStoreProofs`, `PropertyContextProofs` (with lemmas on heaps), `TableContextProofs`, `FileWriterProofs`; lemmas of one are used in another by INSTANCE |

`MailStore` and `ItemStore` implement `StoreNodes` (the refinement mapping is the
instance `Store` in `StoreWriter`), which uses `NidAllocator`, which implements
`NidService`. `FileWriter` takes up where the store writers hand over, and
`Inspector` where `FileWriter` has finished. `PropertyContext` and
`TableContext` both stand on `Heap`; `ObjectProperties` gives the lists of
properties the one is called with and `ObjectRows` with `TableSchemas` the rows
of the other. `PstConvert` stands on `GraphJson`, that on `JsonParser`.

The correspondence of state: `allocated`, `nextIndex` are `allocated_` and
`nextIndex_`; `folderRecs`, `itemRecs` are the vectors of folder and message
records, reduced to NIDs; `nodes` is the vector of that name; `sched` holds
`nextDataBidIdx`, `nextInternalBidIdx` and the three lists of blocks; `writtenIb`
and `ok` are the variables of `writeM5Pst`; `props` is `PropBuilder`'s list, `pc`
a `PcResult`, `leaf` and `next` the reader's records and position; `stack`
stands for the C++ call stack of the parser. `tables` keeps the row identifiers
of folder tables, which in the code are bytes by then. Bytes are left out
everywhere else but in `TextConversion`: a payload is its length, a block is its
BID and length, a string is a sequence of opaque parts.

An exception is a step to an outcome: `exhausted`, `collision` or `other` of the
store writers, which catch it outside all loops and return failure; the kind of
the exception in `PropertyContext`; a retry or an exit code in `PstConvert`.
Whether the LTP builders throw inside a store writer depends on bytes, so an item
of `MailStore` may be a `misfit`, for which they do.

## Runs

| run | instance | shows |
|---|---|---|
| `nid_allocator` | three indices per type, asked types with an invalid one, registrations ahead of, at and behind a counter | `TypeOK` (counters in range), `NoIndexSkipped`, `ImplementsService` |
| `mail_store` | blocks of 2 bytes, XBLOCKs of 2 children; 0 to 4 folders with 0 to 4 messages: null, plain, long bodies, attachments, misfits; six indices from 0x400 on, of which the baseline has three, so that a fourth folder finds none | `BlocksReferencedOnce`, `PayloadsWhole`, `RowsNameTheNodes`, `NextBidIsFree`, `NodeNidsDistinct`, `SiblingsNeverCollide`, `ImplementsStoreNodes` |
| `item_store` | 0 to 4 folders with 0 to 3 items, null ones and misfits among them | `StoreComplete`, `ImplementsStoreNodes` |
| `property_context` | the code's own sizes; every list of up to three properties, of sizes 0, 5, the largest that stays and one that does not, described ones and malformed ones among them | `ReadsBack`, `SubnodeNidsDistinct`, `OversizeRefused`, `ReadingEnds` |
| `table_context` | two schemas, every table of up to three rows, cells of variable size present or not; a block that holds two or three rows | `RowsReadBack`, `EstimateExact`, `WalkAccepts` |
| `object_rows` | objects of every kind the writers know, in 26 families | `RowsMatchObjects`, `CellsHaveColumns`, `TablesWellLaidOut`, `PropertiesWritable`, `TextsSurvive`, `FiletimesExact` |
| `pst_convert` | every text of up to nine tokens over ten tokens, and whole Graph objects in all three forms, complete, empty, or with a member of a wrong type | `AcceptsTheGrammar`, `MeantIsConverted`, `EveryCallEnds` |
| `file_writer` | leaves of 3 and 2 entries, roots of 3; every number of blocks from 0 to 10 (9 fit) and of nodes from 0 to 7 (6 fit), in three orders; loose blocks; payloads under an XBLOCK of every number of chunks it takes (1 to 11), which from 9 on the block tree has no room for; refused arguments; each write may come short anywhere, `fopen` and `fclose` may fail; in some calls of each entry point `pst_info` takes a payload for a damaged heap | `PlacedWhereComputed`, `ReadableWhereRoom`, `PageBidsDistinct`, `NothingAfterAShortWrite`, `InspectorTells` |
| `xblock_room` | `writeXBlockPst` with full chunks, every number of them that an XBLOCK addresses | violates `WrittenIsReadable` |
| `subnode_nids` | one message with a long body and a large attachment | violates `SubnodeNidsUnique` |
| `event_bodies` | one event with a long body | violates `PromotedPropertiesStored` |
| `row_mismatch` | the folders of the contact writer | violates `RowMatchesSubObject` |

The runs with a violation state what a comment or document of the repository
says and the code does not do; `findings` in `PROJECT.json` quotes both.

Some of the properties are two programs held against each other. `ReadsBack`:
the heap that the builder makes, read by the reader through offsets and
identifiers alone, gives back the properties that went in. `RowsMatchObjects`:
the row that a table builder writes at literal offsets and bits, read through
the columns of the table, agrees with the object's own properties, which
another function derived from the same Graph object. `AcceptsTheGrammar`: the
parser accepts exactly what the grammar of JSON derives, stated as a set.
`TextsSurvive`, `FiletimesExact`: the conversions against definitions from the
encodings and the calendar, not from the code. `InspectorTells`: `pst_info`
approves no file that lacks a piece of the planned one, and every file that has
them all, unless a payload looks like a heap and is none. That condition is the
tool's: it decrypts each data block and walks it as a heap if its third byte is
0xEC (`pst_info.cpp:734-771`), so a sound file may fail on an attachment. Bytes
are left out here, so which payloads those are is a parameter, `WalkFails`, of
which nothing is assumed; the instance sets it true of the second data block of
some calls of each entry point.

**Why the bounds are enough.** Every loop of a writer does the same for each
folder, message or piece, and each relation checked is between at most two of
them, so two of a kind beside one of another are the interesting stores; three
and four folders are there for the index space and the hierarchy table to run
out. Block and XBLOCK capacities of 2 give payloads of one block, of an XBLOCK
that is full or not, and of an XXBLOCK. The trees of `file_writer` pass through
a lone leaf, a full leaf, two and three leaves, a full root and one entry more;
the lengths of blocks end on, before and behind page boundaries. The constants
of that run keep the order of the code's: the header ends before the map, an
XBLOCK takes more children (11, 1019) than the tree has room for (9, 400, one of
them the XBLOCK itself), and
the fixed next BID (5, 0x10) lies between the first pages and the last.

`property_context` uses the sizes of the code: three properties of 3580 bytes
outgrow a block, two do not, a property of 3582 bytes is promoted, and so is a
small one whose hint says so. Its tags and its descriptors' interleave, so that
sorting matters; two of its
numbers look like a heap and a node identifier. Heaps beyond 64 KB are outside:
see the divergences below. `table_context` makes the block small (172 bytes)
instead, so that three rows outgrow it and are promoted while two are not, with
and without cells of variable size; the columns are out of tag order and one is
two bytes wide, as in the code's tables. `object_rows` varies together the
parts of an object that take part in one derivation (sender and from; the
recipients; the dates; flags with attachments; a subject of up to four letters,
colons and blanks with a body), and takes the columns and the literals
as they are; a word has 2^16 values instead of 2^32, and sizes of attachments
lie around and above it. The dates are the days around month ends in years with
and without a leap day, in zones that cross midnight. In `pst_convert`, nine
tokens reach two members, lists in lists, an envelope with an object in it, a
repeated key and text behind the document; what needs longer texts is there as
the texts of whole objects.

**Fairness, deadlock.** `PropertyContext!FairSpec` and `PstConvert!FairSpec`
state weak fairness of the steps of a call that is running: the reader's
`Open`, `ReadRecord`, `FinishReading`, and the converter's `Step`. The code
justifies it because it runs on one thread and waits for nothing: once called,
it goes on to its next step until it returns. No fairness is asked of the
callers, who may stop adding properties at any time. Under it `ReadingEnds` (a
reader that has begun ends or throws) and `EveryCallEnds` (every call of
`pst_convert` ends with an exit code, after at most two attempts at parsing)
hold. The other specifications state none: every property there is about what a
state may be. Most runs check deadlock: `Return` keeps only finished calls
alive, so a loop that could not go on would be reported. The allocator stops
when its environment has nothing more to ask, and its run does not check it.

## Proofs

TLAPS proves, for every value of the constants:

* `NidAllocatorProofs!TypeCorrect`, `NothingSkipped`: for every ceiling of the
  index space (only `MaxNidIndexAssumption`: above the first user index and
  within 27 bits), every set of asked types and registered NIDs. `TypeOK` is
  inductive by itself once it bounds each counter from both sides;
  `NoIndexSkipped` needs `TypeOK`, because only below the ceiling do two
  different indices have different NIDs (`NidInjective`).
* `AllocatorImplementsService`: the refusal of `allocate` looks upwards from a
  counter, the service's refusal says that the whole pool is taken. The step
  needs `NoIndexSkipped`: that the indices behind the counter are taken, too.
* `StoreNodesProofs!NodesAreDistinct`, `SiblingsAreFree`, `StoreTypeCorrect`: for
  any number of folders and items. Neither property is inductive. The invariant
  `IInv` adds where NIDs come from: a configured folder's index is none of the
  baseline's (`OwnIndices`), which holds because the baseline was registered
  before the first folder (`BaselineTaken`); a taken NID that could be a
  sibling's has a system index or belongs to a folder that has already
  registered it (`SiblingsTaken`); a scheduled node is the baseline's or is
  accounted for by the folder or item it was placed for (`NodesAccounted`).
  Each action has a lemma that it keeps `IInv`. No run has this module by
  itself; TLC checks both properties where the mail writer has them.
* `MailStoreProofs!MailStoreImplementsStoreNodes`,
  `ItemStoreProofs!ItemStoreImplementsStoreNodes`: for every set of
  configurations, every capacity and every block size. The mapping
  loses the order of nodes and keeps sets of NIDs, so a loop that scheduled a node
  twice, or one owner's node under another's NID, would not be a step of
  `StoreNodes`. The invariant (`Common` in `StoreWriterProofs`, for both writers)
  says why neither happens: folders and items have NIDs of their own past the
  system's indices, none of them the IPM subtree, which was registered before
  (`Records`, `Control`); what is scheduled are their nodes and 0x802D, and
  nothing before its turn (`InTurn`). Each loop adds what it needs: the nodes of
  the folders are numbered by one counter, divided by the types per folder
  (`FolderNodesInTurn`), and the mail writer's contents tables follow in a loop of
  their own (`ContentsInTurn`).
* `MailStoreProofs!NodesAreDistinct`, `SiblingsAreFree`,
  `ItemStoreProofs!NodesStayApart`: so the three writers have what
  `StoreNodesProofs` says of the skeleton. That module is instantiated under the
  refinement mapping (`Nodes` in `StoreWriterProofs`); its initial states and
  steps are those of `Store` (`SameAllocator`, `SameNodes`), hence its theorems
  hold of every behaviour of a writer (`NodesApart`).
* `MailStoreProofs!NoBlockLostOrShared`, `HeaderBidIsFree`,
  `ItemStoreProofs!BlocksWellReferenced`: every block has a BID of its own and
  exactly one reference, whatever the lengths of payloads, and the header's next
  BID is above them all. Neither property is inductive: inside an iteration
  blocks are waiting, and a payload's chunks and XBLOCKs refer to each other
  before anything refers to the payload. `Web(s, waiting)` says of any list of
  scheduled blocks that BIDs are given out in a row, one sequence for data and
  one for internal blocks, and that each block is referred to once or is in
  `waiting`, never both; every operator of `BlockScheduler` has a lemma saying
  what it adds to `waiting` and takes from it (a data block adds itself; an
  XBLOCK takes its children and adds itself; an SLBLOCK takes its entries). At
  the end of an iteration `waiting` is what the nodes refer to (`Woven`).
* `MailStoreProofs!TablesAgreeWithNodes`: each contents table of a finished store
  lists exactly the messages whose nodes have the folder as parent, in ascending
  order, and the hierarchy lists the folders. The invariant (`Agreement`) relates
  loops that are far apart: items are filed one after the other (`FiledUpTo`), in
  the order of their NIDs (`NumberedInOrder`); a table holds the rows of its
  folder once all messages are numbered (`ContentsListed`); what is left to do
  when the writer returns is nothing (`Finished`).
* `ItemStoreProofs!NothingLeftOut`: as many item nodes below a folder as its
  configuration has items, null ones apart. That is a statement about
  cardinalities, so `Completion` carries which iteration placed which node, and the
  last step is a bijection between the items of a folder and its nodes.
* `MailStoreProofs!TypeCorrect`, `ItemStoreProofs!TypeCorrect`, from the same
  invariant (`TypedStore`).
* `PropertyContextProofs!SubnodesAreDistinct`: for any properties of any size in
  any order, and every identifier a caller offers. The property speaks of the
  context the program holds, so the invariant (`AlwaysNumbered`) says how it came
  by its numbers: `k`-th promoted value, `k`-th NID from a first one that the
  builder has checked. Steps of one index keep the five bits of the type
  (`PropNidNumbering`), which is why one check of the first NID is enough.
* `PropertyContextProofs!BuiltReadsBack`: reading what was built never fails and
  gives back the properties that were gathered, all of them, in the order of
  their tags, each from where it was put: for any number of properties of any
  size and type, not only three. The argument has four parts. The offsets of a
  heap are the true ones as long as 16 bits count its bytes (`TrueOffsets`), so
  the reader finds under each identifier exactly the allocation that was given
  it, the phantom behind the last one notwithstanding (`AllocationFound`).
  Sorting by tag is a permutation in ascending order, and the values kept in the
  heap or in subnodes follow each other in that order (`SortingByKey`,
  `KeptInOrder`), so that the slot computed for a value while records are written
  is the one it gets when the heap is assembled. Each record then decodes to its
  property (`RecordDecodes`). The invariant (`ReadingInv`) carries this through the
  reader's steps: the context comes from the gathered properties, the leaf it
  found is the builder's, what it has decoded is what the records say.
  The theorem has the condition `Needed <= OffsetRange` because without it the
  claim is false: see the 16-bit cursor below. The run, in which no heap comes
  near that size, checks the claim without it.
* `PropertyContextProofs!OversizeNeverBuilt`, `TypeCorrect`, from the same invariant.
* `TableContextProofs!EstimateAlwaysExact`, `WalkAlwaysAccepts`, `IdentifiedReadBack`,
  `WideCellsReadBack`, `TypeCorrect`: for every table whose columns are laid out as
  the stored ones are (`LaidOut`), any rows, and cells of any size. The invariant
  (`TableInv`) says of a built table that it comes from the gathered rows
  (`BuiltFrom`). The rest is about one build: which allocations the heap has and
  in which order (header, row index, matrix unless it was moved out, cells row by
  row), so that the estimate, computed from counts and sizes, is the sum over the
  same list, phantom included; that the slot written into a row before the heap
  exists is the one its cell gets (a cell's rank among the rows' cells); that a
  B-tree record's row is found at its multiple of the row size; and that the
  descriptors, sorted by tag, lead back to the columns they were made from.
  `RowsReadBack` needs one condition, because heap identifiers keep eleven bits of
  a slot's number and nothing limits the number: `Identified` says that they are
  enough. `WideCellsReadBack` discharges it where cells of variable size are two
  bytes or more, as UTF-16 text and the binaries of the writers are: 8176 bytes
  do not hold 2048 of them. One-byte cells could be too many.
* `FileWriterProofs!EverythingInPlace`, `PageBidsNeverRepeat`, `ShortWriteIsLast`,
  `TypeCorrect`: for every call, all sizes of blocks, pages and trees, and
  wherever a write comes short. Offsets are computed by one pass over sizes and
  used by another that pads and writes. That they agree is a fact about layouts:
  the pieces of any layout, each padded to and written in turn, come to lie where
  they were placed (`PlanFits`). The invariant (`Inv`) adds the order of phases,
  that the plan is the layout of the blocks that were encoded (`PlanInv`), and
  that what is in the file is the beginning of the plan, in full as long as no
  write came short (`FileInv`); the properties are read off from it. Page BIDs are
  numbered through both trees, so that they are distinct is about sums of the
  trees' numbers of pages.
* `FileWriterProofs!ReadableWhenWritten`: in every file that was written to its end
  the reader finds each block and node under its key, and nothing under any other.
  Most of it is about trees alone (`TreeReads`): places in the order of keys are a
  permutation (`Sorted`), the shares of the leaves cut it without gap or overlap
  (`LeafOfPosition`, `LeafEntries`), a page above the leaves has their smallest
  keys in ascending order (`ChildPages`), so descending by key ends in the one leaf
  that can have it (`Descends`, `LeafSearched`), and the leaves in a row are the
  sorted entries again (`LeavesInOrder`). The rest brings the tree into the file:
  each page of the plan is what the reader sees at its offset (`TreePlaces`,
  `RanksReached`, `PageSeen`), and the plan was made of the call's own blocks and
  nodes (`Sourced`). One condition remains, `KeysDistinct`: the blocks and the
  nodes handed to `writeM5Pst` have keys of their own, which `writer.hpp` leaves to
  its caller, and which `NodesAreDistinct` and `NoBlockLostOrShared` show of the
  store writers. The property itself, `ReadableWhereRoom`, asks that the chunks of
  an XBLOCK and itself fit the block tree (`RoomForXBlock`). The code does not
  check that, `writer.hpp` does not ask it, and without it the claim is false,
  which the run `xblock_room` shows.
* `FileWriterProofs!PstInfoTells`: once the file was opened, `pst_info` passes none
  that lacks a piece of the plan, and every one that has them all and of which no
  payload is taken for a damaged heap. In the first direction the header
  decides alone: it says where the file is to end, and by `EndsWithin`, a part of
  the invariant, only the plan's last piece ends there, wherever writing stopped
  and whatever `fclose` lost; with the last piece come all others (`FullFile`). In
  the second, what `pst_info` finds below the roots are the pages of the trees, in
  their leaves nothing but the entries made from the blocks and nodes
  (`TreeUnder`), each entry's block is in its place (`BlocksCheck`), and what it
  walks as heaps are blocks of the call and nothing else: blocks lie apart
  (`BlocksApart`), so the bytes at an entry's offset are its own block's
  (`NothingElseWalked`). That needs neither distinct keys nor room in the tree:
  entries with one key have places of their own still (`SortedAnyway`), and blocks
  that the root dropped are not missed. So `pst_info` does not see what
  `xblock_room` shows. The theorem holds for whatever `WalkFails` is. The
  condition `SubnodesGiven` is on the callers of `writeM5Pst`: a subnode tree that
  a node names is among the blocks, which `BlocksReferencedOnce` shows of the
  store writers.

The assumptions on the constants, which TLC evaluates in every run:

| assumption | says | why the code justifies it |
|---|---|---|
| `MaxNidIndexAssumption` | the ceiling lies above the first user index, within 27 bits | `m5_allocator.hpp` |
| `ConfigsAssumption`, `MessagesAssumption`, `RowsAssumption` of `MailStore` | folders, items, attachments are vectors, lengths numbers | the structs of `mail.hpp`, `contact.hpp`, `event.hpp` |
| `BaselineAssumption`, `MinimalNidsAssumption` | the baseline's NIDs are distinct | facts about 25 constants |
| `BlockSchedulerAssumption` | a block takes a byte, an XBLOCK two children | 8176 in `types.hpp`, 1021 in `mail.cpp` |
| `CallsAssumption`, `SizesAssumption` | arguments are lists of lengths; the header ends before the map | `writer.hpp`, the constants of `writer.cpp` |
| `HeapAssumption`, `IndexAssumption` | a block's body is shorter than 2^16; an allocation holds a value of 16 bytes and too few records of 8 for indices of eleven bits to run out | 8176 and 3580 in `ltp.hpp` |
| `FirstNidsAssumption`, `DescriptorsAssumption` | tags, sizes, NIDs are numbers; nobody asks for a subnode for a value that fits the record | no caller in `src/` sets `PropStorageHint::Subnode` |
| `SchemasAssumption` | `LaidOut`: columns have tags and places of their own, words behind all wider cells and bytes behind the words, a bit each below their number, which is below 256, and a table without rows fits a block | `StoredTablesAreLaidOut` (`MCTableContext`) evaluates it for every table of `messaging.cpp` and `mail.cpp`; `object_rows` checks `TablesWellLaidOut` |
| `RowsAssumption` of `TableContext` | identifiers, sizes and cells of rows are what the row builders can give | `ltp.hpp`, the callers in `mail.cpp` |
| `BtMaxAssumption` | the capacity of a page above the leaves is a number | 20 in `page.hpp` |

`DescriptorsAssumption` is the only one a future caller could break: the builder
accepts such a property, and the reader takes the subnode's NID for its value.

Induction appears in two forms. Over steps, as usual. Over numbers, where
offsets or counts are sums: the library's theorems on recursion and induction
take operators the provers cannot instantiate, so the recursive functions of the
model (`EndsOf`, the layout of `FileWriter`) are shown to satisfy their equations,
and a lemma `Induction` for sets of numbers, from the well-foundedness of `<`,
stands in for the schema. Lemmas about the encoding of NIDs (`NidEncoding`,
`NidInjective`) are stated once, in `NidAllocatorProofs`.

Proved under a condition that the run does not need because its instance meets
it: `BuiltReadsBack` (`Needed <= OffsetRange`), `IdentifiedReadBack`
(`Identified`), `ReadableWhenWritten` (`KeysDistinct`) and `PstInfoTells`
(`SubnodesGiven`). The first two of these four conditions are limits that the
code has and does not check.

Only model-checked: `PayloadsWhole` (sums over the chunks of two levels of
XBLOCKs); the properties of `ObjectRows`, the parser and the conversions, which
fold over texts, or are finite facts about literal tables that TLC settles by
looking; and liveness (`ReadingEnds`, `EveryCallEnds`), which the provers do not
do under fairness.

## Known divergences without a run

Met while modelling; each a disagreement between two places of the repository
that is either plain from the code or outside the instances.

* `writeM5Pst` takes 400 blocks (`writer.cpp:544`); `mail.cpp:989-993` speaks of
  payloads of about 8.5 GB.
* `writeBlocksPst` and `writeXBlockPst` leave `bidNextP` at 0x10
  (`writer.cpp:311`), below the BIDs of their own pages when there are many;
  `PageBidsDistinct` claims it for the other two only.
* One allocation map is written however long the file is (`writer.cpp:742`),
  where `writer.cpp:73-76` says that one follows per interval.
* M8 and M9 write the number of items into the folder and no rows into its
  contents table (`contact.cpp:411`, `441`), where `mail.cpp:1185-1190` says why the
  two must agree.
* A heap's cursor is 16 bits (`ltp.cpp:47`): nineteen strings of 3580 bytes wrap
  it, and the comparison with a block's capacity (`ltp.hpp:218-219`) sees the
  remainder. `OversizeRefused` is about heaps 16 bits can count.
* Subnode NIDs step by one index, 32, where `ltp.hpp:211` says 4; `PropNid`
  follows the code, and the step of 4 is its mutant.
* Rows and properties that do not agree and are excluded from `RowsMatchObjects`
  as `KnownMismatches`: the originator of a message that has both a sender and a
  from, size and name bit of some attachments, the container class of M8's and
  M9's folders (the run `row_mismatch`).
* Deleted Items appears in no hierarchy table, though the IPM subtree is its
  parent.
* `pst_baseline.hpp:21` leaves 24 entries and some nodes to the caller; the helper
  returns 25, the receive folder table among them.
* `pst_info` returns 1 for an unreadable file (`pst_info.cpp:402`), where the comment
  above it says 2 (`pst_info.cpp:396`), and checks neither the CRCs of node tree
  leaves nor allocation maps after the first.
* `pst_info` fails on a sound file of which a payload merely has a heap's signature
  (`pst_info.cpp:756-761`), where `MILESTONES.md:461` reports "no false-positive
  HN-signature scans on data blocks that aren't HN-bearing" and `README.md:319`
  recommends the tool for every file produced. `InspectorTells` excludes such calls
  (`TakenForHeap`); TLC finds it violated without the exclusion.

## Not modelled

* Bytes: CRCs, encryption, trailers, the serialisation of headers, pages, blocks
  and contexts (`block.cpp`, `crc.cpp`, `encoding.cpp`, most of `ndb.cpp`). They are
  arithmetic and layout without control, and the repository pins them with
  byte-exact tests.
* Of the JSON front end: the syntax of numbers (`stod` also takes `1.`), overlong
  UTF-8, which passes unchecked, the conversion of a number out of an integer's
  range, months and days out of range, the depth of the parser's recursion,
  which nothing limits, and the hashes search keys are made of.
* `pst_info`'s printing and options; the reader on damaged pages.
* `writeM6Pst`'s encode loop: 27 single blocks in a row, the case of `FileWriter`
  with as many blocks and nodes.
* Rows that straddle two blocks of a promoted row matrix: the repository does not
  say that they must not.
* Nested folders, which a caller cannot name (a folder's NID is not known before
  the call); a parent is an opaque NID.
* Memory exhaustion (a `bad_alloc` within a `noexcept` writer ends the process),
  a caller's list of blocks with repeated BIDs, which `writer.hpp` leaves to the
  caller. In `FileWriter`, after a failed `fclose` the file is any beginning of
  the pieces; that the operating system may lose data later is outside the model.

## Plan

What is left, in order of worth:

1. The store writers over `PropertyContext` and `TableContext` instead of payload
   lengths and misfits, which would show for which numbers of recipients and
   attachments a store is lost.
2. `buildNbtTree` against `writeM5Pst`'s own tree builder, and the reader on damaged
   pages (offsets outside the file, wrong kinds, cycles).
3. Proofs: `PayloadsWhole`, for which `Web` would have to carry the lengths of chunks.
