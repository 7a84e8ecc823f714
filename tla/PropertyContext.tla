-------------------------- MODULE PropertyContext ---------------------------
(***************************************************************************)
(* Property contexts: PropBuilder (src/src/mail.cpp) gathers the           *)
(* properties of one object, buildPropertyContext (src/src/ltp.cpp) turns  *)
(* them into a heap and into values kept in subnodes, and                  *)
(* readPropertyContext reads such a heap back record by record.            *)
(*                                                                         *)
(* A property is [tag, type, size, value, hint].  The value of a property  *)
(* that fits the record is a number; of any other it is the tag, standing  *)
(* for the bytes.                                                          *)
(***************************************************************************)
EXTENDS Heap

CONSTANTS
    Tags,            \* property tags, numbers
    Numbers,         \* 32-bit values an integer property may have
    Sizes,           \* byte lengths of strings and binaries, 0 included
    Descriptors,     \* properties given to the builder by other callers
    FirstNids,       \* identifiers a caller offers for the subnodes
    MaxProps         \* bound: properties of one object

ASSUME FirstNidsAssumption == FirstNids \subseteq Nat /\ MaxProps \in Nat

\* No value of a fixed size outgrows an allocation, and every record of a leaf
\* that is one can have an index of eleven bits, behind those of slots 1 and 2.
ASSUME IndexAssumption == 16 <= AllocMax /\ AllocMax < 8 * (HidIndexes - 2)

VARIABLES
    props,   \* the properties gathered, in the order they were added
    phase,   \* where the call stands
    pc,      \* the PcResult: [hn, subnodes]
    leaf,    \* the leaf records the reader found
    next,    \* the record it decodes next
    out      \* the properties it has decoded

vars == <<props, phase, pc, leaf, next, out>>

Refusals == {"invalid_argument", "length_error"}
Finished == Refusals \cup {"read", "runtime_error"}

-----------------------------------------------------------------------------
(* Classification of a property by its type and size. *)

FixedSize(type) ==
    CASE type = "Boolean" -> 1
      [] type = "Int16"   -> 2
      [] type \in {"Int32", "Float32", "ErrorCode"} -> 4
      [] type \in {"Int64", "Float64", "Currency", "AppTime", "SystemTime"} -> 8
      [] type = "ClassId" -> 16
      [] OTHER -> 0      \* of variable size

IsFixedSize(type) == FixedSize(type) # 0
FitsRecord(type)  == FixedSize(type) \in 1..4

\* No caller asks for a subnode for a value that fits the record: a reader
\* would take the subnode's identifier for the value.
ASSUME DescriptorsAssumption ==
    /\ Tags \subseteq Nat /\ Sizes \subseteq Nat
    /\ \A p \in Descriptors :
          /\ p.tag \in Nat /\ p.size \in Nat
          /\ p.hint \in {"Auto", "Subnode"}
          /\ FitsRecord(p.type) => p.hint = "Auto"

ResolveStorage(p) ==
    IF p.hint = "Subnode" THEN "Subnode"
    ELSE IF FitsRecord(p.type) THEN "Inline"
    ELSE IF IsFixedSize(p.type) \/ p.size <= AllocMax THEN "HnAlloc"
    ELSE "Subnode"

-----------------------------------------------------------------------------
(* buildPropertyContext. *)

DuplicateTag(ps) == \E i, j \in DOMAIN ps : i # j /\ ps[i].tag = ps[j].tag

Malformed(p) ==
    \/ IsFixedSize(p.type) /\ p.size # FixedSize(p.type)
    \/ p.hint = "Subnode" /\ p.size = 0

Sorted(ps) ==
    LET sortedIdx == SortedIdx([i \in DOMAIN ps |-> [key |-> ps[i].tag]])
    IN  [k \in DOMAIN ps |-> ps[sortedIdx[k]]]

\* How many of the first i properties are stored the given way.
Before(ps, i, how) ==
    Cardinality({j \in 1..i : ResolveStorage(ps[j]) = how})

\* The properties stored the given way, in their order.
Kept(ps, how) ==
    [k \in 1..Before(ps, Len(ps), how) |->
        ps[CHOOSE i \in DOMAIN ps :
             ResolveStorage(ps[i]) = how /\ Before(ps, i, how) = k]]

\* mutant: values are numbered from the slot of the leaf
HidOfLeafSlot(ps, i) == MakeHid(1 + Before(ps, i, "HnAlloc"))

\* Slots 1 and 2 are the BTH header and its leaf; the values follow by tag.
PropHid(ps, i) == MakeHid(2 + Before(ps, i, "HnAlloc"))

\* mutant: the stride the header's comment promises, which changes the type
NidByFour(first, k) == first + 4 * (k - 1)

\* The identifier of the k-th value kept in a subnode.
PropNid(first, k) == first + 32 * (k - 1)

\* The record of the i-th property: its key, its type and four bytes.
LeafRecord(ps, i, first) ==
    [key  |-> ps[i].tag,
     type |-> ps[i].type,
     slot |-> CASE ResolveStorage(ps[i]) = "Inline"  -> ps[i].value
                [] ResolveStorage(ps[i]) = "HnAlloc" -> PropHid(ps, i)
                [] ResolveStorage(ps[i]) = "Subnode" ->
                      PropNid(first, Before(ps, i, "Subnode"))]

LeafOf(ps, first) ==
    BuildBthLeafRecords([i \in DOMAIN ps |-> LeafRecord(ps, i, first)], 2, 6)

ValueData(p) == [kind |-> "value", of |-> p.value]

Allocations(ps, first) ==
    LET kept == Kept(ps, "HnAlloc")
    IN  <<[size |-> 8, data |-> BthHeader(2, 6, 0, MakeHid(2))],
          [size |-> LeafOf(ps, first).size, data |-> LeafOf(ps, first).data]>>
        \o [i \in DOMAIN kept |-> [size |-> kept[i].size,
                                   data |-> ValueData(kept[i])]]

Promoted(ps, first) ==
    LET moved == Kept(ps, "Subnode")
    IN  [k \in DOMAIN moved |-> [nid |-> PropNid(first, k), tag |-> moved[k].tag,
                                 size |-> moved[k].size]]

\* mutant: the body is not compared with a block's
BuildUnmeasured(ps, first) ==
    LET sorted == Sorted(ps)
    IN  IF \/ HidType(first) = 0 \/ DuplicateTag(ps)
           \/ \E i \in DOMAIN ps : Malformed(ps[i])
        THEN [ok |-> FALSE, why |-> "invalid_argument"]
        ELSE [ok |-> TRUE, subnodes |-> Promoted(sorted, first),
              hn |-> BuildHeapOnNode(Allocations(sorted, first), "PC", MakeHid(1))]

BuildPropertyContext(ps, first) ==
    LET sorted == Sorted(ps)
        hn == BuildHeapOnNode(Allocations(sorted, first), "PC", MakeHid(1))
    IN  IF \/ HidType(first) = 0
           \/ DuplicateTag(ps)
           \/ \E i \in DOMAIN ps : Malformed(ps[i])
        THEN [ok |-> FALSE, why |-> "invalid_argument"]
        ELSE IF ~LeafOf(sorted, first).ok \/ hn.size > BlockBody
        THEN [ok |-> FALSE, why |-> "length_error"]
        ELSE [ok |-> TRUE, hn |-> hn, subnodes |-> Promoted(sorted, first)]

-----------------------------------------------------------------------------
(* PropBuilder and the other callers: gathering properties. *)

\* mutant: the reader starts before the first record
InitAtZero ==
    /\ props = <<>> /\ phase = "gathering"
    /\ pc = Nothing /\ leaf = <<>> /\ next = 0 /\ out = <<>>

Init ==
    /\ props = <<>> /\ phase = "gathering"
    /\ pc = Nothing /\ leaf = <<>> /\ next = 1 /\ out = <<>>

AddProp(tag, type, size, value) ==
    /\ phase = "gathering" /\ Len(props) < MaxProps
    /\ props' = Append(props, [tag |-> tag, type |-> type, size |-> size,
                               value |-> value, hint |-> "Auto"])
    /\ UNCHANGED <<phase, pc, leaf, next, out>>

AddInt32(tag, v) == AddProp(tag, "Int32", 4, v)
AddBoolean(tag, b) == AddProp(tag, "Boolean", 1, IF b THEN 1 ELSE 0)
AddSystemTime(tag) == AddProp(tag, "SystemTime", 8, tag)

\* Empty strings and binaries are left out without a word.
AddUnicodeString(tag, size) == size > 0 /\ AddProp(tag, "Unicode", size, tag)
AddBinary(tag, size) == size > 0 /\ AddProp(tag, "Binary", size, tag)

\* Callers of messaging.cpp fill the descriptors themselves.
AddDescriptor(p) ==
    /\ phase = "gathering" /\ Len(props) < MaxProps
    /\ props' = Append(props, p)
    /\ UNCHANGED <<phase, pc, leaf, next, out>>

Build(first) ==
    LET result == BuildPropertyContext(props, first)
    IN  /\ phase = "gathering"
        /\ IF result.ok
           THEN phase' = "built" /\ pc' = [hn |-> result.hn, subnodes |-> result.subnodes]
           ELSE phase' = result.why /\ UNCHANGED pc
        /\ UNCHANGED <<props, leaf, next, out>>

-----------------------------------------------------------------------------
(* readPropertyContext, over the heap and nothing else. *)

\* The page map lies inside the body, and the heap is a property context's.
HeaderValid(h) ==
    /\ h.client = "PC"
    /\ h.ibHnpm + PageMapBytes(h.cAlloc) <= h.size

\* What the heap's root leads to: the BTH header, or nothing of use.
RootHeader(h) == ResolveHid(h.root, h)

PcBthValid(r) ==
    /\ r.ok /\ r.size = 8 /\ r.data.kind = "bth"
    /\ r.data.cbKey = 2 /\ r.data.cbEnt = 6 /\ r.data.idxLevels = 0

Fail == phase' = "runtime_error" /\ UNCHANGED <<props, pc, leaf, next, out>>

Open ==
    LET h == pc.hn
        r == RootHeader(h)
        l == ResolveHid(r.data.hidRoot, h)
    IN  /\ phase = "built"
        /\ IF ~HeaderValid(h) \/ ~PcBthValid(r) THEN Fail
           ELSE IF HidIndex(r.data.hidRoot) = 0      \* an empty context
           THEN phase' = "read" /\ UNCHANGED <<props, pc, leaf, next, out>>
           ELSE IF ~l.ok \/ l.size % 8 # 0 THEN Fail
           ELSE /\ phase' = "reading"
                /\ leaf' = IF l.size = 0 \/ l.data.kind # "leaf" THEN <<>>
                           ELSE l.data.records
                /\ UNCHANGED <<props, pc, next, out>>

\* What a record says: the type alone decides whether its four bytes are the
\* value, a heap identifier or a node identifier.
Decoded(rec, h) ==
    LET r == ResolveHid(rec.slot, h)
    IN  IF FitsRecord(rec.type)
        THEN [tag |-> rec.key, type |-> rec.type, storage |-> "Inline",
              value |-> rec.slot]
        ELSE IF HidType(rec.slot) = 0
        THEN [tag |-> rec.key, type |-> rec.type, storage |-> "HnAlloc",
              value |-> r.data, size |-> r.size]
        ELSE [tag |-> rec.key, type |-> rec.type, storage |-> "Subnode",
              value |-> rec.slot]

Unresolvable(rec, h) ==
    ~FitsRecord(rec.type) /\ HidType(rec.slot) = 0 /\ ~ResolveHid(rec.slot, h).ok

\* mutant: a value kept in a subnode is looked at again and again
ReadRecordStuck ==
    /\ phase = "reading" /\ next <= Len(leaf)
    /\ next' = IF Decoded(leaf[next], pc.hn).storage = "Subnode" THEN next ELSE next + 1
    /\ UNCHANGED <<props, phase, pc, leaf, out>>

ReadRecord ==
    /\ phase = "reading" /\ next <= Len(leaf)
    /\ IF Unresolvable(leaf[next], pc.hn) THEN Fail
       ELSE /\ out' = Append(out, Decoded(leaf[next], pc.hn))
            /\ next' = next + 1
            /\ UNCHANGED <<props, phase, pc, leaf>>

FinishReading ==
    /\ phase = "reading" /\ next > Len(leaf)
    /\ phase' = "read"
    /\ UNCHANGED <<props, pc, leaf, next, out>>

\* A finished call stays finished.
Return == phase \in Finished /\ UNCHANGED vars

Next ==
    \/ \E tag \in Tags :
          \/ \E v \in Numbers : AddInt32(tag, v)
          \/ \E b \in BOOLEAN : AddBoolean(tag, b)
          \/ AddSystemTime(tag)
          \/ \E size \in Sizes : AddUnicodeString(tag, size) \/ AddBinary(tag, size)
    \/ \E p \in Descriptors : AddDescriptor(p)
    \/ \E first \in FirstNids : Build(first)
    \/ Open \/ ReadRecord \/ FinishReading \/ Return

Spec == Init /\ [][Next]_vars

\* The reader is a call that runs until it returns.
FairSpec == Spec /\ WF_vars(Open \/ ReadRecord \/ FinishReading)

-----------------------------------------------------------------------------
TypeOK ==
    /\ Len(props) <= MaxProps
    /\ phase \in {"gathering", "built", "reading"} \cup Finished
    /\ next \in 1..(Len(leaf) + 1)
    /\ Len(out) <= Len(leaf)
    /\ phase \in {"gathering"} \cup Refusals => pc = Nothing

(***************************************************************************)
(* A property read back, found by its tag, is the one that was added: its  *)
(* number when the record holds it, exactly its bytes when the heap does   *)
(* (neither cut nor lengthened by padding), and otherwise the identifier   *)
(* of the one subnode that carries its bytes.                              *)
(***************************************************************************)
SameProperty(p, q) ==
    /\ q.tag = p.tag /\ q.type = p.type
    /\ q.storage = "Inline"  <=> FitsRecord(p.type) /\ p.hint = "Auto"
    /\ q.storage = "Subnode" <=> p.hint = "Subnode" \/ p.size > AllocMax
    /\ q.storage = "Inline"  => q.value = p.value
    /\ q.storage = "HnAlloc" =>
          /\ q.size = p.size
          /\ q.value = IF p.size = 0 THEN Nothing ELSE ValueData(p)
    /\ q.storage = "Subnode" =>
          \E s \in DOMAIN pc.subnodes :
             /\ pc.subnodes[s].nid = q.value
             /\ pc.subnodes[s].tag = p.tag /\ pc.subnodes[s].size = p.size
             /\ \A t \in DOMAIN pc.subnodes :
                   pc.subnodes[t].nid = q.value => t = s

(***************************************************************************)
(* What was built reads back: the reader never fails on the builder's      *)
(* heap, and in the end it has decoded every property added, in the order  *)
(* of the tags, and nothing else.  Checked through the numbers in the heap *)
(* alone, as readPropertyContext promises (ltp.hpp: no assumption about    *)
(* the order of identifiers).                                              *)
(***************************************************************************)
ReadsBack ==
    /\ phase # "runtime_error"
    /\ \A k \in DOMAIN out : \E i \in DOMAIN props : SameProperty(props[i], out[k])
    /\ \A k \in 2..Len(out) : out[k - 1].tag < out[k].tag
    /\ phase = "read" => Len(out) = Len(props)

(***************************************************************************)
(* The values moved to subnodes get distinct identifiers of one type, the  *)
(* one the caller offered, so that a reader takes none of them for a heap  *)
(* identifier.                                                             *)
(***************************************************************************)
SubnodeNidsDistinct ==
    pc # Nothing =>
        \A s, t \in DOMAIN pc.subnodes :
            /\ HidType(pc.subnodes[s].nid) # 0
            /\ HidType(pc.subnodes[s].nid) = HidType(pc.subnodes[t].nid)
            /\ pc.subnodes[s].nid = pc.subnodes[t].nid => s = t

(***************************************************************************)
(* What ltp.hpp says of buildPropertyContext: a heap whose body would      *)
(* exceed a block's is refused, so a context that was built needed no      *)
(* more than a block.  The property speaks of heaps whose bytes 16 bits    *)
(* can count: above that the comparison sees the remainder.                *)
(***************************************************************************)
Needed == NeededBytes(Allocations(Sorted(props), 1))

OversizeRefused ==
    pc # Nothing /\ Needed <= OffsetRange => Needed <= BlockBody

(***************************************************************************)
(* Reading a built context ends.                                           *)
(***************************************************************************)
ReadingEnds == (phase = "built") ~> (phase \in Finished)
=============================================================================
