-------------------------- MODULE ObjectProperties --------------------------
(***************************************************************************)
(* The properties each kind of object is written with: messages,           *)
(* attachments and folders (src/src/mail.cpp), contacts                    *)
(* (src/src/contact.cpp), events (src/src/event.cpp), the message store,   *)
(* the folders every store has and the map of named properties             *)
(* (src/src/messaging.cpp).  Each builder's list is given in its order, as *)
(* buildPropertyContext receives it.                                       *)
(*                                                                         *)
(* A string is a sequence, empty or of opaque parts; a subject is one of   *)
(* letters "a", colons and blanks.  A date is a string: empty, or <<t>>,   *)
(* t being what isoToFiletimeTicks makes of it (0 of a malformed one).     *)
(* An optional object is a sequence of at most one.                        *)
(***************************************************************************)
EXTENDS Integers, Sequences, SequencesExt

CONSTANT
    WordRange        \* number of values of a 32-bit word

ASSUME ObjectPropertiesAssumption == WordRange \in Nat /\ WordRange > 512

\* How many values of one kind a PropBuilder holds without moving them.
PropBuilderReserve == 64

\* mutant: the cast to a word is missing
WordUncut(n) == n

Word(n) == n % WordRange

-----------------------------------------------------------------------------
(* PropBuilder: a string or binary that is empty is not added at all. *)

Put(tag, type, value) == <<[tag |-> tag, type |-> type, value |-> value]>>

Str(tag, s) == IF s = <<>> THEN <<>> ELSE Put(tag, "Unicode", s)
Bin(tag, s) == IF s = <<>> THEN <<>> ELSE Put(tag, "Binary", s)
Num(tag, n)  == Put(tag, "Int32", Word(n))
Bool(tag, b) == Put(tag, "Boolean", IF b THEN 1 ELSE 0)

Ticks(date) == IF date = <<>> THEN 0 ELSE date[1]

\* A time is added when the date is there, whatever it parses to.
Time(tag, date) == IF date = <<>> THEN <<>> ELSE Put(tag, "SystemTime", Ticks(date))

-----------------------------------------------------------------------------
(* What several builders derive from a message. *)

IsLetter(c) == c = "a"

\* The letters at the start of a subject, three at most.
LeadingLetters(s) ==
    CHOOSE n \in 0..3 :
        /\ n <= Len(s) /\ \A i \in 1..n : IsLetter(s[i])
        /\ n = 3 \/ n = Len(s) \/ ~IsLetter(s[n + 1])

SplitSubject(s) ==
    LET n == LeadingLetters(s)
    IN  IF n >= 1 /\ n + 1 < Len(s) /\ s[n + 1] = ":" /\ s[n + 2] = " "
        THEN [prefix |-> SubSeq(s, 1, n + 2), normalized |-> SubSeq(s, n + 3, Len(s))]
        ELSE [prefix |-> <<>>, normalized |-> s]

Label(r) == IF r.name # <<>> THEN r.name ELSE r.address

\* The labels that are not empty, joined by "; ".
JoinRecipientDisplay(bucket) ==
    LET labels == SelectSeq([i \in DOMAIN bucket |-> Label(bucket[i])], LAMBDA l : l # <<>>)
    IN  FlattenSeq([i \in DOMAIN labels |->
            IF i = 1 THEN labels[i] ELSE <<";">> \o labels[i]])

HasAttachments(m) == m.attachments # <<>> \/ m.hasAttachments

ComputeMessageFlags(m) ==
    (IF m.isRead THEN 1 ELSE 0) + (IF m.isDraft THEN 8 ELSE 0)
        + (IF HasAttachments(m) THEN 16 ELSE 0)

Sum(ns) == FoldLeft(LAMBDA a, b : a + b, 0, ns)

EstimateMessageSize(m) ==
    LET total == Len(m.subject) + Len(m.body.content) + Len(m.body.preview)
                   + Sum([i \in DOMAIN m.headers |-> Len(m.headers[i]) + 4])
                   + Sum([i \in DOMAIN m.attachments |->
                            LET a == m.attachments[i]
                            IN  (IF a.size > 0 THEN a.size ELSE 0)
                                  + Len(a.name) + Len(a.contentType)])
    IN  IF total > WordRange - 1 THEN WordRange - 1 ELSE total

SerializeInternetHeaders(hs) == FlattenSeq([i \in DOMAIN hs |-> hs[i] \o <<"crlf">>])

OneOffEntryId(a) == <<"one-off">> \o a.name \o a.address
SearchKey(s)     == <<"digest">> \o s

-----------------------------------------------------------------------------
(* buildMailPc. *)

\* Name, address, address type, entry and search key of whom a message or an
\* event is from, each given twice: as the sender and as who is represented.
OriginProps(a) ==
    Str(\h0C1A, a.name) \o Str(\h0042, a.name)
      \o (IF a.address = <<>> THEN <<>> ELSE
            Str(\h0C1F, a.address) \o Str(\h0065, a.address)
              \o Str(\h0C1E, <<"SMTP">>) \o Str(\h0064, <<"SMTP">>)
              \o Bin(\h0C19, OneOffEntryId(a)) \o Bin(\h0041, OneOffEntryId(a))
              \o Bin(\h0C1D, SearchKey(a.address)) \o Bin(\h003B, SearchKey(a.address)))

\* The sender if the message has one, else who it is from.
Origin(m) == IF m.sender # <<>> THEN m.sender ELSE m.from

SubjectProps(m) ==
    LET parts == SplitSubject(m.subject)
    IN  IF m.subject = <<>> THEN <<>>
        ELSE Str(\h0037, m.subject) \o Str(\h003D, parts.prefix)
               \o Str(\h0E1D, parts.normalized) \o Str(\h0070, parts.normalized)

\* mutant: the preview is added whatever the body is
BodyTwice(body) ==
    (IF body.type = "Text" THEN Str(\h1000, body.content) ELSE Bin(\h1013, body.content))
      \o Str(\h1000, body.preview)

\* The text, or the markup and the preview as its text.
BodyProps(body) ==
    IF body.type = "Text" THEN Str(\h1000, body.content)
    ELSE Bin(\h1013, body.content) \o Str(\h1000, body.preview)

MessageTimes(m) ==
    Time(\h3007, m.created) \o Time(\h3008, m.modified) \o Time(\h6722, m.modified)
      \o Time(\h0039, m.sent) \o Time(\h0E06, m.received)

SearchSeed(m) ==
    IF m.internetMessageId # <<>> THEN m.internetMessageId
    ELSE m.subject \o <<"|">> \o m.sent

MailProps(m) ==
    Str(\h001A, <<"IPM.Note">>)
      \o SubjectProps(m)
      \o BodyProps(m.body)
      \o Num(\h0017, m.importance)
      \o Num(\h0E07, ComputeMessageFlags(m))
      \o Bool(\h0E1B, HasAttachments(m))
      \o Num(\h0FFE, 5)
      \o Num(\h0E08, EstimateMessageSize(m))
      \o (IF m.body.type = "Html" THEN Num(\h3FDE, 65001) ELSE <<>>)
      \o Str(\h0E04, JoinRecipientDisplay(m.to))
      \o Str(\h0E03, JoinRecipientDisplay(m.cc))
      \o Str(\h0E02, JoinRecipientDisplay(m.bcc))
      \o MessageTimes(m)
      \o Str(\h1035, m.internetMessageId)
      \o Bin(\h300B, SearchKey(SearchSeed(m)))
      \o Bin(\h0071, m.conversationIndex)
      \o Str(\h007D, SerializeInternetHeaders(m.headers))
      \o FlattenSeq([i \in DOMAIN Origin(m) |-> OriginProps(Origin(m)[i])])

-----------------------------------------------------------------------------
(* buildAttachmentPc.  Of an attached message only the heap is kept; what  *)
(* that message itself put into subnodes is dropped.                       *)

AttachMethod(a) == IF a.kind = "Item" THEN 5 ELSE 1

\* The size Graph reports, or an estimate when it reports none.
AttachSize(a) ==
    IF Word(a.size) # 0 THEN Word(a.size)
    ELSE IF Word(Len(a.content) + 512) # 0 THEN Word(Len(a.content) + 512) ELSE 512

AttachData(a) ==
    IF a.kind = "File" THEN Bin(\h3701, a.content)
    ELSE IF a.kind = "Item" /\ a.item # <<>> THEN Bin(\h3701, <<"heap">> \o a.item)
    ELSE <<>>

AttachmentProps(a) ==
    Num(\h3705, AttachMethod(a)) \o Num(\h0E20, AttachSize(a)) \o Num(\h370B, -1)
      \o Str(\h3704, a.name) \o Str(\h3707, a.name) \o Str(\h3001, a.name)
      \o Str(\h370E, a.contentType) \o Str(\h3712, a.contentId)
      \o AttachData(a)

-----------------------------------------------------------------------------
(* Folders: buildMailFolderPc for those of the user, buildFolderPc for     *)
(* those every store has.  The second adds the name even if it is empty.   *)

MailFolderProps(f) ==
    Str(\h3001, f.name)
      \o Num(\h3602, f.count) \o Num(\h3603, f.unread) \o Bool(\h360A, f.subfolders)
      \o Str(\h3613, f.containerClass)
      \o Num(\h6635, f.hidden) \o Num(\h6636, f.hiddenUnread)

FolderProps(f) ==
    Put(\h3001, "Unicode", f.name)
      \o Num(\h3602, f.count) \o Num(\h3603, f.unread) \o Bool(\h360A, f.subfolders)

-----------------------------------------------------------------------------
(* buildMessageStorePc and buildNameToIdMapPc. *)

EntryId(uid, nid) == <<"flags">> \o uid \o <<nid>>

MessageStoreProps(s) ==
    Put(\h0E34, "Binary", <<"prefix">> \o s.providerUid \o <<"suffix">>)
      \o Num(\h0E38, 0)
      \o Put(\h0FF9, "Binary", s.providerUid)
      \o Put(\h3001, "Unicode", s.name)
      \o Num(\h35DF, 137)
      \o Put(\h35E0, "Binary", EntryId(s.providerUid, \h8022))
      \o Put(\h35E3, "Binary", EntryId(s.providerUid, \h8062))
      \o Put(\h35E7, "Binary", EntryId(s.providerUid, \h8042))
      \o Bool(\h6633, TRUE)
      \o Num(\h66FA, \h000E000D)
      \o Num(\h67FF, 0)

\* The map is empty, its streams hold one blank entry each all the same.
NameToIdMapProps ==
    Num(\h0001, 251)
      \o Put(\h0002, "Binary", <<"blank">>)
      \o Put(\h0003, "Binary", <<"blank">>)
      \o Put(\h0004, "Binary", <<"blank">>)

-----------------------------------------------------------------------------
(* buildContactPc.  A contact is a function of the fields' names. *)

First(list) == IF list = <<>> THEN <<>> ELSE list[1]

\* The display name, or one made of the given name and the surname.
ContactName(c) ==
    IF c["displayName"] # <<>> THEN c["displayName"]
    ELSE IF c["givenName"] # <<>> /\ c["surname"] # <<>>
         THEN c["givenName"] \o <<" ">> \o c["surname"]
    ELSE c["givenName"] \o c["surname"]

\* The strings copied as they are, in the builder's order.
ContactStrings ==
    <<<<\h3A06, "givenName">>, <<\h3A11, "surname">>, <<\h3A44, "middleName">>,
      <<\h3A4F, "nickName">>, <<\h3A0A, "initials">>, <<\h3A05, "generation">>,
      <<\h3A45, "title">>, <<\h3A17, "jobTitle">>, <<\h3A16, "companyName">>,
      <<\h3A18, "department">>, <<\h3A19, "officeLocation">>, <<\h3A46, "profession">>,
      <<\h3A51, "businessHomePage">>, <<\h3A1C, "mobilePhone">>>>

AddressStrings ==
    <<<<\h3A29, "street">>, <<\h3A27, "city">>, <<\h3A28, "state">>,
      <<\h3A2A, "postalCode">>, <<\h3A26, "country">>>>

HomeAddressStrings ==
    <<<<\h3A5D, "homeStreet">>, <<\h3A59, "homeCity">>, <<\h3A5C, "homeState">>,
      <<\h3A5B, "homePostalCode">>, <<\h3A5A, "homeCountry">>>>

Strings(table, c) == FlattenSeq([i \in DOMAIN table |-> Str(table[i][1], c[table[i][2]])])

Joined(a, separator, b) ==
    IF a = <<>> THEN b ELSE IF b = <<>> THEN a ELSE a \o separator \o b

\* Street, then city, state and postal code on one line, then the country.
FormatPostalAddress(c) ==
    LET line == Joined(Joined(c["city"], <<", ">>, c["state"]), <<" ">>, c["postalCode"])
    IN  Joined(Joined(c["street"], <<"crlf">>, line), <<"crlf">>, c["country"])

ContactProps(c) ==
    Str(\h001A, <<"IPM.Contact">>)
      \o Str(\h3001, ContactName(c)) \o Str(\h0037, ContactName(c))
      \o Strings(ContactStrings, c)
      \o Str(\h3A08, First(c["businessPhones"])) \o Str(\h3A09, First(c["homePhones"]))
      \o (IF c["emailAddresses"] = <<>> THEN <<>>
          ELSE Str(\h3003, First(c["emailAddresses"])) \o Str(\h3002, <<"SMTP">>))
      \o Time(\h3A42, c["birthday"]) \o Time(\h3A41, c["anniversary"])
      \o Time(\h3007, c["created"]) \o Time(\h3008, c["modified"])
      \o Strings(AddressStrings, c) \o Strings(HomeAddressStrings, c)
      \o Str(\h3A15, FormatPostalAddress(c))

-----------------------------------------------------------------------------
(* buildEventPc. *)

\* Every time zone is taken for UTC.
ToIso(dtz) == dtz.dateTime

EventProps(e) ==
    Str(\h001A, <<"IPM.Appointment">>)
      \o Str(\h0037, e.subject)
      \o (IF e.body.content = <<>> THEN <<>> ELSE BodyProps(e.body))
      \o Num(\h0017, e.importance) \o Num(\h0036, 0)
      \o Time(\h0060, ToIso(e.start)) \o Time(\h0061, ToIso(e.end))
      \o Time(\h3007, e.created) \o Time(\h3008, e.modified)
      \o Bool(\h0E1B, e.hasAttachments)
      \o Num(\h0E07, IF e.isDraft THEN 0 ELSE 1)
      \o FlattenSeq([i \in DOMAIN e.organizer |-> OriginProps(e.organizer[i])])
=============================================================================
