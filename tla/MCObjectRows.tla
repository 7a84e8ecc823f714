---------------------------- MODULE MCObjectRows ----------------------------
(***************************************************************************)
(* Instances of ObjectRows: objects of every kind.  The parts of a message *)
(* that take part in one derivation are varied together, the others left   *)
(* at a base value; contacts have every field, one, all but one or none.   *)
(***************************************************************************)
EXTENDS ObjectRows

Person(name, address) == [name |-> name, address |-> address]

People   == {Person(<<"Ann">>, <<"a@x">>), Person(<<"Ben">>, <<"b@x">>),
             Person(<<>>, <<"c@x">>), Person(<<"Dee">>, <<>>), Person(<<>>, <<>>)}
Optional == {<<>>} \cup {<<p>> : p \in People}
Buckets  == {<<>>} \cup {<<p>> : p \in People} \cup {<<p, q>> : p, q \in People}

Dates == {<<>>, <<0>>, <<7>>}

\* Every subject of up to four characters and some of six.
Subjects ==
    UNION {[1..n -> {"a", ":", " "}] : n \in 0..4}
      \cup {<<"a", "a", "a", ":", " ", "a">>, <<"a", "a", "a", "a", ":", " ">>,
            <<"a", "a", ":", " ", "a", "a">>}

Bodies == [type : {"Text", "Html"}, content : {<<>>, <<"content">>},
           preview : {<<>>, <<"preview">>}]

Attachment(kind, name, size, content, inner) ==
    [kind |-> kind, name |-> name, contentType |-> <<"type">>, contentId |-> <<>>,
     size |-> size, content |-> content, item |-> inner]

Attachments ==
    {Attachment(kind, name, size, content, inner) :
        kind \in {"File", "Item", "Reference"}, name \in {<<>>, <<"file">>},
        size \in {-3, 0, 9, 65536, 65542}, content \in {<<>>, <<"data">>},
        inner \in {<<>>, <<"message">>}}

BaseMessage ==
    [subject |-> <<"a">>, body |-> [type |-> "Text", content |-> <<"content">>, preview |-> <<>>],
     importance |-> 1, isRead |-> TRUE, isDraft |-> FALSE, hasAttachments |-> FALSE,
     attachments |-> <<>>, to |-> <<>>, cc |-> <<>>, bcc |-> <<>>,
     from |-> <<>>, sender |-> <<>>, created |-> <<>>, modified |-> <<>>,
     sent |-> <<>>, received |-> <<>>, internetMessageId |-> <<>>,
     headers |-> <<>>, conversationIndex |-> <<>>]

SubjectMessages ==
    {[BaseMessage EXCEPT !.subject = s, !.body = b] : s \in Subjects, b \in Bodies}

OriginMessages ==
    {[BaseMessage EXCEPT !.from = f, !.sender = s] : f \in Optional, s \in Optional}

BucketMessages ==
    {[BaseMessage EXCEPT !.to = t, !.cc = c, !.bcc = t] : t \in Buckets, c \in Buckets}

DateMessages ==
    {[BaseMessage EXCEPT !.created = c, !.modified = m, !.sent = s, !.received = r] :
           c \in Dates, m \in Dates, s \in Dates, r \in Dates}

FlagMessages ==
    {[BaseMessage EXCEPT !.isRead = r, !.isDraft = d, !.hasAttachments = h,
                            !.attachments = a, !.importance = i] :
           r \in BOOLEAN, d \in BOOLEAN, h \in BOOLEAN, i \in 0..2,
           a \in {<<>>} \cup {<<x, x>> : x \in Attachments}}

SeedMessages ==
    {[BaseMessage EXCEPT !.internetMessageId = i, !.headers = h,
                            !.conversationIndex = x, !.sent = s, !.subject = u] :
           i \in {<<>>, <<"id">>}, h \in {<<>>, <<<<"h">>>>, <<<<"h">>, <<"g">>>>},
           x \in {<<>>, <<"index">>}, s \in Dates, u \in {<<>>, <<"a">>}}

Folder(writer, name, class, count, unread, subfolders) ==
    [writer |-> writer, id |-> 2, name |-> name, containerClass |-> class, count |-> count,
     unread |-> unread, subfolders |-> subfolders, hidden |-> 0, hiddenUnread |-> 0]

Folders ==
    {Folder(w, n, c, k, u, FALSE) : w \in {"M7", "M8", "M9"}, n \in {<<>>, <<"Inbox">>},
        c \in {<<>>, <<"IPF">>}, k \in {0, 2}, u \in {0, 1}}

\* Of every store: as a minimal one has them, as one of either name.
AnyMandatory ==
    MinimalFolders \cup BaselineFolders(<<>>) \cup BaselineFolders(<<"Store">>)

ContactFields ==
    {ContactStrings[i][2] : i \in DOMAIN ContactStrings}
      \cup {AddressStrings[i][2] : i \in DOMAIN AddressStrings}
      \cup {HomeAddressStrings[i][2] : i \in DOMAIN HomeAddressStrings}
      \cup {"displayName", "businessPhones", "homePhones", "emailAddresses",
            "birthday", "anniversary", "created", "modified"}

FieldValue(f) ==
    IF f \in {"birthday", "anniversary", "created", "modified"} THEN <<7>>
    ELSE IF f \in {"businessPhones", "homePhones", "emailAddresses"} THEN <<<<f>>, <<>>>>
    ELSE <<f>>

Contact(given) == [f \in ContactFields |-> IF f \in given THEN FieldValue(f) ELSE <<>>]

Contacts ==
    {Contact(ContactFields), Contact({})}
      \cup {Contact({f, g}) : f, g \in ContactFields}
      \cup {Contact(ContactFields \ {f}) : f \in ContactFields}

Events ==
    [subject : {<<>>, <<"a">>}, body : Bodies, importance : {1},
     start : {[dateTime |-> d, timeZone |-> <<"UTC">>] : d \in Dates},
     end : {[dateTime |-> d, timeZone |-> <<"PST">>] : d \in Dates},
     created : {<<>>, <<7>>}, modified : {<<7>>}, hasAttachments : BOOLEAN,
     isDraft : BOOLEAN, organizer : Optional]

\* Escapes and bytes at the bounds of the encodings.
Pieces ==
    {[u |-> x] : x \in {0, \h7F, \h80, \h7FF, \h800, \hD7FF, \hD800, \hDBFF, \hDC00, \hDFFF,
                        \hE000, \hFFFF}}
      \cup {[b |-> x] : x \in {65, 127, 128, 191, 194, 224, 237, 240, 244, 255}}

LiteralsOf(n) == [1..n -> Pieces]
FourBytes     == [1..4 -> {[b |-> x] : x \in {128, 143, 144, 240, 244}}]
BinariesOf(n) == [1..n -> {0, 1, 127, 128, 255}]

\* Days around the ends of months and of centuries, in several zones.
DatesOf(years, months, days, hours, fractions, zones) ==
    {[year |-> y, month |-> m, day |-> d, hour |-> h, minute |-> 30, second |-> 59,
      fraction |-> f, zone |-> z] :
        y \in years, m \in months, d \in days, h \in hours, f \in fractions, z \in zones}

Zones == {NoZone} \cup [sign : {-1, 1}, h : {0, 5, 12}, m : {0, 45}]

FiletimeDates ==
    {d \in DatesOf({1601, 1602, 1604, 1700, 1900, 1970, 1999, 2000, 2001, 2024, 2100, 2400}, 1..12,
                   {1, 28, 29, 30, 31}, {0, 23}, {<<>>}, {NoZone}) :
        d.day <= DaysIn(d.year, d.month)}
      \cup DatesOf({1601, 2000}, {1, 3, 12}, {1, 31}, {0, 12, 23}, {<<>>}, Zones)
      \cup DatesOf({2024}, {2}, {29}, {6},
                   {<<>>, <<5>>, <<0, 0, 1>>, <<9, 9, 9, 9, 9, 9, 9>>, <<1, 2, 3, 4, 5, 6, 7, 8, 9>>},
                   {NoZone})

Of(kind, objs) == {[kind |-> kind, obj |-> o] : o \in objs}

MCFamilies ==
    <<Of("message", SubjectMessages), Of("message", OriginMessages),
      Of("message", BucketMessages), Of("message", DateMessages),
      Of("message", FlagMessages), Of("message", SeedMessages),
      Of("attachment", Attachments), Of("folder", Folders),
      Of("listedFolder", {f \in AnyMandatory : InRootHier(f)}),
      Of("unlistedFolder", {f \in AnyMandatory : ~InRootHier(f)}),
      Of("recipient", {[name |-> p.name, address |-> p.address, kind |-> k] :
                          p \in People, k \in 1..3}),
      Of("contact", Contacts), Of("event", Events),
      Of("store", {[providerUid |-> <<"uid">>, name |-> n] : n \in {<<>>, <<"Store">>}}),
      Of("template", Tables), Of("receiveFolder", {<<>>}), Of("nameMap", {<<>>}),
      Of("literal", LiteralsOf(0)), Of("literal", LiteralsOf(2)), Of("literal", LiteralsOf(3)),
      Of("literal", FourBytes),
      Of("binary", BinariesOf(1)), Of("binary", BinariesOf(2)), Of("binary", BinariesOf(3)),
      Of("binary", BinariesOf(4)), Of("date", FiletimeDates)>>

\* Folders as contact.cpp writes them.
ContactFolders == <<Of("folder", {f \in Folders : f.writer = "M8"})>>

\* The steps end once both views are written.
Finished == phase = "written" /\ UNCHANGED vars
MCSpec == Init /\ [][Next \/ Finished]_vars
=============================================================================
