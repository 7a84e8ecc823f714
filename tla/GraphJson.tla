------------------------------ MODULE GraphJson ------------------------------
(***************************************************************************)
(* Graph objects from JSON values (src/src/graph_message.cpp,              *)
(* graph_contact.cpp, graph_event.cpp): which member of the JSON object    *)
(* each field is read from, and what it is when the member is missing or   *)
(* has another type.  JSON values are those of JsonParser.  An optional    *)
(* object is a sequence of at most one.                                    *)
(***************************************************************************)
EXTENDS JsonParser

CONSTANT
    BadBase64      \* the strings that base64DecodeBinary throws on

-----------------------------------------------------------------------------
(* The lookup helpers. *)

Member(v, key, type) ==
    v.type = "Object" /\ key \in DOMAIN v.obj /\ v.obj[key].type = type

Has(v, key) == v.type = "Object" /\ key \in DOMAIN v.obj

GetStr(v, key)         == IF Member(v, key, "String") THEN v.obj[key].s ELSE ""
GetBool(v, key, deflt) == IF Member(v, key, "Bool") THEN v.obj[key].b ELSE deflt

Truncated(tenths) == IF tenths >= 0 THEN tenths \div 10 ELSE -((-tenths) \div 10)

GetInt(v, key) == IF Member(v, key, "Number") THEN Truncated(v.obj[key].n) ELSE 0

\* The elements of an array that have a type; of anything else, none.
ElementsOf(v, key, type) ==
    IF Member(v, key, "Array")
    THEN SelectSeq(v.obj[key].arr, LAMBDA e : e.type = type)
    ELSE <<>>

GetStringArray(v, key) ==
    LET es == ElementsOf(v, key, "String") IN [i \in DOMAIN es |-> es[i].s]

Each(v, key, Extract(_)) ==
    LET es == ElementsOf(v, key, "Object") IN [i \in DOMAIN es |-> Extract(es[i])]

\* The string members of one object.
Strings(v, keys) == [k \in keys |-> GetStr(v, k)]

\* What a member of any type is extracted to, or the default if there is none.
Within(v, key, Extract(_), deflt) == IF Has(v, key) THEN Extract(v.obj[key]) ELSE deflt

\* Bytes that cannot be decoded are left out.
Decoded(b64) == IF b64 \in BadBase64 THEN "" ELSE b64

-----------------------------------------------------------------------------
(* Shared parts. *)

NoAddress == [name |-> "", address |-> ""]

ExtractEmailAddress(v)   == Strings(v, {"name", "address"})
ExtractRecipientEmail(v) == Within(v, "emailAddress", ExtractEmailAddress, NoAddress)

Named(a) == a.name # "" \/ a.address # ""

\* An address counts as given when its name or its address is.
OptionalAddress(a) == IF Named(a) THEN <<a>> ELSE <<>>

ContentTypeOf(s) == IF s \in {"html", "Html", "HTML"} THEN "Html" ELSE "Text"

NoBody == [content |-> "", contentType |-> "Text"]
ExtractBody(v) ==
    [content |-> GetStr(v, "content"), contentType |-> ContentTypeOf(GetStr(v, "contentType"))]

\* A name of an enumeration, or its default.
OneOf(s, names, deflt) == IF s \in names THEN s ELSE deflt

ImportanceFrom(s) == OneOf(s, {"low", "high"}, "normal")

-----------------------------------------------------------------------------
(* Messages. *)

ExtractHeader(v) == Strings(v, {"name", "value"})

\* mutant: a contentBytes member decides before an item does
KindByBytes(v) == IF Has(v, "contentBytes") \/ ~Has(v, "item") THEN "File" ELSE "Item"

\* By the declared type or the members that are there; a file by default.
AttachmentKind(v) ==
    IF GetStr(v, "@odata.type") = "#microsoft.graph.itemAttachment" \/ Has(v, "item")
    THEN "Item" ELSE "File"

HoldsBytes(v) ==
    GetStr(v, "@odata.type") = "#microsoft.graph.fileAttachment" \/ Has(v, "contentBytes")

MessageStrings ==
    {"id", "internetMessageId", "conversationId", "subject", "bodyPreview", "createdDateTime",
     "lastModifiedDateTime", "sentDateTime", "receivedDateTime", "parentFolderId"}

RECURSIVE ExtractMessage(_)

\* An item attachment's message is extracted as the outer one is.
ExtractAttachment(v) ==
    [kind |-> AttachmentKind(v),
     contentBytes |-> IF AttachmentKind(v) = "File" /\ HoldsBytes(v)
                      THEN Decoded(GetStr(v, "contentBytes")) ELSE "",
     item |-> IF AttachmentKind(v) = "Item" /\ Member(v, "item", "Object")
              THEN <<ExtractMessage(v.obj["item"])>> ELSE <<>>,
     isInline |-> GetBool(v, "isInline", FALSE),
     size |-> GetInt(v, "size")]
      @@ Strings(v, {"name", "contentType", "contentId"})

\* The first address to reply to.
ReplyTo(v) ==
    IF Member(v, "replyTo", "Array") /\ v.obj["replyTo"].arr # <<>>
         /\ v.obj["replyTo"].arr[1].type = "Object"
    THEN LET a == ExtractRecipientEmail(v.obj["replyTo"].arr[1])
         IN  IF a.address # "" THEN <<a>> ELSE <<>>
    ELSE <<>>

FlagFrom(v) == OneOf(GetStr(v, "flagStatus"), {"complete", "flagged"}, "notFlagged")

ExtractMessage(v) ==
    Strings(v, MessageStrings)
      @@ [conversationIndex |-> Decoded(GetStr(v, "conversationIndex")),
          body        |-> Within(v, "body", ExtractBody, NoBody),
          sender      |-> OptionalAddress(Within(v, "sender", ExtractRecipientEmail, NoAddress)),
          from        |-> OptionalAddress(Within(v, "from", ExtractRecipientEmail, NoAddress)),
          to          |-> Each(v, "toRecipients", ExtractRecipientEmail),
          cc          |-> Each(v, "ccRecipients", ExtractRecipientEmail),
          bcc         |-> Each(v, "bccRecipients", ExtractRecipientEmail),
          replyTo     |-> ReplyTo(v),
          isRead      |-> GetBool(v, "isRead", FALSE),
          isDraft     |-> GetBool(v, "isDraft", FALSE),
          hasAttachments |-> GetBool(v, "hasAttachments", FALSE),
          importance  |-> ImportanceFrom(GetStr(v, "importance")),
          flagStatus  |-> Within(v, "flag", FlagFrom, "notFlagged"),
          categories  |-> GetStringArray(v, "categories"),
          headers     |-> Each(v, "internetMessageHeaders", ExtractHeader),
          attachments |-> Each(v, "attachments", ExtractAttachment)]

-----------------------------------------------------------------------------
(* Contacts. *)

ContactStrings ==
    {"id", "parentFolderId", "changeKey", "createdDateTime", "lastModifiedDateTime",
     "displayName", "givenName", "surname", "middleName", "nickName", "initials", "generation",
     "title", "fileAs", "birthday", "anniversary", "jobTitle", "companyName", "department",
     "officeLocation", "profession", "mobilePhone", "businessHomePage", "personalNotes"}

ContactLists == {"businessPhones", "homePhones", "imAddresses", "categories"}

AddressParts == {"street", "city", "state", "postalCode", "countryOrRegion"}

ExtractAddress(v) == Strings(v, AddressParts)

ContactAddresses == {"businessAddress", "homeAddress", "otherAddress"}

ExtractContact(v) ==
    Strings(v, ContactStrings)
      @@ [k \in ContactLists |-> GetStringArray(v, k)]
      @@ [k \in ContactAddresses |->
            Within(v, k, ExtractAddress, [p \in AddressParts |-> ""])]
      @@ [emailAddresses |-> Each(v, "emailAddresses", ExtractEmailAddress)]

-----------------------------------------------------------------------------
(* Events. *)

EventStrings ==
    {"id", "parentFolderId", "changeKey", "iCalUId", "transactionId", "createdDateTime",
     "lastModifiedDateTime", "subject", "bodyPreview", "seriesMasterId",
     "originalStartTimeZone", "originalEndTimeZone", "onlineMeetingProvider"}

EventFlags ==
    {"isAllDay", "isCancelled", "isDraft", "isOnlineMeeting", "isOrganizer", "isReminderOn",
     "responseRequested", "hasAttachments"}

TimeParts     == {"dateTime", "timeZone"}
LocationParts == {"displayName", "locationType", "locationUri"}

ExtractDtTz(v)     == Strings(v, TimeParts)
ExtractLocation(v) == Strings(v, LocationParts)

Nowhere == [p \in LocationParts |-> ""]
Never   == [p \in TimeParts |-> ""]

ResponseFrom(v) ==
    OneOf(GetStr(v, "response"),
          {"organizer", "tentativelyAccepted", "accepted", "declined", "notResponded"}, "none")

ExtractAttendee(v) ==
    [kind |-> OneOf(GetStr(v, "type"), {"optional", "resource"}, "required"),
     response |-> Within(v, "status", ResponseFrom, "none"),
     emailAddress |-> ExtractRecipientEmail(v)]

JoinUrl(v) == GetStr(v, "joinUrl")

\* A response is requested unless the event says otherwise.
ExtractEvent(v) ==
    Strings(v, EventStrings)
      @@ [k \in EventFlags |-> GetBool(v, k, k = "responseRequested")]
      @@ [body       |-> Within(v, "body", ExtractBody, NoBody),
          start      |-> Within(v, "start", ExtractDtTz, Never),
          end        |-> Within(v, "end", ExtractDtTz, Never),
          location   |-> Within(v, "location", ExtractLocation, Nowhere),
          locations  |-> Each(v, "locations", ExtractLocation),
          importance |-> ImportanceFrom(GetStr(v, "importance")),
          showAs     |-> OneOf(GetStr(v, "showAs"),
                               {"free", "tentative", "oof", "workingElsewhere", "unknown"}, "busy"),
          type       |-> OneOf(GetStr(v, "type"),
                               {"occurrence", "exception", "seriesMaster"}, "singleInstance"),
          organizer  |-> OptionalAddress(Within(v, "organizer", ExtractRecipientEmail, NoAddress)),
          attendees  |-> Each(v, "attendees", ExtractAttendee),
          categories |-> GetStringArray(v, "categories"),
          reminderMinutesBeforeStart |-> GetInt(v, "reminderMinutesBeforeStart"),
          onlineMeetingUrl |-> Within(v, "onlineMeeting", JoinUrl, "")]
=============================================================================
