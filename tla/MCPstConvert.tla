---------------------------- MODULE MCPstConvert ----------------------------
(***************************************************************************)
(* Instances of PstConvert: every text of a few tokens over a vocabulary   *)
(* that has lists, envelopes and repeated keys, and the texts of whole     *)
(* Graph objects in each of the three forms, complete, empty, and with     *)
(* each member at a time right or of a wrong type.                         *)
(***************************************************************************)
EXTENDS PstConvert

MCVocabulary ==
    {Mark(c) : c \in {"{", "}", "[", "]", ":", ",", "null", "malformed"}}
      \cup {String("value"), String("id")}

-----------------------------------------------------------------------------
(* The text of a JSON value, and objects from pairs of key and value.      *)

RECURSIVE TextOf(_)
TextOf(v) ==
    LET listed(parts) ==
          FlattenSeq([i \in DOMAIN parts |->
              IF i = 1 THEN parts[i] ELSE <<Mark(",")>> \o parts[i]])
    IN  CASE v.type = "Null"   -> <<Mark("null")>>
          [] v.type = "Bool"   -> <<Mark(IF v.b THEN "true" ELSE "false")>>
          [] v.type = "Number" -> <<Number(v.n)>>
          [] v.type = "String" -> <<String(v.s)>>
          [] v.type = "Array"  ->
                <<Mark("[")>> \o listed([i \in DOMAIN v.arr |-> TextOf(v.arr[i])]) \o <<Mark("]")>>
          [] v.type = "Object" ->
                LET ks == FoldSet(LAMBDA k, ks0 : Append(ks0, k), <<>>, DOMAIN v.obj)
                IN  <<Mark("{")>>
                      \o listed([i \in DOMAIN ks |->
                             <<String(ks[i]), Mark(":")>> \o TextOf(v.obj[ks[i]])])
                      \o <<Mark("}")>>

Strs(f)   == JObject([k \in DOMAIN f |-> JString(f[k])])
Each1(vs) == JArray([i \in DOMAIN vs |-> vs[i]])

Mailbox(n, a) == JObject("emailAddress" :> Strs([name |-> n, address |-> a]))

-----------------------------------------------------------------------------
(* A field of an object: the member it comes from, a JSON value of it, and *)
(* what is then meant by it; [at, json, means].                            *)

F(at, json, key, means) == [at |-> at, json |-> json, key |-> key, means |-> means]

Ann == [name |-> "Ann", address |-> "a@x"]
Ben == [name |-> "", address |-> "b@x"]

FileAttachment ==
    JObject("@odata.type" :> JString("#microsoft.graph.fileAttachment")
              @@ "name" :> JString("file") @@ "contentBytes" :> JString("bytes")
              @@ "size" :> JNumber(59))

FileMeant ==
    [kind |-> "File", contentBytes |-> "bytes", item |-> <<>>, isInline |-> FALSE, size |-> 5,
     name |-> "file", contentType |-> "", contentId |-> ""]

BareFile == JObject("contentBytes" :> JString("!") @@ "isInline" :> JBool(TRUE)
                      @@ "size" :> JNumber(-59))
BareMeant ==
    [kind |-> "File", contentBytes |-> "", item |-> <<>>, isInline |-> TRUE, size |-> -5,
     name |-> "", contentType |-> "", contentId |-> ""]

EmptyMessage ==
    [k \in MessageStrings |-> ""]
      @@ [conversationIndex |-> "", body |-> NoBody, sender |-> <<>>, from |-> <<>>,
          to |-> <<>>, cc |-> <<>>, bcc |-> <<>>, replyTo |-> <<>>, isRead |-> FALSE,
          isDraft |-> FALSE, hasAttachments |-> FALSE, importance |-> "normal",
          flagStatus |-> "notFlagged", categories |-> <<>>, headers |-> <<>>,
          attachments |-> <<>>]

\* An item with a contentBytes member is an item all the same.
ItemAttachment ==
    JObject("item" :> Strs([id |-> "inner"]) @@ "contentBytes" :> JString("bytes"))
ItemMeant ==
    [FileMeant EXCEPT !.kind = "Item", !.contentBytes = "", !.size = 0, !.name = "",
                      !.item = <<[EmptyMessage EXCEPT !.id = "inner"]>>]

LinkAttachment ==
    JObject("@odata.type" :> JString("#microsoft.graph.referenceAttachment"))
LinkMeant == [FileMeant EXCEPT !.contentBytes = "", !.size = 0, !.name = ""]

MessageFields ==
    {F(k, JString(k), k, k) : k \in MessageStrings}
      \cup {F("conversationIndex", JString("index"), "conversationIndex", "index"),
            F("body", Strs([content |-> "text", contentType |-> "HTML"]), "body",
              [content |-> "text", contentType |-> "Html"]),
            F("sender", Mailbox("Ann", "a@x"), "sender", <<Ann>>),
            F("from", Mailbox("", "b@x"), "from", <<Ben>>),
            F("toRecipients", Each1(<<Mailbox("Ann", "a@x"), JNull, Mailbox("", "b@x")>>), "to",
              <<Ann, Ben>>),
            F("ccRecipients", Each1(<<JObject(<<>>)>>), "cc", <<NoAddress>>),
            F("bccRecipients", Each1(<<Mailbox("", "b@x")>>), "bcc", <<Ben>>),
            F("replyTo", Each1(<<Mailbox("Ann", "a@x"), Mailbox("", "b@x")>>), "replyTo", <<Ann>>),
            F("isRead", JBool(TRUE), "isRead", TRUE), F("isDraft", JBool(TRUE), "isDraft", TRUE),
            F("hasAttachments", JBool(TRUE), "hasAttachments", TRUE),
            F("importance", JString("high"), "importance", "high"),
            F("flag", Strs([flagStatus |-> "flagged"]), "flagStatus", "flagged"),
            F("categories", Each1(<<JString("red"), JNumber(10), JString("blue")>>), "categories",
              <<"red", "blue">>),
            F("internetMessageHeaders", Each1(<<Strs([name |-> "n", value |-> "v"])>>), "headers",
              <<[name |-> "n", value |-> "v"]>>),
            F("attachments",
              Each1(<<FileAttachment, JString("no"), BareFile, ItemAttachment, LinkAttachment>>),
              "attachments", <<FileMeant, BareMeant, ItemMeant, LinkMeant>>)}

EmptyContact ==
    [k \in ContactStrings |-> ""] @@ [k \in ContactLists |-> <<>>]
      @@ [k \in ContactAddresses |-> [p \in AddressParts |-> ""]]
      @@ [emailAddresses |-> <<>>]

ContactFields ==
    {F(k, JString(k), k, k) : k \in ContactStrings}
      \cup {F(k, Each1(<<JString(k), JBool(TRUE)>>), k, <<k>>) : k \in ContactLists}
      \cup {F(k, Strs([p \in AddressParts |-> p]), k, [p \in AddressParts |-> p]) :
               k \in ContactAddresses}
      \cup {F("emailAddresses", Each1(<<Strs(Ann), JNull>>), "emailAddresses", <<Ann>>)}

EmptyEvent ==
    [k \in EventStrings |-> ""] @@ [k \in EventFlags |-> k = "responseRequested"]
      @@ [body |-> NoBody, start |-> Never, end |-> Never, location |-> Nowhere,
          locations |-> <<>>, importance |-> "normal", showAs |-> "busy",
          type |-> "singleInstance", organizer |-> <<>>, attendees |-> <<>>,
          categories |-> <<>>, reminderMinutesBeforeStart |-> 0, onlineMeetingUrl |-> ""]

EventFields ==
    {F(k, JString(k), k, k) : k \in EventStrings}
      \cup {F(k, JBool(k # "responseRequested"), k, k # "responseRequested") : k \in EventFlags}
      \cup {F("body", Strs([content |-> "text", contentType |-> "text"]), "body",
              [content |-> "text", contentType |-> "Text"]),
            F("start", Strs([p \in TimeParts |-> p]), "start", [p \in TimeParts |-> p]),
            F("end", Strs([p \in TimeParts |-> p]), "end", [p \in TimeParts |-> p]),
            F("location", Strs([p \in LocationParts |-> p]), "location",
              [p \in LocationParts |-> p]),
            F("locations", Each1(<<Strs([displayName |-> "room"]), JArray(<<>>)>>), "locations",
              <<[Nowhere EXCEPT !.displayName = "room"]>>),
            F("importance", JString("low"), "importance", "low"),
            F("showAs", JString("oof"), "showAs", "oof"),
            F("type", JString("exception"), "type", "exception"),
            F("organizer", Mailbox("Ann", "a@x"), "organizer", <<Ann>>),
            F("attendees",
              Each1(<<JObject("type" :> JString("optional")
                                @@ "status" :> Strs([response |-> "accepted"])
                                @@ "emailAddress" :> Strs(Ann)), JNumber(0)>>), "attendees",
              <<[kind |-> "optional", response |-> "accepted", emailAddress |-> Ann]>>),
            F("categories", Each1(<<JString("red")>>), "categories", <<"red">>),
            F("reminderMinutesBeforeStart", JNumber(150), "reminderMinutesBeforeStart", 15),
            F("onlineMeeting", Strs([joinUrl |-> "url"]), "onlineMeetingUrl", "url")}

FieldsOf(k) == CASE k = "mail" -> MessageFields [] k = "contacts" -> ContactFields
                 [] k = "calendar" -> EventFields
EmptyOf(k)  == CASE k = "mail" -> EmptyMessage [] k = "contacts" -> EmptyContact
                 [] k = "calendar" -> EmptyEvent

-----------------------------------------------------------------------------
(* Objects with some fields, and one member of a type it should not have.  *)

WrongTypes == {JNull, JBool(FALSE), JNumber(70), JString("?"), JArray(<<JNull>>), JObject(<<>>)}

\* What a type would be right for is not wrong.
WrongFor(f) == {w \in WrongTypes : w.type # f.json.type}

Sample(fields, empty, damage) ==
    [json |-> JObject([at \in {f.at : f \in fields} |->
                          (CHOOSE f \in fields : f.at = at).json]
                        @@ damage),
     means |-> [key \in {f.key : f \in fields} |->
                   (CHOOSE f \in fields : f.key = key).means] @@ empty]

\* Fields short enough to go along with every other.
Short(k) == {f \in FieldsOf(k) : f.at \in {"id", "subject", "hasAttachments", "displayName"}}

\* All fields, none, each beside a few others, right or of a wrong type.
Samples(k) ==
    LET fs == FieldsOf(k)
    IN  {Sample(fs, EmptyOf(k), <<>>), Sample({}, EmptyOf(k), "other" :> JNull)}
          \cup {Sample({f} \cup Short(k), EmptyOf(k), <<>>) : f \in fs}
          \cup UNION {{Sample(Short(k) \ {f}, EmptyOf(k), f.at :> w) : w \in WrongFor(f)} : f \in fs}

Whole(k) == Sample(FieldsOf(k), EmptyOf(k), <<>>)

\* A text: one object; a list; an envelope, whose list may come first or last.
Forms(k) ==
    {[json |-> s.json, means |-> <<s.means>>] : s \in Samples(k)}
      \cup {[json |-> Each1(<<Whole(k).json, JNull, s.json>>),
             means |-> <<Whole(k).means, s.means>>] : s \in {Sample({}, EmptyOf(k), <<>>)}}
      \cup {[json |-> JObject(context @@ "value" :> Each1(<<Whole(k).json>>)),
             means |-> <<Whole(k).means>>] :
                context \in {<<>>, "@odata.context" :> JString("url"), "zzz" :> JNull}}

CasesOf == [k \in Kinds |-> IF k \in Known THEN Forms(k) ELSE {}]

\* The texts, with what each means.
Texts == [k \in Kinds |->
            {[text |-> Append(TextOf(c.json), End), means |-> c.means] : c \in CasesOf[k]}]

MCTexts == [k \in Kinds |-> {t.text : t \in Texts[k]}]

(***************************************************************************)
(* What reaches the writer is what the text of a Graph object means, in    *)
(* its order, in all three forms pst_convert accepts.  A member that is    *)
(* missing or has another type leaves its own field at the default and     *)
(* touches no other field and no other object; an element that is not an   *)
(* object is passed over.                                                  *)
(***************************************************************************)
MeantIsConverted ==
    folder # <<>> =>
        \A t \in Texts[kind] : t.text = text => folder[1].contents = t.means
=============================================================================
