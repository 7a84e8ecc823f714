----------------------------- MODULE JsonParser -----------------------------
(***************************************************************************)
(* The JSON parser of the front end (src/src/internal_json.hpp, and the    *)
(* copy of it in graph_message.cpp): recursive descent over the text, with *)
(* the functions that are active kept as a stack of frames.                *)
(*                                                                         *)
(* The text is a sequence of tokens, white space left out.  It is chosen   *)
(* while it is read, so that every text of up to MaxTokens is considered   *)
(* as far as the parser looks at it, or it is given beforehand.  Strings   *)
(* are opaque here (TextConversion has their escapes), numbers are tenths, *)
(* and one that the parser refuses is the token "malformed", as is such a  *)
(* string.                                                                 *)
(***************************************************************************)
EXTENDS Integers, Sequences, SequencesExt, TLC

CONSTANTS
    MaxTokens,     \* the longest text chosen while it is read
    Vocabulary,    \* the tokens of such a text
    Kinds,         \* what the text is read for
    GivenTexts     \* texts given beforehand for each kind, "end" included

VARIABLES
    text,     \* the text, as far as it is known
    pos,      \* how much of it this parse has consumed
    frames,   \* the active functions, innermost last; <<>> between parses
    value     \* what the last parse returned or has begun to

jsonVars == <<text, pos, frames, value>>

Mark(c)   == [c |-> c]
String(s) == [c |-> "string", s |-> s]
Number(n) == [c |-> "number", n |-> n]
End       == Mark("end")

(***************************************************************************)
(* A JsonValue: its type and the one member that goes with it.             *)
(***************************************************************************)
JNull      == [type |-> "Null"]
JBool(b)   == [type |-> "Bool", b |-> b]
JNumber(n) == [type |-> "Number", n |-> n]
JString(s) == [type |-> "String", s |-> s]
JObject(f) == [type |-> "Object", obj |-> f]
JArray(s)  == [type |-> "Array", arr |-> s]

-----------------------------------------------------------------------------
(* A frame: the function, where it is in it, and its JsonValue so far.     *)

Frame(fn, at, v) == [fn |-> fn, at |-> at, val |-> v, key |-> ""]

Top == Last(frames)

\* The innermost frame goes on at another place.
At(place) == [frames EXCEPT ![Len(frames)].at = place]

\* What the next token may be.
Upcoming ==
    IF pos < Len(text) THEN {text[pos + 1]}
    ELSE IF Len(text) < MaxTokens THEN Vocabulary \cup {End}
    ELSE {End}

\* The text is looked at up to t; the token is consumed or not.
Peek(t)    == text' = (IF pos < Len(text) THEN text ELSE Append(text, t)) /\ UNCHANGED pos
Consume(t) == text' = (IF pos < Len(text) THEN text ELSE Append(text, t)) /\ pos' = pos + 1

Parsing == frames # <<>>

\* fail throws, out of every function that is active.
Failure == [type |-> "failure"]
Fail(t) == Peek(t) /\ frames' = <<>> /\ value' = Failure

\* map::emplace: the first value of a key stays.
Emplace(obj, key, v) == obj @@ (key :> v)

(***************************************************************************)
(* A parse function returns v to its caller, which has frames below.       *)
(***************************************************************************)
Returned(below, v) ==
    LET caller == Last(below)
        n      == Len(below)
    IN  CASE caller.fn = "parseTopLevel" ->
                [below EXCEPT ![n].at = "end", ![n].val = v]
          [] caller.fn = "parseArray" ->
                [below EXCEPT ![n].at = "after", ![n].val = JArray(Append(caller.val.arr, v))]
          [] caller.fn = "parseObject" ->
                [below EXCEPT ![n].at = "after",
                              ![n].val = JObject(Emplace(caller.val.obj, caller.key, v))]

Scalar(t) ==
    CASE t.c = "string" -> JString(t.s)
      [] t.c = "number" -> JNumber(t.n)
      [] t.c = "true"   -> JBool(TRUE)
      [] t.c = "false"  -> JBool(FALSE)
      [] t.c = "null"   -> JNull

\* parseValue, with the functions that return at once.
ParseValue ==
    /\ Parsing /\ Top.at = "value"
    /\ \E t \in Upcoming :
          \/ /\ t.c = "{" /\ Consume(t)
             /\ frames' = Append(frames, Frame("parseObject", "first", JObject(<<>>)))
             /\ UNCHANGED value
          \/ /\ t.c = "[" /\ Consume(t)
             /\ frames' = Append(frames, Frame("parseArray", "first", JArray(<<>>)))
             /\ UNCHANGED value
          \/ /\ t.c \in {"string", "number", "true", "false", "null"} /\ Consume(t)
             /\ frames' = Returned(frames, Scalar(t))
             /\ UNCHANGED value
          \/ t.c \in {"}", "]", ":", ",", "malformed", "end"} /\ Fail(t)

\* The loop of parseObject up to the colon; an empty object ends before it.
ParseKey ==
    /\ Parsing /\ Top.fn = "parseObject" /\ Top.at \in {"first", "key"}
    /\ \E t \in Upcoming :
          \/ /\ t.c = "}" /\ Top.at = "first" /\ Consume(t)
             /\ frames' = Returned(Front(frames), Top.val)
             /\ UNCHANGED value
          \/ /\ t.c = "string" /\ Consume(t)
             /\ frames' = [frames EXCEPT ![Len(frames)].at = "colon", ![Len(frames)].key = t.s]
             /\ UNCHANGED value
          \/ t.c # "string" /\ (t.c = "}" => Top.at # "first") /\ Fail(t)

ParseColon ==
    /\ Parsing /\ Top.at = "colon"
    /\ \E t \in Upcoming :
          \/ t.c = ":" /\ Consume(t) /\ frames' = At("value") /\ UNCHANGED value
          \/ t.c # ":" /\ Fail(t)

\* parseArray looks for its end before the first element only.
FirstElement ==
    /\ Parsing /\ Top.fn = "parseArray" /\ Top.at = "first"
    /\ \E t \in Upcoming :
          \/ /\ t.c = "]" /\ Consume(t)
             /\ frames' = Returned(Front(frames), Top.val)
          \/ t.c # "]" /\ Peek(t) /\ frames' = At("value")
    /\ UNCHANGED value

Closing(fn) == IF fn = "parseObject" THEN "}" ELSE "]"

\* mutant: after a comma an array may end
ResumeAtEnd(fn) == IF fn = "parseObject" THEN "key" ELSE "first"

\* Where the loop goes on behind a comma.
Resume(fn) == IF fn = "parseObject" THEN "key" ELSE "value"

\* Behind a member or an element.
ParseSeparator ==
    /\ Parsing /\ Top.at = "after"
    /\ \E t \in Upcoming :
          \/ t.c = "," /\ Consume(t) /\ frames' = At(Resume(Top.fn)) /\ UNCHANGED value
          \/ /\ t.c = Closing(Top.fn) /\ Consume(t)
             /\ frames' = Returned(Front(frames), Top.val)
             /\ UNCHANGED value
          \/ t.c \notin {",", Closing(Top.fn)} /\ Fail(t)

\* Nothing may follow the value.
ParseEnd ==
    /\ Parsing /\ Top.at = "end"
    /\ \E t \in Upcoming :
          \/ t.c = "end" /\ Peek(t) /\ frames' = <<>> /\ value' = Top.val
          \/ t.c # "end" /\ Fail(t)

ParseStep ==
    ParseValue \/ ParseKey \/ ParseColon \/ FirstElement \/ ParseSeparator \/ ParseEnd

\* Parser p(json); p.parseTopLevel().
BeginParse ==
    /\ frames' = <<Frame("parseTopLevel", "value", JNull)>>
    /\ pos' = 0 /\ value' = JNull
    /\ UNCHANGED text

\* Nothing of the text is known yet, or all of it.
JsonInit(kind) ==
    /\ text \in {<<>>} \cup GivenTexts[kind]
    /\ pos = 0 /\ frames = <<>> /\ value = JNull

-----------------------------------------------------------------------------
(* The grammar of JSON (RFC 8259), as the texts it derives: for each       *)
(* length those of a value, of the elements of an array that is not empty, *)
(* and of the members of such an object.                                   *)

ScalarMarks == {t \in Vocabulary : t.c \in {"string", "number", "true", "false", "null"}}

Enclosed(open, inner, close) == {<<Mark(open)>> \o t \o <<Mark(close)>> : t \in inner}

Keys == {t \in Vocabulary : t.c = "string"}

\* Two parts with a mark between them, n tokens in all.
Joined(left, mark, right, n) ==
    UNION {{a \o <<Mark(mark)>> \o b : a \in left[k], b \in right[n - 1 - k]} : k \in 1..(n - 2)}

\* The texts of n tokens, from those of fewer, which d lists.
Derive(d, n) ==
    LET val == (IF n = 1 THEN {<<t>> : t \in ScalarMarks} ELSE {})
                 \cup (IF n = 2 THEN {<<Mark("["), Mark("]")>>, <<Mark("{"), Mark("}")>>} ELSE {})
                 \cup (IF n > 2 THEN Enclosed("[", d.elements[n - 2], "]")
                                       \cup Enclosed("{", d.members[n - 2], "}")
                       ELSE {})
        key == [k \in 1..n |-> IF k = 1 THEN {<<t>> : t \in Keys} ELSE {}]
        mem == Joined(key, ":", d.value, n)
    IN  [value    |-> Append(d.value, val),
         elements |-> Append(d.elements, val \cup Joined(d.value, ",", d.elements, n)),
         member   |-> Append(d.member, mem),
         members  |-> Append(d.members, mem \cup Joined(d.member, ",", d.members, n))]

Derived ==
    FoldLeft(Derive, [value |-> <<>>, elements |-> <<>>, member |-> <<>>, members |-> <<>>],
             [n \in 1..MaxTokens |-> n])

ValueTexts == UNION Range(Derived.value)
Beginnings == UNION {{SubSeq(t, 1, k) : k \in 0..Len(t)} : t \in ValueTexts}

(***************************************************************************)
(* A text chosen while it was read is taken exactly when the grammar       *)
(* derives it, and the parser fails only at a token that no value goes on  *)
(* with: nothing is skipped, nothing accepted in passing (a comma at the   *)
(* end, a second value, a key without a value), nothing refused too early. *)
(***************************************************************************)
AcceptsTheGrammar ==
    ~Parsing /\ value # JNull /\ Range(text) \subseteq Vocabulary \cup {End} =>
        IF value # Failure THEN Last(text) = End /\ Front(text) \in ValueTexts
        ELSE IF Last(text) = End THEN Front(text) \notin ValueTexts
        ELSE text \notin Beginnings
=============================================================================
