--------------------------- MODULE TextConversion ---------------------------
(***************************************************************************)
(* What a string of a Graph object goes through before it is a property:   *)
(* the escapes of JSON to UTF-8 (Parser::parseString in                    *)
(* src/src/internal_json.hpp and graph_message.cpp), UTF-8 to UTF-16,      *)
(* base64 to bytes and a date to a FILETIME (src/src/graph_convert.cpp).   *)
(*                                                                         *)
(* Bytes and code units are numbers.  The pieces of a literal are \u       *)
(* escapes, [u |-> code unit], and all other characters, [b |-> byte], an  *)
(* escape such as \n standing for its byte.  What throws is Thrown.        *)
(***************************************************************************)
EXTENDS Integers, Sequences, SequencesExt, FiniteSets

Thrown == <<-1>>

-----------------------------------------------------------------------------
(* parseString and appendUtf8Codepoint. *)

IsHigh(u) == u \in \hD800..\hDBFF
IsLow(u)  == u \in \hDC00..\hDFFF

\* A byte that continues a code point: n counts the bytes behind it.
Continuation(cp, n) == 128 + ((cp \div 64 ^ n) % 64)

\* mutant: two bytes go one value too far
Utf8LateSwitch(cp) ==
    IF cp <= \h7F THEN <<cp>>
    ELSE IF cp <= \h800 THEN <<(192 + (cp \div 64)) % 256, Continuation(cp, 0)>>
    ELSE <<224 + (cp \div 4096), Continuation(cp, 1), Continuation(cp, 0)>>

Utf8(cp) ==
    IF cp <= \h7F THEN <<cp>>
    ELSE IF cp <= \h7FF THEN <<192 + (cp \div 64), Continuation(cp, 0)>>
    ELSE IF cp <= \hFFFF
    THEN <<224 + (cp \div 4096), Continuation(cp, 1), Continuation(cp, 0)>>
    ELSE <<240 + (cp \div 262144), Continuation(cp, 2), Continuation(cp, 1), Continuation(cp, 0)>>

\* The code point of a pair of surrogates.
Combined(hi, lo) == \h10000 + (hi - \hD800) * 1024 + (lo - \hDC00)

\* What follows a high surrogate is an escape of a low one, and a low one
\* follows nothing else.
ParseString(pieces) ==
    LET isU(i)  == i \in DOMAIN pieces /\ "u" \in DOMAIN pieces[i]
        high(i) == isU(i) /\ IsHigh(pieces[i].u)
        low(i)  == isU(i) /\ IsLow(pieces[i].u)
        \* The escape before piece i is a high one that takes i along.
        bytes(i) ==
            IF low(i) THEN <<>>
            ELSE IF high(i) THEN Utf8(Combined(pieces[i].u, pieces[i + 1].u))
            ELSE IF isU(i) THEN Utf8(pieces[i].u)
            ELSE <<pieces[i].b>>
    IN  IF \E i \in 1 .. (Len(pieces) + 1) : low(i) # high(i - 1)
        THEN Thrown
        ELSE FlattenSeq([i \in DOMAIN pieces |-> bytes(i)])

-----------------------------------------------------------------------------
(* utf8ToUtf16le, its code units not yet split into bytes. *)

\* How many bytes a leading byte announces; 0: none does.
SequenceLength(b) ==
    IF b < 128 THEN 1
    ELSE IF b \in 192..223 THEN 2
    ELSE IF b \in 224..239 THEN 3
    ELSE IF b \in 240..247 THEN 4 ELSE 0

\* The bits the leading byte has of the code point.
Lead(b, n) == CASE n = 1 -> b [] n = 2 -> b % 32 [] n = 3 -> b % 16 [] n = 4 -> b % 8

Units(cp) ==
    IF cp <= \hFFFF THEN <<cp>>
    ELSE <<\hD800 + ((cp - \h10000) \div 1024), \hDC00 + ((cp - \h10000) % 1024)>>

RECURSIVE Utf16(_)
Utf16(s) ==
    IF s = <<>> THEN <<>>
    ELSE
    LET n    == SequenceLength(s[1])
        tail == SubSeq(s, 2, n)
        cp   == FoldLeft(LAMBDA acc, b : acc * 64 + (b % 64), Lead(s[1], n), tail)
        rest == Utf16(SubSeq(s, n + 1, Len(s)))
    IN  IF n = 0 \/ n > Len(s) THEN Thrown
        ELSE IF \E i \in DOMAIN tail : tail[i] \notin 128..191 THEN Thrown
        ELSE IF cp \in \hD800..\hDFFF \/ cp > \h10FFFF THEN Thrown
        ELSE IF rest = Thrown THEN Thrown
        ELSE Units(cp) \o rest

-----------------------------------------------------------------------------
(* base64DecodeBinary: characters are their values, "=" is Pad, white      *)
(* space is Blank, anything else Other.                                    *)

Pad   == 64
Blank == 65
Other == 66

RECURSIVE WithoutPadding(_)
WithoutPadding(s) ==
    IF s # <<>> /\ Last(s) = Pad THEN WithoutPadding(Front(s)) ELSE s

\* One more character: six more bits, and a byte as soon as there are eight.
\* Bits that make no byte are dropped, those already used are not kept.
Accumulate(st, v) ==
    LET accum == (st.accum % 256) * 64 + v
        bits  == st.bits + 6
    IN  IF bits >= 8
        THEN [accum |-> accum, bits |-> bits - 8,
              out |-> Append(st.out, (accum \div 2 ^ (bits - 8)) % 256)]
        ELSE [accum |-> accum, bits |-> bits, out |-> st.out]

Base64Decode(b64) ==
    LET s == WithoutPadding(SelectSeq(b64, LAMBDA c : c # Blank))
    IN  IF \E i \in DOMAIN s : s[i] > 63 THEN Thrown
        ELSE FoldLeft(Accumulate, [accum |-> 0, bits |-> 0, out |-> <<>>], s).out

-----------------------------------------------------------------------------
(* isoToFiletimeTicks.  A date: its numeric fields, the digits of its      *)
(* fraction, and its zone, [sign, h, m].  The ticks since 1601 are given   *)
(* as days, seconds of the day and ticks of the second.                    *)

\* mutant: the centuries are leap years
DaysJulian(y0, m, d) ==
    LET y   == IF m <= 2 THEN y0 - 1 ELSE y0
        era == y \div 400
        yoe == y - era * 400
        doy == ((153 * (m + (IF m > 2 THEN -3 ELSE 9)) + 2) \div 5) + d - 1
    IN  era * 146097 + yoe * 365 + (yoe \div 4) + doy - 719468

\* Days since 1970.  The year begins with March.
DaysFromCivil(y0, m, d) ==
    LET y   == IF m <= 2 THEN y0 - 1 ELSE y0
        era == y \div 400
        yoe == y - era * 400
        doy == ((153 * (m + (IF m > 2 THEN -3 ELSE 9)) + 2) \div 5) + d - 1
        doe == yoe * 365 + (yoe \div 4) - (yoe \div 100) + doy
    IN  era * 146097 + doe - 719468

DaysTo1970 == 134774

\* The fraction: nine digits are read, seven of them count.
FractionTicks(digits) ==
    FoldLeft(LAMBDA acc, i : acc * 10 + (IF i <= Len(digits) THEN digits[i] ELSE 0), 0,
             [i \in 1..7 |-> i])

NoZone == [sign |-> 0, h |-> 0, m |-> 0]

FiletimeTicks(date) ==
    LET days == DaysFromCivil(date.year, date.month, date.day) + DaysTo1970
        sec  == date.hour * 3600 + date.minute * 60 + date.second
                  - date.zone.sign * (date.zone.h * 3600 + date.zone.m * 60)
    IN  IF days + (sec \div 86400) < 0 THEN Thrown
        ELSE <<days + (sec \div 86400), sec % 86400, FractionTicks(date.fraction)>>

-----------------------------------------------------------------------------
(* What the conversions are measured by. *)

\* The code units a literal is meant to have: those of its escapes, and of
\* the characters that are bytes of ASCII.
CodeUnits(pieces) ==
    [i \in DOMAIN pieces |-> IF "u" \in DOMAIN pieces[i] THEN pieces[i].u ELSE pieces[i].b]

\* UTF-16 that is well formed: surrogates in pairs.
WellFormed(us) ==
    \A i \in 1 .. (Len(us) + 1) :
        (i \in DOMAIN us /\ IsLow(us[i])) = (i - 1 \in DOMAIN us /\ IsHigh(us[i - 1]))

\* The base64 of RFC 4648: each three bytes are four characters, the last
\* ones padded.
Base64Encode(bytes) ==
    LET groups == (Len(bytes) + 2) \div 3
        byte(i) == IF i <= Len(bytes) THEN bytes[i] ELSE 0
        group(g) ==
            LET n == byte(3 * g - 2) * 65536 + byte(3 * g - 1) * 256 + byte(3 * g)
                k == Len(bytes) - 3 * (g - 1)
            IN  <<n \div 262144, (n \div 4096) % 64,
                  IF k > 1 THEN (n \div 64) % 64 ELSE Pad, IF k > 2 THEN n % 64 ELSE Pad>>
    IN  FlattenSeq([g \in 1..groups |-> group(g)])

\* The calendar of ISO 8601: how many days the years and months before hold.
IsLeap(y) == y % 4 = 0 /\ (y % 100 = 0 => y % 400 = 0)

DaysIn(y, m) ==
    IF m = 2 THEN (IF IsLeap(y) THEN 29 ELSE 28)
    ELSE IF m \in {4, 6, 9, 11} THEN 30 ELSE 31

CalendarDays(date) ==
    365 * (date.year - 1601) + Cardinality({y \in 1601 .. (date.year - 1) : IsLeap(y)})
      + FoldLeft(LAMBDA days, m : days + DaysIn(date.year, m), 0, [m \in 1 .. (date.month - 1) |-> m])
      + date.day - 1
=============================================================================
