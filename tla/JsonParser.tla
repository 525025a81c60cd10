----------------------------- MODULE JsonParser -----------------------------
(***************************************************************************)
(* The reverse way: mongo::Robomongo::fromjson, the recursive descent      *)
(* parser JParse that turns the text of an editor into a BSON document,    *)
(* and miutil::ptimeFromIsoString for the dates in it.                     *)
(*                                                                         *)
(* A method of JParse is an operator of the text t and the index i of its  *)
(* next token.  It returns whether it succeeded, where it left the input,  *)
(* and the values it appended to the builder: at most one, and a method    *)
(* that succeeds has normally appended one.                                *)
(***************************************************************************)
EXTENDS BsonText

Result(ok, at, out) == [ok |-> ok, at |-> at, out |-> out]
Fail(i)    == Result(FALSE, i, <<>>)
Give(i, v) == Result(TRUE, i, <<v>>)

\* chars(): what the literal of a string denotes.  A raw control character
\* and the escapes \x and \0..\7 are refused.
ValidChars(lit) ==
    lit[1] = "chars" => \A k \in DOMAIN lit[2] :
        lit[2][k] \notin {<<"raw", "nl">>, <<"raw", "ctl">>, <<"raw", "quote">>, <<"esc", "x">>}
chars(lit) ==
    IF lit[1] # "chars" THEN lit
    ELSE <<"chars", [k \in DOMAIN lit[2] |-> lit[2][k][2]]>>

\* What readToken and peekToken can tell of a token.
Kind(tok) ==
    IF tok[1] \in {"sym", "word"} THEN tok[2]
    ELSE IF tok[1] = "str" /\ ~ValidChars(tok[2]) THEN "bad"
    ELSE tok[1]

\* The next tokens are of these kinds, in this order.
Shape(t, i, kinds) ==
    /\ i + Len(kinds) - 1 <= Len(t)
    /\ \A k \in DOMAIN kinds : Kind(t[i + k - 1]) = kinds[k]

readToken(t, i, kind) == Shape(t, i, <<kind>>)
StrAt(t, i) == chars(t[i][2])
NumAt(t, i) == t[i][2]
IsInteger(t, i) == t[i][3] = "int"

\* field(): a quoted name or a bare word.
IsField(t, i) == i <= Len(t) /\ (Kind(t[i]) = "str" \/ t[i][1] = "word")
field(t, i) == IF t[i][1] = "word" THEN <<"key", t[i][2]>> ELSE StrAt(t, i)
readField(t, i, name) == IsField(t, i) /\ field(t, i) = <<"key", name>>
---------------------------------------------------------------------------
(***************************************************************************)
(* ptimeFromIsoString.  Seven numbers are read one after the other; after  *)
(* each the input is advanced past the next of its separators, wherever    *)
(* that is.  When there is none, find_first_of returns npos and the        *)
(* increment brings the index back to the start of the text.               *)
(***************************************************************************)
Separators == <<{"-"}, {"-"}, {"T", " "}, {":"}, {":"}, {".", "Z"}, {"+", "-", "Z"}>>
Widths     == <<4, 2, 2, 2, 2, 2, 3>>

\* getInt(): the first digits of the number at piece p.
CanGetInt(text, p, width) ==
    p <= Len(text) /\ text[p][1] = "n" /\ text[p][3] >= width
getInt(text, p, width) == text[p][2] \div 10^(text[p][3] - width)

\* find_first_of: the first such separator after piece p, 0 when there is none.
FindFirstOf(text, p, seps) ==
    LET found == {q \in (p + 1)..Len(text) : text[q][1] = "s" /\ text[q][2] \in seps}
    IN IF found = {} THEN 0 ELSE CHOOSE q \in found : \A r \in found : q <= r

RECURSIVE IsoNumbers(_, _, _, _)
\* The loop over the seven numbers: got are those read, p the next piece.
IsoNumbers(text, p, k, got) ==
    IF k > 7 \/ p > Len(text)
    THEN [ok |-> TRUE, at |-> p, got |-> got \o [j \in 1..(7 - Len(got)) |-> 0]]
    ELSE IF ~CanGetInt(text, p, Widths[k])
    THEN [ok |-> FALSE, at |-> p, got |-> got]
    ELSE LET sep  == FindFirstOf(text, p, Separators[k])
             next == IF k < 7 THEN sep + 1
                     ELSE IF sep = 0 THEN Len(text) + 1 ELSE sep
         IN IsoNumbers(text, next, k + 1, Append(got, getInt(text, p, Widths[k])))

\* The offset SHH:MM at piece p.  The character after the hours is skipped.
IsoOffset(text, p) ==
    IF p > Len(text) \/ text[p] \notin {S("+"), S("-")}
    THEN [ok |-> TRUE, secs |-> 0]
    ELSE IF ~CanGetInt(text, p + 1, 2) \/ text[p + 1][3] = 4
    THEN [ok |-> FALSE, secs |-> 0]
    ELSE LET hour == getInt(text, p + 1, 2) * (IF text[p] = S("-") THEN -1 ELSE 1)
             minute == IF CanGetInt(text, p + 3, 2) THEN getInt(text, p + 3, 2) ELSE 0
         IN [ok |-> TRUE, secs |-> Duration(hour, minute)]

\* boost throws out_of_range for a month or day that does not exist.
CalendarHas(n) == n[1] \in 1400..9999 /\ n[2] \in 1..12 /\ n[3] \in 1..DaysInMonth

ptimeFromIsoString(text) ==
    LET read   == IsoNumbers(text, 1, 1, <<>>)
        n      == read.got
        offset == IsoOffset(text, read.at)
    IN IF ~read.ok \/ ~offset.ok \/ ~CalendarHas(n)
       THEN [ok |-> FALSE, s |-> 0, ms |-> 0]
       ELSE [ok |-> TRUE, ms |-> n[7],
             s  |-> ((n[1] - 1970) * 12 * DaysInMonth + (n[2] - 1) * DaysInMonth + n[3] - 1) * 86400
                    + n[4] * 3600 + n[5] * 60 + n[6] - offset.secs]
---------------------------------------------------------------------------
\* number(): a double, or the narrowest integer that holds it.
number(t, i) ==
    IF ~readToken(t, i, "num") THEN Fail(i)
    ELSE LET n == NumAt(t, i)
         IN Give(i + 1,
                 IF t[i][3] = "half" THEN <<"double", "frac", n>>
                 ELSE IF t[i][3] = "exp" THEN <<"double", "huge", n>>
                 ELSE IF t[i][3] = "zero" \/ ~FitsLong(n) THEN <<"double", "whole", n>>
                 ELSE <<IF FitsInt(n) THEN "int" ELSE "long", n>>)

\* strtoll, and strtoull for what only that can hold.
Millis(n) == IF FitsLong(n) THEN n ELSE AsSigned(n, LongBits)
MillisFit(n) == -(2^(LongBits - 1)) <= n /\ n < 2^LongBits

\* date(): a failure leaves the input where it was met.
date(t, i) ==
    IF ~readToken(t, i, "(") THEN Fail(i)
    ELSE IF ~readToken(t, i + 1, "num") \/ ~MillisFit(NumAt(t, i + 1)) \/ ~IsInteger(t, i + 1)
    THEN Fail(i + 1)
    ELSE IF ~readToken(t, i + 2, ")") THEN Fail(i + 2)
    ELSE Give(i + 3, <<"date", Millis(NumAt(t, i + 1)), 0>>)

\* constructor(): what date() returns is not looked at.
constructor(t, i) ==
    IF readToken(t, i, "Date") THEN [date(t, i + 1) EXCEPT !.ok = TRUE] ELSE Fail(i)

isodate(t, i) ==
    IF Shape(t, i, <<"(", "str", ")">>) /\ StrAt(t, i + 1)[1] = "iso"
    THEN LET time == ptimeFromIsoString(StrAt(t, i + 1)[2])
         IN IF time.ok THEN Give(i + 3, <<"date", time.s, time.ms>>) ELSE Fail(i)
    ELSE Fail(i)

parseUuid(t, i, subtype, encoding) ==
    IF /\ Shape(t, i, <<"(", "str", ")">>)
       /\ StrAt(t, i + 1)[1] = "uuid"
       /\ uuidToHex(StrAt(t, i + 1)[2], encoding) # <<>>
    THEN Give(i + 3, <<"bin", subtype, uuidToHex(StrAt(t, i + 1)[2], encoding)>>)
    ELSE Fail(i)

\* strtoul reads 64 bits and the assignment to uint32_t keeps the low ones.
Unsigned(t, i) == IsInteger(t, i) /\ 0 <= NumAt(t, i) /\ NumAt(t, i) < 2^LongBits
timestamp(t, i) ==
    IF Shape(t, i, <<"(", "num", ",", "num", ")">>) /\ Unsigned(t, i + 1) /\ Unsigned(t, i + 3)
    THEN Give(i + 5, <<"timestamp", NumAt(t, i + 1) % 2^IntBits, NumAt(t, i + 3) % 2^IntBits>>)
    ELSE Fail(i)

objectId(t, i) ==
    IF Shape(t, i, <<"(", "str", ")">>) /\ StrAt(t, i + 1)[1] = "oid"
    THEN Give(i + 3, <<"oid", StrAt(t, i + 1)[2]>>) ELSE Fail(i)

numberLong(t, i) ==
    IF Shape(t, i, <<"(", "num", ")">>) /\ IsInteger(t, i + 1) /\ FitsLong(NumAt(t, i + 1))
    THEN Give(i + 3, <<"long", NumAt(t, i + 1)>>) ELSE Fail(i)

\* strtol is 64 bits wide here; the assignment to int32_t keeps the low ones.
numberInt(t, i) ==
    IF Shape(t, i, <<"(", "num", ")">>) /\ IsInteger(t, i + 1) /\ FitsLong(NumAt(t, i + 1))
    THEN Give(i + 3, <<"int", AsSigned(NumAt(t, i + 1), IntBits)>>) ELSE Fail(i)

numberDecimal(t, i) ==
    IF Shape(t, i, <<"(", "str", ")">>) /\ StrAt(t, i + 1)[1] = "dec"
    THEN Give(i + 3, <<"decimal", StrAt(t, i + 1)[2]>>) ELSE Fail(i)

\* regex(): only the options g, i, m and s are read.
regex(t, i) ==
    IF \A k \in DOMAIN t[i][3] : t[i][3][k] \in {"g", "i", "m", "s"}
    THEN Give(i + 1, <<"regex", t[i][2], t[i][3]>>) ELSE Fail(i)
---------------------------------------------------------------------------
\* The objects that stand for a value, read from the token after their first
\* field; object() reads the closing brace.
objectIdObject(t, i) ==
    IF Shape(t, i, <<":", "str">>) /\ StrAt(t, i + 1)[1] = "oid"
    THEN Give(i + 2, <<"oid", StrAt(t, i + 1)[2]>>) ELSE Fail(i)

binaryObject(t, i) ==
    IF /\ Shape(t, i, <<":", "str", ",">>) /\ StrAt(t, i + 1)[1] = "b64"
       /\ readField(t, i + 3, "$type")
       /\ Shape(t, i + 4, <<":", "str">>) /\ StrAt(t, i + 5)[1] = "byte"
    THEN Give(i + 6, <<"bin", StrAt(t, i + 5)[2], StrAt(t, i + 1)[2]>>) ELSE Fail(i)

\* A date as a string goes through mongo's own parser (external), which reads
\* the same texts; as $numberLong it is a quoted number.
dateObject(t, i) ==
    IF Shape(t, i, <<":", "str">>) /\ StrAt(t, i + 1)[1] = "iso"
    THEN LET time == ptimeFromIsoString(StrAt(t, i + 1)[2])
         IN IF time.ok THEN Give(i + 2, <<"date", time.s, time.ms>>) ELSE Fail(i)
    ELSE IF /\ Shape(t, i, <<":", "{">>) /\ readField(t, i + 2, "$numberLong")
            /\ Shape(t, i + 3, <<":", "str">>) /\ StrAt(t, i + 4)[1] = "dec"
            /\ FitsLong(StrAt(t, i + 4)[2])
    THEN Give(i + 5, <<"date", StrAt(t, i + 4)[2], 0>>)
    ELSE IF Shape(t, i, <<":", "num">>) /\ IsInteger(t, i + 1) /\ MillisFit(NumAt(t, i + 1))
    THEN Give(i + 2, <<"date", Millis(NumAt(t, i + 1)), 0>>)
    ELSE Fail(i)

timestampObject(t, i) ==
    IF /\ Shape(t, i, <<":", "{">>)
       /\ readField(t, i + 2, "t") /\ Shape(t, i + 3, <<":", "num", ",">>) /\ Unsigned(t, i + 4)
       /\ readField(t, i + 6, "i") /\ Shape(t, i + 7, <<":", "num", "}">>) /\ Unsigned(t, i + 8)
    THEN Give(i + 10, <<"timestamp", NumAt(t, i + 4) % 2^IntBits, NumAt(t, i + 8) % 2^IntBits>>)
    ELSE Fail(i)

regexObject(t, i) ==
    IF ~Shape(t, i, <<":", "str">>) THEN Fail(i)
    ELSE IF ~readToken(t, i + 2, ",") THEN Give(i + 2, <<"regex", StrAt(t, i + 1), <<>>>>)
    ELSE IF /\ readField(t, i + 3, "$options") /\ Shape(t, i + 4, <<":", "str">>)
            /\ StrAt(t, i + 5)[1] = "chars"
            /\ \A k \in DOMAIN StrAt(t, i + 5)[2] : StrAt(t, i + 5)[2][k] \in {"g", "i", "m", "s"}
    THEN Give(i + 6, <<"regex", StrAt(t, i + 1), StrAt(t, i + 5)[2]>>)
    ELSE Fail(i)

\* undefinedObject, minKeyObject and maxKeyObject: one value is allowed.
constantObject(t, i, allowed, v) ==
    IF readToken(t, i, ":") /\ i < Len(t) /\ t[i + 1] = allowed THEN Give(i + 2, v) ELSE Fail(i)

quotedNumberObject(t, i, type) ==
    IF /\ Shape(t, i, <<":", "str">>) /\ StrAt(t, i + 1)[1] = "dec"
       /\ type = "long" => FitsLong(StrAt(t, i + 1)[2])
    THEN Give(i + 2, <<type, StrAt(t, i + 1)[2]>>) ELSE Fail(i)

\* The value object() appends for a reserved first field, by its name.
Reserved == {"$oid", "$binary", "$date", "$timestamp", "$regex", "$ref", "$undefined",
             "$numberLong", "$numberDecimal", "$minKey", "$maxKey"}

SimpleSpecial(t, i, name) ==
    CASE name = "$oid" -> objectIdObject(t, i)
      [] name = "$binary" -> binaryObject(t, i)
      [] name = "$date" -> dateObject(t, i)
      [] name = "$timestamp" -> timestampObject(t, i)
      [] name = "$regex" -> regexObject(t, i)
      [] name = "$undefined" -> constantObject(t, i, Word("true"), <<"undefined">>)
      [] name = "$numberLong" -> quotedNumberObject(t, i, "long")
      [] name = "$numberDecimal" -> quotedNumberObject(t, i, "decimal")
      [] name = "$minKey" -> constantObject(t, i, Num(1, "int"), <<"minkey">>)
      [] name = "$maxKey" -> constantObject(t, i, Num(1, "int"), <<"maxkey">>)
---------------------------------------------------------------------------
RECURSIVE value(_, _)
RECURSIVE object(_, _, _)
RECURSIVE Members(_, _)
RECURSIVE array(_, _)
RECURSIVE Elements(_, _, _)

\* A builder's fields: what was appended under a name, which may be nothing.
Named(name, out) == [k \in DOMAIN out |-> <<name, out[k]>>]

\* What dbRef() and dbRefObject() build: "$ref", "$id" and maybe "$db".
RefFields(t, ref, out, dbName) ==
    <<"object", <<<< <<"key", "$ref">>, <<"string", StrAt(t, ref)>> >>>>
                \o Named(<<"key", "$id">>, out) \o Named(<<"key", "$db">>, dbName)>>

\* dbRef() and dbRefObject() once the $id is read; ref is the token of the name.
dbRefEnd(t, ref, id) ==
    IF ~id.ok THEN Fail(id.at)
    ELSE IF readToken(t, id.at, ")")
    THEN Give(id.at + 1, RefFields(t, ref, id.out, <<>>))
    ELSE IF Shape(t, id.at, <<",", "str", ")">>)
    THEN Give(id.at + 3, RefFields(t, ref, id.out, <<<<"string", StrAt(t, id.at + 1)>>>>))
    ELSE Fail(id.at)
dbRef(t, i) ==
    IF Shape(t, i, <<"(", "str", ",">>) THEN dbRefEnd(t, i + 1, value(t, i + 3)) ELSE Fail(i)

dbRefObjectEnd(t, ref, id) ==
    IF ~id.ok THEN Fail(id.at)
    ELSE IF ~readToken(t, id.at, ",")
    THEN Give(id.at, RefFields(t, ref, id.out, <<>>))
    ELSE IF readField(t, id.at + 1, "$db") /\ Shape(t, id.at + 2, <<":", "str">>)
    THEN Give(id.at + 4, RefFields(t, ref, id.out, <<<<"string", StrAt(t, id.at + 3)>>>>))
    ELSE Fail(id.at)
dbRefObject(t, i) ==
    IF Shape(t, i, <<":", "str", ",">>) /\ readField(t, i + 3, "$id") /\ readToken(t, i + 4, ":")
    THEN dbRefObjectEnd(t, i + 1, value(t, i + 5)) ELSE Fail(i)

\* value(): the first word or character decides.
value(t, i) ==
    IF i > Len(t) THEN Fail(i)
    ELSE LET k == Kind(t[i])
         IN CASE k = "{" -> object(t, i, TRUE)
              [] k = "[" -> array(t, i)
              [] k = "new" -> constructor(t, i + 1)
              [] k = "Date" -> date(t, i + 1)
              [] k = "ISODate" -> isodate(t, i + 1)
              [] k = "UUID" -> parseUuid(t, i + 1, "newUUID", "DefaultEncoding")
              [] k = "LUUID" -> parseUuid(t, i + 1, "bdtUUID", "DefaultEncoding")
              [] k = "JUUID" -> parseUuid(t, i + 1, "bdtUUID", "JavaLegacy")
              [] k \in {"NUUID", "CSUUID"} -> parseUuid(t, i + 1, "bdtUUID", "CSharpLegacy")
              [] k = "PYUUID" -> parseUuid(t, i + 1, "bdtUUID", "PythonLegacy")
              [] k = "Timestamp" -> timestamp(t, i + 1)
              [] k = "ObjectId" -> objectId(t, i + 1)
              [] k = "NumberLong" -> numberLong(t, i + 1)
              [] k = "NumberInt" -> numberInt(t, i + 1)
              [] k = "NumberDecimal" -> numberDecimal(t, i + 1)
              [] k \in {"Dbref", "DBRef"} -> dbRef(t, i + 1)
              [] k = "regex" -> regex(t, i)
              [] k = "str" -> Give(i + 1, <<"string", StrAt(t, i)>>)
              [] k \in {"true", "false"} -> Give(i + 1, <<"bool", k = "true">>)
              [] k \in {"null", "undefined"} -> Give(i + 1, <<k>>)
              [] k = "NaN" -> Give(i + 1, <<"double", "nan", 0>>)
              [] k = "Infinity" -> Give(i + 1, <<"double", "inf", 0>>)
              [] k = "-Infinity" -> Give(i + 1, <<"double", "-inf", 0>>)
              [] OTHER -> number(t, i)

\* What follows a value v appended under a name: its builder's other fields.
Before(here, rest) == Result(rest.ok, rest.at, here \o rest.out)
NextMember(t, name, v) ==
    IF ~v.ok THEN Fail(v.at)
    ELSE IF ~readToken(t, v.at, ",") THEN Result(TRUE, v.at, Named(name, v.out))
    ELSE Before(Named(name, v.out), Members(t, v.at + 1))
NextElement(t, k, v) ==
    IF ~v.ok THEN Fail(v.at)
    ELSE IF ~readToken(t, v.at, ",") THEN Result(TRUE, v.at, Named(<<"idx", k>>, v.out))
    ELSE Before(Named(<<"idx", k>>, v.out), Elements(t, v.at + 1, k + 1))

\* The pairs of an object from token i on; out holds the fields.
Members(t, i) ==
    IF IsField(t, i) /\ readToken(t, i + 1, ":")
    THEN NextMember(t, field(t, i), value(t, i + 2)) ELSE Fail(i)

\* The values of an array from token i on, the first under index k.
Elements(t, i, k) == NextElement(t, k, value(t, i))

\* object() and array() once what is between their brackets is read.
Closing(t, bracket, type, inner) ==
    IF ~inner.ok \/ ~readToken(t, inner.at, bracket) THEN Fail(inner.at)
    ELSE Result(TRUE, inner.at + 1, IF type = "special" THEN inner.out ELSE <<<<type, inner.out>>>>)

\* object(): empty, a reserved first field, or ordinary pairs.
IsReserved(name) == name[1] = "key" /\ name[2] \in Reserved
object(t, i, subObject) ==
    IF ~readToken(t, i, "{") THEN Fail(i)
    ELSE IF readToken(t, i + 1, "}") THEN Give(i + 2, <<"object", <<>>>>)
    ELSE IF ~IsField(t, i + 1) THEN Fail(i + 1)
    ELSE IF ~IsReserved(field(t, i + 1)) THEN Closing(t, "}", "object", Members(t, i + 1))
    ELSE IF ~subObject THEN Fail(i + 1)
    ELSE Closing(t, "}", "special",
                 IF field(t, i + 1)[2] = "$ref" THEN dbRefObject(t, i + 2)
                 ELSE SimpleSpecial(t, i + 2, field(t, i + 1)[2]))

array(t, i) ==
    IF ~readToken(t, i, "[") THEN Fail(i)
    ELSE IF readToken(t, i + 1, "]") THEN Give(i + 2, <<"array", <<>>>>)
    ELSE Closing(t, "]", "array", Elements(t, i + 1, 0))

\* parse() and fromjson(): the document is an object even when the text is an
\* array, whose indexes become its field names.
AsObject(r) == IF r.ok THEN Give(r.at, <<"object", r.out[1][2]>>) ELSE r
fromjson(t, i) == IF readToken(t, i, "[") THEN AsObject(array(t, i)) ELSE object(t, i, FALSE)
=============================================================================
