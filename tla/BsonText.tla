------------------------------ MODULE BsonText ------------------------------
(***************************************************************************)
(* How Robomongo writes a BSON document as the text of its editors:        *)
(* BsonUtils::jsonString (TenGen format, pretty), HexUtils for UUIDs and   *)
(* miutil::isotimeString for dates.                                        *)
(*                                                                         *)
(* A value is a tuple <<type, ...>>; an object or array is                 *)
(* <<type, sequence of <<name, value>>>>.  A text is a sequence of tokens: *)
(*   <<"sym", c>>      a bracket, colon, comma or parenthesis              *)
(*   <<"word", w>>     a bare word: true, ISODate, an unquoted name        *)
(*   <<"num", n, f>>   a numeral: n as "int", "zero" (n.0), "half" (n.5)   *)
(*                     or "exp" (with an exponent)                         *)
(*   <<"str", lit>>    a quoted string                                     *)
(*   <<"regex", p, o>> /p/o                                                *)
(* White space and indentation are left out: the parser skips them.        *)
(* Strings that mean something are kept as what they mean (<<"oid", k>>,   *)
(* <<"uuid", bytes>>, <<"iso", pieces>>, <<"b64", data>>, <<"dec", n>>,     *)
(* <<"key", name>>); others are <<"chars", characters>>.                   *)
(*                                                                         *)
(* Widths are scaled down: an int has IntBits bits and a long LongBits.    *)
(* Instants are whole seconds, the milliseconds of a text ride along.      *)
(***************************************************************************)
EXTENDS Integers, Sequences, SequencesExt

CONSTANTS
    IntBits, LongBits,     \* widths of int32 and int64
    MinDate, MaxDate,      \* miutil::minDate and maxDate
    DaysInMonth            \* of boost's calendar, twelve equal months here

ASSUME WidthsAssumption ==
    /\ IntBits \in Nat /\ LongBits \in Nat
    /\ 1 < IntBits /\ IntBits < LongBits
    /\ DaysInMonth \in Nat \ {0}

Encodings == {"DefaultEncoding", "JavaLegacy", "CSharpLegacy", "PythonLegacy"}

FitsInt(n) == -(2^(IntBits - 1)) <= n /\ n < 2^(IntBits - 1)
FitsLong(n) == -(2^(LongBits - 1)) <= n /\ n < 2^(LongBits - 1)
\* A conversion that keeps the low bits and reads them as signed.
AsSigned(n, bits) == ((n + 2^(bits - 1)) % 2^bits) - 2^(bits - 1)

Sym(c)  == <<"sym", c>>
Word(w) == <<"word", w>>
Str(l)  == <<"str", l>>
Num(n, form) == <<"num", n, form>>
Call(w, args) == <<Word(w), Sym("(")>> \o args \o <<Sym(")")>>
---------------------------------------------------------------------------
\* HexUtils: which byte of the data each place of the text shows.
JavaOrder   == <<8, 7, 6, 5, 4, 3, 2, 1, 16, 15, 14, 13, 12, 11, 10, 9>>
CSharpOrder == <<4, 3, 2, 1, 6, 5, 8, 7, 9, 10, 11, 12, 13, 14, 15, 16>>

Reordered(bytes, order) == [k \in 1..16 |-> bytes[order[k]]]

hexToUuid(bytes, encoding) ==
    CASE encoding = "JavaLegacy"   -> Reordered(bytes, JavaOrder)
      [] encoding = "CSharpLegacy" -> Reordered(bytes, CSharpOrder)
      [] OTHER                     -> bytes

\* uuidToHex takes the same substrings; a text that is not of 32 digits is "".
uuidToHex(text, encoding) ==
    IF Len(text) # 16 THEN <<>>
    ELSE CASE encoding = "JavaLegacy"   -> Reordered(text, JavaOrder)
           [] encoding = "CSharpLegacy" -> Reordered(text, CSharpOrder)
           [] OTHER                     -> text

UuidName(encoding) ==
    CASE encoding = "JavaLegacy"   -> "JUUID"
      [] encoding = "CSharpLegacy" -> "NUUID"
      [] encoding = "PythonLegacy" -> "PYUUID"
      [] OTHER                     -> "LUUID"

\* formatUuid: only the legacy subtype depends on the chosen encoding.
formatUuid(subtype, bytes, encoding) ==
    IF subtype = "bdtUUID"
    THEN Call(UuidName(encoding), <<Str(<<"uuid", hexToUuid(bytes, encoding)>>)>>)
    ELSE Call("UUID", <<Str(<<"uuid", hexToUuid(bytes, "DefaultEncoding")>>)>>)
---------------------------------------------------------------------------
\* boost::gregorian and time_of_day: the fields of an instant.
Clock(s) ==
    LET day  == s \div 86400
        secs == s % 86400
    IN [year   |-> 1970 + day \div (12 * DaysInMonth),
        month  |-> ((day % (12 * DaysInMonth)) \div DaysInMonth) + 1,
        day    |-> (day % DaysInMonth) + 1,
        hour   |-> secs \div 3600,
        minute |-> (secs % 3600) \div 60,
        second |-> secs % 60]

\* boost's time_duration(h, m, 0): one negative part makes the sum negative.
Abs(n) == IF n < 0 THEN -n ELSE n
Duration(h, m) ==
    LET size == Abs(h) * 3600 + Abs(m) * 60
    IN IF h < 0 \/ m < 0 THEN -size ELSE size

N(value, width) == <<"n", value, width>>
S(c) == <<"s", c>>

DatePieces(c, ms) ==
    <<N(c.year, 4), S("-"), N(c.month, 2), S("-"), N(c.day, 2), S("T"),
      N(c.hour, 2), S(":"), N(c.minute, 2), S(":"), N(c.second, 2),
      S("."), N(ms, 3)>>

(***************************************************************************)
(* isotimeString.  The offset of the local zone is worked out from the     *)
(* hours, minutes and day of the month that gmtime and localtime give for  *)
(* the present moment, not for the date that is shown.                     *)
(***************************************************************************)
LocalOffset(zone, now) ==
    LET utc   == Clock(now)
        here  == Clock(now + 60 * zone)
        hours == here.hour - utc.hour
        diffH == IF here.day < utc.day /\ hours > 0 THEN hours - 24
                 ELSE IF here.day > utc.day /\ hours < 0 THEN hours + 24
                 ELSE hours
    IN [h |-> diffH, m |-> here.minute - utc.minute]

isotimeString(s, ms, local, zone, now) ==
    IF ~local
    THEN Append(DatePieces(Clock(s), ms), S("Z"))
    ELSE LET diff  == LocalOffset(zone, now)
             diffT == Duration(diff.h, diff.m)
             size  == Abs(diffT) \div 3600
         IN DatePieces(Clock(s + diffT), ms)
            \o <<S(IF diffT < 0 /\ size > 0 THEN "-" ELSE "+"), N(size, 2),
                 S(":"), N(Abs(diff.m), 2)>>
---------------------------------------------------------------------------
escape(content) ==
    IF content[1] # "chars" THEN content
    ELSE <<"chars", [k \in DOMAIN content[2] |->
             LET c == content[2][k]
             IN IF c \in {"quote", "backslash", "nl"} THEN <<"esc", c>>
                ELSE IF c = "ctl" THEN <<"u", c>>
                ELSE <<"raw", c>>]>>

\* The flags of a regular expression that jsonString writes.
ShownFlags(flags) == SelectSeq(flags, LAMBDA f : f \in {"g", "i", "m"})

\* Mutant: a whole double is written like an integer.
DoubleTextPlain(kind, n) == <<Num(n, IF kind = "whole" THEN "int" ELSE "half")>>

\* The numeral of a double: 15 digits, and ".0" after a whole one.
DoubleText(kind, n) ==
    CASE kind = "whole" -> <<Num(n, "zero")>>
      [] kind \in {"frac", "fine"} -> <<Num(n, "half")>>
      [] kind = "huge" -> <<Num(n, "exp"), Word(".0")>>
      [] kind = "nan" -> <<Word("NaN")>>
      [] OTHER -> <<Word("Infinity")>>

\* The tree leaves to the stream how it writes what is not a finite number.
PlainDouble(kind, n) ==
    IF kind \in {"nan", "inf", "-inf"} THEN <<Word(kind)>> ELSE DoubleText(kind, n)

SupportedDate(s) == MinDate < s /\ s < MaxDate

(***************************************************************************)
(* buildJsonString: the text of a value in the tree and in the table.      *)
(* Objects and arrays show a count there.  Strings come without quotes or  *)
(* escapes, and some types show nothing.                                   *)
(***************************************************************************)
buildJsonString(e, enc, local, zone, now) ==
    CASE e[1] \in {"string", "symbol"} -> <<<<"plain", e[2]>>>>
      [] e[1] = "double" -> PlainDouble(e[2], e[3])
      [] e[1] \in {"int", "long"} -> <<Num(e[2], "int")>>
      [] e[1] = "decimal" -> <<<<"dec", e[2]>>>>
      [] e[1] = "bool" -> <<Word(IF e[2] THEN "true" ELSE "false")>>
      [] e[1] \in {"null", "undefined"} -> <<Word(e[1])>>
      [] e[1] = "oid" -> Call("ObjectId", <<Str(<<"oid", e[2]>>)>>)
      [] e[1] = "bin" /\ e[2] \in {"bdtUUID", "newUUID"} -> formatUuid(e[2], e[3], enc)
      [] e[1] = "bin" /\ e[2] \notin {"bdtUUID", "newUUID"} -> <<Word("<binary>")>>
      [] e[1] = "date" /\ SupportedDate(e[2]) ->
             <<<<"iso", isotimeString(e[2], e[3], local, zone, now)>>>>
      [] e[1] = "date" /\ ~ SupportedDate(e[2]) -> <<Num(e[2], "int")>>
      [] e[1] = "regex" -> <<<<"regex", e[2], ShownFlags(e[3])>>>>
      [] e[1] = "code" -> <<Word("function")>>
      [] e[1] = "timestamp" -> <<<<"time", e[2]>>>>
      [] e[1] = "codewscope" /\ e[2][2] # <<>> -> <<Word("function")>>
      [] e[1] = "dbref" \/ (e[1] = "codewscope" /\ e[2][2] = <<>>) -> <<>>
      [] OTHER -> <<Word("<unsupported>")>>

\* The subtype of binary data in hexadecimal.  It was read through a char: a
\* user-defined one, from 0x80 on, is written with its sign in eight digits.
TypeText(subtype) == Str(<<IF subtype = "user" THEN "wide" ELSE "byte", subtype>>)

\* The types that have a constructor or a reserved object for their text.  The
\* scope of code is written by mongo's jsonString (external).
SpecialText(e, enc, local, zone, now) ==
    CASE e[1] = "dbref" -> Call("DBRef", <<Str(e[2]), Sym(","), Str(e[3])>>)
      [] e[1] = "oid" -> Call("ObjectId", <<Str(<<"oid", e[2]>>)>>)
      [] e[1] = "bin" /\ e[2] \in {"bdtUUID", "newUUID"} -> formatUuid(e[2], e[3], enc)
      [] e[1] = "bin" /\ e[2] \notin {"bdtUUID", "newUUID"} ->
             <<Sym("{"), Str(<<"key", "$binary">>), Sym(":"), Str(<<"b64", e[3]>>), Sym(","),
               Str(<<"key", "$type">>), Sym(":"), TypeText(e[2]), Sym("}")>>
      [] e[1] = "date" /\ SupportedDate(e[2]) ->
             Call("ISODate", <<Str(<<"iso", isotimeString(e[2], e[3], local, zone, now)>>)>>)
      [] e[1] = "date" /\ ~ SupportedDate(e[2]) -> Call("Date", <<Num(e[2], "int")>>)
      [] e[1] = "regex" -> <<<<"regex", e[2], ShownFlags(e[3])>>>>
      [] e[1] = "codewscope" /\ e[2][2] # <<>> ->
             <<Sym("{"), Str(<<"key", "$code">>), Sym(":"), Word("function"), Sym(","),
               Str(<<"key", "$scope">>), Sym(":"), <<"scope", e[2]>>, Sym("}")>>
      [] e[1] = "code" \/ (e[1] = "codewscope" /\ e[2][2] = <<>>) -> <<Word("function")>>
      [] e[1] = "timestamp" -> Call("Timestamp", <<Num(e[2], "int"), Sym(","), Num(e[3], "int")>>)
      [] e[1] = "minkey" -> <<Sym("{"), Str(<<"key", "$minKey">>), Sym(":"), Num(1, "int"), Sym("}")>>
      [] e[1] = "maxkey" -> <<Sym("{"), Str(<<"key", "$maxKey">>), Sym(":"), Num(1, "int"), Sym("}")>>

RECURSIVE jsonString(_, _, _, _, _)
RECURSIVE JsonItems(_, _, _, _, _, _)
(***************************************************************************)
(* jsonString of a value: enc is the UUID encoding of the settings, local  *)
(* whether dates are shown in the local zone.                              *)
(***************************************************************************)
jsonString(e, enc, local, zone, now) ==
    CASE e[1] = "undefined" -> <<Word("undefined")>>
      [] e[1] \in {"string", "symbol"} -> <<Str(escape(e[2]))>>
      [] e[1] = "long" -> Call("NumberLong", <<Num(e[2], "int")>>)
      [] e[1] = "int" -> <<Num(e[2], "int")>>
      [] e[1] = "double" -> DoubleText(e[2], e[3])
      [] e[1] = "decimal" -> Call("NumberDecimal", <<Str(<<"dec", e[2]>>)>>)
      [] e[1] = "bool" -> <<Word(IF e[2] THEN "true" ELSE "false")>>
      [] e[1] = "null" -> <<Word("null")>>
      [] e[1] = "object" -> <<Sym("{")>> \o JsonItems(e[2], 0, FALSE, enc, local, <<zone, now>>)
                            \o <<Sym("}")>>
      [] e[1] = "array" -> <<Sym("[")>> \o JsonItems(e[2], 0, TRUE, enc, local, <<zone, now>>)
                           \o <<Sym("]")>>
      [] OTHER -> SpecialText(e, enc, local, zone, now)

\* The fields of an object, or the slots of an array from index k on.
JsonItems(items, k, inArray, enc, local, when) ==
    IF items = <<>> THEN <<>>
    ELSE LET item == Head(items)
             text == jsonString(item[2], enc, local, when[1], when[2])
             rest == JsonItems(Tail(items), k + 1, inArray, enc, local, when)
             comma == IF Tail(items) = <<>> THEN <<>> ELSE <<Sym(",")>>
         IN IF inArray /\ item[1][2] > k
            THEN <<Word("undefined"), Sym(",")>> \o JsonItems(items, k + 1, inArray, enc, local, when)
            ELSE (IF inArray THEN <<>> ELSE <<Str(escape(item[1])), Sym(":")>>) \o text \o comma \o rest
=============================================================================
