-------------------------- MODULE MCDocumentEditor --------------------------
\* A small instance of ResultView with DocumentEditor.
EXTENDS ResultView

Key(name) == <<"key", name>>
One(v) == <<"object", << <<Key("a"), v>> >> >>
Two(v, w) == <<"object", << <<Key("a"), v>>, <<Key("b"), w>> >> >>
List(vs) == <<"array", [k \in DOMAIN vs |-> << <<"idx", k - 1>>, vs[k]>>]>>
Bytes == [k \in 1..16 |-> k]

Reference == <<"object", << <<Key("$ref"), <<"string", Key("c")>>>>, <<Key("$id"), <<"oid", 1>>>> >> >>
Scoped == <<"codewscope", One(<<"int", 1>>)>>
Gap == <<"array", << << <<"idx", 1>>, <<"int", 1>> >> >> >>
Exacts == {<<"null">>, <<"undefined">>, <<"bool", TRUE>>, <<"int", -8>>, <<"int", 7>>, <<"long", 3>>,
    <<"long", 8>>, <<"double", "whole", 5>>, <<"double", "frac", 5>>, <<"double", "nan", 0>>,
    <<"double", "inf", 0>>, <<"decimal", 2>>, <<"oid", 1>>, <<"timestamp", 15, 1>>, <<"minkey">>, <<"maxkey">>,
    <<"string", <<"chars", <<"a", "quote", "backslash", "nl", "ctl", "slash">>>>>>,
    <<"string", <<"oid", 1>>>>, <<"regex", Key("p"), <<"i", "m">>>>,
    <<"bin", "bdtUUID", Bytes>>, <<"bin", "newUUID", Bytes>>, <<"bin", "generic", 1>>,
    <<"date", 3599, 7>>, <<"date", -1, 0>>, <<"date", 3600000, 0>>,
    One(<<"null">>), List(<<>>), List(<<<<"int", 1>>, One(<<"int", 2>>)>>), Reference}
Inexacts == {<<"symbol", Key("s")>>, <<"code">>, Scoped, <<"codewscope", <<"object", <<>>>>>>, <<"dbref", Key("c"), <<"oid", 1>>>>,
    <<"double", "-inf", 0>>, <<"double", "fine", 1>>, <<"double", "huge", 1>>,
    <<"regex", Key("p"), <<"s">>>>, Gap, <<"bin", "user", 1>>,
    <<"object", << <<Key("$oid"), <<"string", <<"oid", 1>>>>>>, <<Key("a"), <<"null">>>> >> >>,
    <<"object", << <<Key("$oid"), <<"string", <<"oid", 1>>>>>> >> >>}

Field(toks) == <<Word("b"), Sym(":")>> \o toks
Fragments == {<<Sym(",")>>, <<Sym("}")>>, <<Sym("{")>>, <<Sym("]")>>, <<Word("x")>>, <<Num(8, "int")>>,
    <<Sym(",")>> \o Field(<<Num(1, "int")>>), Field(<<Sym("{"), Str(Key("$oid")), Sym(":"), Str(<<"oid", 1>>), Sym("}")>>),
    Field(Call("NumberInt", <<Num(9, "int")>>)), <<Sym("{"), Sym("}")>>,
    Call("CSUUID", <<Str(<<"uuid", Bytes>>)>>),
    Field(<<Sym("{"), Str(Key("$date")), Sym(":"), Sym("{"), Str(Key("$numberLong")), Sym(":"), Str(<<"dec", 5>>), Sym("}"), Sym("}")>>),
    <<Sym("["), Num(1, "int"), Sym(","), Num(20, "int"), Sym("]")>>}

FirstDate == -3456000
India == 330
Moments == {5 * 3600 + 50 * 60, 2 * 86400 + 20 * 3600 + 600, 28 * 86400 + 3600}

\* Documents to browse: an inner _id, a repeated name, arrays in arrays, a UUID,
\* a reference, an array with a gap.
Inner == <<"object", << <<Key("_id"), <<"oid", 2>>>>, <<Key("u"), <<"bin", "bdtUUID", Bytes>>>> >> >>
Nested == <<"object", << <<Key("_id"), <<"oid", 1>>>>, <<Key("a"), Inner>>,
                         <<Key("l"), List(<<List(<<One(<<"date", 3599, 7>>)>>)>>)>> >> >>
Repeats == <<"object", << <<Key("_id"), <<"oid", 2>>>>, <<Key("b"), One(<<"int", 1>>)>>,
                          <<Key("b"), One(<<"null">>)>> >> >>
Flat == <<"object", << <<Key("_id"), <<"oid", 2>>>> >> >>
Refers == <<"object", << <<Key("_id"), <<"oid", 2>>>>, <<Key("r"), Reference>> >> >>
Browsed == {<<Nested, Flat>>, <<Repeats, Two(Scoped, Gap)>>, <<Refers>>}
Edited == {One(v) : v \in Exacts} \cup {Two(v, <<"bin", "bdtUUID", Bytes>>) : v \in Inexacts}
          \cup {<<"object", <<>>>>, Reference}
AllDocuments == Edited \cup UNION {Range(r) : r \in Browsed}
Singles == {<<d>> : d \in Edited}
AllResults == Browsed \cup Singles \cup {<<>>}
Uses == [r \in AllResults |-> IF r \in Browsed THEN {"browse"} ELSE IF r = <<>> THEN {"insert"} ELSE {"edit"}]
Stamps == <<60, 3600000>>
=============================================================================
