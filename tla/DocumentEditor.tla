--------------------------- MODULE DocumentEditor ---------------------------
(***************************************************************************)
(* A document is opened in DocumentTextEditor as text, edited, and read    *)
(* back when the dialog is accepted: Notifier::onEditDocument,             *)
(* onViewDocument, onInsertDocument, ui_addDocument and the dialog itself, *)
(* over the conversions of BsonText and JsonParser.  The UUID encoding and *)
(* the time zone of the dates come from the settings at the moment the     *)
(* text is made; nothing of them is used when it is read.                  *)
(***************************************************************************)
EXTENDS JsonParser, FiniteSets

CONSTANTS
    Documents,     \* documents of the results
    Typed,         \* fragments, sequences of tokens, a user may type into a text
    Zone,          \* the local time zone, minutes east of UTC
    Nows,          \* moments at which a text is made
    MaxEdits       \* bound on the changes made to one text

ASSUME EditsAssumption == MaxEdits \in Nat

VARIABLES
    encoding,   \* SettingsManager: UUID encoding
    local,      \* SettingsManager: dates are shown in the local zone
    now,        \* the clock, when a text is made
    editor,     \* the open dialog
    sent        \* what an accepted dialog has just given to saveDocuments or insertDocuments

vars == <<encoding, local, now, editor, sent>>

NoDocument == <<"none">>
Closed == [mode |-> "closed", doc |-> NoDocument, text |-> <<>>, edits |-> 0, refused |-> FALSE]
Nothing == [mode |-> "closed", doc |-> NoDocument, text |-> <<>>, edits |-> 0, objs |-> <<>>]

\* The text "{ }" an insert starts from.
EmptyText == <<Sym("{"), Sym("}")>>
---------------------------------------------------------------------------
Init ==
    /\ encoding = "DefaultEncoding" /\ local = FALSE
    /\ now \in Nows
    /\ editor = Closed
    /\ sent = Nothing

\* MainWindow::set...UuidEncoding and setUtcTimeZone, setLocalTimeZone.  The
\* menus cannot be reached while the dialog is modal.
setUuidEncoding(e) ==
    /\ editor.mode \in {"closed", "view"} /\ e # encoding
    /\ encoding' = e
    /\ sent' = Nothing /\ UNCHANGED <<local, now, editor>>
setTimeZone(l) ==
    /\ editor.mode \in {"closed", "view"} /\ l # local
    /\ local' = l
    /\ sent' = Nothing /\ UNCHANGED <<encoding, now, editor>>

Tick(n) ==
    /\ editor.mode = "closed" /\ n # now
    /\ now' = n
    /\ sent' = Nothing /\ UNCHANGED <<encoding, local, editor>>

\* onEditDocument and onViewDocument: the text of the document of the row.
Open(mode, doc) ==
    /\ editor.mode = "closed"
    /\ editor' = [Closed EXCEPT !.mode = mode, !.doc = doc,
                      !.text = jsonString(doc, encoding, local, Zone, now)]
    /\ sent' = Nothing /\ UNCHANGED <<encoding, local, now>>

\* onInsertDocument and ui_addDocument.
OpenInsert ==
    /\ editor.mode = "closed"
    /\ editor' = [Closed EXCEPT !.mode = "insert", !.text = EmptyText]
    /\ sent' = Nothing /\ UNCHANGED <<encoding, local, now>>

\* The user changes the text; a read-only editor does not let him.
Type(text) ==
    /\ editor.mode \in {"edit", "insert"} /\ editor.edits < MaxEdits
    /\ editor' = [editor EXCEPT !.text = text, !.edits = @ + 1, !.refused = FALSE]
    /\ sent' = Nothing /\ UNCHANGED <<encoding, local, now>>
InsertText(k, fragment) ==
    /\ k \in 0..Len(editor.text)
    /\ Type(SubSeq(editor.text, 1, k) \o fragment \o SubSeq(editor.text, k + 1, Len(editor.text)))
ReplaceText(k, fragment) ==
    /\ k \in DOMAIN editor.text
    /\ Type(SubSeq(editor.text, 1, k - 1) \o fragment \o SubSeq(editor.text, k + 1, Len(editor.text)))
---------------------------------------------------------------------------
RECURSIVE ParseFrom(_, _)
ParseRest(t, doc) == IF doc.ok THEN Before(doc.out, ParseFrom(t, doc.at)) ELSE doc
\* The loop of validate(): documents are read until the text is used up.
ParseFrom(t, i) ==
    IF i = Len(t) + 1 THEN Result(TRUE, i, <<>>) ELSE ParseRest(t, fromjson(t, i))

\* Mutant: only the first document of the text is read.
ValidateFirst(t) == fromjson(t, 1)
validate(t) == ParseFrom(t, 1)

\* accept(): a text that does not parse keeps the dialog open with a message.
AcceptAs(read) ==
    IF read.ok
    THEN /\ sent' = [mode |-> editor.mode, doc |-> editor.doc, text |-> editor.text,
                     edits |-> editor.edits, objs |-> read.out]
         /\ editor' = Closed
    ELSE /\ editor' = [editor EXCEPT !.refused = TRUE]
         /\ sent' = Nothing
Accept ==
    /\ editor.mode \in {"edit", "insert"}
    /\ AcceptAs(validate(editor.text))
    /\ UNCHANGED <<encoding, local, now>>

\* onValidateButtonClicked: only says whether the text parses.
ValidateClicked ==
    /\ editor.mode \in {"edit", "insert"}
    /\ editor' = [editor EXCEPT !.refused = ~validate(editor.text).ok]
    /\ sent' = Nothing /\ UNCHANGED <<encoding, local, now>>

\* reject(): a changed text may be saved (Accept), discarded or kept; and
\* closeEvent(): the window is closed without a question.
Reject ==
    /\ editor.mode # "closed"
    /\ editor' = Closed
    /\ sent' = Nothing /\ UNCHANGED <<encoding, local, now>>
---------------------------------------------------------------------------
\* The dialog's fields hold what the program can put in them.
TypeOK ==
    /\ encoding \in Encodings /\ local \in BOOLEAN /\ now \in Nows
    /\ editor.mode \in {"closed", "edit", "view", "insert"}
    /\ editor.doc \in Documents \cup {NoDocument}
    /\ editor.edits \in 0..MaxEdits /\ editor.refused \in BOOLEAN
    /\ sent.mode \in {"closed", "edit", "insert"}
\* An object that the parser takes for one that stands for a value; it lets no
\* document begin like this, but reads a reference back as the object it is.
BeginsReserved(e) == e[1] = "object" /\ e[2] # <<>> /\ IsReserved(e[2][1][1])
IsReference(e) ==
    /\ Len(e[2]) \in {2, 3} /\ e[2][1][2][1] = "string"
    /\ [k \in DOMAIN e[2] |-> e[2][k][1][2]] = SubSeq(<<"$ref", "$id", "$db">>, 1, Len(e[2]))
    /\ Len(e[2]) = 3 => e[2][3][2][1] = "string"

RECURSIVE Exact(_)
\* The text of the value, inside a document, denotes the value.  The others are
\* shown as something else, or as what the parser refuses: symbols, code, the
\* old DBRef type, binary data of a user-defined subtype, a negative infinity,
\* doubles of more than 15 digits or with an exponent, regular expressions
\* with flags other than g, i and m, arrays with gaps, objects that begin with
\* a reserved name and are no references.
Exact(e) ==
    CASE e[1] = "object" -> /\ BeginsReserved(e) => IsReference(e)
                            /\ \A k \in DOMAIN e[2] : Exact(e[2][k][2])
      [] e[1] = "array" -> \A k \in DOMAIN e[2] : e[2][k][1][2] = k - 1 /\ Exact(e[2][k][2])
      [] e[1] = "double" -> e[2] \in {"whole", "frac", "nan", "inf"}
      [] e[1] = "regex" -> \A k \in DOMAIN e[3] : e[3][k] \in {"g", "i", "m"}
      [] e[1] = "bin" -> e[2] # "user"
      [] OTHER -> e[1] \notin {"symbol", "code", "codewscope", "dbref"}
ExactDocument(e) == Exact(e) /\ ~BeginsReserved(e)

\* Opening a document in the editor and saving it without a change, in any
\* encoding, zone and moment, is accepted and hands over that very document,
\* when every value in it is one of those whose text denotes it (Exact) and it
\* does not begin with a reserved name (Notifier::onEditDocument, jsonString
\* against fromjson).
UnchangedIsSame ==
    /\ editor.mode = "edit" /\ editor.edits = 0 /\ ExactDocument(editor.doc) => ~editor.refused
    /\ sent.mode = "edit" /\ sent.edits = 0 /\ ExactDocument(sent.doc) => sent.objs = <<sent.doc>>

\* How deep token k of a text is, counted without the parser.
Depth(t, k) ==
    LET Count(cs) == Cardinality({j \in DOMAIN t : j <= k /\ t[j][1] = "sym" /\ t[j][2] \in cs})
    IN Count({"{", "[", "("}) - Count({"}", "]", ")"})

\* The members of the documents of a text, counted without the parser.
MembersTyped(t) ==
    Cardinality({k \in DOMAIN t : Depth(t, k) = 1 /\ t[k] = Sym(",")})
    + Cardinality({k \in DOMAIN t : /\ Depth(t, k) = 1 /\ t[k] \in {Sym("{"), Sym("[")}
                                    /\ Depth(t, k + 1) > 0})

\* A date as a $numberLong object: dateObject() does not read its brace.
DateOfLong(t) ==
    \E k \in DOMAIN t : /\ readField(t, k, "$date") /\ Shape(t, k + 1, <<":", "{">>)
                        /\ readField(t, k + 3, "$numberLong")

\* A text that was changed up to MaxEdits times and is accepted gives one
\* document for each of its top-level groups and one field for each member: no
\* member is skipped and nothing after a document is ignored (validate(),
\* object(), array()).  Two kinds of text are left out, for the parser does not
\* keep this for them: with "new", whose constructor() ignores what date()
\* answers, and with a date as a $numberLong object, which is accepted when a
\* brace is missing and refused when it is there.
EveryMemberKept ==
    sent.mode # "closed" /\ Word("new") \notin Range(sent.text) /\ ~DateOfLong(sent.text) =>
        /\ Len(sent.objs) = Cardinality({k \in DOMAIN sent.text : Depth(sent.text, k) = 0
                                             /\ sent.text[k] \in {Sym("}"), Sym("]")}})
        /\ FoldLeft(LAMBDA n, d : n + Len(d[2]), 0, sent.objs) = MembersTyped(sent.text)
=============================================================================
