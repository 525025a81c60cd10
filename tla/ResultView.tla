----------------------------- MODULE ResultView -----------------------------
(***************************************************************************)
(* The documents of a result in the tree view or the table view, and the   *)
(* commands of their context menus: BsonTreeModel and BsonTreeItem, whose  *)
(* items are made when their parent is first expanded, the proxy that      *)
(* makes a table of the same items, the selection as BsonTreeView and      *)
(* BsonTableView reduce it, and Notifier, which copies from, deletes or    *)
(* opens in DocumentEditor the document of the selected item.              *)
(*                                                                         *)
(* An item is known by its path: the row of its document, then the row of  *)
(* each item below.  What the server answers, and the reload of the result *)
(* it causes, is module QueryResults.                                      *)
(***************************************************************************)
EXTENDS DocumentEditor

CONSTANTS
    Results,       \* results, sequences of documents
    Use,           \* what is explored on each: "browse", "edit", "insert"
    Stamp,         \* the seconds in the first eight digits of an ObjectId
    MaxSelected    \* bound on the items selected at once

ASSUME UseAssumption ==
    /\ Results \subseteq Seq(Documents)
    /\ Use \in [Results -> SUBSET {"browse", "edit", "insert"}]

VARIABLES
    result,     \* OutputItemContentWidget::_documents
    view,       \* which of the two views
    editable,   \* MongoQueryInfo: the result comes from one collection
    tree,       \* the items of BsonTreeModel made so far, by path
    selection,  \* the selected paths, in the order they were selected
    did         \* the last command and what it put on the clipboard or asked the server

viewVars == <<result, view, editable, tree, selection, did>>
allVars == <<vars, viewVars>>

NoCommand == [what |-> "none", path |-> <<>>, out |-> <<>>]
---------------------------------------------------------------------------
isDocument(type) == type \in {"object", "array"}
\* BsonUtils::isSimpleType and isUuidType.
isSimpleType(item) ==
    \/ item.type \in {"long", "double", "decimal", "int", "string", "bool", "date", "oid"}
    \/ item.type = "bin" /\ item.bin \in {"bdtUUID", "newUUID"}

\* BSONElement::Array() fills the gaps of an array (external).
ArraySize(e) == IF e[2] = <<>> THEN 0 ELSE Last(e[2])[1][2] + 1
Summary(e) ==
    IF e[1] = "array" THEN <<"count", ArraySize(e)>>
    ELSE IF e[1] = "object" THEN <<"count", Len(e[2])>>
    ELSE buildJsonString(e, encoding, local, Zone, now)

\* One turn of parseDocument's loop: the item of element k of doc.
Item(doc, k) ==
    LET name == doc[2][k][1]
        elem == doc[2][k][2]
    IN [root |-> doc, fieldName |-> name,
        key |-> IF doc[1] = "array" THEN <<"bracket", name>> ELSE name,
        type |-> elem[1], bin |-> IF elem[1] = "bin" THEN elem[2] ELSE "none",
        value |-> Summary(elem)]
parseDocument(path, doc) ==
    [p \in {Append(path, k) : k \in DOMAIN doc[2]} |-> Item(doc, p[Len(path) + 1])]

\* BsonTreeItem::childByKey: the first child with the key, 0 for none.
childByKey(items, path, key) ==
    LET found == {k \in 1..Cardinality(DOMAIN items) :
                     Append(path, k) \in DOMAIN items /\ items[Append(path, k)].key = key}
    IN IF found = {} THEN 0 ELSE CHOOSE k \in found : \A j \in found : k <= j

\* BsonTreeModel's constructor: every document with its first level.
DocumentItem(i, children) ==
    LET id == childByKey(children, <<i>>, <<"key", "_id">>)
    IN [root |-> result[i], fieldName |-> <<"none">>,
        key |-> <<"row", i, IF id = 0 THEN <<>> ELSE children[<<i, id>>].value>>,
        type |-> result[i][1], bin |-> "none", value |-> <<"count", Len(result[i][2])>>]
Merge(f, g) == [x \in DOMAIN f \cup DOMAIN g |-> IF x \in DOMAIN f THEN f[x] ELSE g[x]]
BsonTreeModel ==
    LET First(i) == parseDocument(<<i>>, result[i])
        WithItem(i) == Merge(First(i), [p \in {<<i>>} |-> DocumentItem(i, First(i))])
    IN FoldLeft(LAMBDA t, i : Merge(t, WithItem(i)), <<>>, [i \in DOMAIN result |-> i])

childrenCount(t, path) == Cardinality({p \in DOMAIN t : Len(p) = Len(path) + 1 /\ Front(p) = path})
canFetchMore(t, path) == isDocument(t[path].type) /\ childrenCount(t, path) = 0

\* BsonUtils::indexOf, with a null element when there is none.
indexOf(doc, k) == IF k \in DOMAIN doc[2] THEN doc[2][k][2] ELSE <<"eoo">>
\* The first element of the name, as BSONObj::getField finds it.
getField(doc, name) ==
    LET ks == {k \in DOMAIN doc[2] : doc[2][k][1] = name}
    IN IF ks = {} THEN <<"eoo">> ELSE doc[2][CHOOSE k \in ks : \A j \in ks : k <= j][2]

\* fetchMore: the element is found again by the row of its item.
FetchElement(t, path, elem) ==
    IF isDocument(elem[1]) THEN Merge(t, parseDocument(path, elem)) ELSE t
\* Mutant: it is found by its name.
FetchByName(t, path) == FetchElement(t, path, getField(t[path].root, t[path].fieldName))
fetchMore(t, path) == FetchElement(t, path, indexOf(t[path].root, Last(path)))

Expanded(t, path) == IF canFetchMore(t, path) THEN fetchMore(t, path) ELSE t
RECURSIVE expandNode(_, _)
\* expandNode: the item, then those of its children that are documents.
expandNode(t, path) ==
    LET opened == Expanded(t, path)
    IN FoldLeft(LAMBDA u, k : IF isDocument(u[Append(path, k)].type) THEN expandNode(u, Append(path, k)) ELSE u,
                opened, [k \in 1..childrenCount(opened, path) |-> k])
---------------------------------------------------------------------------
\* BsonTableModelProxy::setSourceModel: a column for each key, in the order
\* in which the documents first have it.
Columns ==
    LET Keys(i) == [k \in 1..childrenCount(tree, <<i>>) |-> tree[<<i, k>>].key]
        addColumn(columns, key) == IF key \in Range(columns) THEN columns ELSE Append(columns, key)
    IN FoldLeft(LAMBDA columns, i : FoldLeft(addColumn, columns, Keys(i)), <<>>, [i \in DOMAIN result |-> i])
\* index(): the item in a cell; a document without the key has none there.
Cells == {<<i, childByKey(tree, <<i>>, Columns[c])>> : i \in DOMAIN result, c \in DOMAIN Columns}
Selectable == IF view = "tree" THEN DOMAIN tree ELSE Cells \cap DOMAIN tree

superParent(path) == <<Head(path)>>
superRoot(path) == tree[superParent(path)].root
isDocumentRoot(path) == path = superParent(path)
isArrayChild(path) == tree[Front(path)].type = "array"

\* detail::uniqueRows: the first selected item of each document, or the item
\* of the document itself.
uniqueRows(paths, supers) ==
    LET firsts == SelectSeq([k \in DOMAIN paths |-> k],
                      LAMBDA k : \A j \in 1..(k - 1) : superParent(paths[j]) # superParent(paths[k]))
    IN [n \in DOMAIN firsts |-> IF supers THEN superParent(paths[firsts[n]]) ELSE paths[firsts[n]]]
selectedIndexes == uniqueRows(selection, view = "tree")
selectedIndex ==
    LET rows == uniqueRows(selection, FALSE)
    IN IF Len(rows) = 1 THEN rows[1] ELSE <<>>
isMultiSelection == Len(selectedIndexes) > 1
---------------------------------------------------------------------------
ViewInit ==
    /\ Init
    /\ result \in Results
    /\ view \in IF "browse" \in Use[result] THEN {"tree", "table"} ELSE {"tree"}
    /\ editable \in IF "browse" \in Use[result] THEN BOOLEAN ELSE {TRUE}
    /\ "browse" \in Use[result] => now = CHOOSE n \in Nows : TRUE
    /\ tree = BsonTreeModel
    /\ selection = <<>>
    /\ did = NoCommand

Browsing == editor.mode = "closed" /\ "browse" \in Use[result]

\* The user selects one more item, or clears the selection.
Select(path) ==
    /\ editor.mode = "closed"
    /\ Len(selection) < IF "browse" \in Use[result] THEN MaxSelected ELSE 1
    /\ "browse" \in Use[result] \/ ("edit" \in Use[result] /\ isDocumentRoot(path))
    /\ selection' = Append(selection, path)
    /\ did' = NoCommand /\ UNCHANGED <<vars, result, view, editable, tree>>
Deselect ==
    /\ Browsing /\ selection # <<>>
    /\ selection' = <<>>
    /\ did' = NoCommand /\ UNCHANGED <<vars, result, view, editable, tree>>

\* The tree view opens an item.
Expand(path) ==
    /\ Browsing /\ view = "tree" /\ selection = <<>>
    /\ path \in DOMAIN tree /\ canFetchMore(tree, path)
    /\ tree' = fetchMore(tree, path)
    /\ did' = NoCommand /\ UNCHANGED <<vars, result, view, editable, selection>>
onExpandRecursive ==
    /\ Browsing /\ view = "tree" /\ selection # <<>>
    /\ LET paths == IF isMultiSelection THEN selectedIndexes
                    ELSE IF selectedIndex # <<>> THEN <<selectedIndex>> ELSE <<>>
       IN tree' = FoldLeft(LAMBDA t, p : expandNode(t, p), tree, paths)
    /\ did' = NoCommand /\ UNCHANGED <<vars, result, view, editable, selection>>
---------------------------------------------------------------------------
\* initMenu: the entries for one selected item.
OnItem == Browsing /\ ~isMultiSelection /\ selectedIndex # <<>>
Chosen == tree[selectedIndex]
Command(what, out) ==
    /\ did' = [what |-> what, path |-> selectedIndex, out |-> out]
    /\ UNCHANGED <<vars, result, view, editable, tree, selection>>

onCopyDocument == OnItem /\ isSimpleType(Chosen) /\ Command("value", Chosen.value)
onCopyNameDocument ==
    /\ OnItem /\ (isSimpleType(Chosen) \/ isDocument(Chosen.type))
    /\ ~isDocumentRoot(selectedIndex) /\ ~isArrayChild(selectedIndex)
    /\ Command("name", <<Chosen.fieldName>>)

\* The names from the item up to its document, without those of array slots.
NamesOfItems(path, Has(_)) ==
    LET named == SelectSeq([k \in 1..(Len(path) - 1) |-> SubSeq(path, 1, k + 1)], Has)
    IN [n \in DOMAIN named |-> tree[named[n]].fieldName]
\* Mutant: the name of a slot is kept and that of the field with the array is not.
NamesOfSlots(path) == NamesOfItems(path, LAMBDA p : tree[p].type # "array")
NamesTo(path) == NamesOfItems(path, LAMBDA p : ~isArrayChild(p))
onCopyPathDocument ==
    /\ OnItem /\ (isSimpleType(Chosen) \/ isDocument(Chosen.type))
    /\ ~isDocumentRoot(selectedIndex)
    /\ Command("path", NamesTo(selectedIndex))

onCopyTimestamp ==
    /\ OnItem /\ Chosen.type = "oid"
    /\ LET s == Stamp[Chosen.value[3][2][2]]
       IN Command("timestamp", IF SupportedDate(s)
              THEN Call("ISODate", <<Str(<<"iso", isotimeString(s, 0, FALSE, Zone, now)>>)>>)
              ELSE <<Word("Error")>>)

\* onCopyJson looks the element up by its name; Obj() throws for other types.
onCopyJson ==
    /\ OnItem /\ isDocument(Chosen.type)
    /\ LET elem == IF isDocumentRoot(selectedIndex) THEN Chosen.root
                   ELSE getField(Chosen.root, Chosen.fieldName)
       IN Command("json", IF isDocument(elem[1])
              THEN jsonString(<<Chosen.type, elem[2]>>, encoding, local, Zone, now)
              ELSE <<"thrown">>)
---------------------------------------------------------------------------
\* Mutant: the object the item is in.
ObjectOf(path) == tree[path].root
\* The document an item belongs to, for deleteDocuments and the editor.
DocumentOf(path) == superRoot(path)

\* deleteDocuments: a request by _id for each item, up to the first document
\* that has none.  A user who does not agree ends it before the first request.
Removals(paths) ==
    LET Id(p) == getField(DocumentOf(p), <<"key", "_id">>)
        upTo == SelectInSeq(paths, LAMBDA p : Id(p) = <<"eoo">>)
        taken == IF upTo = 0 THEN paths ELSE SubSeq(paths, 1, upTo - 1)
    IN [k \in DOMAIN taken |-> [id |-> Id(taken[k]), index |-> k - 1,
                                removeCount |-> IF Len(paths) = 1 THEN "ONE" ELSE "MULTI"]]

onDeleteDocuments ==
    /\ Browsing /\ editable /\ isMultiSelection
    /\ Command("remove", Removals(selectedIndexes))
\* The table's Delete key calls onDeleteDocuments and so does nothing here.
onDeleteDocument ==
    /\ OnItem /\ editable
    /\ Command("remove", Removals(<<selectedIndex>>))

onEditDocument ==
    /\ editor.mode = "closed" /\ editable /\ ~isMultiSelection /\ selectedIndex # <<>>
    /\ Open("edit", DocumentOf(selectedIndex))
    /\ did' = NoCommand /\ UNCHANGED <<result, view, editable, tree, selection>>
onViewDocument ==
    /\ editor.mode = "closed" /\ ~isMultiSelection /\ selectedIndex # <<>>
    /\ Open("view", DocumentOf(selectedIndex))
    /\ did' = NoCommand /\ UNCHANGED <<result, view, editable, tree, selection>>
onInsertDocument ==
    /\ editable /\ "insert" \in Use[result]
    /\ OpenInsert
    /\ did' = NoCommand /\ UNCHANGED <<result, view, editable, tree, selection>>

\* Steps of the settings and of the open dialog.  Bounds: in a result that is
\* browsed the settings change once, and no text is typed.  A date is one
\* token of a text, so texts are typed into in UTC and at one moment only; the
\* text of a document is changed once, that of an insert, which is the same in
\* every encoding, up to MaxEdits times and in the default one.
Dialog(A) == A /\ did' = NoCommand /\ UNCHANGED <<result, view, editable, tree, selection>>
SettingsStep ==
    /\ "browse" \in Use[result] => selection = <<>> /\ encoding = "DefaultEncoding" /\ ~local
    /\ \/ \E e \in Encodings : setUuidEncoding(e)
       \/ \E l \in BOOLEAN : setTimeZone(l)
       \/ "browse" \notin Use[result] /\ \E n \in Nows : Tick(n)
TypeStep ==
    /\ "browse" \notin Use[result] /\ ~local /\ now = CHOOSE n \in Nows : TRUE
    /\ IF "insert" \in Use[result] THEN encoding = "DefaultEncoding" ELSE editor.edits = 0
    /\ \/ \E k \in 0..Len(editor.text), fragment \in Typed : InsertText(k, fragment)
       \/ \E k \in DOMAIN editor.text, fragment \in Typed \cup {<<>>} : ReplaceText(k, fragment)

ViewNext ==
    \/ \E path \in Selectable \ Range(selection) : Select(path)
    \/ \E path \in DOMAIN tree : Expand(path)
    \/ Deselect
    \/ onExpandRecursive
    \/ onCopyDocument \/ onCopyNameDocument \/ onCopyPathDocument \/ onCopyTimestamp \/ onCopyJson
    \/ onDeleteDocument \/ onDeleteDocuments
    \/ onEditDocument \/ onViewDocument \/ onInsertDocument
    \/ Dialog(SettingsStep) \/ Dialog(TypeStep)
    \/ Dialog(Accept) \/ Dialog(ValidateClicked) \/ Dialog(Reject)

ViewSpec == ViewInit /\ [][ViewNext]_allVars
---------------------------------------------------------------------------
\* The value at a path, found from the result alone.
RECURSIVE ValueAt(_, _)
ValueAt(e, rows) == IF rows = <<>> THEN e ELSE ValueAt(e[2][Head(rows)][2], Tail(rows))
At(path) == ValueAt(result[Head(path)], Tail(path))
\* The rows of a document, and the slots of an array up to its last.
Rows(e) == IF e[1] = "object" THEN DOMAIN e[2]
           ELSE UNION {0..e[2][k][1][2] : k \in DOMAIN e[2]}

\* However the tree was opened, an item has the type and shows the text of the
\* value at its place, in an object that repeats a name too (fetchMore finds
\* an element by its row, parseDocument names its children).  The count of an
\* array includes its gaps, although no item is made for them.
ItemsShowTheirValue ==
    \A p \in DOMAIN tree :
        /\ Head(p) \in DOMAIN result /\ tree[p].type = At(p)[1]
        /\ \E e \in Encodings, l \in BOOLEAN, n \in Nows :
               tree[p].value = IF isDocument(At(p)[1]) THEN <<"count", Cardinality(Rows(At(p)))>>
                               ELSE buildJsonString(At(p), e, l, Zone, n)

\* What the server's dotted paths reach: a name passes through an array to
\* its elements.
RECURSIVE Reached(_, _)
Reached(e, names) ==
    (IF names = <<>> THEN {e} ELSE {})
    \cup (IF e[1] = "array" THEN UNION {Reached(e[2][k][2], names) : k \in DOMAIN e[2]} ELSE {})
    \cup (IF names # <<>> /\ e[1] = "object"
          THEN UNION {Reached(e[2][k][2], Tail(names)) : k \in {j \in DOMAIN e[2] : e[2][j][1] = Head(names)}}
          ELSE {})

NamesUnique(doc) == \A j, k \in DOMAIN doc[2] : doc[2][j][1] = doc[2][k][1] => j = k

\* The path that was copied leads a query to the selected value, and the JSON
\* that was copied of an object or array reads back as its members; the parser
\* makes an object of an array on its own too.  An object that begins with a
\* reserved name is refused on its own, as a reference is, although it is read
\* inside its document.  Objects that share their name with another and values
\* that are not Exact are left out (onCopyPathDocument, onCopyJson, fromjson).
CopiedLeadsBack ==
    /\ did.what = "path" => At(did.path) \in Reached(result[Head(did.path)], did.out)
    /\ did.what = "json" /\ NamesUnique(tree[did.path].root) /\ Exact(At(did.path)) =>
           LET read == validate(did.out)
           IN IF BeginsReserved(At(did.path)) THEN ~read.ok
              ELSE read.ok /\ read.out = << <<"object", At(did.path)[2]>> >>

\* What is deleted or edited are selected documents, whichever item of them is
\* selected: never one that an inner _id names, each once, and all of them
\* when each has an _id (deleteDocuments, uniqueRows, superRoot).
ActsOnSelected ==
    LET docs == {result[Head(p)] : p \in Range(selection)}
        IdOf(d) == getField(d, <<"key", "_id">>)
    IN /\ did.what = "remove" =>
              /\ \A k \in DOMAIN did.out : did.out[k].id \in {IdOf(d) : d \in docs}
              /\ \A j, k \in DOMAIN did.out : did.out[j].id = did.out[k].id => j = k
              /\ (\A d \in docs : IdOf(d) # <<"eoo">>) => Len(did.out) = Cardinality(docs)
       /\ editor.mode = "edit" => editor.doc \in docs
=============================================================================
