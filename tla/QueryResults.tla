---------------------------- MODULE QueryResults ----------------------------
(* The output of a query tab: the parts a script's results are shown in       *)
(* (OutputWidget, OutputItemContentWidget), their views and pages, the thread *)
(* that prepares the text of a page (JsonPrepareThread), and the operations   *)
(* on documents that start in a view (Notifier).                              *)
(*                                                                            *)
(* A tab has a connection of its own.  Its requests are taken in order by one *)
(* worker and the answers come back in order; the user goes on in between,    *)
(* except while a modal dialog is open.  Answers are handled even then.       *)
EXTENDS Integers, Sequences, SequencesExt, FiniteSetsExt

CONSTANTS Query,        \* the queries of scripts
          TextSkip,     \* TextSkip[q]: the skip in the text of q, 0 for none
          TextLimit,    \* TextLimit[q]: its limit, 0 for none
          Doc,          \* documents, numbered in the order a query finds them
          Stored,       \* Stored[q]: the documents q finds at first
          Skip,         \* values the user enters as skip
          Batch,        \* values the user enters as batch size
          ShellBatch,   \* DBQuery.shellBatchSize, also the default of the field
          DefaultLimit, \* the limit setup() puts in place of none: 50
          MaxParts,     \* bound on the results of a script
          MaxOps,       \* bound on the operations of the user
          MaxPending,   \* bound on the requests under way when a new one is made
          NULL

ASSUME ResultsAssumption ==
  /\ TextSkip \in [Query -> Nat] /\ TextLimit \in [Query -> Nat]
  /\ Doc \subseteq Nat \ {0} /\ IsFiniteSet(Doc) /\ Stored \in [Query -> SUBSET Doc]
  /\ Skip \subseteq Nat /\ Batch \subseteq Nat
  /\ {ShellBatch, DefaultLimit, MaxParts, MaxOps, MaxPending} \subseteq Nat \ {0}
  /\ {NULL, "print", "value", "stats"} \cap Query = {}

VARIABLES
  items,          \* the parts, in the order of the splitter
  prevViewModes,  \* _prevViewModes, the mode of the first part last
  notifiers,      \* the Notifiers of tree and table views, in order of subscription
  progress,       \* the progress popup is shown
  dialog,         \* the modal dialog of a document operation, or NULL
  crashed,        \* a dialog's view was deleted under it: nothing is specified after
  requests,       \* requests posted to the worker
  replies,        \* responses posted to the GUI thread
  store,          \* what MongoDB holds for each query
  ops,            \* operations of the user so far
  clean,          \* no answer was an error and no dialog was opened in a busy tab
  strayed         \* a page went into a part that does not show its query

tabVars == <<items, prevViewModes, notifiers>>
vars == <<tabVars, progress, dialog, crashed, requests, replies, store, ops, clean, strayed>>

Mode == {"text", "tree", "table", "custom"}
Source == Query \cup {"print", "value", "stats"}   \* a result: documents, text, one object, or
                                                  \* one of a type that has its own view

-----------------------------------------------------------------------------
(* MongoDB, as the worker's answers show it.                                  *)

\* Documents in the order in which a query finds them.
InOrder(docs) ==
  CHOOSE s \in [1 .. Cardinality(docs) -> docs] : \A i, j \in DOMAIN s : i < j => s[i] < s[j]

\* MongoClient::query: a limit of -1 loads nothing, one of 0 everything.
Page(docs, skip, limit) ==
  LET all == InOrder(docs)
      end == IF limit = 0 THEN Len(all) ELSE Min({skip + limit, Len(all)})
  IN  IF limit = -1 THEN <<>> ELSE SubSeq(all, skip + 1, end)

\* The shell prints one batch of a query's documents.
FirstPage(q) ==
  Page(store[q], TextSkip[q],
       IF TextLimit[q] = 0 THEN ShellBatch ELSE Min({TextLimit[q], ShellBatch}))

-----------------------------------------------------------------------------
(* One part of the output.                                                    *)

\* A thread prepares the text; the one of an earlier page goes on until one of
\* its parts is taken.
PrepareText(item) ==
  [item EXCEPT !.old = IF item.thread = NULL THEN @ ELSE @ \cup {item.thread},
               !.thread = [docs |-> item.docs, next |-> 1]]

showText(item) ==
  LET shown == [item EXCEPT !.view = "text", !.ready = @ \cup {"text"}, !.text = <<>>]
  IN  IF "text" \in item.ready THEN [item EXCEPT !.view = "text"]
      ELSE IF item.docs = <<>> THEN shown ELSE PrepareText(shown)

\* Tree and table fall back to text, and the custom view to the tree, where the
\* part does not support them; the mode that was asked for is remembered.
ViewOf(item, mode) == IF mode = "custom" /\ item.query # "stats" THEN "tree" ELSE mode
showView(item, mode) ==
  LET view == ViewOf(item, mode)
  IN  IF view = "text" THEN showText(item)
      ELSE IF item.hasDocs THEN [item EXCEPT !.view = mode, !.ready = @ \cup {view}]
      ELSE [showText(item) EXCEPT !.view = mode]

\* setup(): the page of a new part.
FirstInfo(q) ==
  [query |-> q, skip |-> TextSkip[q], batch |-> 0,
   limit |-> IF TextLimit[q] = 0 THEN DefaultLimit ELSE TextLimit[q]]

\* The constructors.
Part(result, mode) ==
  LET q == result.query
  IN  showView([query |-> q, docs |-> result.docs,
                hasDocs |-> result.docs # <<>>,
                info |-> IF q \in Query /\ result.docs # <<>> THEN FirstInfo(q) ELSE NULL,
                view |-> mode, ready |-> {}, text |-> <<>>, thread |-> NULL, old |-> {}],
               mode)

\* update() and refreshOutputItem(): a new page; its views are built anew.
Updated(item, info, docs) ==
  showView([item EXCEPT !.info = info, !.docs = docs, !.ready = {}], item.view)

\* A tree or a table subscribes its Notifier when it is created.
Created(k, before, after) ==
  SetToSeq({<<k, view>> : view \in (after \ before) \cap {"tree", "table"}})

-----------------------------------------------------------------------------
(* The user.                                                                  *)

\* A click reaches the tab: no modal dialog is open.
UserMay == dialog = NULL /\ ~ crashed /\ ops < MaxOps

MayAsk == UserMay /\ Len(requests) + Len(replies) < MaxPending

ExecuteScriptRequest == [type |-> "script"]
ExecuteQueryRequest(k, info) == [type |-> "query", index |-> k, info |-> info]
DocumentRequest(change, query, doc, k) == [type |-> change, query |-> query, doc |-> doc, index |-> k]
ExecuteScriptResponse(error, results) == [type |-> "results", error |-> error, results |-> results]
ExecuteQueryResponse(r, error, docs) ==
  [type |-> "page", index |-> r.index, info |-> r.info, error |-> error, docs |-> docs]
DocumentResponse(r, error) == [type |-> r.type, index |-> r.index, error |-> error]

\* QueryWidget::execute()
execute ==
  /\ MayAsk
  /\ ops' = ops + 1
  /\ progress' = TRUE
  /\ requests' = Append(requests, ExecuteScriptRequest)
  /\ UNCHANGED <<tabVars, dialog, crashed, replies, store, clean, strayed>>

\* _initialSkip and _initialLimit: those of the text, 0 in a part without
\* documents, and never set in a part that shows one object.
Initial(item) ==
  CASE item.query \in Query /\ item.hasDocs ->
         {[skip |-> TextSkip[item.query], limit |-> TextLimit[item.query]]}
    [] item.query \in {"value", "stats"} -> [skip : Skip, limit : Batch]
    [] OTHER -> {[skip |-> 0, limit |-> 0]}

\* refresh(): the page is kept inside the skip and the limit of the text.
RefreshInfo(q, initial, skip, batchSize) ==
  LET from == Max({skip, initial.skip})
      left == initial.limit - (from - initial.skip)
  IN  [query |-> q, skip |-> from, batch |-> batchSize,
       limit |-> IF initial.limit = 0 THEN batchSize
                 ELSE Min({IF left <= 0 THEN -1 ELSE left, batchSize})]

refresh(k, skip, batchSize) ==
  /\ MayAsk
  /\ items[k].info # NULL
  /\ ops' = ops + 1
  /\ progress' = TRUE
  /\ \E initial \in Initial(items[k]) :
       requests' = Append(requests,
         ExecuteQueryRequest(k, RefreshInfo(items[k].info.query, initial, skip, batchSize)))
  /\ UNCHANGED <<tabVars, dialog, crashed, replies, store, clean, strayed>>

\* The fields of the paging widget hold the page that is shown.
ShownBatch(item) == IF item.info.batch <= 0 THEN ShellBatch ELSE item.info.batch

paging_leftClicked(k) ==
  /\ items[k].info # NULL
  /\ refresh(k, Max({items[k].info.skip - ShownBatch(items[k]), 0}), ShownBatch(items[k]))

paging_rightClicked(k) ==
  /\ items[k].info # NULL
  /\ refresh(k, items[k].info.skip + ShownBatch(items[k]), ShownBatch(items[k]))

\* A button of the part's header.
clickView(k, mode) ==
  /\ UserMay
  /\ mode = "text" \/ (items[k].hasDocs /\ ViewOf(items[k], mode) = mode)
  /\ mode # items[k].view
  /\ ops' = ops + 1
  /\ items' = [items EXCEPT ![k] = showView(@, mode)]
  /\ notifiers' = notifiers \o Created(k, items[k].ready, items'[k].ready)
  /\ UNCHANGED <<prevViewModes, progress, dialog, crashed, requests, replies, store, clean, strayed>>

\* enterTextMode() and its like: all parts of the tab.
enterMode(mode) ==
  /\ UserMay
  /\ \E k \in DOMAIN items : items[k].view # mode
  /\ ops' = ops + 1
  /\ items' = [k \in DOMAIN items |-> showView(items[k], mode)]
  /\ notifiers' = notifiers \o
       FlattenSeq([k \in DOMAIN items |-> Created(k, items[k].ready, items'[k].ready)])
  /\ UNCHANGED <<prevViewModes, progress, dialog, crashed, requests, replies, store, clean, strayed>>

\* A document operation starts in the tree or the table that is shown, and asks
\* in a modal dialog: the documents typed in, the one edited, those to delete.
openDialog(k, op, docs) ==
  /\ UserMay
  /\ items[k].info # NULL /\ items[k].hasDocs /\ ViewOf(items[k], items[k].view) \in {"tree", "table"}
  /\ docs # {}
  /\ op # "insert" => docs \subseteq ToSet(items[k].docs)
  /\ op = "save" => \A d, e \in docs : d = e
  /\ ops' = ops + 1
  /\ dialog' = [part |-> k, op |-> op, docs |-> docs, query |-> items[k].info.query,
                idle |-> requests = <<>> /\ replies = <<>>]
  /\ clean' = (clean /\ dialog'.idle)
  /\ UNCHANGED <<tabVars, progress, crashed, requests, replies, store, strayed>>

\* One request for each of the first n documents; removals are numbered from 0.
DialogRequests(n) ==
  LET docs == InOrder(dialog.docs)
  IN  [i \in 1 .. n |-> DocumentRequest(dialog.op, dialog.query, docs[i], i - 1)]

\* Accepted once the text is valid, or given up.  Removals end with a warning at
\* the first document that has no _id.
closeDialog ==
  /\ dialog # NULL /\ ~ crashed
  /\ dialog' = NULL
  /\ \/ requests' = requests
     \/ \E n \in 1 .. Cardinality(dialog.docs) :
          /\ dialog.op # "remove" => n = Cardinality(dialog.docs)
          /\ requests' = requests \o DialogRequests(n)
  /\ UNCHANGED <<tabVars, progress, crashed, replies, store, ops, clean, strayed>>

-----------------------------------------------------------------------------
(* The worker: one request, one response.                                     *)

WorkerMay(types) == requests # <<>> /\ ~ crashed /\ Head(requests).type \in types

Answer(reply) ==
  /\ requests' = Tail(requests)
  /\ replies' = Append(replies, reply)
  /\ UNCHANGED <<tabVars, progress, dialog, crashed, ops, clean, strayed>>

\* What the shell prints for a result.
Printed(source) ==
  [query |-> source, docs |-> CASE source = "print" -> <<>>
                                [] source \in {"value", "stats"} -> <<0>>
                                [] OTHER            -> FirstPage(source)]

ExecuteScript ==
  /\ WorkerMay({"script"})
  /\ \/ \E n \in 0 .. MaxParts : \E results \in [1 .. n -> Source] :
          Answer(ExecuteScriptResponse(FALSE, [k \in 1 .. n |-> Printed(results[k])]))
     \/ Answer(ExecuteScriptResponse(TRUE, <<>>))
  /\ UNCHANGED store

\* Without a valid namespace the query fails, or loads nothing if the limit,
\* which was never set, happens to be -1.
ExecuteQuery ==
  LET r == Head(requests)
  IN  /\ WorkerMay({"query"})
      /\ \/ Answer(ExecuteQueryResponse(r, TRUE, <<>>))
         \/ Answer(ExecuteQueryResponse(r, FALSE, IF r.info = NULL THEN <<>>
                              ELSE Page(store[r.info.query], r.info.skip, r.info.limit)))
      /\ UNCHANGED store

\* An insert, an update with upsert, or the removal of one document; an error
\* may be reported of an operation that took effect.
ChangeDocument ==
  LET r == Head(requests)
      done(error) == Answer(DocumentResponse(r, error))
  IN  /\ WorkerMay({"insert", "save", "remove"})
      /\ \/ /\ r.type = "insert" => r.doc \notin store[r.query]
            /\ store' = [store EXCEPT ![r.query] =
                            IF r.type = "remove" THEN @ \ {r.doc} ELSE @ \cup {r.doc}]
            /\ done(FALSE) \/ done(TRUE)
         \/ done(TRUE) /\ UNCHANGED store

-----------------------------------------------------------------------------
(* The answers in the GUI thread.                                             *)

GuiMay(types) == replies # <<>> /\ ~ crashed /\ Head(replies).type \in types

\* clearAllParts(): the last part is deleted first, and its mode saved first.
SavedViewModes == Reverse([k \in DOMAIN items |-> items[k].view])

\* present(): each new part takes the saved mode of its place.
Present(results) ==
  LET saved == IF items = <<>> THEN prevViewModes ELSE SavedViewModes
      mode(k) == IF k <= Len(saved) THEN saved[Len(saved) + 1 - k] ELSE "tree"
  IN  /\ items' = [k \in DOMAIN results |-> Part(results[k], mode(k))]
      /\ prevViewModes' = SubSeq(saved, 1, Len(saved) - Len(results))
      /\ notifiers' = FlattenSeq([k \in DOMAIN results |-> Created(k, {}, items'[k].ready)])

\* QueryWidget::handle(ScriptExecutedEvent)
ScriptExecuted ==
  /\ GuiMay({"results"})
  /\ progress' = FALSE
  /\ Present(Head(replies).results)
  /\ crashed' = (dialog # NULL)
  /\ clean' = (clean /\ ~ Head(replies).error)
  /\ replies' = Tail(replies)
  /\ UNCHANGED <<dialog, requests, store, ops, strayed>>

\* QueryWidget::handle(DocumentListLoadedEvent), an error: a message.
DocumentsFailed ==
  /\ GuiMay({"page"}) /\ Head(replies).error
  /\ progress' = FALSE
  /\ clean' = FALSE
  /\ replies' = Tail(replies)
  /\ UNCHANGED <<tabVars, dialog, crashed, requests, store, ops, strayed>>

\* The Notifiers that are left when the views of a part are deleted.
Without(k) ==
  FlattenSeq([i \in DOMAIN notifiers |-> IF notifiers[i][1] = k THEN <<>> ELSE <<notifiers[i]>>])

\* The page is one of the query that the part pages through.
ShowsQuery(item, info) == item.info # NULL /\ info # NULL /\ info.query = item.query

\* The same, with documents: they go to the part that has the index now.
DocumentListLoaded ==
  LET r == Head(replies)
  IN  /\ GuiMay({"page"}) /\ ~ r.error
      /\ progress' = FALSE
      /\ replies' = Tail(replies)
      /\ UNCHANGED <<prevViewModes, dialog, requests, store, ops, clean>>
      /\ IF r.index \in DOMAIN items
         THEN /\ items' = [items EXCEPT ![r.index] = Updated(@, r.info, r.docs)]
              /\ notifiers' = Without(r.index) \o Created(r.index, {}, items'[r.index].ready)
              /\ crashed' = (dialog # NULL /\ dialog.part = r.index)
              /\ strayed' = (strayed \/ ~ ShowsQuery(items[r.index], r.info))
         ELSE UNCHANGED <<items, notifiers, crashed, strayed>>

\* Mutant: the first answer to a removal of several is the one ignored.
ReloadsLast(r) == ~ r.error /\ (r.type = "remove" => r.index > 0)

\* MongoServer's handlers publish a success, of several removals the first.
Reloads(r) == ~ r.error /\ (r.type = "remove" => r.index = 0)

\* Notifier::handle(InsertDocumentResponse) and (RemoveDocumentResponse): each
\* loads its own page anew, for the first part of the tab.
DocumentChanged ==
  LET r == Head(replies)
      again(n) == ExecuteQueryRequest(1, items[n[1]].info)
  IN  /\ GuiMay({"insert", "save", "remove"})
      /\ requests' = IF Reloads(r) THEN requests \o [i \in DOMAIN notifiers |-> again(notifiers[i])]
                     ELSE requests
      /\ clean' = (clean /\ ~ r.error)
      /\ replies' = Tail(replies)
      /\ UNCHANGED <<tabVars, progress, dialog, crashed, store, ops, strayed>>

-----------------------------------------------------------------------------
(* The thread that prepares the text hands over one document at a time.       *)

Appended(item, doc) == IF "text" \in item.ready THEN Append(item.text, doc) ELSE item.text

\* Mutant: the thread leaves its last document out.
JsonStopsEarly(k) ==
  LET t == items[k].thread
  IN  /\ ~ crashed
      /\ t # NULL /\ t.next < Len(t.docs)
      /\ items' = [items EXCEPT ![k].thread.next = @ + 1, ![k].text = Appended(items[k], t.docs[t.next])]
      /\ UNCHANGED <<prevViewModes, notifiers, progress, dialog, crashed, requests, replies, store, ops, clean, strayed>>

\* A part of the current thread is shown, if there is a text to show it in.
jsonPartReady(k) ==
  LET t == items[k].thread
  IN  /\ ~ crashed
      /\ t # NULL /\ t.next <= Len(t.docs)
      /\ items' = [items EXCEPT ![k].thread.next = @ + 1, ![k].text = Appended(items[k], t.docs[t.next])]
      /\ UNCHANGED <<prevViewModes, notifiers, progress, dialog, crashed, requests, replies, store, ops, clean, strayed>>

\* Mutant: whichever thread hands over a document, it is shown.
StalePartShown(k, t) ==
  /\ ~ crashed
  /\ items' = [items EXCEPT ![k].old = @ \ {t},
                            ![k].text = IF t.next <= Len(t.docs) THEN Appended(items[k], t.docs[t.next]) ELSE @]
  /\ UNCHANGED <<prevViewModes, notifiers, progress, dialog, crashed, requests, replies, store, ops, clean, strayed>>

\* A thread that is not the current one is stopped and waited for.
stalePartReady(k, t) ==
  /\ ~ crashed
  /\ items' = [items EXCEPT ![k].old = @ \ {t}]
  /\ UNCHANGED <<prevViewModes, notifiers, progress, dialog, crashed, requests, replies, store, ops, clean, strayed>>

-----------------------------------------------------------------------------
\* WorkAreaTabWidget::handle(OpeningShellEvent); App::openShell executes the
\* script of the new tab.
Init ==
  /\ items = <<>> /\ prevViewModes = <<>> /\ notifiers = <<>>
  /\ progress = TRUE
  /\ dialog = NULL /\ crashed = FALSE
  /\ requests = <<ExecuteScriptRequest>> /\ replies = <<>>
  /\ store = Stored
  /\ ops = 0 /\ clean = TRUE /\ strayed = FALSE

User ==
  \/ execute
  \/ \E mode \in Mode : enterMode(mode)
  \/ \E k \in DOMAIN items :
       \/ \E skip \in Skip, batchSize \in Batch : refresh(k, skip, batchSize)
       \/ paging_leftClicked(k)
       \/ paging_rightClicked(k)
       \/ \E mode \in Mode : clickView(k, mode)
       \/ \E op \in {"insert", "save", "remove"}, docs \in SUBSET Doc : openDialog(k, op, docs)
  \/ closeDialog

Worker == ExecuteScript \/ ExecuteQuery \/ ChangeDocument
Gui == ScriptExecuted \/ DocumentsFailed \/ DocumentListLoaded \/ DocumentChanged
Threads == \E k \in DOMAIN items :
             jsonPartReady(k) \/ \E t \in items[k].old : stalePartReady(k, t)

Next == User \/ Worker \/ Gui \/ Threads

Spec == Init /\ [][Next]_vars

\* The worker's and the GUI's event loops run, and so do the threads.
FairSpec == Spec /\ WF_vars(Worker) /\ WF_vars(Gui) /\ WF_vars(Threads)

-----------------------------------------------------------------------------
(* Properties.                                                                *)

Info == [query : Query, skip : Nat, limit : Nat \cup {-1}, batch : Nat] \cup {NULL}

\* The shape of the state: every part shows documents, and a mode of the four.
TypeOK ==
  /\ \A k \in DOMAIN items :
       /\ items[k].query \in Source /\ items[k].info \in Info /\ items[k].view \in Mode
       /\ ToSet(items[k].docs) \cup ToSet(items[k].text) \subseteq Doc \cup {0}
       /\ items[k].ready \subseteq {"text", "tree", "table", "custom"}
  /\ ToSet(prevViewModes) \subseteq Mode
  /\ ToSet(notifiers) = {n \in (DOMAIN items) \X {"tree", "table"} : n[2] \in items[n[1]].ready}
  /\ {progress, crashed, clean, strayed} \subseteq BOOLEAN
  /\ store \in [Query -> SUBSET Doc]

\* jsonPartReady(): however pages, view modes and threads overtake each other,
\* the text of a page with documents is made of that page's documents, in order
\* and each once.
TextFaithful ==
  \A k \in DOMAIN items :
    "text" \in items[k].ready /\ items[k].docs # <<>> => IsPrefix(items[k].text, items[k].docs)

\* The skip and the limit of a page lie within those of the text of its query; a
\* limit of 0, from a batch size of 0, asks for all.
Within(info) ==
  LET q == info.query
  IN  /\ info.skip >= TextSkip[q]
      /\ \/ TextLimit[q] = 0 \/ info.limit \in {0, -1}
         \/ info.skip + info.limit <= TextSkip[q] + TextLimit[q]

\* refresh(), Notifier: wherever the user pages to and whatever is loaded anew, the
\* pages lie within the texts of their queries, as long as every page went into a
\* part of its query.  (One that did not is paged through by the bounds of another.)
PageWithinQuery == ~ strayed => \A k \in DOMAIN items : items[k].info # NULL => Within(items[k].info)

\* Whatever answers, pages and threads overtake each other, a part shows what its
\* page holds, and the pages stay within what their queries ask for.
PartsFaithful == TextFaithful /\ PageWithinQuery

\* A part shows what the database holds of its page, or of the batch that the
\* shell printed.
Fresh(item) ==
  LET i == item.info
  IN  \/ item.docs = Page(store[i.query], i.skip, i.limit)
      \/ i = FirstInfo(i.query) /\ item.docs = FirstPage(i.query)

\* Notifier: when all is answered, a tab of one part shows what the database
\* holds: removed documents are gone and new ones are there.  This is said as long
\* as no answer was an error (a failed operation loads nothing anew, also when it
\* took effect) and no dialog was opened while answers were still to come.
FreshAtRest ==
  clean /\ ~ crashed /\ requests = <<>> /\ replies = <<>> /\ Len(items) = 1 /\ items[1].info # NULL
    => Fresh(items[1])

\* Every text is complete in the end, unless the program crashed.
TextCompletes ==
  <>[](crashed \/ \A k \in DOMAIN items :
         "text" \in items[k].ready => Len(items[k].text) >= Len(items[k].docs))

\* hideProgress(): the popup is gone when no script and no page is under way,
\* in whatever order answers, errors and reloads come.
ProgressOnlyWhilePending ==
  progress => \/ \E i \in DOMAIN requests : requests[i].type \in {"script", "query"}
              \/ \E i \in DOMAIN replies : replies[i].type \in {"results", "page"}

\* A dialog is a child of its view: one opened while nothing was under way
\* never loses it to an answer.
DialogKeepsView == crashed => ~ dialog.idle

\* A tab is truthful about its results: texts and pages are those of the query, the
\* popup means work under way, and a dialog stays with the view it was opened on.
TabTruthful == PartsFaithful /\ ProgressOnlyWhilePending /\ DialogKeepsView
=============================================================================
