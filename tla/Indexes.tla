------------------------------ MODULE Indexes ------------------------------
(* The indexes of a collection in the explorer: the collection's item and the *)
(* items below its folder "Indexes", the modal dialogs that add, edit and drop*)
(* an index, and MongoWorker, which answers each request to the item that sent*)
(* it. A reload of the collections replaces the item, a list of indexes the   *)
(* items below it, whether or not a dialog or a request still refers to them. *)
EXTENDS Integers, Sequences, FiniteSets

CONSTANTS Name,        \* names of indexes
          AutoName,    \* the name generated from the keys when none is given
          Expiry,      \* values of the option "expire after"
          Option,      \* options of an index, "unique" and Expiry among them
          MaxOps,      \* bound on the operations of the user
          MaxReloads,  \* bound on reloads of the collections
          NULL

ASSUME IndexesAssumption ==
  /\ AutoName \in Name /\ "" \notin Name /\ NULL \notin Name
  /\ {"unique"} \cup Expiry \subseteq Option
  /\ IsFiniteSet(Name)
  /\ MaxOps \in Nat /\ MaxReloads \in Nat

VARIABLES
  indexes,    \* the server's indexes: options by name
  item,       \* incarnation of the collection's item
  items,      \* the indexes of the items below it
  label,      \* the count in the text of the folder, Loading or Plain
  dialog,     \* the modal dialog, dangling when its item was deleted, or NULL
  requests,   \* requests posted to the worker
  responses,  \* responses posted to the GUI thread
  missed,     \* indexes with items that are gone, their drop answered with an error
  edit,       \* the last edit: the options entered and those of the index made, or NULL
  ops,        \* operations so far
  crashed     \* a deleted item was used

indexVars == <<indexes, item, items, label, dialog, requests, responses, missed, edit, ops, crashed>>

Loading == -1
Plain == -2

Unnamed == [name |-> "", options |-> {}]

Infos == [name : Name \cup {""}, options : SUBSET Option]

AsFunction(infos) == [n \in {i.name : i \in infos} |-> (CHOOSE i \in infos : i.name = n).options]

AsInfos(f) == {[name |-> n, options |-> f[n]] : n \in DOMAIN f}

-----------------------------------------------------------------------------
(* The dialog.                                                                *)

\* uniqueStateChanged: without "unique" the box "drop duplicates" is cleared.
Enterable(info) ==
  /\ "dropDups" \in info.options => "unique" \in info.options
  /\ Cardinality(info.options \cap Expiry) <= 1

\* EditIndexDialog::info: what is in the dialog, except that an expiry that was
\* switched off is the old one.
Info(old, entered) ==
  IF entered.options \cap Expiry = {}
  THEN [entered EXCEPT !.options = @ \cup (old.options \cap Expiry)] ELSE entered

LoadIndexesRequest == [type |-> "load", sender |-> item]
DropIndexRequest(name) == [type |-> "drop", sender |-> item, name |-> name]
EnsureIndexRequest(old, entered) ==
  [type |-> "ensure", sender |-> item, old |-> old, new |-> Info(old, entered), entered |-> entered.options]

UserMay == ~ crashed /\ dialog = NULL /\ ops < MaxOps

\* Expanding the folder, or Refresh: the old items stay while the list loads.
expand ==
  /\ UserMay
  /\ label' = Loading
  /\ requests' = Append(requests, LoadIndexesRequest)
  /\ ops' = ops + 1
  /\ UNCHANGED <<indexes, item, items, dialog, responses, missed, edit, crashed>>

\* ui_addIndexGui, ui_edit and ui_dropIndex ask in a modal dialog.
Open(kind, old) ==
  /\ UserMay
  /\ dialog' = [kind |-> kind, old |-> old, dangling |-> FALSE]
  /\ ops' = ops + 1
  /\ UNCHANGED <<indexes, item, items, label, requests, responses, missed, edit, crashed>>

ui_addIndexGui == Open("add", Unnamed)
ui_edit == \E i \in items : Open("edit", i)
ui_dropIndex == \E i \in items : Open("drop", i)

\* EditIndexDialog::accept with keys and weights that isValidJson takes; with others
\* the dialog stays as it is. After exec() the handler goes on with the items it had
\* before.
Accept(entered) ==
  /\ dialog # NULL /\ ~ crashed
  /\ Enterable(entered)
  /\ crashed' = dialog.dangling
  /\ requests' = IF dialog.dangling THEN requests
                 ELSE Append(requests,
                        IF dialog.kind = "drop" THEN DropIndexRequest(dialog.old.name)
                        ELSE EnsureIndexRequest(dialog.old, entered))
  /\ dialog' = NULL
  /\ UNCHANGED <<indexes, item, items, label, responses, missed, edit, ops>>

Cancel ==
  /\ dialog # NULL /\ ~ crashed
  /\ dialog' = NULL
  /\ UNCHANGED <<indexes, item, items, label, requests, responses, missed, edit, ops, crashed>>

-----------------------------------------------------------------------------
(* MongoWorker.                                                               *)

Reply(response) ==
  /\ requests' = Tail(requests)
  /\ responses' = Append(responses, response)
  /\ UNCHANGED <<item, items, label, dialog, missed, ops, crashed>>

Handles(type) == ~ crashed /\ requests # <<>> /\ Head(requests).type = type

ListOf(f) == [type |-> "list", receiver |-> Head(requests).sender, error |-> FALSE, infos |-> AsInfos(f)]
ListError == [type |-> "list", receiver |-> Head(requests).sender, error |-> TRUE, infos |-> {}]

\* name is the index that the server dropped, NULL for none; an error does not tell.
DeleteIndexResponse(error, name) ==
  [type |-> "deleted", receiver |-> Head(requests).sender, error |-> error, name |-> name]

\* The list, or the error of a server that cannot be reached.
LoadCollectionIndexes ==
  /\ Handles("load")
  /\ Reply(ListOf(indexes)) \/ Reply(ListError)
  /\ UNCHANGED <<indexes, edit>>

\* MongoClient::ensureIndex: the options of the new index are those that differ
\* from the old one's, and of these the ones that are set.
Saved(old, new) ==
  [name |-> IF new.name = "" THEN AutoName ELSE new.name,
   options |-> new.options \ old.options]

Without(name) == [n \in DOMAIN indexes \ {name} |-> indexes[n]]

\* The insert is not confirmed: one that fails, because the name is taken or for
\* a reason of the server's own, leaves everything as it was.
Inserted(f, info) ==
  IF info.name \in DOMAIN f THEN {f} ELSE {f, AsFunction(AsInfos(f) \cup {info})}

\* Drop, insert and list; the drop of an index that is gone fails, and ends it.
EnsureIndex ==
  LET r == Head(requests)
      dropped == IF r.old.name = "" THEN indexes ELSE Without(r.old.name)
      saved == Saved(r.old, r.new)
  IN  /\ Handles("ensure")
      /\ \/ /\ r.old.name = "" \/ r.old.name \in DOMAIN indexes
            /\ indexes' \in Inserted(dropped, saved)
            /\ edit' = IF indexes' = dropped THEN NULL
                       ELSE [entered |-> r.entered, result |-> saved.options]
            /\ Reply(ListOf(indexes')) \/ Reply(ListError)
         \/ Reply(ListError) /\ UNCHANGED <<indexes, edit>>

\* The error of a drop may be one of its answer: the index is gone all the same.
DropCollectionIndex ==
  LET name == Head(requests).name
  IN  /\ Handles("drop")
      /\ \/ /\ name \in DOMAIN indexes
            /\ indexes' = Without(name)
            /\ \E error \in BOOLEAN : Reply(DeleteIndexResponse(error, name))
         \/ /\ UNCHANGED indexes
            /\ Reply(DeleteIndexResponse(TRUE, NULL))
      /\ UNCHANGED edit

-----------------------------------------------------------------------------
(* The GUI thread: answers are delivered, in a dialog's event loop too.       *)

Deliver(type) ==
  /\ ~ crashed /\ responses # <<>> /\ Head(responses).type = type
  /\ responses' = Tail(responses)

\* An answer for an item that is no more.
DeliverToDeleted ==
  /\ ~ crashed /\ responses # <<>> /\ Head(responses).receiver # item
  /\ responses' = Tail(responses)
  /\ crashed' = TRUE
  /\ UNCHANGED <<indexes, item, items, label, dialog, requests, missed, edit, ops>>

\* The items below the folder are deleted; an edit or a drop is one's own handler.
ItemsDeleted ==
  dialog' = IF dialog = NULL \/ dialog.kind = "add" THEN dialog ELSE [dialog EXCEPT !.dangling = TRUE]

\* Mutant: a list that failed leaves the text of the folder as it was.
ListFailedSilent ==
  /\ Deliver("list") /\ Head(responses).receiver = item /\ Head(responses).error
  /\ items' = {} /\ missed' = {} /\ ItemsDeleted
  /\ UNCHANGED <<indexes, item, label, requests, edit, ops, crashed>>

ListFailed ==
  /\ Deliver("list") /\ Head(responses).receiver = item /\ Head(responses).error
  /\ label' = Plain /\ items' = {} /\ missed' = {} /\ ItemsDeleted
  /\ UNCHANGED <<indexes, item, requests, edit, ops, crashed>>

ListLoaded ==
  /\ Deliver("list") /\ Head(responses).receiver = item /\ ~ Head(responses).error
  /\ items' = Head(responses).infos /\ missed' = {} /\ label' = Cardinality(items') /\ ItemsDeleted
  /\ UNCHANGED <<indexes, item, requests, edit, ops, crashed>>

\* Mutant: the item of a dropped index stays.
DeletedStays(r) == items

Deleted(r) == IF r.error THEN items ELSE {i \in items : i.name # r.name}

\* The answer to a drop; an error is not told, and leaves the item.
IndexDeleted ==
  /\ Deliver("deleted") /\ Head(responses).receiver = item
  /\ items' = Deleted(Head(responses))
  /\ missed' = IF Head(responses).error THEN missed \cup ({Head(responses).name} \ {NULL}) ELSE missed
  /\ label' = IF Head(responses).error THEN label ELSE Cardinality(items')
  /\ dialog' = IF dialog = NULL \/ dialog.kind = "add" \/ dialog.old \in items' THEN dialog
               ELSE [dialog EXCEPT !.dangling = TRUE]
  /\ UNCHANGED <<indexes, item, requests, edit, ops, crashed>>

\* handle(MongoDatabaseCollectionListLoadedEvent): new items for the collections.
Reload ==
  /\ ~ crashed /\ item <= MaxReloads
  /\ item' = item + 1 /\ items' = {} /\ missed' = {} /\ label' = Plain
  /\ dialog' = IF dialog = NULL THEN NULL ELSE [dialog EXCEPT !.dangling = TRUE]
  /\ UNCHANGED <<indexes, requests, responses, edit, ops, crashed>>

-----------------------------------------------------------------------------
\* The folder was loaded before, or not.
IndexInit ==
  /\ indexes \in UNION {[S -> SUBSET Option] : S \in SUBSET Name}
  /\ \A n \in DOMAIN indexes : Enterable([name |-> n, options |-> indexes[n]])
  /\ \/ items = {} /\ label = Plain
     \/ items = AsInfos(indexes) /\ label = Cardinality(items)
  /\ item = 1 /\ dialog = NULL
  /\ requests = <<>> /\ responses = <<>> /\ missed = {} /\ edit = NULL /\ ops = 0 /\ crashed = FALSE

User == expand \/ ui_addIndexGui \/ ui_edit \/ ui_dropIndex \/ Cancel \/ Reload
          \/ \E entered \in Infos : Accept(entered)

Worker == LoadCollectionIndexes \/ EnsureIndex \/ DropCollectionIndex

Answers == DeliverToDeleted \/ ListFailed \/ ListLoaded \/ IndexDeleted

IndexNext == User \/ Worker \/ Answers

IndexSpec == IndexInit /\ [][IndexNext]_indexVars

FairIndexSpec == IndexSpec /\ WF_indexVars(Worker) /\ WF_indexVars(Answers)

-----------------------------------------------------------------------------
(* Properties.                                                                *)

\* The shape of the state.
IndexTypeOK ==
  /\ DOMAIN indexes \subseteq Name /\ \A n \in DOMAIN indexes : indexes[n] \subseteq Option
  /\ items \subseteq Infos /\ missed \subseteq Name
  /\ label \in {Loading, Plain} \cup 0 .. Cardinality(Name)
  /\ dialog # NULL => dialog.kind \in {"add", "edit", "drop"} /\ dialog.old \in Infos

\* The handlers of ExplorerCollectionTreeItem: once every request is answered, a
\* folder that shows a list shows the names the server has, whatever was added,
\* edited, dropped and refused in between; besides these only an index whose drop took
\* effect and was answered with an error, for handle(DeleteCollectionIndexResponse)
\* returns on an error without asking for the list.
FreshAtRest ==
  ~ crashed /\ requests = <<>> /\ responses = <<>> /\ items # {}
    => {i.name : i \in items} \ missed = DOMAIN indexes

\* handle(CollectionIndexesLoadingEvent) marks the folder as loading: the mark
\* goes, whether the list comes, fails, or an earlier drop is answered instead.
LoadingEnds == label = Loading ~> (label # Loading \/ crashed)
=============================================================================
