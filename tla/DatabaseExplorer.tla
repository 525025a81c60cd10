-------------------------- MODULE DatabaseExplorer --------------------------
(* What the explorer shows of one server: the list of its databases and, in   *)
(* each database, the folders of collections, users and functions.            *)
(* MongoServer and MongoDatabase objects (core/domain) ask the MongoWorker,   *)
(* which asks MongoDB, and publish its answers to the tree items              *)
(* (gui/widgets/explorer).  Requests and responses queue as module EventBus   *)
(* shows; a handler is one step.  Every reload of the list deletes all        *)
(* MongoDatabase objects and builds new ones, so an object is known by the    *)
(* database's name and the generation it was built in.                        *)
EXTENDS Integers, Sequences

CONSTANTS Db,           \* names of databases
          Name,         \* category -> names of collections, users, functions
          Temp,         \* the collection createDatabase() uses for a moment
          SystemDb,     \* "admin" and "local", shown under 'System'
          Kind,         \* may the server be a replica set, a single server
          Found,        \* contents of a database that exists at the start
          NULL,
          MaxOps,       \* bound on what the user asks for
          MaxPending    \* bound on what is under way when the user asks for more

Collections == "Collections"
Users == "Users"
Functions == "Functions"
Cat == {Collections, Users, Functions}

ASSUME ExplorerAssumption ==
  /\ SystemDb \subseteq Db /\ Temp \in Name[Collections] /\ Kind \subseteq BOOLEAN
  /\ Found = [c \in Cat |-> Found[c]] /\ \A c \in Cat : Found[c] \subseteq Name[c]
  /\ NULL \notin Db \X Nat
  /\ MaxOps \in Nat /\ MaxPending \in Nat

VARIABLES
  isReplicaSet,     \* of the connection settings
  store,            \* what MongoDB holds: database -> category -> names
  createdDbs,       \* MongoWorker::_createdDbs
  databases,        \* MongoServer::_databases, objects that have not been deleted
  gen,              \* generation of the newest MongoDatabase object
  items,            \* object -> its item in the tree, for those that have one
  label,            \* text of the server's item
  wasUnreachable,   \* ExplorerServerTreeItem::_primaryWasUnreachable
  requests,         \* posted to the worker, in order
  guiQueue,         \* responses posted to the GUI thread, in order
  ops,              \* what the user has asked for so far
  known,            \* the last the user was told of a database: created, dropped
  unseen,           \* contents changed by an operation that was reported as failed
  crashed           \* a deleted object was used: nothing is specified after

mongoVars == <<store, createdDbs, known, unseen>>
serverVars == <<databases, gen>>
treeVars == <<items, label, wasUnreachable>>
vars == <<isReplicaSet, mongoVars, serverVars, treeVars, requests, guiQueue, ops, crashed>>

-----------------------------------------------------------------------------
(* The tree items.                                                            *)

Folder(text, shown) == [text |-> text, shown |-> shown]
NewItem == [c \in Cat |-> Folder("plain", {})]
GoneItem == [c \in Cat |-> Folder("gone", {})]

Objects(names, g) == names \X {g}

\* An event of MongoDatabase object i reaches its item, if it has one.  The item
\* keeps pointers to its folders after they have been deleted.
Touches(i, c) == i \in DOMAIN items /\ items[i][c].text = "gone"
SetFolder(i, c, folder) ==
  IF i \in DOMAIN items THEN [items EXCEPT ![i][c] = folder] ELSE items

\* "...": the old children stay.
Loading(i, c) ==
  IF i \in DOMAIN items THEN SetFolder(i, c, Folder("loading", items[i][c].shown)) ELSE items

\* The text without "...", after an error.
Restored(i, c) ==
  IF i \in DOMAIN items THEN SetFolder(i, c, Folder("plain", items[i][c].shown)) ELSE items

\* Mutant: the items of a replica set are not rebuilt.
KeepItems(names) ==
  /\ gen' = gen + 1
  /\ databases' = Objects(names, gen + 1)
  /\ items' = IF isReplicaSet THEN items ELSE [i \in databases' |-> NewItem]
  /\ label' = "count"

\* clearDatabases(), a new object for each name, and the items for them.
Rebuild(names) ==
  /\ gen' = gen + 1
  /\ databases' = Objects(names, gen + 1)
  /\ items' = [i \in databases' |-> NewItem]
  /\ label' = "count"

\* replicaSetPrimaryUnreachable(): the items under 'System' are deleted, of the
\* others the folders.
Unreachable ==
  /\ items' = [i \in {j \in DOMAIN items : j[1] \notin SystemDb} |-> GoneItem]
  /\ label' = "offline"
  /\ wasUnreachable' = TRUE

-----------------------------------------------------------------------------
(* Requests.  The sender is the MongoDatabase object, or NULL for the server. *)

Request(op, sender, d, c, n, m) ==
  [op |-> op, sender |-> sender, db |-> d, cat |-> c, name |-> n, to |-> m]
ServerRequest(op, d) == Request(op, NULL, d, NULL, NULL, NULL)

\* MongoServer::loadDatabases()
ReloadRequest == ServerRequest(IF isReplicaSet THEN "refresh" ELSE "list", NULL)
loadDatabases ==
  /\ label' = "loading"
  /\ requests' = Append(requests, ReloadRequest)

LoadRequest(i, c) == Request("load", i, i[1], c, NULL, NULL)

\* loadCollections(), loadUsers(), loadFunctions()
load(i, c) ==
  /\ items' = Loading(i, c)
  /\ requests' = Append(requests, LoadRequest(i, c))

-----------------------------------------------------------------------------
(* The user.                                                                  *)

Asks ==
  /\ ~ crashed /\ ops < MaxOps /\ Len(requests) + Len(guiQueue) < MaxPending
  /\ ops' = ops + 1
  /\ UNCHANGED <<isReplicaSet, createdDbs, store, known, unseen, guiQueue, crashed>>

ui_refreshServer == Asks /\ loadDatabases /\ UNCHANGED <<serverVars, items, wasUnreachable>>

\* Expanding or refreshing the folder of a replica set's members.
RefreshReplicaSetFolder ==
  /\ Asks /\ isReplicaSet
  /\ requests' = Append(requests, ServerRequest("folder", NULL))
  /\ UNCHANGED <<serverVars, treeVars>>

\* A single server asks the worker.  For a replica set only an object and an item
\* are made, and the menu entry is disabled while the primary is unreachable.
ui_createDatabase(d) ==
  /\ Asks
  /\ \/ /\ ~ isReplicaSet
        /\ requests' = Append(requests, ServerRequest("createDb", d))
        /\ UNCHANGED <<serverVars, treeVars>>
     \/ /\ isReplicaSet /\ ~ wasUnreachable
        /\ gen' = gen + 1
        /\ databases' = databases \cup {<<d, gen + 1>>}
        /\ items' = [i \in DOMAIN items \cup {<<d, gen + 1>>} |->
                       IF i \in DOMAIN items THEN items[i] ELSE NewItem]
        /\ label' = "count"
        /\ UNCHANGED <<requests, wasUnreachable>>

\* Items of databases and what is under them have no menu while they are disabled.
Enabled(i) == i \in DOMAIN items /\ items[i] # GoneItem

ui_dbDrop(i) ==
  /\ Asks /\ Enabled(i)
  /\ requests' = Append(requests, ServerRequest("dropDb", i[1]))
  /\ UNCHANGED <<serverVars, treeVars>>

\* A folder is expanded or refreshed.
ExpandFolder(i, c) ==
  /\ Asks /\ Enabled(i)
  /\ load(i, c)
  /\ UNCHANGED <<serverVars, label, wasUnreachable>>

CollectionRequest(i, op, n, m) == Request(op, i, i[1], Collections, n, m)
UserRequest(i, op, n, m) == Request(op, i, i[1], Users, n, m)
FunctionRequest(i, op, n, m) == Request(op, i, i[1], Functions, n, m)

\* A change of the contents goes to the worker, from the object of the item.
ChangeContents(i, request) ==
  /\ Asks /\ Enabled(i)
  /\ request.op = "drop" => request.to = request.name
  /\ requests' = Append(requests, request)
  /\ UNCHANGED <<serverVars, treeVars>>

\* ui_createCollection(), ui_addUser(), ui_addFunction(): any name.
CreateContents(i, c, n) ==
  ChangeContents(i, CASE c = Collections -> CollectionRequest(i, "create", n, n)
                      [] c = Users -> UserRequest(i, "create", n, n)
                      [] c = Functions -> FunctionRequest(i, "create", n, n))

\* The menu of a collection, a user or a function that is shown: it is dropped, or
\* renamed (edited) to any name, the one it has included; a collection may be copied.
Shown(i, c) == items[i][c].shown
ChangeCollection(i, op, n, m) ==
  n \in Shown(i, Collections) /\ ChangeContents(i, CollectionRequest(i, op, n, m))
ChangeUser(i, op, n, m) ==
  op # "duplicate" /\ n \in Shown(i, Users) /\ ChangeContents(i, UserRequest(i, op, n, m))
ChangeFunction(i, op, n, m) ==
  op # "duplicate" /\ n \in Shown(i, Functions) /\ ChangeContents(i, FunctionRequest(i, op, n, m))

-----------------------------------------------------------------------------
(* The worker and MongoDB.                                                    *)

\* An error is reported as "primary unreachable" when a replica set has none.
Errors == {"error"} \cup (IF isReplicaSet THEN {"unreachable"} ELSE {})

\* A response leads back to its sender; what else it has of the request is shown only.
Response(r, result, names) ==
  [op |-> r.op, sender |-> r.sender, cat |-> r.cat, result |-> result, names |-> names]

Exists(d) == \E c \in Cat : store[d][c] # {}

\* The head request is handled and answered.  The bus asks the sender for its
\* thread, although it may have been deleted since.
Takes(op) == ~ crashed /\ requests # <<>> /\ Head(requests).op \in op
Deleted(sender) == sender # NULL /\ sender \notin databases
Reply(result, names) ==
  LET r == Head(requests) IN
  /\ requests' = Tail(requests)
  /\ guiQueue' = Append(guiQueue, Response(r, result, names))
  /\ crashed' = Deleted(r.sender)
  /\ UNCHANGED <<isReplicaSet, serverVars, treeVars, ops>>

\* The list with the created databases merged in; an empty one is an error.
MergeCreated(listed) ==
  LET all == listed \cup createdDbs IN
  /\ createdDbs' = createdDbs \ listed
  /\ IF all = {} THEN Reply("error", {}) ELSE Reply("ok", all)

\* getDatabaseNamesSafe(): an exception of listDatabases leaves the list empty.  (The
\* connection has no credentials; with them the list may be their database alone.)
DatabaseNames == {{d \in Db : Exists(d)}, {}}

LoadDatabaseNames ==
  /\ Takes({"list"})
  /\ \E listed \in DatabaseNames : MergeCreated(listed)
  /\ UNCHANGED <<store, known, unseen>>

\* EstablishConnectionRequest of type ConnectionRefresh, for a replica set; an
\* empty list fails like a primary that cannot be reached.
RefreshConnection ==
  /\ Takes({"refresh"})
  /\ \/ \E listed \in DatabaseNames \ {{}} : Reply("ok", listed)
     \/ Reply("unreachable", {})
  /\ UNCHANGED mongoVars

RefreshFolder ==
  /\ Takes({"folder"})
  /\ \E result \in {"ok", "unreachable"} : Reply(result, {})
  /\ UNCHANGED mongoVars

\* createDatabase(): a document goes into the temp collection, which is dropped
\* without a look at the result.  An error may come before or after the insert.
CreateDatabase ==
  LET d == Head(requests).db
      temps(s) == [store EXCEPT ![d][Collections] = s]
      before == store[d][Collections] IN
  /\ Takes({"createDb"})
  /\ \/ /\ Temp \notin before
        /\ store' \in {temps(before), temps(before \cup {Temp})}
        /\ createdDbs' = createdDbs \cup {d}
        /\ known' = [known EXCEPT ![d] = "created"]
        /\ Reply("ok", {})
        /\ UNCHANGED unseen
     \/ \E result \in Errors :
          /\ store' \in {temps(before), temps(before \cup {Temp})}
          /\ unseen' = IF store' = store THEN unseen ELSE unseen \cup {<<d, Collections>>}
          /\ known' = IF store' = store THEN known ELSE [known EXCEPT ![d] = "none"]
          /\ Reply(result, {})
          /\ UNCHANGED createdDbs

DropDatabase ==
  LET d == Head(requests).db
      dropped == [store EXCEPT ![d] = [c \in Cat |-> {}]] IN
  /\ Takes({"dropDb"})
  /\ \/ /\ store' = dropped
        /\ createdDbs' = createdDbs \ {d}
        /\ known' = [known EXCEPT ![d] = "dropped"]
        /\ Reply("ok", {})
        /\ UNCHANGED unseen
     \/ \E result \in Errors :
          /\ store' \in {store, dropped}
          /\ unseen' = IF store' = store THEN unseen ELSE unseen \cup ({d} \X Cat)
          /\ known' = IF store' = store THEN known ELSE [known EXCEPT ![d] = "none"]
          /\ Reply(result, {})
          /\ UNCHANGED createdDbs

\* The contents of a folder are read.
Loads(c) ==
  LET r == Head(requests) IN
  /\ Takes({"load"}) /\ r.cat = c
  /\ \/ /\ Reply("ok", store[r.db][c])
        /\ unseen' = unseen \ {<<r.db, c>>}
     \/ /\ \E result \in Errors : Reply(result, {})
        /\ UNCHANGED unseen
  /\ UNCHANGED <<store, createdDbs, known>>
LoadCollectionNames == Loads(Collections)
LoadUsers == Loads(Users)
\* When the client lists no function the script db.system.js.find() is run: it
\* finds none either, and its failure is answered with an empty list too.
LoadFunctions == Loads(Functions)

\* What a successful operation may leave in a folder's contents s.  A collection's
\* name must be free, or taken, as MongoClient tests.
AfterCollection(r, s) ==
  CASE r.op = "create" -> IF r.name \in s THEN {} ELSE {s \cup {r.name}}
    [] r.op = "drop" -> IF r.name \notin s THEN {} ELSE {s \ {r.name}}
    [] r.op = "rename" ->
         IF r.name \notin s \/ r.to \in s THEN {} ELSE {(s \ {r.name}) \cup {r.to}}
    [] r.op = "duplicate" -> IF r.to \in s THEN {} ELSE {s \cup {r.to}}

\* Users and functions are found by their _id: removing what is not there is no
\* error, and saving it creates it.
AfterUser(r, s) ==
  CASE r.op = "create" -> {s \cup {r.name}}
    [] r.op = "drop" -> {s \ {r.name}}
    [] r.op = "rename" -> {(s \ {r.name}) \cup {r.to}}

\* A function gets a new name by an insert, which must not find one, and a remove
\* nobody looks at; a 3.4 server saves it under the new name and keeps the old one.
AfterFunction(r, s) ==
  CASE r.op = "create" -> {s \cup {r.name}}
    [] r.op = "drop" -> {s \ {r.name}}
    [] r.op = "rename" ->
         {s \cup {r.to}} \cup (IF r.to \in s THEN {} ELSE {(s \ {r.name}) \cup {r.to}})

\* A handler's error may hit before or after the operation took effect, or between
\* its two parts.
Changes(c) ==
  LET r == Head(requests)
      s == store[r.db][c]
      done == CASE c = Collections -> AfterCollection(r, s)
                [] c = Users -> AfterUser(r, s)
                [] c = Functions -> AfterFunction(r, s) IN
  /\ Takes({"create", "drop", "rename", "duplicate"}) /\ r.cat = c
  /\ \/ \E after \in done :
          /\ store' = [store EXCEPT ![r.db][c] = after]
          /\ Reply("ok", {})
          /\ UNCHANGED unseen
     \/ \E after \in done \cup {s}, result \in Errors :
          /\ store' = [store EXCEPT ![r.db][c] = after]
          /\ Reply(result, {})
          /\ unseen' = IF after = s THEN unseen ELSE unseen \cup {<<r.db, c>>}
  /\ known' = IF store' = store THEN known ELSE [known EXCEPT ![r.db] = "none"]
  /\ UNCHANGED createdDbs
ChangeCollections == Changes(Collections)
ChangeUsers == Changes(Users)
ChangeFunctions == Changes(Functions)

-----------------------------------------------------------------------------
(* The GUI thread handles the oldest response.                                *)

Handles(op) ==
  /\ ~ crashed /\ guiQueue # <<>>
  /\ Head(guiQueue).op \in op
  /\ guiQueue' = Tail(guiQueue)
  /\ UNCHANGED <<isReplicaSet, mongoVars, ops>>

\* A response for a MongoDatabase object that was deleted while it was posted.
HandlesDeleted ==
  /\ ~ crashed /\ guiQueue # <<>>
  /\ Deleted(Head(guiQueue).sender)
  /\ crashed' = TRUE
  /\ guiQueue' = Tail(guiQueue)
  /\ UNCHANGED <<isReplicaSet, mongoVars, serverVars, treeVars, requests, ops>>

\* MongoServer::handle(LoadDatabaseNamesResponse) and the item's
\* handle(DatabaseListLoadedEvent)
HandleDatabaseNames ==
  /\ Handles({"list"})
  /\ IF Head(guiQueue).result = "ok"
       THEN Rebuild(Head(guiQueue).names)
       ELSE label' = "plain" /\ UNCHANGED <<items, serverVars>>
  /\ UNCHANGED <<wasUnreachable, requests, crashed>>

\* MongoServer::handle(EstablishConnectionResponse) for a refresh, and the item's
\* handle(ConnectionEstablishedEvent) or handle(ConnectionFailedEvent)
HandleRefresh ==
  /\ Handles({"refresh"})
  /\ IF Head(guiQueue).result = "ok"
       THEN Rebuild(Head(guiQueue).names) /\ wasUnreachable' = FALSE
       ELSE Unreachable /\ UNCHANGED serverVars
  /\ UNCHANGED <<requests, crashed>>

\* handleReplicaSetRefreshEvents() and the item's handle(ReplicaSetFolderRefreshed)
HandleFolder ==
  /\ Handles({"folder"})
  /\ \/ /\ Head(guiQueue).result # "ok"
        /\ Unreachable
        /\ UNCHANGED requests
     \/ /\ Head(guiQueue).result = "ok"
        /\ IF wasUnreachable THEN loadDatabases ELSE UNCHANGED <<label, requests>>
        /\ wasUnreachable' = FALSE
        /\ UNCHANGED items
  /\ UNCHANGED <<serverVars, crashed>>

\* MongoServer::handle(CreateDatabaseResponse) and handle(DropDatabaseResponse)
HandleDatabaseChanged ==
  /\ Handles({"createDb", "dropDb"})
  /\ CASE Head(guiQueue).result = "ok" -> loadDatabases /\ UNCHANGED <<items, wasUnreachable>>
       [] Head(guiQueue).result = "unreachable" -> Unreachable /\ UNCHANGED requests
       [] OTHER -> UNCHANGED <<treeVars, requests>>
  /\ UNCHANGED <<serverVars, crashed>>

\* MongoDatabase::handle(LoadCollectionNamesResponse), handle(LoadUsersResponse),
\* handle(LoadFunctionsResponse) and the item's handlers.  After an error a single
\* server's folder gets its text back; a replica set's does for users only.
HandleContents ==
  LET q == Head(guiQueue)
      i == q.sender
      c == q.cat
      published == q.result = "ok" \/ ~ isReplicaSet \/ c = Users IN
  /\ Handles({"load"}) /\ ~ Deleted(i)
  /\ IF q.result = "unreachable"
       THEN Unreachable
       ELSE /\ items' = IF q.result = "ok" THEN SetFolder(i, c, Folder("count", q.names))
                       ELSE IF published THEN Restored(i, c) ELSE items
            /\ UNCHANGED <<label, wasUnreachable>>
  /\ crashed' = (published /\ Touches(i, c))
  /\ UNCHANGED <<serverVars, requests>>

\* Mutant: a failed operation reloads the folder, a successful one does not.
ReloadAfterError ==
  LET q == Head(guiQueue)
      i == q.sender
      c == q.cat IN
  /\ Handles({"create", "drop", "rename", "duplicate"}) /\ ~ Deleted(i)
  /\ IF q.result # "ok"
       THEN load(i, c) /\ crashed' = Touches(i, c)
       ELSE UNCHANGED <<items, requests, crashed>>
  /\ UNCHANGED <<serverVars, label, wasUnreachable>>

\* The handlers of the responses to the operations, handleIfReplicaSetUnreachable()
\* included: the folder is loaded again after a success.
HandleChanged ==
  LET q == Head(guiQueue)
      i == q.sender
      c == q.cat IN
  /\ Handles({"create", "drop", "rename", "duplicate"}) /\ ~ Deleted(i)
  /\ CASE q.result = "ok" -> /\ load(i, c)
                             /\ crashed' = Touches(i, c)
                             /\ UNCHANGED <<label, wasUnreachable>>
       [] q.result = "unreachable" -> Unreachable /\ UNCHANGED <<requests, crashed>>
       [] OTHER -> UNCHANGED <<treeVars, requests, crashed>>
  /\ UNCHANGED serverVars

-----------------------------------------------------------------------------
\* The connection has been established and its list of databases, which is never
\* empty, has been shown for the first time; a replica set's first refresh of its
\* folder has been asked for.
Init ==
  /\ isReplicaSet \in Kind
  /\ \E found \in SUBSET Db \ {{}} :
       /\ store = [d \in Db |-> IF d \in found THEN Found ELSE [c \in Cat |-> {}]]
       /\ databases = Objects(found, 1)
  /\ createdDbs = {} /\ gen = 1
  /\ items = [i \in databases |-> NewItem]
  /\ label = "count"
  /\ wasUnreachable = FALSE
  /\ requests = IF isReplicaSet THEN <<ServerRequest("folder", NULL)>> ELSE <<>>
  /\ guiQueue = <<>>
  /\ ops = 0
  /\ known = [d \in Db |-> "none"] /\ unseen = {}
  /\ crashed = FALSE

UserNext ==
  \/ ui_refreshServer \/ RefreshReplicaSetFolder
  \/ \E d \in Db : ui_createDatabase(d)
  \/ \E i \in DOMAIN items :
       \/ ui_dbDrop(i)
       \/ \E c \in Cat :
            \/ ExpandFolder(i, c)
            \/ \E n \in Name[c] : CreateContents(i, c, n)
       \/ \E op \in {"drop", "rename", "duplicate"} :
            \/ \E n, m \in Name[Collections] : ChangeCollection(i, op, n, m)
            \/ \E n, m \in Name[Users] : ChangeUser(i, op, n, m)
            \/ \E n, m \in Name[Functions] : ChangeFunction(i, op, n, m)

WorkerNext ==
  \/ LoadDatabaseNames \/ RefreshConnection \/ RefreshFolder
  \/ CreateDatabase \/ DropDatabase
  \/ LoadCollectionNames \/ LoadUsers \/ LoadFunctions
  \/ ChangeCollections \/ ChangeUsers \/ ChangeFunctions

GuiNext ==
  \/ HandlesDeleted
  \/ HandleDatabaseNames \/ HandleRefresh \/ HandleFolder
  \/ HandleDatabaseChanged \/ HandleContents \/ HandleChanged

Next == UserNext \/ WorkerNext \/ GuiNext

Spec == Init /\ [][Next]_vars

-----------------------------------------------------------------------------
(* Properties.                                                                *)

FolderType(c) == [text : {"plain", "loading", "count", "gone"}, shown : SUBSET Name[c]]

\* Types of what MongoDB, the worker, the server and the tree hold; only the item
\* of a replica set is ever offline.
TypeOK ==
  /\ isReplicaSet \in BOOLEAN /\ wasUnreachable \in BOOLEAN /\ crashed \in BOOLEAN
  /\ \A d \in Db, c \in Cat : store[d][c] \subseteq Name[c]
  /\ createdDbs \subseteq Db
  /\ gen \in Nat /\ databases \subseteq Db \X (1 .. gen)
  /\ \A i \in DOMAIN items : \A c \in Cat : items[i][c] \in FolderType(c)
  /\ label \in {"plain", "loading", "count", "offline"}
  /\ label = "offline" => isReplicaSet
  /\ known \in [Db -> {"none", "created", "dropped"}]
  /\ unseen \subseteq Db \X Cat

Quiet == ~ crashed /\ requests = <<>> /\ guiQueue = <<>>

\* An item of a database points to a MongoDatabase that exists, although every
\* reload of the list, by whichever of the two protocols, deletes them all.
ItemsLive == DOMAIN items \subseteq databases

\* When nothing is under way, a folder that shows a count shows exactly what
\* MongoDB holds, however operations and reloads of several folders and of the list
\* were interleaved, unless an operation took effect and was reported as failed.
\* This is said only while the server's item shows the count of its databases:
\* after a reload that failed its children are those of an earlier list.
\* (A replica set may have two items of one name, ui_createDatabase() does not
\* look; then an operation reloads the folder of its own item only.)
FoldersFresh ==
  Quiet /\ label = "count" =>
    \A i \in DOMAIN items, c \in Cat :
      /\ items[i][c].text = "count" /\ <<i[1], c>> \notin unseen
      /\ \A j \in DOMAIN items : j[1] = i[1] => j = i
      => items[i][c].shown = store[i[1]][c]

\* On a single server a database reported as created is in the list while it is
\* empty, although MongoDB does not list it, and one reported as dropped is not
\* (MongoWorker::_createdDbs).
ListFaithful ==
  Quiet /\ label = "count" /\ ~ isReplicaSet =>
    \A d \in Db :
      /\ known[d] = "created" /\ ~ Exists(d) => \E i \in DOMAIN items : i[1] = d
      /\ known[d] = "dropped" => \A i \in DOMAIN items : i[1] # d

\* Nothing says "..." when no answer is to come: not the server's item, no folder
\* of a single server, no folder of users.  (The other folders of a replica set
\* keep it after an error that is no lost primary.)
NothingLoadsForever ==
  Quiet =>
    /\ label # "loading"
    /\ \A i \in DOMAIN items, c \in Cat :
         ~ isReplicaSet \/ c = Users => items[i][c].text # "loading"

\* When nothing is under way the tree has settled: the folders agree with MongoDB,
\* the list has what the user was told of, and nothing is still to come, whatever
\* failed and was reloaded before.
TreeSettled == FoldersFresh /\ ListFaithful /\ NothingLoadsForever
=============================================================================
