----------------------------- MODULE Connections -----------------------------
(* The life of connections: App (core/domain/App.cpp) opens and closes        *)
(* MongoServer objects, each with a MongoWorker on a thread of its own, behind *)
(* an SSH tunnel where the settings ask for one; the explorer, the main        *)
(* window, the shell tabs and the diagnostic dialog follow the events that     *)
(* are published.  A connection is known by its handle, App's                  *)
(* _lastServerHandle when it was opened.                                       *)
(*                                                                             *)
(* Requests to a worker and responses to the GUI thread are queues, as module  *)
(* EventBus shows the bus provides; a handler is one step.                     *)
EXTENDS Integers, Sequences, FiniteSets

CONSTANTS Kind,         \* settings a connection can have: [ssh, rs, named]
          MaxHandles,   \* bound on connections opened
          MaxRequests   \* bound on refreshes and scripts the user asks for

ASSUME KindAssumption == Kind \subseteq [ssh : BOOLEAN, rs : BOOLEAN, named : BOOLEAN]
ASSUME BoundAssumption == {MaxHandles, MaxRequests} \subseteq Nat

VARIABLES
  lastHandle,   \* App::_lastServerHandle
  conn,         \* handle -> type and settings of the connection opened
  server,       \* handle -> the MongoServer
  worker,       \* handle -> its MongoWorker
  requests,     \* handle -> requests posted to the worker, in order
  ssh,          \* handle -> where its SshTunnelWorker is
  guiQueue,     \* responses posted to the GUI thread, in order
  shell,        \* handle of a shell's server -> handle it was opened from, 0 if closed
  saved,        \* saved settings that have a cached set name
  ui,           \* explorer, main window and diagnostic dialog
  asked,        \* user requests so far
  crashed       \* a deleted object or a null client was used

vars == <<lastHandle, conn, server, worker, requests, ssh, guiQueue, shell, saved, ui, asked, crashed>>

Handle == 1 .. MaxHandles
Opened == 1 .. lastHandle
NoHandle == 0

\* In the explorer, and used for the tabs, or for a test of the settings.
Primary == "Primary"
Secondary == "Secondary"
Test == "Test"
Refresh == "Refresh"

-----------------------------------------------------------------------------
(* What the subscribers do with a published event: functions from the state   *)
(* of the user interface to the next one.                                     *)

increaseProgress(u) == [u EXCEPT !.progress = @ + 1]

decreaseProgress(u) == [u EXCEPT !.progress = IF @ - 1 < 0 THEN 0 ELSE @ - 1]

\* ConnectionEstablishedEvent: the explorer shows primary connections, the open
\* dialog takes the server of any test, an item of the explorer is refreshed.
ConnectionEstablished(u, h, type) ==
  LET item(v) == IF type = Primary
                   THEN [decreaseProgress(v) EXCEPT !.items = @ \cup {h}, !.added[h] = @ + 1] ELSE v
      test(v) == IF v.dialog.open /\ type = Test
                   THEN [v EXCEPT !.dialog.server = h, !.dialog.result = "completed"] ELSE v
      online(v) == IF type = Refresh THEN [v EXCEPT !.unreachable = @ \ {h}] ELSE v
  IN  online(test(item(u)))

\* Mutant: the main window does not look at the last handle it reported.
FailedAlwaysShown(u, h, type) ==
  LET box(v) == IF type = Primary THEN [v EXCEPT !.lastBox = h, !.boxes[h] = @ + 1] ELSE v
  IN  [decreaseProgress(box(u)) EXCEPT !.failed = @ \cup {h}]

\* ConnectionFailedEvent: the main window reports a primary connection unless
\* it has reported it or a later one, the explorer counts any failure down, the
\* open dialog shows its own, an item of the explorer goes offline.
ConnectionFailed(u, h, type) ==
  LET box(v) == IF type = Primary /\ h > v.lastBox
                  THEN [v EXCEPT !.lastBox = h, !.boxes[h] = @ + 1] ELSE v
      test(v) == IF v.dialog.open /\ type = Test /\ v.dialog.handle = h
                   THEN [v EXCEPT !.dialog.result = "failed"] ELSE v
      offline(v) == IF type = Refresh THEN [v EXCEPT !.unreachable = @ \cup {h}] ELSE v
  IN  [decreaseProgress(offline(test(box(u)))) EXCEPT !.failed = @ \cup {h}]

-----------------------------------------------------------------------------
(* Requests and responses.                                                    *)

Post(h, request) == [requests EXCEPT ![h] = Append(@, request)]
Connect(type) == [op |-> "connect", type |-> type]
Folder == [op |-> "folder", type |-> Refresh]
Script == [op |-> "script", type |-> Secondary]

\* name: the set name in the response is not empty.
Response(h, op, type, ok, name) ==
  [handle |-> h, op |-> op, type |-> type, ok |-> ok, name |-> name]
EstablishSshResponse(h, ok) == Response(h, "sshEstablish", conn[h].type, ok, FALSE)
ListenSshResponse(h) == Response(h, "sshListen", conn[h].type, FALSE, FALSE)
ScriptResponse(h, ok) == Response(h, "script", Secondary, ok, FALSE)

\* MongoWorker::reply()
reply(h, response) ==
  IF worker[h].isQuiting THEN guiQueue ELSE Append(guiQueue, response)

NoServer == [state |-> "none", cached |-> FALSE, type |-> Primary, isConnected |-> FALSE]
NoWorker == [state |-> "none", isQuiting |-> FALSE, client |-> FALSE, engine |-> FALSE]

-----------------------------------------------------------------------------
(* App and what the user does.                                                *)

NewServer(cached, type) ==
  [state |-> "live", cached |-> cached, type |-> type, isConnected |-> FALSE]

\* continueOpenServer(): the server, its worker thread, the first request.
continueOpenServer(h, cached, type, more) ==
  /\ server' = [server EXCEPT ![h] = NewServer(cached, type)]
  /\ worker' = [worker EXCEPT ![h].state = "running"]
  /\ requests' = [requests EXCEPT ![h] = <<Connect(type)>> \o more]

\* openServer() and openServerInternal() once the prompts are answered.
openServer(h, kind, type, u) ==
  /\ h <= MaxHandles
  /\ lastHandle' = h
  /\ conn' = [conn EXCEPT ![h] = [type |-> type, kind |-> kind]]
  /\ ui' = IF type = Primary THEN increaseProgress(u) ELSE u
  /\ \/ /\ kind.ssh
        /\ ssh' = [ssh EXCEPT ![h] = "establishing"]
        /\ UNCHANGED <<server, worker, requests>>
     \/ /\ ~ kind.ssh
        /\ continueOpenServer(h, kind \in saved, type, <<>>)
        /\ UNCHANGED ssh
  /\ UNCHANGED <<guiQueue, shell, saved, asked, crashed>>

OpenPrimary ==
  /\ ~ crashed /\ ~ ui.dialog.open
  /\ \E kind \in Kind : openServer(lastHandle + 1, kind, Primary, ui)

\* The diagnostic dialog is modal; its constructor opens the test connection.
OpenDialog ==
  /\ ~ crashed /\ ~ ui.dialog.open
  /\ LET h == lastHandle + 1 IN
       \E kind \in Kind :
         openServer(h, kind, Test,
           [ui EXCEPT !.dialog = [open |-> TRUE, handle |-> h, server |-> NoHandle, result |-> "none"]])

\* closeServer() deletes the server; its destructor stops the worker.
closeServer(h) ==
  /\ server' = [server EXCEPT ![h].state = "deleted"]
  /\ worker' = [worker EXCEPT ![h].isQuiting = TRUE]

\* The dialog's destructor closes the server it remembers.
CloseDialog ==
  /\ ~ crashed /\ ui.dialog.open
  /\ ui' = [ui EXCEPT !.dialog.open = FALSE]
  /\ \/ ui.dialog.server # NoHandle /\ closeServer(ui.dialog.server)
     \/ ui.dialog.server = NoHandle /\ UNCHANGED <<server, worker>>
  /\ UNCHANGED <<lastHandle, conn, requests, ssh, guiQueue, shell, saved, asked, crashed>>

\* The settings of a member of the replica set of p, as its item clones them.
MemberOf(p) == [conn[p].kind EXCEPT !.rs = FALSE, !.named = FALSE]

\* What shells may be opened from p: with the settings of that server, its set name
\* included, from an online item of the explorer or from a tab; with those of a
\* member from the member's item, be the set online or not.
ShellKinds(p) ==
  {k \in {conn[p].kind} : p \in ui.items \ ui.unreachable \/ shell[p] # NoHandle}
  \cup {k \in {MemberOf(p)} : p \in ui.items /\ conn[p].kind.rs}

\* openShell(): a connection of its own and a first script.
openShell(p) ==
  /\ ~ crashed /\ ~ ui.dialog.open
  /\ lastHandle < MaxHandles
  /\ LET h == lastHandle + 1 IN
       /\ lastHandle' = h
       /\ \E kind \in ShellKinds(p) :
            conn' = [conn EXCEPT ![h] = [type |-> Secondary, kind |-> kind]]
       /\ continueOpenServer(h, server[p].cached, Secondary, <<Script>>)
       /\ shell' = [shell EXCEPT ![h] = p]
  /\ UNCHANGED <<ssh, guiQueue, saved, ui, asked, crashed>>

\* closeShell(), by the destructor of a tab: the server, then the shell.
closeShell(h) ==
  /\ ~ crashed /\ ~ ui.dialog.open /\ shell[h] # NoHandle
  /\ closeServer(h)
  /\ shell' = [shell EXCEPT ![h] = NoHandle]
  /\ UNCHANGED <<lastHandle, conn, requests, ssh, guiQueue, saved, ui, asked, crashed>>

\* "Disconnect": the server, then its item.
DisconnectServer(h) ==
  /\ ~ crashed /\ ~ ui.dialog.open /\ h \in ui.items
  /\ closeServer(h)
  /\ ui' = [ui EXCEPT !.items = @ \ {h}, !.unreachable = @ \ {h}]
  /\ UNCHANGED <<lastHandle, conn, requests, ssh, guiQueue, shell, saved, asked, crashed>>

\* A request the user asks for: "Refresh" of a replica set or of its folder, or
\* the execution of a script in a tab.
Ask(h, request) ==
  /\ ~ crashed /\ ~ ui.dialog.open
  /\ asked < MaxRequests
  /\ asked' = asked + 1
  /\ requests' = Post(h, request)
  /\ UNCHANGED <<lastHandle, conn, server, worker, ssh, guiQueue, shell, saved, ui, crashed>>

RefreshServer(h) == h \in ui.items /\ conn[h].kind.rs /\ Ask(h, Connect(Refresh))
tryRefreshReplicaSetFolder(h) == h \in ui.items /\ conn[h].kind.rs /\ Ask(h, Folder)
ExecuteScript(h) == shell[h] # NoHandle /\ Ask(h, Script)

-----------------------------------------------------------------------------
(* The SSH tunnel worker, as App sees it (module SshTunnel has the rest).     *)

SshEstablish(h, ok) ==
  /\ ~ crashed /\ ssh[h] = "establishing"
  /\ ssh' = [ssh EXCEPT ![h] = IF ok THEN "established" ELSE "stopped"]
  /\ guiQueue' = Append(guiQueue, EstablishSshResponse(h, ok))
  /\ UNCHANGED <<lastHandle, conn, server, worker, requests, shell, saved, ui, asked, crashed>>

\* The tunnel ends: a normal end is only logged, an error is reported.
SshListenEnds(h, ok) ==
  /\ ~ crashed /\ ssh[h] = "listening"
  /\ ssh' = [ssh EXCEPT ![h] = "stopped"]
  /\ guiQueue' = IF ok THEN guiQueue
                 ELSE Append(guiQueue, ListenSshResponse(h))
  /\ UNCHANGED <<lastHandle, conn, server, worker, requests, shell, saved, ui, asked, crashed>>

-----------------------------------------------------------------------------
(* MongoWorker.                                                               *)

\* getConnection(TRUE) and what follows it in handle(EstablishConnectionRequest):
\* the worker's state after it and the response.  A client is kept although its
\* connect() failed, so the next request goes on with it; a replica set is not
\* even given a client while its name is unknown.
EstablishConnection(h, type) ==
  LET w == worker[h]
      rs == conn[h].kind.rs
      name == server[h].cached \/ conn[h].kind.named
      early == [w EXCEPT !.engine = @ \/ rs]          \* init() before the client
      set == [early EXCEPT !.client = TRUE]
      done == [set EXCEPT !.engine = TRUE]
      fail(v, n) == [worker |-> v, response |-> Response(h, "connect", type, FALSE, n)]
  IN  {[worker |-> done, response |-> Response(h, "connect", type, TRUE, rs)]}
        \* exceptions: another primary, no primary, no monitor, authentication
      \cup {fail(set, n) : n \in {FALSE, rs}}
        \* connect() failed
      \cup (IF w.client THEN {} ELSE {fail(set, FALSE)})
        \* no reachable member tells the set's name
      \cup (IF rs /\ ~ w.client /\ ~ name THEN {fail(early, FALSE)} ELSE {})

\* The request at the head of the queue is handled; the event loop of a thread
\* that was told to quit hands out no more.
WorkerTakes(h, op) ==
  /\ ~ crashed /\ worker[h].state = "running" /\ ~ worker[h].isQuiting
  /\ requests[h] # <<>> /\ Head(requests[h]).op = op
  /\ requests' = [requests EXCEPT ![h] = Tail(@)]
  /\ UNCHANGED <<lastHandle, conn, server, ssh, shell, saved, ui, asked>>

WorkerConnects(h) ==
  /\ WorkerTakes(h, "connect")
  /\ \E r \in EstablishConnection(h, Head(requests[h]).type) :
       /\ worker' = [worker EXCEPT ![h] = r.worker]
       /\ guiQueue' = reply(h, r.response)
  /\ UNCHANGED crashed

\* handle(RefreshReplicaSetFolderRequest): asks the monitor of the client's set.
WorkerRefreshesFolder(h) ==
  /\ WorkerTakes(h, "folder")
  /\ \E ok \in BOOLEAN : guiQueue' = reply(h, Response(h, "folder", Refresh, ok, ok))
  /\ crashed' = ~ worker[h].client
  /\ UNCHANGED worker

\* handle(ExecuteScriptRequest): without an engine an error at once; a replica
\* set's result is given the address the client has for the primary.
WorkerExecutes(h) ==
  /\ WorkerTakes(h, "script")
  /\ \E ok \in BOOLEAN :
       /\ ok => worker[h].engine
       /\ guiQueue' = reply(h, ScriptResponse(h, ok))
  /\ crashed' = (worker[h].engine /\ conn[h].kind.rs /\ ~ worker[h].client)
  /\ UNCHANGED worker

\* The thread's event loop ends, the worker is deleted.
WorkerFinishes(h) ==
  /\ ~ crashed /\ worker[h].state = "running" /\ worker[h].isQuiting
  /\ worker' = [worker EXCEPT ![h].state = "deleted"]
  /\ requests' = [requests EXCEPT ![h] = <<>>]
  /\ UNCHANGED <<lastHandle, conn, server, ssh, guiQueue, shell, saved, ui, asked, crashed>>

-----------------------------------------------------------------------------
(* The GUI thread handles the oldest response.                                *)

GuiTakes(op) ==
  /\ ~ crashed
  /\ guiQueue # <<>> /\ Head(guiQueue).op = op
  /\ guiQueue' = Tail(guiQueue)
  /\ UNCHANGED <<lastHandle, conn, asked>>


\* App::handle(EstablishSshConnectionResponse)
HandleSshEstablish ==
  /\ GuiTakes("sshEstablish")
  /\ LET r == Head(guiQueue)
         h == r.handle IN
       \/ /\ ~ r.ok
          /\ ui' = ConnectionFailed(ui, h, r.type)
          /\ UNCHANGED <<server, worker, requests, ssh>>
       \/ /\ r.ok
          /\ continueOpenServer(h, conn[h].kind \in saved, r.type, <<>>)
          /\ ssh' = [ssh EXCEPT ![h] = "listening"]
          /\ UNCHANGED ui
  /\ UNCHANGED <<shell, saved, crashed>>

\* App::handle(ListenSshConnectionResponse)
HandleSshListen ==
  /\ GuiTakes("sshListen")
  /\ LET r == Head(guiQueue) IN
       ui' = IF r.ok THEN ui ELSE ConnectionFailed(ui, r.handle, r.type)
  /\ UNCHANGED <<server, worker, requests, ssh, shell, saved, crashed>>

\* updateReplicaSetSettings(): the server's copy of the set name, and the saved
\* one when this is the primary connection.
updateReplicaSetSettings(r) ==
  LET k == conn[r.handle].kind IN
    saved' = IF ~ k.named /\ r.type = Primary /\ r.ok /\ r.name THEN saved \cup {k}
             ELSE IF k.named \/ r.type = Primary THEN saved \ {k}
             ELSE saved

CachedName(r) ==
  LET k == conn[r.handle].kind IN
    IF k.rs THEN ~ k.named /\ r.name ELSE server[r.handle].cached

FailurePublished(r) ==
  LET once == ConnectionFailed(ui, r.handle, r.type) IN
  ui' = IF conn[r.handle].kind.rs THEN ConnectionFailed(once, r.handle, r.type) ELSE once

ServerAfterFailure(r, close) ==
  server' = [server EXCEPT ![r.handle] =
    [state |-> IF close THEN "deleted" ELSE "live", cached |-> CachedName(r),
     type |-> r.type, isConnected |-> FALSE]]

\* Mutant: the server is deleted and its worker left running.
FailureKeepsWorker(r) ==
  /\ FailurePublished(r)
  /\ ServerAfterFailure(r, ~ conn[r.handle].kind.rs /\ r.type \in {Primary, Test})
  /\ UNCHANGED <<worker, requests>>

\* handleConnectionFailure(): a replica set publishes the failure twice and
\* keeps the server; a single server is closed unless a tab uses it.
handleConnectionFailure(r) ==
  LET close == ~ conn[r.handle].kind.rs /\ r.type \in {Primary, Test} IN
  /\ FailurePublished(r)
  /\ ServerAfterFailure(r, close)
  /\ worker' = [worker EXCEPT ![r.handle].isQuiting = @ \/ close]
  /\ UNCHANGED requests

\* The rest of MongoServer::handle(EstablishConnectionResponse).  The refresh of
\* a single server publishes nothing; a replica set's first connection asks for
\* the refresh of its folder.
connectionSucceeded(r) ==
  LET h == r.handle
      rs == conn[h].kind.rs IN
  /\ ui' = IF r.type = Refresh /\ ~ rs THEN ui ELSE ConnectionEstablished(ui, h, r.type)
  /\ server' = [server EXCEPT ![h] = [state |-> "live", cached |-> CachedName(r),
                  type |-> r.type, isConnected |-> TRUE]]
  /\ requests' = IF rs /\ r.type = Primary THEN Post(h, Folder) ELSE requests
  /\ UNCHANGED worker

\* A response for an object that has been deleted: undefined behaviour.
ToDeleted(op, deleted) ==
  /\ GuiTakes(op) /\ deleted
  /\ crashed' = TRUE
  /\ UNCHANGED <<server, worker, requests, ssh, shell, saved, ui>>

HandleConnect ==
  LET r == Head(guiQueue) IN
  \/ ToDeleted("connect", server[r.handle].state = "deleted")
  \/ /\ GuiTakes("connect")
     /\ server[r.handle].state = "live"
     /\ IF conn[r.handle].kind.rs THEN updateReplicaSetSettings(r) ELSE UNCHANGED saved
     /\ IF r.ok THEN connectionSucceeded(r) ELSE handleConnectionFailure(r)
     /\ UNCHANGED <<ssh, shell, crashed>>

\* handleReplicaSetRefreshEvents(), and the item's handle(ReplicaSetFolderRefreshed):
\* a set that is back is refreshed as a whole.
FolderRefreshed(h, ok, name) ==
  /\ ui' = [ui EXCEPT !.unreachable = IF ok THEN @ \ {h} ELSE @ \cup ({h} \cap ui.items)]
  /\ requests' = IF ok /\ h \in ui.unreachable THEN Post(h, Connect(Refresh)) ELSE requests
  /\ server' = [server EXCEPT ![h].cached = IF ok THEN ~ conn[h].kind.named /\ name ELSE @]

HandleFolder ==
  LET r == Head(guiQueue) IN
  \/ ToDeleted("folder", server[r.handle].state = "deleted")
  \/ /\ GuiTakes("folder")
     /\ server[r.handle].state = "live"
     /\ FolderRefreshed(r.handle, r.ok, r.name)
     /\ UNCHANGED <<worker, ssh, shell, saved, crashed>>

\* MongoShell::handle(ExecuteScriptResponse): a replica set's error is published
\* for the server the shell was opened from, if that still exists.
HandleScript ==
  LET r == Head(guiQueue)
      p == shell[r.handle] IN
  \/ ToDeleted("script", p = NoHandle)
  \/ /\ GuiTakes("script")
     /\ p # NoHandle
     /\ IF ~ r.ok /\ conn[r.handle].kind.rs /\ server[p].state = "live"
          THEN FolderRefreshed(p, FALSE, FALSE)
          ELSE UNCHANGED <<ui, requests, server>>
     /\ UNCHANGED <<worker, ssh, shell, saved, crashed>>

-----------------------------------------------------------------------------
Init ==
  /\ lastHandle = 0
  /\ conn = [h \in Handle |-> [type |-> Primary, kind |-> [ssh |-> FALSE, rs |-> FALSE, named |-> FALSE]]]
  /\ server = [h \in Handle |-> NoServer]
  /\ worker = [h \in Handle |-> NoWorker]
  /\ requests = [h \in Handle |-> <<>>]
  /\ ssh = [h \in Handle |-> "none"]
  /\ guiQueue = <<>>
  /\ shell = [h \in Handle |-> NoHandle]
  /\ saved \in SUBSET {k \in Kind : k.rs}
  /\ ui = [progress |-> 0, items |-> {}, added |-> [h \in Handle |-> 0], failed |-> {},
           unreachable |-> {}, lastBox |-> -1, boxes |-> [h \in Handle |-> 0],
           dialog |-> [open |-> FALSE, handle |-> NoHandle, server |-> NoHandle, result |-> "none"]]
  /\ asked = 0
  /\ crashed = FALSE

UserNext ==
  \/ OpenPrimary \/ OpenDialog \/ CloseDialog
  \/ \E h \in Handle : \/ openShell(h) \/ closeShell(h) \/ DisconnectServer(h)
                       \/ RefreshServer(h) \/ tryRefreshReplicaSetFolder(h) \/ ExecuteScript(h)

GuiNext == HandleSshEstablish \/ HandleSshListen \/ HandleConnect \/ HandleFolder \/ HandleScript

SshNext(h) == \E ok \in BOOLEAN : SshEstablish(h, ok) \/ SshListenEnds(h, ok)

WorkerNext(h) ==
  WorkerConnects(h) \/ WorkerRefreshesFolder(h) \/ WorkerExecutes(h) \/ WorkerFinishes(h)

Next == UserNext \/ GuiNext \/ \E h \in Handle : SshNext(h) \/ WorkerNext(h)

Spec == Init /\ [][Next]_vars

\* The GUI thread's event loop and every worker thread go on; connect() and the
\* scripts have timeouts, so a handler ends.  The SSH handshake has none: it may take
\* for ever, and a tunnel may listen for ever.
FairSpec ==
  /\ Spec
  /\ WF_vars(GuiNext)
  /\ \A h \in Handle : WF_vars(WorkerNext(h))

-----------------------------------------------------------------------------
(* Properties.                                                                *)

ServerType == [state : {"none", "live", "deleted"}, cached : BOOLEAN,
               type : {Primary, Secondary, Test, Refresh}, isConnected : BOOLEAN]
WorkerType == [state : {"none", "running", "deleted"}, isQuiting : BOOLEAN,
               client : BOOLEAN, engine : BOOLEAN]

\* Types of App's, the servers', the workers' and the windows' state.
TypeOK ==
  /\ lastHandle \in 0 .. MaxHandles
  /\ server \in [Handle -> ServerType]
  /\ worker \in [Handle -> WorkerType]
  /\ ssh \in [Handle -> {"none", "establishing", "established", "listening", "stopped"}]
  /\ shell \in [Handle -> Handle \cup {NoHandle}]
  /\ ui.progress \in Nat /\ ui.items \subseteq Opened
  /\ saved \subseteq Kind /\ crashed \in BOOLEAN

Pending == {h \in Opened : conn[h].type = Primary /\ ui.added[h] = 0 /\ h \notin ui.failed}

\* The explorer never shows progress when no primary connection is pending: the
\* count of ExplorerWidget is at most the number of pending ones.
ProgressOnlyWhilePending == ui.progress <= Cardinality(Pending)

\* A server shown in the explorer is not deleted behind its item's back, whatever
\* fails (handleConnectionFailure closes servers): items keep a raw pointer.
ItemsLive == \A h \in ui.items : server[h].state = "live"

\* A worker thread runs without having been told to quit exactly as long as its
\* server lives: no worker is left behind, no live server has lost its worker.
NoOrphanWorkers ==
  \A h \in Handle :
    (worker[h].state = "running" /\ ~ worker[h].isQuiting) <=> server[h].state = "live"

\* A connection is shown in the explorer at most once, refreshes included, and
\* at most one message box reports its failure, although tunnel and worker both
\* report it (MainWindow::handle(ConnectionFailedEvent)).
ShownAndReportedOnce == \A h \in Handle : ui.added[h] <= 1 /\ ui.boxes[h] <= 1

\* What the explorer shows and the windows report of the connections is true, in
\* whatever order answers of tunnels and workers, failures, refreshes and the user's
\* closing of servers come.
ExplorerTruthful == ItemsLive /\ ShownAndReportedOnce /\ ProgressOnlyWhilePending

\* Every primary connection that is opened is established or its failure published
\* (ConnectionFailedEvent), unless its SSH handshake never ends. The main window may
\* still not report that failure: of two that come in the reverse order of their
\* handles it shows the first one only.
EveryOpenResolves ==
  \A h \in Handle :
    \/ (h \in Opened /\ conn[h].type = Primary) ~> (h \notin Pending \/ crashed)
    \/ <>[](ssh[h] = "establishing")

\* The worker is never asked to refresh the folder of a replica set it has no
\* client for (getReplicaSetInfo uses the client unchecked).
FolderNeedsClient ==
  \A h \in Handle :
    (\E i \in DOMAIN requests[h] : requests[h][i].op = "folder") => worker[h].client

\* Servers and their workers belong together: a worker serves exactly while its
\* server lives, and is asked only for what it can serve.
WorkersServe == NoOrphanWorkers /\ FolderNeedsClient

\* The thread of a server that was closed ends.
ClosedWorkersEnd ==
  \A h \in Handle :
    worker[h].isQuiting ~> (worker[h].state = "deleted" \/ crashed)

=============================================================================
