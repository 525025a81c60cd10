--------------------------- MODULE ReplicaSetItems --------------------------
(* The items of a replica set in the explorer: the folder of its members, the *)
(* members with their state, and the entries of the menus that are switched   *)
(* off while the primary, or every member, is unreachable. They are made anew *)
(* from MongoServer's view of the set, which every answer about the set, and  *)
(* every operation that failed for want of a primary, replaces.               *)
EXTENDS DatabaseExplorer, FiniteSets

CONSTANTS Member,  \* addresses of members
          Info     \* views the worker's monitor may have of the set

\* A primary is a member that is up; no primary is NULL.
ASSUME InfoAssumption ==
  \A i \in Info : /\ DOMAIN i = {"members", "up", "primary"}
                  /\ i.up \subseteq i.members /\ i.members \subseteq Member
                  /\ i.primary \in i.up \cup {NULL}

VARIABLES
  replicaSetInfo,  \* MongoServer::_replicaSetInfo
  folder,          \* the folder: the number in its text, its items, whether its status is disabled
  menuOff          \* the entries of the server's menu that need a primary are disabled

setVars == <<replicaSetInfo, folder, menuOff>>

\* ReplicaSet(): nothing is known, not even the members.
Unknown == [members |-> {}, up |-> {}, primary |-> NULL]

WithPrimary == {i \in Info : i.primary # NULL}
WithoutPrimary == {i \in Info : i.primary = NULL} \cup {Unknown}

\* ExplorerReplicaSetTreeItem with updateTextAndIcon.
MemberItem(i, m) ==
  [host |-> m, state |-> IF m \notin i.up THEN "Not Reachable"
                         ELSE IF m = i.primary THEN "Primary" ELSE "Secondary"]

MemberItems(i) == {MemberItem(i, m) : m \in i.members}

\* ExplorerReplicaSetFolderItem, made by buildReplicaSetServerItem.
NewFolder(i) == [text |-> Cardinality(i.members), items |-> MemberItems(i), statusOff |-> FALSE]

\* Mutant: the members that are in the folder stay.
FolderTextOnly(i) == [folder EXCEPT !.text = Cardinality(i.members)]

\* buildReplicaSetFolder of a folder that exists. Expanding it here asks for no
\* refresh: its _refreshFlag is off meanwhile.
buildReplicaSetFolder(i) ==
  [folder EXCEPT !.text = Cardinality(i.members), !.items = MemberItems(i)]

\* The folder's disableSomeContextMenuActions: the status can be asked for as long
\* as there is a member to ask.
StatusSwitched(f, i) == [f EXCEPT !.statusOff = i.up = {}]

\* handle(ReplicaSetFolderRefreshed) and handle(ConnectionFailedEvent): what was
\* learned of the set is shown, and the primary is unreachable.
PrimaryLost(i) ==
  /\ replicaSetInfo' = i
  /\ folder' = StatusSwitched(buildReplicaSetFolder(i), i)
  /\ menuOff' = TRUE

-----------------------------------------------------------------------------
(* What the steps of DatabaseExplorer do with these items.                    *)

\* tryRefreshReplicaSetFolder publishes ReplicaSetFolderLoading: "Replica Set ...".
FolderLoading ==
  /\ RefreshReplicaSetFolder
  /\ folder' = [folder EXCEPT !.text = NULL]
  /\ UNCHANGED <<replicaSetInfo, menuOff>>

\* No other step of the user asks for the folder.
OtherUserStep ==
  /\ UserNext
  /\ requests' # Append(requests, ServerRequest("folder", NULL))
  /\ UNCHANGED setVars

\* updateReplicaSetSettings, and the children of the server's item are built anew.
SetRefreshed ==
  /\ HandleRefresh /\ Head(guiQueue).result = "ok"
  /\ \E i \in WithPrimary : replicaSetInfo' = i /\ folder' = NewFolder(i)
  /\ menuOff' = (menuOff /\ ~ wasUnreachable)

\* The connection may also fail with a primary: another than the settings have, or
\* one that refuses the user.
SetNotRefreshed ==
  /\ HandleRefresh /\ Head(guiQueue).result # "ok"
  /\ \E i \in WithPrimary \cup WithoutPrimary : PrimaryLost(i)

FolderRefreshed ==
  /\ HandleFolder /\ Head(guiQueue).result = "ok"
  /\ \E i \in WithPrimary :
       replicaSetInfo' = i /\ folder' = StatusSwitched(buildReplicaSetFolder(i), i)
  /\ menuOff' = FALSE

\* An answer that says the primary is gone brings the worker's view along.
PrimaryUnreachable ==
  /\ HandleFolder \/ HandleDatabaseChanged \/ HandleContents \/ HandleChanged
  /\ Head(guiQueue).result = "unreachable"
  /\ \E i \in WithoutPrimary : PrimaryLost(i)

OtherAnswer ==
  /\ \/ HandlesDeleted \/ HandleDatabaseNames
     \/ (HandleDatabaseChanged \/ HandleContents \/ HandleChanged) /\ Head(guiQueue).result # "unreachable"
  /\ UNCHANGED setVars

\* The item is made by a connection that found the primary.
ItemsInit ==
  /\ Init
  /\ replicaSetInfo \in WithPrimary
  /\ folder = NewFolder(replicaSetInfo)
  /\ menuOff = FALSE

ItemsNext ==
  \/ FolderLoading \/ OtherUserStep
  \/ WorkerNext /\ UNCHANGED setVars
  \/ SetRefreshed \/ SetNotRefreshed \/ FolderRefreshed \/ PrimaryUnreachable \/ OtherAnswer

ItemsSpec == ItemsInit /\ [][ItemsNext]_<<vars, setVars>>

-----------------------------------------------------------------------------
\* on_repSetStatus finds the primary or a member that is up, unless it is disabled.
StatusFindsMember ==
  ~ folder.statusOff => replicaSetInfo.primary # NULL \/ replicaSetInfo.up # {}

\* What the explorer shows of a replica set is one view of it: the members and their
\* states are those of the last view the server was given, by whichever answer; the
\* entries that need a primary are enabled when it has one; and when nothing is
\* under way the folder does not say "..." and name, menu and databases of the
\* server's item agree on whether the set is offline.
SetShownAsKnown ==
  isReplicaSet =>
    /\ folder.items = MemberItems(replicaSetInfo)
    /\ StatusFindsMember
    /\ ~ menuOff => replicaSetInfo.primary # NULL
    /\ Quiet => /\ folder.text = Cardinality(replicaSetInfo.members)
                /\ (label = "offline") = menuOff
                /\ menuOff => \A d \in DOMAIN items : items[d] = GoneItem
=============================================================================
