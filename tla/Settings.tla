------------------------------ MODULE Settings ------------------------------
(* The settings: SettingsManager and its configuration file, the dialogs that *)
(* change the list of connections, the options of the main window, and the    *)
(* answer of a replica set, which caches the set's name in a connection while *)
(* any of those dialogs may be open. The process may end, and a save may fail *)
(* or leave half a file, at any time.                                         *)
EXTENDS Integers, Sequences, FiniteSets, SequencesExt

CONSTANTS Form,        \* what the tabs of the connection dialog may hold
          Old,         \* the newest older version that may be found, "none" among them
          MaxRecords,  \* bound on the connections the user creates
          MaxOps,      \* bound on the changes the user makes
          MaxPending,  \* bound on connections being established
          NULL

\* The contents of the dialog are told apart by what the code tells apart: one
\* server, a replica set without the name the user may enter, one with it, which also
\* has a PEM file whose passphrase is to be asked for each time.
ASSUME SettingsAssumption ==
  /\ Form \subseteq {"single", "unnamed", "named"} /\ Form # {}
  /\ {"none"} \subseteq Old /\ Old \subseteq {"none", "unreadable", "0.8.5", "newer"}
  /\ MaxRecords \in Nat /\ MaxOps \in Nat /\ MaxPending \in Nat

VARIABLES
  file,      \* the configuration file, NULL when it is missing or cannot be parsed
  old,       \* the newest configuration file of an older version
  run,       \* "off", "eula", "style" (before the main window), "main", "list", "form"
  settings,  \* SettingsManager: connections, imported, eula and two options
  listed,    \* the items of the list in ConnectionsDialog, by their connections
  items,     \* ConnectionsDialog::_connectionItems, 0 for a deleted item
  form,      \* the connection dialog: what it is for and the settings it works on
  pending,   \* connections being established
  damaged,   \* the last save did not write the file
  ops        \* changes the user began

settingsVars == <<file, old, run, settings, listed, items, form, pending, damaged, ops>>

FormTab == {"auth", "type", "members", "ssh", "ssl"}

Whole(f) == [t \in FormTab |-> f]

OldUuid == 1

\* ConnectionSettings: id stands for the object, uuid 0 for the empty one, origin
\* for the old configuration file it was imported from; phrase: the passphrase the
\* user was asked for is in it.
Record == [id : Nat, uuid : Nat, parts : [FormTab -> {"single", "unnamed", "named"}],
           cached : BOOLEAN, origin : Old, phrase : BOOLEAN]

Stored == [connections : Seq(Record), imported : BOOLEAN, eula : BOOLEAN,
           option : BOOLEAN, shortcutsOff : BOOLEAN]

\* A dialog for one connection: a new one, a copy, or the connection target.
OpenForm == [for : {"add", "edit", "clone"}, target : Nat, copy : Record]

ASSUME NullAssumption == NULL \notin OpenForm /\ NULL \notin Stored

IsReplicaSet(r) == r.parts["type"] # "single"

\* The n-th of the numbers from 1 on that are not used: a new object or uuid.
Unused(used, n) ==
  CHOOSE u \in 1..(Cardinality(used) + n) :
    u \notin used /\ Cardinality((1..u) \ used) = n

Ids(records) == {r.id : r \in Range(records)}

Uuids(records) == {r.uuid : r \in Range(records)}

UsedUuids ==
  Uuids(settings.connections) \cup {p.uuid : p \in pending} \cup {OldUuid}
    \cup (IF file = NULL THEN {} ELSE Uuids(file.connections))
    \cup (IF form = NULL THEN {} ELSE {form.copy.uuid})

Room == Cardinality(pending) < MaxPending

NewId == Unused(Ids(settings.connections) \cup (IF form = NULL THEN {} ELSE {form.copy.id}), 1)

-----------------------------------------------------------------------------
(* The file.                                                                  *)

\* ConnectionSettings::toVariant: the replica set only when it is one.
toVariant(r) == [r EXCEPT !.cached = @ /\ IsReplicaSet(r)]

\* SettingsManager::convertToMap.
convertToMap(s) == [s EXCEPT !.connections = [k \in DOMAIN @ |-> toVariant(@[k])]]

\* SettingsManager::save: the file is truncated and written in place; nobody looks
\* at the result.
Save(s) ==
  \/ file' = convertToMap(s) /\ damaged' = FALSE
  \/ file' \in {file, NULL} /\ damaged' = TRUE

\* ConnectionSettings::fromVariant: a record without uuid is given one.
fromVariant(records, k) ==
  LET r == records[k]
      emptyBefore == Cardinality({j \in 1..k : records[j].uuid = 0})
  IN [r EXCEPT !.id = k,
               !.uuid = IF @ = 0 THEN Unused(Uuids(records) \cup {OldUuid}, emptyBefore) ELSE @]

\* importConnectionsFrom_0_8_5: without uuid, unless there is a similar connection.
importConnectionsFrom_0_8_5(records) ==
  IF \E r \in Range(records) : r.parts = Whole("single") THEN records
  ELSE Append(records, [id |-> Len(records) + 1, uuid |-> 0, parts |-> Whole("single"),
                        cached |-> FALSE, origin |-> "0.8.5", phrase |-> FALSE])

\* importConnectionsFromOldVersion: a file that cannot be read has no connections.
importConnectionsFromOldVersion(records) ==
  CASE old = "0.8.5" -> importConnectionsFrom_0_8_5(records)
    [] old = "newer" -> Append(records, [id |-> Len(records) + 1, uuid |-> OldUuid,
                                         parts |-> Whole("unnamed"), cached |-> FALSE, origin |-> "newer",
                                         phrase |-> FALSE])
    [] OTHER -> records

\* Mutant: the import is not recorded.
ImportUnmarked(s) ==
  IF s.imported \/ old = "none" THEN s
  ELSE [s EXCEPT !.connections = importConnectionsFromOldVersion(@)]

\* importConnections: once, and from the newest old version only.
importConnections(s) ==
  IF s.imported \/ old = "none" THEN s
  ELSE [s EXCEPT !.connections = importConnectionsFromOldVersion(@), !.imported = TRUE]

\* SettingsManager::loadFromMap.
loadFromMap(f) ==
  importConnections([f EXCEPT !.connections = [k \in DOMAIN @ |-> fromVariant(@, k)]])

\* The constructor's defaults; it leaves some options (_autoExpand, _autoExec)
\* uninitialized.
Blank(garbage) ==
  [connections |-> <<>>, imported |-> FALSE, eula |-> FALSE, option |-> garbage,
   shortcutsOff |-> FALSE]

Closed == listed' = <<>> /\ items' = <<>> /\ form' = NULL

\* SettingsManager(): load; when that fails save the defaults and load again; then
\* main() looks whether the license was accepted.
Start ==
  /\ run = "off"
  /\ \E garbage \in BOOLEAN :
       IF file # NULL
       THEN settings' = loadFromMap(file) /\ UNCHANGED <<file, damaged>>
       ELSE /\ Save(Blank(garbage))
            /\ settings' = IF damaged' THEN Blank(garbage) ELSE loadFromMap(convertToMap(Blank(garbage)))
  /\ run' = IF settings'.eula THEN "style" ELSE "eula"
  /\ UNCHANGED <<old, listed, items, form, pending, ops>>

\* initStyle saves before the main window is shown.
InitStyle ==
  /\ run = "style" /\ run' = "main"
  /\ Save(settings)
  /\ UNCHANGED <<old, settings, listed, items, form, pending, ops>>

AcceptEula ==
  /\ run = "eula" /\ run' = "style"
  /\ settings' = [settings EXCEPT !.eula = TRUE]
  /\ Save(settings')
  /\ UNCHANGED <<old, listed, items, form, pending, ops>>

Terminate == run' = "off" /\ settings' = Blank(FALSE) /\ pending' = {} /\ Closed

\* The license is rejected, the window closed, or the process dies.
End ==
  /\ run # "off"
  /\ Terminate
  /\ UNCHANGED <<file, old, damaged, ops>>

\* An older version is used beside this one for the first time.
UseOldVersion ==
  /\ run = "off" /\ old = "none"
  /\ old' \in Old \ {"none"}
  /\ UNCHANGED <<file, run, settings, listed, items, form, pending, damaged, ops>>

-----------------------------------------------------------------------------
(* Options.                                                                   *)

\* An option is set and the settings are saved.
SetOptions(s) ==
  /\ run = "main"
  /\ settings' = s
  /\ Save(s)
  /\ ops < MaxOps /\ ops' = ops + 1
  /\ UNCHANGED <<old, run, listed, items, form, pending>>

\* saveViewMode, saveAutoExpand, setUuidEncoding and the like.
saveOption(v) == SetOptions([settings EXCEPT !.option = v])

setDisableConnectionShortcuts(v) == SetOptions([settings EXCEPT !.shortcutsOff = v])

-----------------------------------------------------------------------------
(* The list of connections.                                                   *)

Position(id) == CHOOSE k \in DOMAIN settings.connections : settings.connections[k].id = id

RecordOf(id) == settings.connections[Position(id)]

\* ConnectionsDialog(): one item for each connection.
OpenList ==
  /\ run = "main" /\ run' = "list"
  /\ listed' = [k \in DOMAIN settings.connections |-> settings.connections[k].id]
  /\ items' = listed'
  /\ UNCHANGED <<file, old, settings, form, pending, damaged, ops>>

\* A new server works on a clone: its uuid and the kind of set it was given.
Request(r, type) == [uuid |-> r.uuid, form |-> r.parts["type"], type |-> type]

AskPassphrase(r) == r.parts["ssl"] = "named"

\* openServer: the connection r and the connections being established after it. A
\* passphrase that is asked for, and may be empty, is written into r itself, which is
\* the stored connection; when the prompt is cancelled nothing is opened.
openServer(r, type) ==
  {[record |-> [r EXCEPT !.phrase = IF AskPassphrase(r) THEN entered ELSE @],
    pending |-> pending \cup {Request(r, type)}] : entered \in BOOLEAN}
  \cup {o \in {[record |-> r, pending |-> pending]} : AskPassphrase(r)}

\* Mutant: the settings are saved only when the dialog was accepted.
CloseListUnsaved ==
  /\ run = "list" /\ run' = "main"
  /\ Closed
  /\ UNCHANGED <<file, damaged, old, settings, pending, ops>>

\* manageConnections once the dialog is closed or cancelled: save.
CloseList ==
  /\ run = "list" /\ run' = "main"
  /\ Save(settings)
  /\ Closed
  /\ UNCHANGED <<old, settings, pending, ops>>

\* The connection is opened by the user; what that writes into it is not saved.
OpenStored(id) ==
  \E o \in openServer(RecordOf(id), "primary") :
    /\ settings' = [settings EXCEPT !.connections[Position(id)] = o.record]
    /\ pending' = o.pending

\* The same when a connection was chosen: it is opened after the save.
Connect(id) ==
  /\ run = "list" /\ run' = "main" /\ Room
  /\ Save(settings)
  /\ OpenStored(id)
  /\ Closed
  /\ UNCHANGED <<old, ops>>

\* ConnectionsDialog::remove: the connection is erased where it is found, the item is
\* deleted and stays in _connectionItems.
RemoveConnection(id) ==
  /\ run = "list"
  /\ settings' = [settings EXCEPT !.connections = RemoveAt(@, Position(id))]
  /\ \E k \in DOMAIN listed : listed[k] = id /\ listed' = RemoveAt(listed, k)
  /\ items' = [k \in DOMAIN items |-> IF items[k] = id THEN 0 ELSE items[k]]
  /\ ops < MaxOps /\ ops' = ops + 1
  /\ UNCHANGED <<file, old, run, form, pending, damaged>>

\* dropEvent and listWidget_layoutChanged: the connections take the items' order.
Reorder(i, j) ==
  /\ run = "list" /\ i # j
  /\ listed' = InsertAt(RemoveAt(listed, i), j, listed[i])
  /\ settings' = [settings EXCEPT !.connections = [k \in DOMAIN listed' |-> RecordOf(listed'[k])]]
  /\ ops < MaxOps /\ ops' = ops + 1
  /\ UNCHANGED <<file, old, run, items, form, pending, damaged>>

-----------------------------------------------------------------------------
(* The dialog for one connection.                                             *)

Open(purpose, target, copy) ==
  /\ run = "list" /\ run' = "form"
  /\ form' = [for |-> purpose, target |-> target, copy |-> copy]
  /\ ops < MaxOps /\ ops' = ops + 1
  /\ UNCHANGED <<file, old, settings, listed, items, pending, damaged>>

Add ==
  /\ Len(settings.connections) < MaxRecords
  /\ Open("add", 0, [id |-> NewId, uuid |-> 0, parts |-> Whole("single"), cached |-> FALSE,
                     origin |-> "none", phrase |-> FALSE])

\* ConnectionSettings::clone keeps the uuid.
Edit(id) == Open("edit", id, [RecordOf(id) EXCEPT !.id = NewId])

Clone(id) ==
  /\ Len(settings.connections) < MaxRecords
  /\ Open("clone", 0, [RecordOf(id) EXCEPT !.id = NewId, !.uuid = Unused(UsedUuids, 1),
                                           !.cached = FALSE, !.origin = "none"])

\* ConnectionAuthTab::accept: the credentials are replaced.
acceptAuth(r, f) == [r EXCEPT !.parts["auth"] = f]

\* ConnectionBasicTab::accept: type and name are set before the members of the set
\* are looked at, the members and the host after that; the cached name of a set is
\* emptied.
acceptBasic(r, f, ok) ==
  IF ok THEN [r EXCEPT !.parts["type"] = f, !.parts["members"] = f, !.cached = @ /\ f = "single"]
  ELSE [r EXCEPT !.parts["type"] = f]

\* SshTunnelTab::accept: nothing is set when the key file is missing.
acceptSsh(r, f, ok) == IF ok THEN [r EXCEPT !.parts["ssh"] = f] ELSE r

\* SSLTab::accept: set first, then looked at; a passphrase that is to be asked for is
\* emptied, any other replaced.
acceptSsl(r, f) == [r EXCEPT !.parts["ssl"] = f, !.phrase = FALSE]

\* ConnectionDialog::validateAndApply: the tabs in turn up to the one that is
\* refused, "" for none.
validateAndApply(r, f, refused) ==
  LET basic == acceptBasic(acceptAuth(r, f), f, refused # "members")
      ssh == acceptSsh(basic, f, refused # "ssh")
  IN [ok |-> refused = "",
      copy |-> CASE refused = "members" -> basic
                 [] refused = "ssh" -> ssh
                 [] OTHER -> acceptSsl(ssh, f)]

\* A tab is refused, or the connection is tested: the dialog stays open with what
\* was applied, and a test establishes a connection.
TryForm(f, refused) ==
  LET result == validateAndApply(form.copy, f, refused)
  IN /\ run = "form"
     /\ \E o \in IF result.ok THEN openServer(result.copy, "test")
               ELSE {[record |-> result.copy, pending |-> pending]} :
          form' = [form EXCEPT !.copy = o.record] /\ pending' = o.pending
     /\ ops < MaxOps /\ ops' = ops + 1
     /\ UNCHANGED <<file, old, run, settings, listed, items, damaged>>

\* ConnectionSettings::apply: everything but the uuid.
apply(r, source) == [source EXCEPT !.id = r.id, !.uuid = r.uuid]

\* add() and clone(), accepted: the list and the settings get the connection.
AcceptNew(f) ==
  /\ run = "form" /\ run' = "list" /\ form.for \in {"add", "clone"}
  /\ settings' = [settings EXCEPT !.connections = Append(@, validateAndApply(form.copy, f, "").copy)]
  /\ listed' = Append(listed, form.copy.id)
  /\ items' = Append(items, form.copy.id)
  /\ form' = NULL
  /\ UNCHANGED <<file, old, pending, damaged, ops>>

\* edit(), accepted: the copy is applied to the connection and its item looked for
\* in _connectionItems; an item deleted before it is read all the same, which may
\* end the process.
AcceptEdit(f) ==
  LET result == validateAndApply(form.copy, f, "")
      k == Position(form.target)
      found == {i \in DOMAIN items : items[i] = form.target}
      readsDeleted == \E i \in DOMAIN items : items[i] = 0 /\ \A j \in found : i < j
  IN /\ run = "form" /\ form.for = "edit"
     /\ \/ /\ run' = "list" /\ form' = NULL
           /\ settings' = [settings EXCEPT !.connections[k] = apply(@, result.copy)]
           /\ UNCHANGED <<listed, items, pending>>
        \/ readsDeleted /\ Terminate
     /\ UNCHANGED <<file, old, damaged, ops>>

\* Mutant: the dialog works on the connection itself.
CancelApplied ==
  /\ run = "form" /\ run' = "list"
  /\ settings' = IF form.for = "edit"
                 THEN [settings EXCEPT !.connections[Position(form.target)] = apply(@, form.copy)]
                 ELSE settings
  /\ form' = NULL
  /\ UNCHANGED <<file, old, listed, items, pending, damaged, ops>>

\* Cancel: the copy is deleted, the connection was never touched.
CancelForm ==
  /\ run = "form" /\ run' = "list"
  /\ form' = NULL
  /\ UNCHANGED <<file, old, settings, listed, items, pending, damaged, ops>>

-----------------------------------------------------------------------------
(* The answer of a server.                                                    *)

\* getConnectionSettingsByUuid: the first one, or 0.
ByUuid(uuid) ==
  LET found == {k \in DOMAIN settings.connections : settings.connections[k].uuid = uuid}
  IN IF found = {} THEN 0 ELSE CHOOSE k \in found : \A j \in found : k <= j

\* updateReplicaSetSettings: the name of the set is cached in the connection, or
\* removed from it when the server cannot be reached or the user entered a name.
Answer(p, isError) ==
  LET k == ByUuid(p.uuid)
  IN /\ pending' = pending \ {p}
     /\ IF p.form = "single" \/ (p.form = "unnamed" /\ p.type # "primary") \/ k = 0
        THEN UNCHANGED <<settings, file, damaged>>
        ELSE /\ settings' = [settings EXCEPT !.connections[k].cached = p.form = "unnamed" /\ ~isError]
             /\ Save(settings')
     /\ UNCHANGED <<old, run, listed, items, form, ops>>

-----------------------------------------------------------------------------
SettingsInit ==
  /\ file = NULL /\ old \in Old /\ run = "off"
  /\ settings = Blank(FALSE)
  /\ listed = <<>> /\ items = <<>> /\ form = NULL /\ pending = {}
  /\ damaged = FALSE /\ ops = 0

ListNext ==
  \/ OpenList
  \/ \E id \in Range(listed) : RemoveConnection(id)
  \/ \E i, j \in DOMAIN listed : Reorder(i, j)

FormNext ==
  \/ Add
  \/ \E id \in Range(listed) : Edit(id)
  \/ \E id \in Range(listed) : Clone(id)
  \/ \E f \in Form, refused \in {"members", "ssh", "ssl"} : TryForm(f, refused)
  \/ Room /\ \E f \in Form : TryForm(f, "")
  \/ \E f \in Form : AcceptNew(f)
  \/ CancelForm

-----------------------------------------------------------------------------
(* Properties.                                                                *)

\* The types of the variables: the file is unreadable or a stored state, a
\* dialog is open exactly in its phase, and items outlive their connections as 0.
SettingsTypeOK ==
  /\ file = NULL \/ file \in Stored
  /\ old \in Old /\ damaged \in BOOLEAN
  /\ run \in {"off", "eula", "style", "main", "list", "form"}
  /\ settings \in Stored
  /\ listed \in Seq(Nat) /\ items \in Seq(Nat)
  /\ run = "form" <=> form # NULL
  /\ form # NULL => form \in OpenForm /\ (form.for = "edit" => form.target \in Ids(settings.connections))
  /\ Cardinality(pending) <= MaxPending /\ ops \in 0..MaxOps

\* No connection of an older version is imported twice, whatever saves failed and
\* whenever the process ended between the import and the save that records it.
ImportedOnce ==
  \A j, k \in DOMAIN settings.connections :
    settings.connections[j].origin \notin {"none"}
      /\ settings.connections[j].origin = settings.connections[k].origin => j = k

\* A connection never holds part of what was typed into a dialog: a refused tab, a
\* test and Cancel leave the connection as it was, although the tabs before the
\* refused one were applied to the dialog's settings.
NoHalfForms ==
  \A r \in Range(settings.connections) : \E f \in {"single", "unnamed", "named"} : r.parts = Whole(f)

\* Connections that have a uuid do not share it: an answer that names one finds
\* no other, through copies, imports and the uuids given by the next start.
UuidsTellApart ==
  \A j, k \in DOMAIN settings.connections :
    settings.connections[j].uuid # 0
      /\ settings.connections[j].uuid = settings.connections[k].uuid => j = k

\* While the list is shown its items are the connections, in the order in which
\* they will be saved.
ListShowsConnections ==
  run \in {"list", "form"} =>
    listed = [k \in DOMAIN settings.connections |-> settings.connections[k].id]

\* The list of connections holds together through dialogs, answers of servers and
\* restarts: its items are the connections, each is as one dialog left it as a whole,
\* and none is taken for another.
ConnectionsSound == ListShowsConnections /\ NoHalfForms /\ UuidsTellApart

\* What is stored but for the passphrases that were asked for.
WithoutPhrases(s) == [s EXCEPT !.connections = [k \in DOMAIN @ |-> [@[k] EXCEPT !.phrase = FALSE]]]

\* With the main window in front and the last save successful, the file holds the
\* settings in memory, and the process may end without losing any; but for the
\* passphrases the user was asked for, which openServer leaves in the connections
\* and the next save of anything writes into the file.
FileCurrent ==
  run = "main" /\ ~damaged =>
    file # NULL /\ WithoutPhrases(file) = WithoutPhrases(convertToMap(settings))
=============================================================================
