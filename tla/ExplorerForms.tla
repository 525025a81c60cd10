---------------------------- MODULE ExplorerForms ---------------------------
(* The dialogs behind the explorer's menus - a collection is created, a user   *)
(* added or changed, a function written, a name asked for - and the licence    *)
(* shown at start-up: what they offer, refuse, and have sent.                  *)
EXTENDS FormState

CONSTANTS Server,       \* servers: [engine, version], versions as 30 for 3.0
          User,         \* users as the explorer's items hold them
          Database,     \* databases a user may come from
          TypedNumber,  \* what may be typed as a number; NULL is a text that is none
          LongMax,      \* largest long long
          TwoPages      \* whether the licence has a second page: not on Linux

Texts == {"", "x"}   \* any text, of which only matters whether it is empty

ASSUME ExplorerFormsAssumption ==
  /\ Server \subseteq [engine : STRING, version : Nat]
  /\ User \subseteq [version : Nat, id : Nat, name : STRING, pwd : (STRING \X STRING) \cup {NULL},
                     readOnly : BOOLEAN, userSource : STRING, roles : SUBSET STRING]
  /\ NULL \notin Database \cup ((Texts \cup {u.name : u \in User}) \X Texts)
  /\ LongMax \in Nat /\ TwoPages \in BOOLEAN

Name == "name"

\* Sent, with the dialog closed.
Send(what) == sent' = what /\ Close /\ UNCHANGED <<connection, shown>>

Cancel(dialog) == IsOpen(dialog) /\ Close /\ UNCHANGED <<connection, shown, sent>>

Opens(f) == form = NULL /\ form' = f /\ shown' = NULL /\ sent' = NULL /\ UNCHANGED <<connection, edits>>

-----------------------------------------------------------------------------
(* CreateCollectionDialog.                                                    *)

\* The tabs with a frame for a document, and the object each frame is parsed into.
Frame == {"storageEngine", "validator", "indexOptionDefaults"}

Tab == {"options"} \cup Frame

\* A frame's text: "{ }" at first, a document, or no JSON.
FrameText == {"{}", "document", "bad"}

Options == {"capped", "autoIndex", "powerOfTwo", "noPadding"}

createOptionsTab(s) ==
  [name |-> "", capped |-> FALSE, size |-> NULL, max |-> NULL, autoIndex |-> TRUE,
   powerOfTwo |-> s.engine \in {"mmapv1", ""}, noPadding |-> FALSE]

createFrameTab == [x \in Frame |-> "{}"]

createValidatorTab == [level |-> "strict", action |-> "error"]

\* Mutant: the tab of the validator is left to servers that have none.
disableUnsupportedOptionsPlain(s) ==
  (IF s.engine = "wiredTiger" THEN {"powerOfTwo", "noPadding"} ELSE {"storageEngine"})
  \cup (IF s.version > 32 THEN {"autoIndex"} ELSE {})
  \cup (IF s.version < 30 THEN {"noPadding", "storageEngine"} ELSE {})

\* disableUnsupportedOptions: the options and tabs switched off for the server s.
disableUnsupportedOptions(s) ==
  (IF s.engine = "wiredTiger" THEN {"powerOfTwo", "noPadding"} ELSE {"storageEngine"})
  \cup (IF s.engine \in {"mmapv1", ""} /\ s.version < 30 THEN {"noPadding"} ELSE {})
  \cup (IF s.version > 32 THEN {"autoIndex"} ELSE {})
  \cup (IF s.version < 30 THEN {"storageEngine"} ELSE {})
  \cup (IF s.version < 32 THEN {"validator", "indexOptionDefaults"} ELSE {})

HiddenOptions(s) == IF s.engine \in {"mmapv1", ""} /\ s.version > 30 THEN {"powerOfTwo"} ELSE {}

CreateCollectionDialog(s) ==
  [dialog |-> "collection", server |-> s, w |-> createOptionsTab(s), text |-> createFrameTab,
   validation |-> createValidatorTab, obj |-> createFrameTab, front |-> "options", activeFrame |-> NULL,
   activeObj |-> "storageEngine", advanced |-> FALSE, off |-> disableUnsupportedOptions(s) \cup {"size", "max"},
   hidden |-> HiddenOptions(s)]

ui_createCollection == \E s \in Server : Opens(CreateCollectionDialog(s))

onAdvancedButtonToggled == IsOpen("collection") /\ Edit("collection", [form EXCEPT !.advanced = ~ @])

onTabChanged(tab) ==
  /\ IsOpen("collection") /\ form.advanced /\ form.front # tab /\ tab \notin form.off
  /\ Edit("collection",
          IF tab = "options" THEN [form EXCEPT !.front = tab]
          ELSE [form EXCEPT !.front = tab, !.activeFrame = tab, !.activeObj = tab])

TypeCollectionName ==
  IsOpen("collection") /\ \E t \in Texts \ {form.w.name} : Edit("collection", [form EXCEPT !.w.name = t])

\* Whether the widget x of the tab tab can be used.
Offered(tab, x) ==
  IsOpen("collection") /\ form.advanced /\ form.front = tab /\ x \notin form.off \cup form.hidden

onCappedCheckBoxChanged(f) == SetOff(f, {"size", "max"}, ~ f.w.capped)

ToggleOption ==
  \E x \in Options :
    Offered("options", x) /\ Edit("collection", onCappedCheckBoxChanged([form EXCEPT !.w[x] = ~ @]))

TypeNumber ==
  \E x \in {"size", "max"}, t \in TypedNumber :
    Offered("options", x) /\ Edit("collection", [form EXCEPT !.w[x] = t])

ChooseLevel ==
  /\ Offered("validator", "level")
  /\ \E v \in {"off", "strict", "moderate"} : Edit("collection", [form EXCEPT !.validation.level = v])

ChooseAction ==
  /\ Offered("validator", "action")
  /\ \E v \in {"error", "warn"} : Edit("collection", [form EXCEPT !.validation.action = v])

\* A frame's text changes; the marks of the last error go from the active frame.
onFrameTextChanged ==
  \E x \in Frame, t \in FrameText :
    Offered(x, x) /\ form.activeFrame # NULL /\ Edit("collection", [form EXCEPT !.text[x] = t])

\* validate(frame, obj): the object is set if the text can be parsed.
validate(f, frame, obj) == IF f.text[frame] = "bad" THEN f ELSE [f EXCEPT !.obj[obj] = f.text[frame]]

onValidateButtonClicked ==
  /\ IsOpen("collection") /\ form.advanced /\ form.front # "options"
  /\ form' = validate(form, form.activeFrame, form.activeObj)
  /\ UNCHANGED <<connection, shown, sent, edits>>

\* QString::toInt, toLongLong: 0 for what does not fit or is no number.
ToNumber(t, max) == IF t = NULL \/ t > max \/ t < 0 - max - 1 THEN 0 ELSE t

getSizeInputValue(f) == ToNumber(f.w.size, LongMax)

getMaxDocNumberInputValue(f) == ToNumber(f.w.max, IntMax)

validateOptionDependencies(f) == f.w.capped => getSizeInputValue(f) > 0

\* validate() of the three frames in turn, up to the first that fails.
validateAll(f) ==
  LET one == validate(f, "storageEngine", "storageEngine")
      two == validate(one, "validator", "validator")
  IN IF f.text.storageEngine = "bad" THEN f ELSE IF f.text.validator = "bad" THEN one
     ELSE validate(two, "indexOptionDefaults", "indexOptionDefaults")

Flag(b, n) == IF b THEN n ELSE 0

\* The document of a tab that is switched on, if it is not empty.
ExtraOption(f, x) == IF x \in f.off \/ f.obj[x] = "{}" THEN NULL ELSE f.obj[x]

makeExtraOptionsObj(f) ==
  [autoIndexId |-> IF "autoIndex" \in f.off THEN NULL ELSE f.w.autoIndex,
   flags |-> IF {"noPadding", "powerOfTwo"} \subseteq f.off THEN NULL
             ELSE Flag("noPadding" \notin f.off /\ f.w.noPadding, 2)
                  + Flag("powerOfTwo" \notin f.off /\ f.w.powerOfTwo, 1),
   storageEngine |-> ExtraOption(f, "storageEngine"),
   validator |-> ExtraOption(f, "validator"),
   validation |-> IF ExtraOption(f, "validator") = NULL THEN NULL ELSE f.validation,
   indexOptionDefaults |-> ExtraOption(f, "indexOptionDefaults")]

\* MongoClient::createCollection: the command, without what is 0 or false.
CreateCommand(f) ==
  [kind |-> "create", server |-> f.server, text |-> f.text,
   size |-> getSizeInputValue(f), capped |-> f.w.capped, max |-> getMaxDocNumberInputValue(f),
   extra |-> makeExtraOptionsObj(f)]

\* accept(): enabled with the name.
acceptCollection ==
  /\ IsOpen("collection") /\ form.w.name # ""
  /\ validateOptionDependencies(form)
  /\ LET f == validateAll(form)
     IN IF \E x \in Frame : form.text[x] = "bad"
        THEN form' = f /\ UNCHANGED <<connection, shown, sent, edits>>
        ELSE Send(CreateCommand(f))

CollectionNext ==
  \/ ui_createCollection \/ onAdvancedButtonToggled \/ \E tab \in Tab : onTabChanged(tab)
  \/ TypeCollectionName \/ ToggleOption \/ TypeNumber \/ ChooseLevel \/ ChooseAction
  \/ onFrameTextChanged \/ onValidateButtonClicked \/ acceptCollection \/ Cancel("collection")

-----------------------------------------------------------------------------
(* CreateUserDialog.                                                          *)

rolesText ==
  {"read", "readWrite", "dbAdmin", "userAdmin", "clusterAdmin", "readAnyDatabase",
   "readWriteAnyDatabase", "userAdminAnyDatabase", "dbAdminAnyDatabase"}

\* MongoUser(version).
NewUser(version) ==
  [version |-> version, id |-> NULL, name |-> "", pwd |-> NULL, readOnly |-> FALSE, userSource |-> "", roles |-> {}]

Old(u) == u.version < 24

\* Both constructors: of the roles only those there is a box for, the source only if
\* it is one of the databases, never the password.
CreateUserDialog(u, existing) ==
  [dialog |-> "user", user |-> u, existing |-> existing,
   w |-> [name |-> u.name, password |-> "", readOnly |-> u.readOnly,
          source |-> IF u.userSource \in Database THEN u.userSource ELSE "",
          roles |-> u.roles \cap rolesText]]

ui_addUser == \E s \in Server : Opens(CreateUserDialog(NewUser(s.version), FALSE))

ui_editUser == \E u \in User : Opens(CreateUserDialog(u, TRUE))

TypeUser ==
  \E x \in {"name", "password"}, t \in Texts :
    IsOpen("user") /\ form.w[x] # t /\ Edit("user", [form EXCEPT !.w[x] = t])

ToggleReadOnly == IsOpen("user") /\ Old(form.user) /\ Edit("user", [form EXCEPT !.w.readOnly = ~ @])

ToggleRole ==
  \E r \in rolesText :
    /\ IsOpen("user") /\ ~ Old(form.user)
    /\ Edit("user", [form EXCEPT !.w.roles = IF r \in @ THEN @ \ {r} ELSE @ \cup {r}])

ChooseSource ==
  \E d \in Database \cup {""} :
    IsOpen("user") /\ ~ Old(form.user) /\ Edit("user", [form EXCEPT !.w.source = d])

UserRefused(f) ==
  \/ f.w.name = ""
  \/ Old(f.user) /\ f.w.password = ""
  \/ ~ Old(f.user) /\ (f.w.source = "") = (f.w.password = "")

\* MongoUtils::buildPasswordHash.
buildPasswordHash(name, password) == <<name, password>>

acceptedUser(f) ==
  LET u == [f.user EXCEPT !.name = f.w.name,
                          !.pwd = IF f.w.password = "" THEN NULL ELSE buildPasswordHash(f.w.name, f.w.password)]
  IN IF Old(f.user) THEN [u EXCEPT !.readOnly = f.w.readOnly]
     ELSE [u EXCEPT !.userSource = f.w.source, !.roles = f.w.roles]

\* MongoUser::toBson.
UserToBson(u) ==
  [id |-> u.id, user |-> u.name, pwd |-> u.pwd,
   readOnly |-> IF Old(u) THEN u.readOnly ELSE NULL,
   userSource |-> IF Old(u) \/ u.userSource = "" THEN NULL ELSE u.userSource,
   roles |-> IF Old(u) THEN NULL ELSE u.roles]

acceptUser ==
  /\ IsOpen("user") /\ ~ UserRefused(form)
  /\ Send([kind |-> "user", document |-> UserToBson(acceptedUser(form)), was |-> form.user,
           existing |-> form.existing])

UserDialogNext ==
  \/ ui_addUser \/ ui_editUser \/ TypeUser \/ ToggleReadOnly \/ ToggleRole \/ ChooseSource
  \/ acceptUser \/ Cancel("user")

-----------------------------------------------------------------------------
(* FunctionTextEditor and CreateDatabaseDialog.                               *)

FunctionTextEditor(name, code, existing) ==
  [dialog |-> "function", existing |-> existing, w |-> [name |-> name, code |-> code]]

ui_addFunction == Opens(FunctionTextEditor("", "x", NULL))

ui_editFunction == Opens(FunctionTextEditor("x", "x", "x"))

TypeFunction ==
  \E x \in {"name", "code"}, t \in Texts :
    IsOpen("function") /\ form.w[x] # t /\ Edit("function", [form EXCEPT !.w[x] = t])

acceptFunction ==
  /\ IsOpen("function") /\ (form.w.name # "" \/ form.w.code # "")
  /\ Send([kind |-> "function", existing |-> form.existing, name |-> form.w.name, code |-> form.w.code])

\* Asked for by three menus: the name of a database, of the copy of a collection, and
\* the new name of a collection.
CreateDatabaseDialog(purpose, text) == [dialog |-> "name", purpose |-> purpose, w |-> [name |-> text]]

ui_createDatabase == Opens(CreateDatabaseDialog("database", ""))

ui_duplicateCollection == Opens(CreateDatabaseDialog("duplicate", "x"))

ui_renameCollection == Opens(CreateDatabaseDialog("rename", "x"))

TypeName == \E t \in Texts : IsOpen("name") /\ form.w.name # t /\ Edit("name", [form EXCEPT !.w.name = t])

acceptName ==
  /\ IsOpen("name") /\ form.w.name # ""
  /\ Send([kind |-> "name", purpose |-> form.purpose, name |-> form.w.name])

NameNext ==
  \/ ui_addFunction \/ ui_editFunction \/ TypeFunction \/ acceptFunction \/ Cancel("function")
  \/ ui_createDatabase \/ ui_duplicateCollection \/ ui_renameCollection \/ TypeName \/ acceptName \/ Cancel("name")

-----------------------------------------------------------------------------
(* EulaDialog.                                                                *)

\* The buttons that are enabled: Back, Next and Finish start out disabled.
EulaDialog == [dialog |-> "eula", page |-> 1, agree |-> FALSE, enabled |-> {}, email |-> ""]

\* main(): the licence is shown before anything else.
ShowEula == edits = 0 /\ sent = NULL /\ shown = NULL /\ Opens(EulaDialog)

\* On the last page agreeing enables Finish, on the first of two pages Next.
Consent == IF TwoPages THEN "next" ELSE "finish"

on_agreeButton_clicked ==
  /\ IsOpen("eula") /\ form.page = 1
  /\ Edit("eula", [form EXCEPT !.agree = TRUE, !.enabled = @ \cup {Consent}])

on_notAgreeButton_clicked ==
  /\ IsOpen("eula") /\ form.page = 1
  /\ Edit("eula", [form EXCEPT !.agree = FALSE, !.enabled = @ \ {Consent}])

on_next_clicked ==
  /\ IsOpen("eula") /\ "next" \in form.enabled
  /\ Edit("eula", [form EXCEPT !.page = 2, !.enabled = {"back", "finish"}])

on_back_clicked ==
  /\ IsOpen("eula") /\ "back" \in form.enabled
  /\ Edit("eula", [form EXCEPT !.page = 1, !.enabled = {"next"}])

TypeEmail ==
  \E t \in Texts : IsOpen("eula") /\ form.page = 2 /\ form.email # t /\ Edit("eula", [form EXCEPT !.email = t])

\* accept(), with postUserData, after which main() records the version as accepted.
on_finish_clicked ==
  /\ IsOpen("eula") /\ "finish" \in form.enabled
  /\ Send([kind |-> "eula", agreed |-> form.agree, posted |-> form.email # ""])

\* reject(): the program ends.
rejectEula == Cancel("eula")

EulaNext ==
  \/ ShowEula \/ on_agreeButton_clicked \/ on_notAgreeButton_clicked \/ on_next_clicked \/ on_back_clicked
  \/ TypeEmail \/ on_finish_clicked \/ rejectEula

ExplorerNext == CollectionNext \/ UserDialogNext \/ NameNext \/ EulaNext

-----------------------------------------------------------------------------
(* Properties.                                                                *)

Sent(kind) == sent # NULL /\ sent.kind = kind

\* The command that creates a collection has what the hints of the dialog say the
\* server supports - a storage engine's options with wiredTiger from 3.0, a validator and
\* index defaults from 3.2, autoIndexId up to 3.2, no flags with wiredTiger, and noPadding
\* with MMAPv1 from 3.0 - each document is the one its own frame shows, and a capped
\* collection has a size, which MongoClient::createCollection asserts. The hints leave
\* the flags to MMAPv1; the code also sends them to an engine that is neither.
CommandFitsServer ==
  Sent("create") =>
    LET s == sent.server
        extra == sent.extra IN
    /\ extra.storageEngine # NULL => s.engine = "wiredTiger" /\ s.version >= 30
    /\ extra.validator # NULL \/ extra.indexOptionDefaults # NULL => s.version >= 32
    /\ extra.flags # NULL => s.engine # "wiredTiger"
    /\ extra.flags # NULL /\ s.engine \in {"mmapv1", ""} /\ s.version < 30 => extra.flags < 2
    /\ extra.autoIndexId # NULL => s.version <= 32
    /\ sent.capped => sent.size > 0
    /\ \A x \in Frame : extra[x] \in {NULL, sent.text[x]} /\ (sent.text[x] # "{}" => extra[x] = sent.text[x])

\* A user has either a password of its own, whose hash is made for the name it is
\* sent with, or another database as its source, also when a user who had the other
\* is changed; it stays the same document.
OneWayToAuthenticate ==
  Sent("user") =>
    LET user == sent.document IN
    /\ (user.pwd # NULL) # (user.userSource # NULL)
    /\ user.pwd # NULL => user.pwd[1] = user.user
    /\ sent.existing => user.id = sent.was.id

\* Nobody gets past the licence without having agreed, whichever way through its
\* pages and buttons.
AgreedBeforeUse == Sent("eula") => sent.agreed

\* What a dialog of the explorer or the licence hands over is consistent, through
\* every way its boxes, tabs, frames and pages can be used before.
SentConsistent == CommandFitsServer /\ OneWayToAuthenticate /\ AgreedBeforeUse
=============================================================================
