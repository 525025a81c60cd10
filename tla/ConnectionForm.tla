--------------------------- MODULE ConnectionForm ---------------------------
(* The dialog for one connection, widget by widget: what its five tabs show of *)
(* the settings, which widgets the check boxes switch on and off, what is      *)
(* refused, what is taken over, and what is left of it after the settings have *)
(* been written to the configuration file and read again.                      *)
EXTENDS FormState

CONSTANTS TypedText,    \* TypedText[x]: what may be typed into the text field x
          TypedMember,  \* what may be typed as a member of a replica set
          Present,      \* files that exist
          AtHome,       \* AtHome[f]: f with "~" replaced
          Left,         \* Left[h]: the first 300 characters of the host name h
          Prompted,     \* what may be typed when a passphrase is asked for
          MaxMembers    \* bound on the members entered

\* The text of a member: what stands before its first colon and, up to a second one,
\* the number the digits after it make.
NoPort == 0 - 1   \* no colon, or in the field of a port no digit
Junk == 0 - 2     \* what follows the colon has no digits

\* The text in the field of a port: the number its digits make, and whether zeros stand
\* before it.
PortText == [digits : Nat \cup {NoPort}, padded : BOOLEAN]

\* QString::number.
NumberText(n) == [digits |-> n, padded |-> FALSE]

\* QString::toInt: 0 for what is no number or too large.
toInt(n) == IF n \in {NoPort, Junk} \/ n > IntMax THEN 0 ELSE n

DefaultPort == 27017

\* A leading "~" becomes an absolute path, so a second time changes nothing.
ASSUME ConnectionFormAssumption ==
  /\ DOMAIN TypedText \subseteq
       {"name", "host", "port", "setName", "db", "user", "password", "mechanism", "sshHost", "sshPort",
        "sshUser", "sshPassword", "key", "passphrase", "caFile", "pemFile", "pemPass", "crlFile", "defaultDb"}
  /\ "key" \in DOMAIN TypedText => TypedText["key"] \subseteq DOMAIN AtHome
  /\ Present \subseteq DOMAIN AtHome
  /\ \A f \in DOMAIN AtHome : AtHome[f] \in DOMAIN AtHome /\ AtHome[AtHome[f]] = AtHome[f]
  /\ "host" \in DOMAIN TypedText => TypedText["host"] \subseteq DOMAIN Left
  /\ \A x \in DOMAIN TypedText \cap {"port", "sshPort"} : TypedText[x] \subseteq PortText
  /\ "localhost" \in DOMAIN Left
  /\ \A h \in DOMAIN Left : Left[h] \in DOMAIN Left /\ Left[Left[h]] = Left[h]
  /\ TypedMember \subseteq [host : DOMAIN Left, port : Nat \cup {NoPort, Junk}]

Address(h, p) == [host |-> h, port |-> p]

Localhost == Address("localhost", DefaultPort)

-----------------------------------------------------------------------------
(* The settings and their file.                                               *)

\* SshSettings, SslSettings, CredentialSettings and ConnectionSettings as the
\* constructors leave them.
DefaultSsh ==
  [enabled |-> FALSE, host |-> "", port |-> 22, userName |-> "", method |-> "publickey", password |-> "",
   key |-> "", passphrase |-> "", ask |-> FALSE]

DefaultSsl ==
  [enabled |-> FALSE, allowInvalidCertificates |-> FALSE, caFile |-> "", usePemFile |-> FALSE,
   pemKeyFile |-> "", pemPassPhrase |-> "", ask |-> FALSE, advanced |-> FALSE, crlFile |-> "",
   allowInvalidHostnames |-> FALSE]

DefaultReplicaSet == [members |-> << >>, setName |-> ""]

DefaultConnection ==
  [name |-> "New", address |-> Localhost, defaultDb |-> "", isReplicaSet |-> FALSE,
   replicaSet |-> DefaultReplicaSet, credentials |-> << >>, ssh |-> DefaultSsh, ssl |-> DefaultSsl]

sshToVariant(s) ==
  [host |-> s.host, port |-> s.port, userName |-> s.userName, userPassword |-> s.password,
   privateKeyFile |-> s.key, passphrase |-> s.passphrase, method |-> s.method, enabled |-> s.enabled,
   askPassword |-> s.ask]

sshFromVariant(m) ==
  [enabled |-> m.enabled, host |-> m.host, port |-> m.port, userName |-> m.userName, method |-> m.method,
   password |-> m.userPassword, key |-> m.privateKeyFile, passphrase |-> m.passphrase, ask |-> m.askPassword]

sslToVariant(s) ==
  [sslEnabled |-> s.enabled, caFile |-> s.caFile, usePemFile |-> s.usePemFile, pemKeyFile |-> s.pemKeyFile,
   pemPassPhrase |-> s.pemPassPhrase, useAdvancedOptions |-> s.advanced, crlFile |-> s.crlFile,
   allowInvalidHostnames |-> s.allowInvalidHostnames,
   allowInvalidCertificates |-> s.allowInvalidCertificates, askPassphrase |-> s.ask]

sslFromVariant(m) ==
  [enabled |-> m.sslEnabled, allowInvalidCertificates |-> m.allowInvalidCertificates, caFile |-> m.caFile,
   usePemFile |-> m.usePemFile, pemKeyFile |-> m.pemKeyFile, pemPassPhrase |-> m.pemPassPhrase,
   ask |-> m.askPassphrase, advanced |-> m.useAdvancedOptions, crlFile |-> m.crlFile,
   allowInvalidHostnames |-> m.allowInvalidHostnames]

\* The members are kept under the keys 0, 1, 2, ...
replicaSetToVariant(r) ==
  [setNameUserEntered |-> r.setName, numbered |-> [k \in 0 .. Len(r.members) - 1 |-> r.members[k + 1]]]

\* Read up to the first number that is missing.
replicaSetFromVariant(m) ==
  LET n == CHOOSE k \in 0 .. Cardinality(DOMAIN m.numbered) :
             k \notin DOMAIN m.numbered /\ 0 .. k - 1 \subseteq DOMAIN m.numbered
  IN [members |-> [k \in 1 .. n |-> m.numbered[k - 1]], setName |-> m.setNameUserEntered]

\* Mutant: the settings of SSL are forgotten unless SSL is on.
toVariantSslOnly(c) ==
  [connectionName |-> c.name, server |-> c.address, defaultDatabase |-> c.defaultDb,
   isReplicaSet |-> c.isReplicaSet,
   replicaSet |-> IF c.isReplicaSet THEN replicaSetToVariant(c.replicaSet) ELSE NULL,
   credentials |-> c.credentials, ssh |-> sshToVariant(c.ssh),
   ssl |-> sslToVariant(IF c.ssl.enabled THEN c.ssl ELSE DefaultSsl)]

\* ConnectionSettings::toVariant.
toVariant(c) ==
  [connectionName |-> c.name, server |-> c.address, defaultDatabase |-> c.defaultDb,
   isReplicaSet |-> c.isReplicaSet,
   replicaSet |-> IF c.isReplicaSet THEN replicaSetToVariant(c.replicaSet) ELSE NULL,
   credentials |-> c.credentials, ssh |-> sshToVariant(c.ssh), ssl |-> sslToVariant(c.ssl)]

\* addCredential: one for each database.
addCredential(list, credential) ==
  IF \E k \in DOMAIN list : list[k].db = credential.db THEN list ELSE Append(list, credential)

\* Of a host name no more than its first 300 characters is read.
fromVariant(m) ==
  [name |-> m.connectionName, address |-> Address(Left[m.server.host], m.server.port),
   defaultDb |-> m.defaultDatabase,
   isReplicaSet |-> m.isReplicaSet,
   replicaSet |-> IF m.isReplicaSet THEN replicaSetFromVariant(m.replicaSet) ELSE DefaultReplicaSet,
   credentials |-> FoldLeft(addCredential, << >>, m.credentials),
   ssh |-> sshFromVariant(m.ssh), ssl |-> sslFromVariant(m.ssl)]

hasEnabledPrimaryCredential(c) == c.credentials # << >> /\ c.credentials[1].enabled

-----------------------------------------------------------------------------
(* The widgets.                                                               *)

BasicTab == {"type", "name", "host", "port", "members", "setName"}

AuthTab == {"useAuth", "db", "user", "password", "mechanism"}

SshTab == {"sshOn", "sshHost", "sshPort", "sshUser", "method", "sshPassword", "key", "passphrase", "sshAsk"}

SslTab == {"sslOn", "certificate", "caFile", "usePem", "pemFile", "pemPass", "pemAsk", "advanced",
           "crlFile", "hostnames"}

TabOf(x) ==
  CASE x \in BasicTab -> "basic" [] x \in AuthTab -> "auth" [] x \in SshTab -> "ssh"
    [] x \in SslTab -> "ssl" [] OTHER -> "advanced"

\* QWidget::isVisible: a widget of a tab that is not in front is not visible.
IsVisible(f, x) == f.front = TabOf(x) /\ x \notin f.hidden

IsEnabled(f, x) == x \notin f.off

on_ConnectionTypeChange(f) ==
  SetHidden(SetHidden(f, {"members", "setName"}, f.w.type # "set"), {"host", "port"}, f.w.type = "set")

authChecked(f) == SetOff(f, AuthTab \ {"useAuth"}, ~ f.w.useAuth)

\* Mutant: what was typed stays when the box is checked.
askForPasswordKept(f) == SetOff(f, {"sshPassword", "passphrase"}, f.w.sshAsk \/ ~ f.w.sshOn)

askForPasswordStateChanged(f) ==
  LET g == IF f.w.sshAsk THEN [f EXCEPT !.w.passphrase = "", !.w.sshPassword = ""] ELSE f
  IN SetOff(g, {"sshPassword", "passphrase"}, f.w.sshAsk \/ ~ f.w.sshOn)

sshSupportStateChange(f) ==
  askForPasswordStateChanged(SetOff(f, {"sshHost", "sshPort", "sshUser", "method", "key", "sshAsk"}, ~ f.w.sshOn))

securityChange(f) ==
  LET isKey == f.w.method = "publickey"
  IN SetHidden(SetHidden(f, {"key", "passphrase"}, ~ isKey), {"sshPassword"}, isKey)

on_authModeComboBox_change(f) == SetHidden(f, {"caFile"}, f.w.certificate # "ca")

on_usePemFileCheckBox_toggle(f) == SetHidden(f, {"pemFile", "pemPass", "pemAsk"}, ~ f.w.usePem)

on_askPemPassCheckBox_toggle(f) ==
  SetOff(IF f.w.pemAsk THEN [f EXCEPT !.w.pemPass = ""] ELSE f, {"pemPass"}, f.w.pemAsk)

on_useAdvancedOptionsCheckBox_toggle(f) == SetHidden(f, {"crlFile", "hostnames"}, ~ f.w.advanced)

useSslCheckBoxStateChange(f) ==
  LET g == SetOff(f, SslTab \ {"sslOn"}, ~ f.w.sslOn)
  IN IF f.w.sslOn THEN on_askPemPassCheckBox_toggle(on_usePemFileCheckBox_toggle(g)) ELSE g

-----------------------------------------------------------------------------
(* Opening the dialog: the constructors of the tabs.                          *)

BasicWidgets(c) ==
  [type |-> IF c.isReplicaSet THEN "set" ELSE "direct", name |-> c.name, host |-> c.address.host,
   port |-> NumberText(c.address.port),
   members |-> IF c.isReplicaSet /\ c.replicaSet.members # << >> THEN c.replicaSet.members ELSE <<Localhost>>,
   setName |-> c.replicaSet.setName]

AuthWidgets(c) ==
  LET p == IF c.credentials # << >> THEN c.credentials[1]
           ELSE [user |-> "", password |-> "", db |-> "admin", mechanism |-> "SCRAM-SHA-1"]
  IN [useAuth |-> hasEnabledPrimaryCredential(c), user |-> p.user, password |-> p.password,
      db |-> p.db, mechanism |-> p.mechanism]

SshWidgets(c) ==
  [sshOn |-> c.ssh.enabled, sshHost |-> c.ssh.host, sshPort |-> NumberText(c.ssh.port),
   sshUser |-> c.ssh.userName, method |-> c.ssh.method, sshPassword |-> c.ssh.password,
   key |-> c.ssh.key, passphrase |-> c.ssh.passphrase, sshAsk |-> c.ssh.ask]

SslWidgets(c) ==
  [sslOn |-> c.ssl.enabled, certificate |-> IF c.ssl.allowInvalidCertificates THEN "selfSigned" ELSE "ca",
   caFile |-> c.ssl.caFile, usePem |-> c.ssl.usePemFile, pemFile |-> c.ssl.pemKeyFile,
   pemPass |-> IF c.ssl.ask THEN "" ELSE c.ssl.pemPassPhrase, pemAsk |-> c.ssl.ask,
   advanced |-> c.ssl.advanced, crlFile |-> c.ssl.crlFile, hostnames |-> c.ssl.allowInvalidHostnames]

Widget == BasicTab \cup AuthTab \cup SshTab \cup SslTab \cup {"defaultDb"}

Widgets(c) ==
  [x \in Widget |->
     CASE x \in BasicTab -> BasicWidgets(c)[x] [] x \in AuthTab -> AuthWidgets(c)[x]
       [] x \in SshTab -> SshWidgets(c)[x] [] x \in SslTab -> SslWidgets(c)[x] [] OTHER -> c.defaultDb]

sshTab(f) == sshSupportStateChange(securityChange(f))

sslTab(f) ==
  useSslCheckBoxStateChange(on_useAdvancedOptionsCheckBox_toggle(on_askPemPassCheckBox_toggle(
    on_usePemFileCheckBox_toggle(on_authModeComboBox_change(f)))))

ConnectionDialog(c) ==
  sslTab(sshTab(authChecked(on_ConnectionTypeChange(
    [dialog |-> "connection", copy |-> c, front |-> "basic", off |-> {}, hidden |-> {},
     w |-> Widgets(c)]))))

edit ==
  /\ form = NULL
  /\ form' = ConnectionDialog(connection)
  /\ shown' = NULL /\ sent' = NULL /\ UNCHANGED <<connection, edits>>

-----------------------------------------------------------------------------
(* What the user does.                                                        *)

ShowTab(tab) ==
  /\ IsOpen("connection") /\ form.front # tab
  /\ form' = [form EXCEPT !.front = tab]
  /\ UNCHANGED <<connection, shown, sent, edits>>

\* The form after x was given the value v, which the user can do if x can be used.
With(x, v) == [form EXCEPT !.w[x] = v]

Usable(x) == IsOpen("connection") /\ IsVisible(form, x) /\ IsEnabled(form, x)

Enter(x) == Usable(x) /\ \E v \in TypedText[x] \ {form.w[x]} : Edit("connection", With(x, v))

Toggled(x) == With(x, ~ form.w[x])

ChooseType ==
  /\ Usable("type")
  /\ Edit("connection", on_ConnectionTypeChange(With("type", IF form.w.type = "set" THEN "direct" ELSE "set")))

ToggleAuth == Usable("useAuth") /\ Edit("connection", authChecked(Toggled("useAuth")))

ToggleSsh == Usable("sshOn") /\ Edit("connection", sshSupportStateChange(Toggled("sshOn")))

ToggleSshAsk == Usable("sshAsk") /\ Edit("connection", askForPasswordStateChanged(Toggled("sshAsk")))

ChooseMethod ==
  /\ Usable("method")
  /\ Edit("connection",
          securityChange(With("method", IF form.w.method = "publickey" THEN "password" ELSE "publickey")))

ToggleSsl == Usable("sslOn") /\ Edit("connection", useSslCheckBoxStateChange(Toggled("sslOn")))

ChooseCertificate ==
  /\ Usable("certificate")
  /\ Edit("connection",
          on_authModeComboBox_change(With("certificate", IF form.w.certificate = "ca" THEN "selfSigned" ELSE "ca")))

TogglePem == Usable("usePem") /\ Edit("connection", on_usePemFileCheckBox_toggle(Toggled("usePem")))

TogglePemAsk == Usable("pemAsk") /\ Edit("connection", on_askPemPassCheckBox_toggle(Toggled("pemAsk")))

ToggleAdvanced ==
  Usable("advanced") /\ Edit("connection", on_useAdvancedOptionsCheckBox_toggle(Toggled("advanced")))

ChooseHostnames == Usable("hostnames") /\ Edit("connection", Toggled("hostnames"))

\* A file is chosen in the dialog that the button beside the field opens.
setPrivateFile == Usable("key") /\ \E p \in Present : Edit("connection", With("key", p))

openFileBrowseDialog ==
  \E x \in {"caFile", "pemFile", "crlFile"} :
    Usable(x) /\ \E p \in Present : Edit("connection", With(x, p))

-----------------------------------------------------------------------------
(* The members of a replica set.                                              *)

\* Mutant: a member without a port is left so.
NormalNoPort(t) == IF t.port = NoPort THEN t ELSE Address(t.host, toInt(t.port))

Normal(t) == Address(t.host, IF t.port = NoPort THEN DefaultPort ELSE toInt(t.port))

\* The handler's own setText() calls it again, until the text stays as it is.
on_replicaMemberItemEdit(k, t) ==
  With("members", IF t.host = "" /\ t.port = NoPort THEN RemoveAt(form.w.members, k)
                  ELSE [form.w.members EXCEPT ![k] = Normal(Normal(t))])

EditMember ==
  /\ Usable("members")
  /\ \E k \in DOMAIN form.w.members, t \in TypedMember : Edit("connection", on_replicaMemberItemEdit(k, t))

NextMember(members) ==
  IF members = << >> THEN Localhost
  ELSE IF Last(members).port # NoPort THEN Address(Last(members).host, toInt(Last(members).port) + 1)
  ELSE Address("localhost", Len(members) + DefaultPort)

\* Not after a port that is the largest int, which the sum overflows.
on_addButton_clicked ==
  /\ Usable("members") /\ Len(form.w.members) < MaxMembers
  /\ Edit("connection", With("members", Append(form.w.members, NextMember(form.w.members))))
  /\ NextMember(form.w.members).port <= IntMax

\* The current item, or the last when there is none.
on_removeButton_clicked ==
  /\ Usable("members")
  /\ \E k \in DOMAIN form.w.members : Edit("connection", With("members", RemoveAt(form.w.members, k)))

-----------------------------------------------------------------------------
(* Taking over.                                                               *)

acceptAuth(c, w) ==
  [c EXCEPT !.credentials =
     IF w.user = "" /\ w.password = "" /\ w.db = "" THEN << >>
     ELSE <<[enabled |-> w.useAuth, user |-> w.user, password |-> w.password, db |-> w.db,
             mechanism |-> w.mechanism]>>]

acceptAdvanced(c, w) == [c EXCEPT !.defaultDb = w.defaultDb]

\* Refused: no members, or several of which one has no port or two are the same.
MembersRefused(w) ==
  /\ w.type = "set"
  /\ \/ w.members = << >>
     \/ Len(w.members) > 1 /\ (\E k \in DOMAIN w.members : w.members[k].port = NoPort)
     \/ ~ IsInjective(w.members)

\* Type and name are set before anything is refused.
acceptBasic(c, w) ==
  LET typed == [c EXCEPT !.isReplicaSet = w.type = "set", !.name = w.name]
  IN IF MembersRefused(w) THEN typed
     ELSE IF w.type = "direct" THEN [typed EXCEPT !.address = Address(w.host, toInt(w.port.digits))]
     ELSE [typed EXCEPT !.address = Address(w.members[1].host, toInt(w.members[1].port)),
                        !.replicaSet = [members |-> w.members, setName |-> w.setName]]

\* The key file with "~" replaced, if it exists only so.
KeyFile(w) ==
  IF w.sshOn /\ w.method = "publickey" /\ w.key \notin Present /\ AtHome[w.key] \in Present
  THEN AtHome[w.key] ELSE w.key

KeyRefused(w) == w.sshOn /\ w.method = "publickey" /\ KeyFile(w) \notin Present

acceptSsh(c, w) ==
  IF KeyRefused(w) THEN c
  ELSE [c EXCEPT !.ssh = [enabled |-> w.sshOn, host |-> w.sshHost, port |-> toInt(w.sshPort.digits),
                          userName |-> w.sshUser, method |-> w.method, password |-> w.sshPassword,
                          key |-> KeyFile(w), passphrase |-> w.passphrase, ask |-> w.sshAsk]]

saveSslSettings(c, w) ==
  [c EXCEPT !.ssl = [enabled |-> w.sslOn, allowInvalidCertificates |-> w.certificate # "ca",
                     caFile |-> w.caFile, usePemFile |-> w.usePem, pemKeyFile |-> w.pemFile,
                     pemPassPhrase |-> IF w.pemAsk THEN "" ELSE w.pemPass, ask |-> w.pemAsk,
                     advanced |-> w.advanced, crlFile |-> w.crlFile,
                     allowInvalidHostnames |-> w.hostnames]]

\* checkExistenseOfFiles: two of the files only when they are in view, the third
\* always.
FilesRefused(f) ==
  \/ \E x \in {"caFile", "pemFile"} : IsVisible(f, x) /\ IsEnabled(f, x) /\ f.w[x] \notin Present
  \/ f.w.crlFile # "" /\ f.w.crlFile \notin Present

\* ConnectionDialog::validateAndApply: the tabs in turn, up to the first that refuses.
validateAndApply(f) ==
  LET basic == acceptBasic(acceptAdvanced(acceptAuth(f.copy, f.w), f.w), f.w)
      ssh == acceptSsh(basic, f.w)
  IN IF MembersRefused(f.w) THEN [ok |-> FALSE, copy |-> basic]
     ELSE IF KeyRefused(f.w) THEN [ok |-> FALSE, copy |-> ssh]
     ELSE [ok |-> ~ FilesRefused(f), copy |-> saveSslSettings(ssh, f.w)]

\* ConnectionDialog::accept, and ConnectionsDialog::edit, which applies the copy.
acceptConnection ==
  LET r == validateAndApply(form)
  IN /\ IsOpen("connection")
     /\ \/ r.ok /\ connection' = r.copy /\ shown' = form.w /\ Close
        \/ ~ r.ok /\ form' = [form EXCEPT !.copy = r.copy] /\ UNCHANGED <<connection, shown, edits>>
     /\ UNCHANGED sent

\* App::openServer asks for the passphrase of the PEM file, and keeps it in the settings
\* unless the user cancels. (A password for SSH is kept where the file has no part.)
askSslPassphrase(c) ==
  {c} \cup IF c.ssl.enabled /\ c.ssl.usePemFile /\ c.ssl.ask
           THEN {[c EXCEPT !.ssl.pemPassPhrase = p] : p \in Prompted} ELSE {}

\* The test itself is in Connections; here the tabs are applied to the copy, which is
\* then connected to.
testConnection ==
  LET r == validateAndApply(form)
  IN /\ IsOpen("connection")
     /\ \E c \in IF r.ok THEN askSslPassphrase(r.copy) ELSE {r.copy} : form' = [form EXCEPT !.copy = c]
     /\ UNCHANGED <<connection, shown, sent, edits>>

\* The connection is connected to, from the list or the menu.
connectListed ==
  /\ form = NULL
  /\ connection' \in askSslPassphrase(connection)
  /\ UNCHANGED <<form, shown, sent, edits>>

rejectConnection == IsOpen("connection") /\ Close /\ UNCHANGED <<connection, shown, sent>>

\* The program is left and started again.
Restart ==
  /\ form = NULL
  /\ connection' = fromVariant(toVariant(connection))
  /\ UNCHANGED <<form, shown, sent, edits>>

ConnectionNext ==
  \/ edit \/ \E tab \in {"basic", "auth", "ssh", "ssl", "advanced"} : ShowTab(tab)
  \/ \E x \in DOMAIN TypedText : Enter(x)
  \/ ChooseType \/ ToggleAuth \/ ToggleSsh \/ ToggleSshAsk \/ ChooseMethod
  \/ ToggleSsl \/ ChooseCertificate \/ TogglePem \/ TogglePemAsk \/ ToggleAdvanced \/ ChooseHostnames
  \/ setPrivateFile \/ openFileBrowseDialog
  \/ EditMember \/ on_addButton_clicked \/ on_removeButton_clicked
  \/ acceptConnection \/ testConnection \/ rejectConnection \/ connectListed \/ Restart

-----------------------------------------------------------------------------
(* Properties.                                                                *)

\* What is used of w: the other half of the first tab, credentials that are all empty,
\* how the path of a key and a port are written, and what follows the first 300
\* characters of the host, are not.
InUse(w) ==
  LET noAuth == w.user = "" /\ w.password = "" /\ w.db \in {"", "admin"}
  IN [w EXCEPT !.host = IF w.type = "set" THEN "localhost" ELSE Left[@],
               !.port = IF w.type = "set" THEN DefaultPort ELSE toInt(@.digits),
               !.sshPort = toInt(@.digits),
               !.members = IF w.type = "set" THEN @ ELSE << >>,
               !.setName = IF w.type = "set" THEN @ ELSE "",
               !.key = AtHome[@],
               !.useAuth = @ /\ ~ noAuth,
               !.db = IF noAuth THEN "" ELSE @,
               !.mechanism = IF noAuth THEN "SCRAM-SHA-1" ELSE @]

\* The dialog opened again shows what it showed when it was accepted, also when the
\* connection was connected to, or the settings written to the file and read, in
\* between: no tab's accept(), constructor or conversion drops or mixes up a setting, but
\* for what is not used of it. A port comes back as the int its text makes, which is 0
\* where the text is empty or too large.
ReopenShowsSame ==
  form = NULL /\ shown # NULL => InUse(ConnectionDialog(connection).w) = InUse(shown)

\* No password or passphrase for SSH is kept that the program is to ask for each time.
NoSshSecret(c) == c.ssh.ask => c.ssh.password = "" /\ c.ssh.passphrase = ""

\* The first member gives the address of a replica set, which therefore has one; a host
\* name that was read from the file may be cut.
AddressOfSet(c) ==
  c.isReplicaSet =>
    /\ c.replicaSet.members # << >> /\ IsInjective(c.replicaSet.members)
    /\ c.address.port = toInt(c.replicaSet.members[1].port)
    /\ c.address.host \in {c.replicaSet.members[1].host, Left[c.replicaSet.members[1].host]}

\* A replica set has members and the address of the first; every member has a port,
\* which ConnectionBasicTab::accept takes for granted when there is one member only.
MembersUsable ==
  /\ connection # NULL => AddressOfSet(connection)
  /\ IsOpen("connection") => \A k \in DOMAIN form.w.members : form.w.members[k].port # NoPort

\* The widgets that can be used are those the check boxes in front of the user ask
\* for, although each is switched by several handlers, in the order of the clicks.
FieldsFollowBoxes ==
  IsOpen("connection") =>
    LET w == form.w IN
    /\ form.off =
         (IF w.useAuth THEN {} ELSE AuthTab \ {"useAuth"})
         \cup (IF ~ w.sshOn THEN SshTab \ {"sshOn"} ELSE IF w.sshAsk THEN {"sshPassword", "passphrase"} ELSE {})
         \cup (IF ~ w.sslOn THEN SslTab \ {"sslOn"} ELSE IF w.pemAsk THEN {"pemPass"} ELSE {})
    /\ form.hidden =
         (IF w.type = "set" THEN {"host", "port"} ELSE {"members", "setName"})
         \cup (IF w.method = "publickey" THEN {"sshPassword"} ELSE {"key", "passphrase"})
         \cup (IF w.certificate = "ca" THEN {} ELSE {"caFile"})
         \cup (IF w.usePem THEN {} ELSE {"pemFile", "pemPass", "pemAsk"})
         \cup (IF w.advanced THEN {} ELSE {"crlFile", "hostnames"})

\* What the dialog would store now has no secret that is to be asked for.
AcceptsNoSecret ==
  LET r == validateAndApply(form)
  IN IsOpen("connection") /\ r.ok =>
       NoSshSecret(r.copy) /\ (r.copy.ssl.ask => r.copy.ssl.pemPassPhrase = "")

\* A connection of the list has none for SSH; the passphrase of its PEM file is there
\* only if it was typed when asked for, since connecting stores it.
OnlyPromptedKept(c) == NoSshSecret(c) /\ (c.ssl.ask => c.ssl.pemPassPhrase \in {""} \cup Prompted)

\* The connection dialog is what its boxes say: the widgets in use are the ones asked
\* for, and nothing typed into it is kept that the user wants to be asked for. (What is
\* typed at the prompt for a PEM file's passphrase is kept until the dialog is accepted
\* again, although the prompt says that it will never be stored.)
FormFollowsBoxes ==
  FieldsFollowBoxes /\ AcceptsNoSecret /\ (connection # NULL => OnlyPromptedKept(connection))
=============================================================================
