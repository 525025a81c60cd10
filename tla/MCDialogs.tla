------------------------------ MODULE MCDialogs -----------------------------
EXTENDS Dialogs

\* One text beside the empty one; files are there, under the home directory, or
\* nowhere.  "~" is only replaced in the key's name, and the file that is there is
\* chosen with a button.  Fields that are only taken over are emptied where they
\* have a text.
Text == {"", "x"}
File == {"", "file", "~file", "gone"}

MCTypedText ==
  [x \in {"db", "user", "password", "sshPassword", "passphrase"} |-> Text]
  @@ [x \in {"name", "setName", "sshHost", "sshUser", "pemPass", "defaultDb"} |-> {""}]
  @@ [key |-> File]
  @@ [x \in {"caFile", "pemFile", "crlFile"} |-> {"", "gone"}]
  @@ [mechanism |-> {"SCRAM-SHA-1", "MONGODB-CR"}]
  @@ [host |-> {"localhost", "long"}]
  @@ [port |-> {NumberText(NoPort), NumberText(30001), [digits |-> 1, padded |-> TRUE]}]
  @@ [sshPort |-> {NumberText(30001)}]

MCTypedMember == {Address("", NoPort), Address("a", NoPort), Address("long", Junk), Address("a", 30001)}

\* One host name has more than 300 characters.
MCLeft == [h \in {"", "localhost", "a", "long", "cut"} |-> IF h = "long" THEN "cut" ELSE h]

MCAtHome == [f \in File |-> IF f = "~file" THEN "file" ELSE f]

\* A connection as a user first makes one, and two that use everything between them.
MCSaved ==
  { DefaultConnection,
    [DefaultConnection EXCEPT
       !.name = "x", !.address = Address("a", 1), !.isReplicaSet = TRUE,
       !.replicaSet = [members |-> <<Address("a", 1), Address("a", 2)>>, setName |-> "x"],
       !.ssl = [enabled |-> TRUE, allowInvalidCertificates |-> FALSE, caFile |-> "file", usePemFile |-> TRUE,
                pemKeyFile |-> "file", pemPassPhrase |-> "x", ask |-> FALSE, advanced |-> TRUE,
                crlFile |-> "file", allowInvalidHostnames |-> TRUE]],
    [DefaultConnection EXCEPT
       !.address = Address("a", 1), !.defaultDb = "x",
       !.credentials = <<[enabled |-> TRUE, user |-> "x", password |-> "x", db |-> "x", mechanism |-> "SCRAM-SHA-1"]>>,
       !.ssh = [enabled |-> TRUE, host |-> "x", port |-> 1, userName |-> "x", method |-> "publickey",
                password |-> "x", key |-> "file", passphrase |-> "x", ask |-> FALSE]] }

MCServer ==
  {[engine |-> "", version |-> 22], [engine |-> "", version |-> 26], [engine |-> "mmapv1", version |-> 30],
   [engine |-> "mmapv1", version |-> 34], [engine |-> "wiredTiger", version |-> 30],
   [engine |-> "wiredTiger", version |-> 32], [engine |-> "wiredTiger", version |-> 34],
   [engine |-> "inMemory", version |-> 34]}

MCUser ==
  {[version |-> 22, id |-> 1, name |-> "x", pwd |-> <<"x", "x">>, readOnly |-> TRUE, userSource |-> "", roles |-> {}],
   [version |-> 24, id |-> 1, name |-> "x", pwd |-> <<"x", "x">>, readOnly |-> FALSE, userSource |-> "",
    roles |-> {"read", "root"}],
   [version |-> 24, id |-> 1, name |-> "x", pwd |-> NULL, readOnly |-> FALSE, userSource |-> "db", roles |-> {"read"}]}

\* Below, at and above the largest int and long long.
MCTypedNumber == {NULL, 0 - 1, 0, 30000, 30001, 30002}

\* Enough to fill in, change back and go on; a document for a new collection needs
\* five edits.
MCMaxEdits == [connection |-> 3, collection |-> 6, user |-> 4, function |-> 3, name |-> 2, eula |-> 6]
=============================================================================
