------------------------------- MODULE Dialogs ------------------------------
(* The modal dialogs of the program, of which one is open at a time.           *)
EXTENDS ConnectionForm, ExplorerForms

CONSTANT Saved   \* connections the list may begin with

\* They were made in the dialog before, and may have been connected to.
ASSUME DialogsAssumption ==
  /\ Saved \subseteq
       [name : STRING, address : [host : DOMAIN Left, port : Nat], defaultDb : STRING, isReplicaSet : BOOLEAN,
        replicaSet : [members : Seq([host : DOMAIN Left, port : Nat]), setName : STRING],
        credentials : Seq([enabled : BOOLEAN, user : STRING, password : STRING, db : STRING, mechanism : STRING]),
        ssh : [enabled : BOOLEAN, host : STRING, port : Nat, userName : STRING,
               method : {"publickey", "password"}, password : STRING,
               key : DOMAIN AtHome, passphrase : STRING, ask : BOOLEAN],
        ssl : [enabled : BOOLEAN, allowInvalidCertificates : BOOLEAN, caFile : STRING, usePemFile : BOOLEAN,
               pemKeyFile : STRING, pemPassPhrase : STRING, ask : BOOLEAN, advanced : BOOLEAN,
               crlFile : STRING, allowInvalidHostnames : BOOLEAN]]
  /\ \A c \in Saved : OnlyPromptedKept(c) /\ AddressOfSet(c)

DialogsInit ==
  /\ form = NULL /\ connection \in Saved \cup {NULL} /\ shown = NULL
  /\ sent = NULL /\ edits = 0

\* The dialogs share nothing but that only one is open, so a behaviour is about one
\* connection or about the explorer.
DialogsNext ==
  \/ connection # NULL /\ ConnectionNext
  \/ connection = NULL /\ ExplorerNext

DialogsSpec == DialogsInit /\ [][DialogsNext]_formVars
=============================================================================
