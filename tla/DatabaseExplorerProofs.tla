----------------------- MODULE DatabaseExplorerProofs -----------------------
(* What holds of the explorer for any databases, names and bounds.            *)
EXTENDS ReplicaSetItems, SequenceTheorems, TLAPS

-----------------------------------------------------------------------------
(* The inductive invariant.                                                   *)

AnyName == UNION {Name[c] : c \in Cat}
Object == Db \X Nat

ChangeOp == {"create", "drop", "rename", "duplicate"}
ContentOp == {"load"} \cup ChangeOp
Op == {"list", "refresh", "folder", "createDb", "dropDb"} \cup ContentOp

Shows == [text : {"plain", "loading", "count", "gone"}, shown : SUBSET AnyName]

RequestType ==
  [op : Op, sender : Object \cup {NULL}, db : Db \cup {NULL}, cat : Cat \cup {NULL},
   name : AnyName \cup {NULL}, to : AnyName \cup {NULL}]

ReplyType ==
  [op : Op, sender : Object \cup {NULL}, cat : Cat \cup {NULL},
   result : {"ok", "error", "unreachable"}, names : SUBSET (AnyName \cup Db)]

\* What sends a message: an object built so far sends those about its folders, the
\* server all others, and each kind of server its own.
SenderSound(m) ==
  /\ m.op \in ContentOp => m.sender \in Object /\ m.sender[2] <= gen /\ m.cat \in Cat
  /\ m.op \notin ContentOp => m.sender = NULL
  /\ m.op \in {"refresh", "folder"} => isReplicaSet
  /\ m.op \in {"list", "createDb"} => ~ isReplicaSet

RequestSound(r) ==
  /\ SenderSound(r)
  /\ r.op \in ContentOp => r.db = r.sender[1]
  /\ r.op \in {"createDb", "dropDb"} => r.db \in Db
  /\ r.op \in ChangeOp => r.name \in Name[r.cat] /\ r.to \in Name[r.cat]
  /\ r.op = "duplicate" => r.cat = Collections

ReplySound(q) ==
  /\ SenderSound(q)
  /\ q.op = "load" => q.names \subseteq Name[q.cat]
  /\ q.op \in {"list", "refresh"} => q.names \subseteq Db
  /\ q.result = "unreachable" => isReplicaSet
  /\ q.op \in {"refresh", "folder"} => q.result # "error"

RequestsSound == requests \in Seq(RequestType) /\ \A k \in DOMAIN requests : RequestSound(requests[k])
RepliesSound == guiQueue \in Seq(ReplyType) /\ \A k \in DOMAIN guiQueue : ReplySound(guiQueue[k])
MessagesSound == RequestsSound /\ RepliesSound

StoreTyped ==
  /\ store \in [Db -> [Cat -> SUBSET AnyName]]
  /\ \A d \in Db, c \in Cat : store[d][c] \subseteq Name[c]
  /\ createdDbs \subseteq Db
  /\ known \in [Db -> {"none", "created", "dropped"}]
  /\ unseen \subseteq Db \X Cat

TreeTyped ==
  /\ gen \in Nat /\ databases \subseteq Db \X (1 .. gen)
  /\ ItemsLive
  /\ items \in [DOMAIN items -> [Cat -> Shows]]
  /\ \A i \in DOMAIN items, c \in Cat : items[i][c].shown \subseteq Name[c]
  /\ label \in {"plain", "loading", "count", "offline"}

\* The types, of the queues too.
Typed ==
  /\ isReplicaSet \in BOOLEAN /\ wasUnreachable \in BOOLEAN /\ crashed \in BOOLEAN
  /\ StoreTyped /\ TreeTyped /\ MessagesSound

-----------------------------------------------------------------------------
(* Queues.                                                                    *)

\* Where the elements of a queue are after one was added.
LEMMA AppendIndex ==
  ASSUME NEW S, NEW s \in Seq(S), NEW x \in S
  PROVE  /\ Append(s, x) \in Seq(S)
         /\ DOMAIN s \subseteq DOMAIN Append(s, x) /\ DOMAIN s \subseteq Nat \ {0}
         /\ \A k \in DOMAIN s : Append(s, x)[k] = s[k] /\ k < Len(s) + 1
         /\ Len(s) \in Nat /\ Len(s) + 1 \in DOMAIN Append(s, x) /\ Append(s, x)[Len(s) + 1] = x
         /\ \A k \in DOMAIN Append(s, x) : k \in DOMAIN s \/ k = Len(s) + 1
  OBVIOUS

\* Where they are after the first was taken.
LEMMA TailIndex ==
  ASSUME NEW S, NEW s \in Seq(S), s # << >>
  PROVE  /\ Tail(s) \in Seq(S)
         /\ 1 \in DOMAIN s /\ Head(s) = s[1] /\ Head(s) \in S
         /\ DOMAIN s \subseteq Nat \ {0} /\ DOMAIN Tail(s) \subseteq Nat \ {0}
         /\ \A k \in DOMAIN Tail(s) : k + 1 \in DOMAIN s /\ Tail(s)[k] = s[k + 1]
         /\ \A k \in DOMAIN s : k = 1 \/ (k - 1 \in DOMAIN Tail(s) /\ Tail(s)[k - 1] = s[k])
  OBVIOUS

-----------------------------------------------------------------------------
(* What the steps of the three processes have in common.                      *)

UserKeeps == ~ crashed /\ UNCHANGED <<isReplicaSet, createdDbs, store, known, unseen, guiQueue, crashed>>

\* A request that is neither for a reload nor for a folder to be loaded; the tree
\* does not show that it was made.
AskStep(r) ==
  /\ r \in RequestType /\ RequestSound(r) /\ r.op \notin {"list", "refresh", "load"}
  /\ requests' = Append(requests, r)
  /\ UNCHANGED <<serverVars, treeVars>>

\* createDatabase() of a replica set.
MakeStep(d) ==
  /\ isReplicaSet /\ ~ wasUnreachable
  /\ gen' = gen + 1
  /\ databases' = databases \cup {<<d, gen + 1>>}
  /\ items' = [i \in DOMAIN items \cup {<<d, gen + 1>>} |-> IF i \in DOMAIN items THEN items[i] ELSE NewItem]
  /\ label' = "count"
  /\ UNCHANGED <<requests, wasUnreachable>>

ExpandStep(i, c) ==
  /\ i \in DOMAIN items /\ items[i] # GoneItem
  /\ load(i, c)
  /\ UNCHANGED <<serverVars, label, wasUnreachable>>

\* Writing to a folder keeps the set of items.
LEMMA FolderDomains ==
  ASSUME NEW i, NEW c, NEW f
  PROVE  /\ DOMAIN SetFolder(i, c, f) = DOMAIN items
         /\ DOMAIN Loading(i, c) = DOMAIN items
         /\ DOMAIN Restored(i, c) = DOMAIN items
<1>1. ASSUME NEW g PROVE DOMAIN SetFolder(i, c, g) = DOMAIN items
  BY DEF SetFolder
<1> QED BY <1>1 DEF Loading, Restored

\* An item is of an object that was built.
LEMMA ItemsBuilt ==
  ASSUME Typed, NEW i \in DOMAIN items
  PROVE  i \in databases /\ i \in Object /\ i[1] \in Db /\ i[2] \in Nat /\ i[2] <= gen /\ i # NULL
  BY ExplorerAssumption DEF Typed, TreeTyped, ItemsLive, Object

\* What the user does is one of five things.
LEMMA UserSteps ==
  ASSUME Typed, UserNext
  PROVE  /\ UserKeeps
         /\ \/ loadDatabases /\ UNCHANGED <<serverVars, items, wasUnreachable>>
            \/ \E r : AskStep(r)
            \/ \E d \in Db : MakeStep(d)
            \/ \E i \in DOMAIN items, c \in Cat : ExpandStep(i, c)
<1> USE DEF UserKeeps, Asks
<1>1. CASE ui_refreshServer
  BY <1>1 DEF ui_refreshServer
<1>2. CASE RefreshReplicaSetFolder
  <2>1. AskStep(ServerRequest("folder", NULL))
    BY <1>2 DEF RefreshReplicaSetFolder, AskStep, ServerRequest, Request, RequestType, Op, ContentOp, ChangeOp,
                RequestSound, SenderSound
  <2> QED BY <1>2, <2>1 DEF RefreshReplicaSetFolder
<1>3. ASSUME NEW d \in Db, ui_createDatabase(d)
      PROVE  UserKeeps /\ (MakeStep(d) \/ \E r : AskStep(r))
  <2>1. ASSUME ~ isReplicaSet, requests' = Append(requests, ServerRequest("createDb", d)), UNCHANGED <<serverVars, treeVars>>
        PROVE  AskStep(ServerRequest("createDb", d))
    BY <2>1 DEF AskStep, ServerRequest, Request, RequestType, Op, ContentOp, ChangeOp, RequestSound, SenderSound
  <2> QED BY <1>3, <2>1 DEF ui_createDatabase, MakeStep
<1>4. ASSUME NEW i \in DOMAIN items, ui_dbDrop(i)
      PROVE  UserKeeps /\ \E r : AskStep(r)
  <2>1. AskStep(ServerRequest("dropDb", i[1]))
    BY <1>4, ItemsBuilt DEF ui_dbDrop, AskStep, ServerRequest, Request, RequestType, Op, ContentOp, ChangeOp,
                RequestSound, SenderSound
  <2> QED BY <1>4, <2>1 DEF ui_dbDrop
<1>5. ASSUME NEW i \in DOMAIN items, NEW c \in Cat, ExpandFolder(i, c)
      PROVE  UserKeeps /\ ExpandStep(i, c)
  BY <1>5 DEF ExpandFolder, ExpandStep, Enabled
<1>6. ASSUME NEW i \in DOMAIN items, NEW c \in Cat, NEW op \in ChangeOp, NEW n \in Name[c], NEW m \in Name[c],
             op = "duplicate" => c = Collections, ChangeContents(i, Request(op, i, i[1], c, n, m))
      PROVE  UserKeeps /\ \E r : AskStep(r)
  <2>1. Request(op, i, i[1], c, n, m) \in RequestType
    BY <1>6, ItemsBuilt DEF Request, RequestType, Op, ContentOp, AnyName
  <2>2. RequestSound(Request(op, i, i[1], c, n, m))
    BY <1>6, ItemsBuilt DEF Request, RequestSound, SenderSound, ContentOp, ChangeOp
  <2>3. AskStep(Request(op, i, i[1], c, n, m))
    BY <1>6, <2>1, <2>2 DEF AskStep, ChangeContents, Request, ChangeOp
  <2> QED BY <1>6, <2>3 DEF ChangeContents
<1>7. ASSUME NEW i \in DOMAIN items, NEW c \in Cat, NEW n \in Name[c], CreateContents(i, c, n)
      PROVE  UserKeeps /\ \E r : AskStep(r)
  <2>1. ChangeContents(i, Request("create", i, i[1], c, n, n))
    BY <1>7 DEF CreateContents, CollectionRequest, UserRequest, FunctionRequest, Cat, Collections, Users, Functions
  <2> QED BY <1>6, <2>1 DEF ChangeOp
<1>8. ASSUME NEW i \in DOMAIN items, NEW op \in {"drop", "rename", "duplicate"},
             NEW n \in Name[Collections], NEW m \in Name[Collections], ChangeCollection(i, op, n, m)
      PROVE  UserKeeps /\ \E r : AskStep(r)
  BY <1>6, <1>8 DEF ChangeCollection, CollectionRequest, Cat, ChangeOp
<1>9. ASSUME NEW i \in DOMAIN items, NEW op \in {"drop", "rename", "duplicate"},
             NEW n \in Name[Users], NEW m \in Name[Users], ChangeUser(i, op, n, m)
      PROVE  UserKeeps /\ \E r : AskStep(r)
  BY <1>6, <1>9 DEF ChangeUser, UserRequest, Cat, ChangeOp
<1>10. ASSUME NEW i \in DOMAIN items, NEW op \in {"drop", "rename", "duplicate"},
              NEW n \in Name[Functions], NEW m \in Name[Functions], ChangeFunction(i, op, n, m)
       PROVE  UserKeeps /\ \E r : AskStep(r)
  BY <1>6, <1>10 DEF ChangeFunction, FunctionRequest, Cat, ChangeOp
<1> HIDE DEF UserKeeps, Asks
<1> QED BY <1>1, <1>2, <1>3, <1>4, <1>5, <1>7, <1>8, <1>9, <1>10 DEF UserNext

\* What an answered request r has done to the contents of a folder: nothing, or the
\* answer says so, or it is among the changes nobody was told of.
FolderEffect(r, result, d, c) ==
  \/ /\ store'[d][c] = store[d][c]
     /\ <<d, c>> \in unseen => \/ <<d, c>> \in unseen'
                               \/ r.op = "load" /\ r.db = d /\ r.cat = c /\ result = "ok"
  \/ <<d, c>> \in unseen'
  \/ r.op \in ChangeOp /\ r.db = d /\ r.cat = c /\ result = "ok"
  \/ r.op \in {"createDb", "dropDb"} /\ result = "ok"

Effect(r, result, names) ==
  /\ StoreTyped'
  /\ r.op = "load" /\ result = "ok" => names = store'[r.db][r.cat]
  /\ \A d \in Db, c \in Cat : FolderEffect(r, result, d, c)

AnswerStep(r, result, names) ==
  /\ ~ crashed /\ requests # << >> /\ r = Head(requests)
  /\ Response(r, result, names) \in ReplyType /\ ReplySound(Response(r, result, names))
  /\ Reply(result, names)
  /\ Effect(r, result, names)

\* The contents of a folder are replaced.
LEMMA StoreChanged ==
  ASSUME StoreTyped, NEW d \in Db, NEW c \in Cat, NEW s \in SUBSET Name[c], store' = [store EXCEPT ![d][c] = s]
  PROVE  /\ store' \in [Db -> [Cat -> SUBSET AnyName]]
         /\ \A e \in Db, b \in Cat : store'[e][b] \subseteq Name[b]
         /\ \A e \in Db, b \in Cat : store'[e][b] = IF e = d /\ b = c THEN s ELSE store[e][b]
<1>1. s \in SUBSET AnyName
  BY DEF AnyName
<1>2. store' \in [Db -> [Cat -> SUBSET AnyName]]
  BY <1>1 DEF StoreTyped
<1>3. \A e \in Db, b \in Cat : store'[e][b] = IF e = d /\ b = c THEN s ELSE store[e][b]
  BY DEF StoreTyped
<1> QED BY <1>2, <1>3 DEF StoreTyped

\* An error is one of the two.
LEMMA ErrorsTyped == ASSUME NEW result \in Errors
                     PROVE  result \in {"error", "unreachable"} /\ (result = "unreachable" => isReplicaSet)
  BY DEF Errors

\* What the operations leave are names of the folder's kind.
LEMMA AfterTyped ==
  ASSUME NEW c \in Cat, NEW r \in RequestType, RequestSound(r), r.op \in ChangeOp, r.cat = c, NEW s \in SUBSET Name[c]
  PROVE  /\ c = Collections => \A a \in AfterCollection(r, s) : a \subseteq Name[c]
         /\ c = Users => \A a \in AfterUser(r, s) : a \subseteq Name[c]
         /\ c = Functions => \A a \in AfterFunction(r, s) : a \subseteq Name[c]
<1>1. r.name \in Name[c] /\ r.to \in Name[c] /\ r.op \in {"create", "drop", "rename", "duplicate"}
  BY DEF RequestSound, ChangeOp
<1>2. ASSUME c = Collections, NEW a \in AfterCollection(r, s) PROVE a \subseteq Name[c]
  BY <1>1, <1>2 DEF AfterCollection
<1>3. ASSUME c = Users, NEW a \in AfterUser(r, s) PROVE a \subseteq Name[c]
  <2>1. r.op # "duplicate"
    BY <1>3 DEF RequestSound, Users, Collections
  <2> QED BY <1>1, <1>3, <2>1 DEF AfterUser
<1>4. ASSUME c = Functions, NEW a \in AfterFunction(r, s) PROVE a \subseteq Name[c]
  <2>1. r.op # "duplicate"
    BY <1>4 DEF RequestSound, Functions, Collections
  <2> QED BY <1>1, <1>4, <2>1 DEF AfterFunction
<1> QED BY <1>2, <1>3, <1>4

\* The head of the requests is one.
LEMMA HeadRequest ==
  ASSUME Typed, NEW op, Takes(op)
  PROVE  /\ ~ crashed /\ requests # << >> /\ Head(requests) \in RequestType /\ RequestSound(Head(requests))
         /\ Head(requests).op \in op
<1>1. requests \in Seq(RequestType) /\ requests # << >> /\ \A k \in DOMAIN requests : RequestSound(requests[k])
  BY DEF Typed, MessagesSound, RequestsSound, Takes
<1>2. 1 \in DOMAIN requests /\ Head(requests) = requests[1] /\ Head(requests) \in RequestType
  BY <1>1, TailIndex
<1>3. RequestSound(Head(requests))
  BY <1>1, <1>2
<1> QED BY <1>1, <1>2, <1>3 DEF Takes

\* The answer to a request is a sound message.
LEMMA ResponseSound ==
  ASSUME NEW r \in RequestType, RequestSound(r), NEW result \in {"ok", "error", "unreachable"},
         NEW names \in SUBSET (AnyName \cup Db),
         r.op = "load" => names \subseteq Name[r.cat],
         r.op \in {"list", "refresh"} => names \subseteq Db,
         result = "unreachable" => isReplicaSet,
         r.op \in {"refresh", "folder"} => result # "error"
  PROVE  Response(r, result, names) \in ReplyType /\ ReplySound(Response(r, result, names))
<1>1. Response(r, result, names) \in ReplyType
  BY DEF Response, ReplyType, RequestType
<1>2. SenderSound(Response(r, result, names))
  BY DEF Response, RequestSound, SenderSound
<1> QED BY <1>1, <1>2 DEF ReplySound, Response

\* What the worker does is answer the oldest request.
LEMMA WorkerSteps ==
  ASSUME Typed, WorkerNext
  PROVE  \E r \in RequestType, result \in {"ok", "error", "unreachable"}, names \in SUBSET (AnyName \cup Db) :
           RequestSound(r) /\ AnswerStep(r, result, names)
<1> DEFINE r == Head(requests)
           Answered == \E result \in {"ok", "error", "unreachable"}, names \in SUBSET (AnyName \cup Db) :
                         AnswerStep(r, result, names)
<1>0. StoreTyped
  BY DEF Typed
<1>1. ASSUME UNCHANGED store, createdDbs' \subseteq Db, UNCHANGED <<known, unseen>>,
             NEW result, NEW names, r.op # "load" \/ result # "ok"
      PROVE  Effect(r, result, names)
  BY <1>0, <1>1 DEF Effect, FolderEffect, StoreTyped
<1>2. CASE LoadDatabaseNames
  <2>1. r \in RequestType /\ RequestSound(r) /\ r.op = "list" /\ ~ crashed /\ requests # << >>
    BY <1>2, HeadRequest DEF LoadDatabaseNames
  <2>2. PICK listed \in DatabaseNames : MergeCreated(listed)
    BY <1>2 DEF LoadDatabaseNames
  <2>3. listed \subseteq Db /\ createdDbs \subseteq Db
    BY <1>0, <2>2 DEF DatabaseNames, StoreTyped
  <2>4. PICK result \in {"ok", "error"}, names \in SUBSET Db : Reply(result, names)
    BY <2>2, <2>3 DEF MergeCreated
  <2>5. createdDbs' \subseteq Db /\ UNCHANGED <<store, known, unseen>>
    BY <1>2, <2>2, <2>3 DEF MergeCreated, LoadDatabaseNames
  <2>6. Effect(r, result, names)
    BY <1>1, <2>1, <2>5
  <2>7. Response(r, result, names) \in ReplyType /\ ReplySound(Response(r, result, names))
    BY <2>1, ResponseSound
  <2>8. AnswerStep(r, result, names)
    BY <2>1, <2>4, <2>6, <2>7 DEF AnswerStep
  <2> QED BY <2>1, <2>8
<1>3. CASE RefreshConnection
  <2>1. r \in RequestType /\ RequestSound(r) /\ r.op = "refresh" /\ ~ crashed /\ requests # << >>
    BY <1>3, HeadRequest DEF RefreshConnection
  <2>2. PICK result \in {"ok", "unreachable"}, names \in SUBSET Db : Reply(result, names)
    BY <1>3 DEF RefreshConnection, DatabaseNames
  <2>3. createdDbs' \subseteq Db /\ UNCHANGED <<store, known, unseen>>
    BY <1>0, <1>3 DEF RefreshConnection, mongoVars, StoreTyped
  <2>4. Effect(r, result, names)
    BY <1>1, <2>1, <2>3
  <2>5. isReplicaSet
    BY <2>1 DEF RequestSound, SenderSound
  <2>7. Response(r, result, names) \in ReplyType /\ ReplySound(Response(r, result, names))
    BY <2>1, <2>5, ResponseSound
  <2>8. AnswerStep(r, result, names)
    BY <2>1, <2>2, <2>4, <2>7 DEF AnswerStep
  <2> QED BY <2>1, <2>8
<1>4. CASE RefreshFolder
  <2>1. r \in RequestType /\ RequestSound(r) /\ r.op = "folder" /\ ~ crashed /\ requests # << >>
    BY <1>4, HeadRequest DEF RefreshFolder
  <2>2. PICK result \in {"ok", "unreachable"} : Reply(result, {})
    BY <1>4 DEF RefreshFolder
  <2>3. createdDbs' \subseteq Db /\ UNCHANGED <<store, known, unseen>>
    BY <1>0, <1>4 DEF RefreshFolder, mongoVars, StoreTyped
  <2>4. Effect(r, result, {})
    BY <1>1, <2>1, <2>3
  <2>5. isReplicaSet
    BY <2>1 DEF RequestSound, SenderSound
  <2>7. Response(r, result, {}) \in ReplyType /\ ReplySound(Response(r, result, {}))
    BY <2>1, <2>5, ResponseSound
  <2>8. AnswerStep(r, result, {})
    BY <2>1, <2>2, <2>4, <2>7 DEF AnswerStep
  <2> QED BY <2>1, <2>8
<1>5. CASE CreateDatabase
  <2> DEFINE d == r.db
             before == store[d][Collections]
             temps(s) == [store EXCEPT ![d][Collections] = s]
  <2>1. r \in RequestType /\ RequestSound(r) /\ r.op = "createDb" /\ ~ crashed /\ requests # << >> /\ d \in Db
    BY <1>5, HeadRequest DEF CreateDatabase, RequestSound
  <2>2. Collections \in Cat /\ before \subseteq Name[Collections] /\ before \cup {Temp} \subseteq Name[Collections]
    BY <1>0, <2>1, ExplorerAssumption DEF StoreTyped, Cat
  <2>3. PICK after \in {before, before \cup {Temp}} : store' = temps(after)
    BY <1>5 DEF CreateDatabase
  <2>4. /\ store' \in [Db -> [Cat -> SUBSET AnyName]]
        /\ \A e \in Db, b \in Cat : store'[e][b] \subseteq Name[b]
        /\ \A e \in Db, b \in Cat : store'[e][b] = IF e = d /\ b = Collections THEN after ELSE store[e][b]
    <3> after \in SUBSET Name[Collections]
      BY <2>2
    <3> HIDE DEF d
    <3> QED BY <1>0, <2>1, <2>2, <2>3, StoreChanged
  <2>5. PICK result \in {"ok", "error", "unreachable"} :
          /\ Reply(result, {})
          /\ result = "unreachable" => isReplicaSet
          /\ createdDbs' \in {createdDbs, createdDbs \cup {d}}
          /\ known' \in {known, [known EXCEPT ![d] = "created"], [known EXCEPT ![d] = "none"]}
          /\ \/ result = "ok" /\ UNCHANGED unseen
             \/ unseen' = IF store' = store THEN unseen ELSE unseen \cup {<<d, Collections>>}
    BY <1>5, ErrorsTyped DEF CreateDatabase
  <2>6. StoreTyped'
    <3>1. createdDbs' \subseteq Db
      BY <1>0, <2>1, <2>5 DEF StoreTyped
    <3>2. known' \in [Db -> {"none", "created", "dropped"}]
      BY <1>0, <2>1, <2>5 DEF StoreTyped
    <3>3. unseen' \subseteq Db \X Cat
      BY <1>0, <2>1, <2>2, <2>5 DEF StoreTyped
    <3> QED BY <2>4, <3>1, <3>2, <3>3 DEF StoreTyped
  <2>7. Effect(r, result, {})
    <3>1. CASE result = "ok"
      BY <2>1, <2>6, <3>1 DEF Effect, FolderEffect
    <3>2. CASE unseen' = IF store' = store THEN unseen ELSE unseen \cup {<<d, Collections>>}
      <4>1. ASSUME NEW e \in Db, NEW b \in Cat PROVE FolderEffect(r, result, e, b)
        BY <2>4, <3>2 DEF FolderEffect
      <4> QED BY <2>1, <2>6, <4>1 DEF Effect
    <3> QED BY <2>5, <3>1, <3>2
  <2>8. Response(r, result, {}) \in ReplyType /\ ReplySound(Response(r, result, {}))
    BY <2>1, <2>5, ResponseSound
  <2>9. AnswerStep(r, result, {})
    BY <2>1, <2>5, <2>7, <2>8 DEF AnswerStep
  <2> QED BY <2>1, <2>9
<1>6. CASE DropDatabase
  <2> DEFINE d == r.db
             dropped == [store EXCEPT ![d] = [c \in Cat |-> {}]]
  <2>1. r \in RequestType /\ RequestSound(r) /\ r.op = "dropDb" /\ ~ crashed /\ requests # << >> /\ d \in Db
    BY <1>6, HeadRequest DEF DropDatabase, RequestSound
  <2>2. store' \in {store, dropped}
    BY <1>6 DEF DropDatabase
  <2>3. PICK result \in {"ok", "error", "unreachable"} :
          /\ Reply(result, {})
          /\ result = "unreachable" => isReplicaSet
          /\ createdDbs' \in {createdDbs, createdDbs \ {d}}
          /\ known' \in {known, [known EXCEPT ![d] = "dropped"], [known EXCEPT ![d] = "none"]}
          /\ \/ result = "ok" /\ UNCHANGED unseen
             \/ unseen' = IF store' = store THEN unseen ELSE unseen \cup ({d} \X Cat)
    BY <1>6, ErrorsTyped DEF DropDatabase
  <2>4. /\ store' \in [Db -> [Cat -> SUBSET AnyName]]
        /\ \A e \in Db, b \in Cat : store'[e][b] \subseteq Name[b]
        /\ \A e \in Db, b \in Cat : store'[e][b] = store[e][b] \/ (e = d /\ store' # store)
    BY <1>0, <2>1, <2>2 DEF StoreTyped
  <2>5. StoreTyped'
    <3>1. createdDbs' \subseteq Db
      BY <1>0, <2>1, <2>3 DEF StoreTyped
    <3>2. known' \in [Db -> {"none", "created", "dropped"}]
      BY <1>0, <2>1, <2>3 DEF StoreTyped
    <3>3. unseen' \subseteq Db \X Cat
      BY <1>0, <2>1, <2>3 DEF StoreTyped
    <3> QED BY <2>4, <3>1, <3>2, <3>3 DEF StoreTyped
  <2>6. Effect(r, result, {})
    <3>1. CASE result = "ok"
      BY <2>1, <2>5, <3>1 DEF Effect, FolderEffect
    <3>2. CASE unseen' = IF store' = store THEN unseen ELSE unseen \cup ({d} \X Cat)
      <4>1. ASSUME NEW e \in Db, NEW b \in Cat PROVE FolderEffect(r, result, e, b)
        BY <2>4, <3>2 DEF FolderEffect
      <4> QED BY <2>1, <2>5, <4>1 DEF Effect
    <3> QED BY <2>3, <3>1, <3>2
  <2>8. Response(r, result, {}) \in ReplyType /\ ReplySound(Response(r, result, {}))
    BY <2>1, <2>3, ResponseSound
  <2>9. AnswerStep(r, result, {})
    BY <2>1, <2>3, <2>6, <2>8 DEF AnswerStep
  <2> QED BY <2>1, <2>9
<1>7. ASSUME NEW c \in Cat, Loads(c) PROVE r \in RequestType /\ RequestSound(r) /\ Answered
  <2>1. /\ r \in RequestType /\ RequestSound(r) /\ r.op = "load" /\ ~ crashed /\ requests # << >> /\ r.cat = c
        /\ r.db \in Db
    BY <1>7, HeadRequest DEF Loads, RequestSound, SenderSound, ContentOp, Object
  <2>2. PICK result \in {"ok", "error", "unreachable"}, names \in SUBSET Name[c] :
          /\ Reply(result, names)
          /\ result = "unreachable" => isReplicaSet
          /\ \/ result = "ok" /\ names = store[r.db][c] /\ unseen' = unseen \ {<<r.db, c>>}
             \/ result # "ok" /\ UNCHANGED unseen
    <3>1. store[r.db][c] \subseteq Name[c]
      BY <1>0, <2>1 DEF StoreTyped
    <3> QED BY <1>7, <2>1, <3>1, ErrorsTyped DEF Loads
  <2>3. UNCHANGED <<store, createdDbs, known>>
    BY <1>7 DEF Loads
  <2>4. StoreTyped'
    BY <1>0, <2>2, <2>3 DEF StoreTyped
  <2>5. Effect(r, result, names)
    <3>1. ASSUME NEW e \in Db, NEW b \in Cat PROVE FolderEffect(r, result, e, b)
      BY <2>1, <2>2, <2>3 DEF FolderEffect
    <3> QED BY <2>1, <2>2, <2>3, <2>4, <3>1 DEF Effect
  <2>6. names \in SUBSET (AnyName \cup Db)
    BY DEF AnyName
  <2>7. Response(r, result, names) \in ReplyType /\ ReplySound(Response(r, result, names))
    BY <2>1, <2>2, <2>6, ResponseSound
  <2>8. AnswerStep(r, result, names)
    BY <2>1, <2>2, <2>5, <2>7 DEF AnswerStep
  <2> QED BY <2>1, <2>6, <2>8
<1>8. ASSUME NEW c \in Cat, Changes(c) PROVE r \in RequestType /\ RequestSound(r) /\ Answered
  <2> DEFINE s == store[r.db][c]
             done == CASE c = Collections -> AfterCollection(r, s)
                       [] c = Users -> AfterUser(r, s)
                       [] c = Functions -> AfterFunction(r, s)
  <2>1. /\ r \in RequestType /\ RequestSound(r) /\ r.op \in ChangeOp /\ ~ crashed /\ requests # << >> /\ r.cat = c
        /\ r.db \in Db
    BY <1>8, HeadRequest DEF Changes, RequestSound, SenderSound, ContentOp, Object, ChangeOp
  <2>2. s \in SUBSET Name[c]
    BY <1>0, <2>1 DEF StoreTyped
  <2>3. \A a \in done : a \subseteq Name[c]
    BY <2>1, <2>2, AfterTyped DEF Cat, Collections, Users, Functions
  <2>4. PICK result \in {"ok", "error", "unreachable"}, after \in done \cup {s} :
          /\ Reply(result, {})
          /\ result = "unreachable" => isReplicaSet
          /\ store' = [store EXCEPT ![r.db][c] = after]
          /\ \/ result = "ok" /\ UNCHANGED unseen
             \/ unseen' = IF after = s THEN unseen ELSE unseen \cup {<<r.db, c>>}
    BY <1>8, ErrorsTyped DEF Changes
  <2>5. after \in SUBSET Name[c]
    BY <2>2, <2>3
  <2>6. /\ store' \in [Db -> [Cat -> SUBSET AnyName]]
        /\ \A e \in Db, b \in Cat : store'[e][b] \subseteq Name[b]
        /\ \A e \in Db, b \in Cat : store'[e][b] = IF e = r.db /\ b = c THEN after ELSE store[e][b]
    <3> DEFINE d == r.db
    <3>1. d \in Db /\ store' = [store EXCEPT ![d][c] = after]
      BY <2>1, <2>4
    <3> HIDE DEF d
    <3>2. /\ store' \in [Db -> [Cat -> SUBSET AnyName]]
          /\ \A e \in Db, b \in Cat : store'[e][b] \subseteq Name[b]
          /\ \A e \in Db, b \in Cat : store'[e][b] = IF e = d /\ b = c THEN after ELSE store[e][b]
      BY <1>0, <2>5, <3>1, StoreChanged
    <3> QED BY <3>2 DEF d
  <2>7. StoreTyped'
    <3>1. known' \in [Db -> {"none", "created", "dropped"}] /\ createdDbs' \subseteq Db
      BY <1>0, <1>8, <2>1 DEF Changes, StoreTyped
    <3>3. unseen' \subseteq Db \X Cat
      BY <1>0, <2>1, <2>4 DEF StoreTyped
    <3> QED BY <2>6, <3>1, <3>3 DEF StoreTyped
  <2>8. Effect(r, result, {})
    <3>1. ASSUME NEW e \in Db, NEW b \in Cat PROVE FolderEffect(r, result, e, b)
      BY <2>1, <2>4, <2>6 DEF FolderEffect
    <3>2. r.op # "load"
      BY <2>1 DEF ChangeOp
    <3> QED BY <2>7, <3>1, <3>2 DEF Effect
  <2>9. Response(r, result, {}) \in ReplyType /\ ReplySound(Response(r, result, {}))
    BY <2>1, <2>4, ResponseSound DEF ChangeOp
  <2>10. AnswerStep(r, result, {})
    BY <2>1, <2>4, <2>8, <2>9 DEF AnswerStep
  <2> QED BY <2>1, <2>10
<1> HIDE DEF r
<1> QED BY <1>2, <1>3, <1>4, <1>5, <1>6, <1>7, <1>8
        DEF WorkerNext, LoadCollectionNames, LoadUsers, LoadFunctions, ChangeCollections, ChangeUsers, ChangeFunctions, Cat

GuiKeeps(q) ==
  /\ ~ crashed /\ guiQueue # << >> /\ q = Head(guiQueue)
  /\ guiQueue' = Tail(guiQueue)
  /\ UNCHANGED <<isReplicaSet, mongoVars>>

\* A response to a deleted object.
DeletedStep == crashed' = TRUE /\ UNCHANGED <<serverVars, treeVars, requests>>

\* The list is built anew.
RebuildStep(q) ==
  /\ q.op \in {"list", "refresh"} /\ q.result = "ok"
  /\ Rebuild(q.names)
  /\ wasUnreachable' = (q.op = "list" /\ wasUnreachable)
  /\ UNCHANGED <<requests, crashed>>

\* There is no list.
NoListStep(q) ==
  /\ q.op = "list" /\ q.result # "ok"
  /\ label' = "plain"
  /\ UNCHANGED <<serverVars, items, wasUnreachable, requests, crashed>>

\* The primary is gone.
LostStep(q) ==
  /\ q.result = "unreachable" /\ Unreachable /\ crashed' \in BOOLEAN
  /\ UNCHANGED <<serverVars, requests>>

\* The list is asked for.
ReloadStep(q) ==
  /\ \/ q.op = "folder" /\ wasUnreachable' = FALSE
     \/ q.op \in {"createDb", "dropDb"} /\ UNCHANGED wasUnreachable
  /\ q.result = "ok" /\ loadDatabases
  /\ UNCHANGED <<serverVars, items, crashed>>

\* Nothing that the tree shows.
IdleStep(q) ==
  /\ \/ q.op = "folder" /\ q.result = "ok" /\ ~ wasUnreachable
     \/ q.op \in {"createDb", "dropDb"} /\ q.result = "error"
     \/ q.op \in ChangeOp /\ q.result = "error"
  /\ UNCHANGED <<serverVars, treeVars, requests, crashed>>

\* The contents of a folder have come, or an error instead.
LoadedStep(q) ==
  /\ q.op = "load" /\ q.sender \in databases /\ q.result # "unreachable"
  /\ \/ /\ q.result = "ok"
        /\ items' = SetFolder(q.sender, q.cat, Folder("count", q.names))
        /\ crashed' = Touches(q.sender, q.cat)
     \/ /\ q.result = "error" /\ (~ isReplicaSet \/ q.cat = Users)
        /\ items' = Restored(q.sender, q.cat)
        /\ crashed' = Touches(q.sender, q.cat)
     \/ /\ q.result = "error" /\ ~ (~ isReplicaSet \/ q.cat = Users)
        /\ UNCHANGED <<items, crashed>>
  /\ UNCHANGED <<serverVars, label, wasUnreachable, requests>>

\* A folder was changed and is loaded again.
ChangedStep(q) ==
  /\ q.op \in ChangeOp /\ q.sender \in databases /\ q.result = "ok"
  /\ load(q.sender, q.cat) /\ crashed' = Touches(q.sender, q.cat)
  /\ UNCHANGED <<serverVars, label, wasUnreachable>>

\* What the GUI thread does with the oldest answer is one of nine things.
LEMMA GuiSteps ==
  ASSUME Typed, GuiNext
  PROVE  \E q \in ReplyType :
           /\ ReplySound(q) /\ GuiKeeps(q)
           /\ \/ DeletedStep \/ RebuildStep(q) \/ NoListStep(q) \/ LostStep(q) \/ ReloadStep(q)
              \/ IdleStep(q) \/ LoadedStep(q) \/ ChangedStep(q)
<1> DEFINE q == Head(guiQueue)
<1>1. ~ crashed /\ guiQueue # << >>
  BY DEF GuiNext, HandlesDeleted, HandleDatabaseNames, HandleRefresh, HandleFolder, HandleDatabaseChanged,
         HandleContents, HandleChanged, Handles
<1>2. q \in ReplyType /\ ReplySound(q)
  <2>1. guiQueue \in Seq(ReplyType) /\ \A k \in DOMAIN guiQueue : ReplySound(guiQueue[k])
    BY DEF Typed, MessagesSound, RepliesSound
  <2>2. 1 \in DOMAIN guiQueue /\ q = guiQueue[1] /\ q \in ReplyType
    BY <1>1, <2>1, TailIndex
  <2> QED BY <2>1, <2>2
<1>3. GuiKeeps(q)
  BY <1>1 DEF GuiKeeps, GuiNext, HandlesDeleted, HandleDatabaseNames, HandleRefresh, HandleFolder, HandleDatabaseChanged,
         HandleContents, HandleChanged, Handles
<1>4. q.result \in {"ok", "error", "unreachable"} /\ crashed \in BOOLEAN /\ wasUnreachable \in BOOLEAN
  BY <1>2 DEF ReplyType, Typed
<1> HIDE DEF q
<1> SUFFICES DeletedStep \/ RebuildStep(q) \/ NoListStep(q) \/ LostStep(q) \/ ReloadStep(q)
             \/ IdleStep(q) \/ LoadedStep(q) \/ ChangedStep(q)
  BY <1>2, <1>3
<1>5. CASE HandlesDeleted
  BY <1>5 DEF HandlesDeleted, DeletedStep
<1>6. CASE HandleDatabaseNames
  BY <1>4, <1>6 DEF HandleDatabaseNames, Handles, RebuildStep, NoListStep, q
<1>7. CASE HandleRefresh
  <2>1. q.op = "refresh" /\ q.result # "error"
    BY <1>2, <1>7 DEF HandleRefresh, Handles, ReplySound, q
  <2> QED BY <1>4, <1>7, <2>1 DEF HandleRefresh, RebuildStep, LostStep, q
<1>8. CASE HandleFolder
  <2>1. q.op = "folder" /\ q.result # "error"
    BY <1>2, <1>8 DEF HandleFolder, Handles, ReplySound, q
  <2> QED BY <1>4, <1>8, <2>1 DEF HandleFolder, LostStep, ReloadStep, IdleStep, treeVars, q
<1>9. CASE HandleDatabaseChanged
  <2>1. q.op \in {"createDb", "dropDb"}
    BY <1>9 DEF HandleDatabaseChanged, Handles, q
  <2> QED BY <1>4, <1>9, <2>1 DEF HandleDatabaseChanged, LostStep, ReloadStep, IdleStep, q
<1>10. CASE HandleContents
  <2>1. q.op = "load" /\ ~ Deleted(q.sender)
    BY <1>10 DEF HandleContents, Handles, q
  <2>2. q.sender \in databases
    BY <1>2, <2>1, ExplorerAssumption DEF Deleted, ReplySound, SenderSound, ContentOp, Object
  <2>3. CASE q.result = "unreachable"
    BY <1>10, <2>3 DEF HandleContents, LostStep, Touches, q
  <2>4. CASE q.result = "ok"
    <3>1. crashed' = Touches(q.sender, q.cat)
      BY <1>10, <2>4 DEF HandleContents, Touches, q
    <3>2. items' = SetFolder(q.sender, q.cat, Folder("count", q.names))
      BY <1>10, <2>4 DEF HandleContents, q
    <3>3. UNCHANGED <<serverVars, label, wasUnreachable, requests>>
      BY <1>10, <2>4 DEF HandleContents, q
    <3> QED BY <2>1, <2>2, <2>4, <3>1, <3>2, <3>3 DEF LoadedStep
  <2>5. CASE q.result = "error"
    <3>1. crashed' = ((~ isReplicaSet \/ q.cat = Users) /\ Touches(q.sender, q.cat))
      BY <1>10, <2>5 DEF HandleContents, q
    <3>2. items' = IF ~ isReplicaSet \/ q.cat = Users THEN Restored(q.sender, q.cat) ELSE items
      BY <1>10, <2>5 DEF HandleContents, q
    <3>3. UNCHANGED <<serverVars, label, wasUnreachable, requests>>
      BY <1>10, <2>5 DEF HandleContents, q
    <3>4. CASE ~ isReplicaSet \/ q.cat = Users
      BY <2>1, <2>2, <2>5, <3>1, <3>2, <3>3, <3>4 DEF LoadedStep, Touches
    <3>5. CASE ~ (~ isReplicaSet \/ q.cat = Users)
      BY <1>1, <1>4, <2>1, <2>2, <2>5, <3>1, <3>2, <3>3, <3>5 DEF LoadedStep
    <3> QED BY <3>4, <3>5
  <2> QED BY <1>4, <2>3, <2>4, <2>5
<1>11. CASE HandleChanged
  <2>1. q.op \in ChangeOp /\ ~ Deleted(q.sender)
    BY <1>11 DEF HandleChanged, Handles, ChangeOp, q
  <2>2. q.sender \in databases
    BY <1>2, <2>1, ExplorerAssumption DEF Deleted, ReplySound, SenderSound, ContentOp, Object
  <2>3. CASE q.result = "unreachable"
    BY <1>4, <1>11, <2>3 DEF HandleChanged, LostStep, q
  <2>4. CASE q.result = "ok"
    BY <1>11, <2>1, <2>2, <2>4 DEF HandleChanged, ChangedStep, q
  <2>5. CASE q.result = "error"
    BY <1>11, <2>1, <2>5 DEF HandleChanged, IdleStep, q
  <2> QED BY <1>4, <2>3, <2>4, <2>5
<1> QED BY <1>5, <1>6, <1>7, <1>8, <1>9, <1>10, <1>11 DEF GuiNext

-----------------------------------------------------------------------------
(* Types.                                                                     *)

ItemsTyped(t) ==
  /\ t \in [DOMAIN t -> [Cat -> Shows]]
  /\ \A i \in DOMAIN t, c \in Cat : t[i][c].shown \subseteq Name[c]

\* One folder of one item is written.
LEMMA FolderSet ==
  ASSUME ItemsTyped(items), NEW i, NEW c \in Cat, NEW f \in Shows, f.shown \subseteq Name[c]
  PROVE  /\ ItemsTyped(SetFolder(i, c, f)) /\ DOMAIN SetFolder(i, c, f) = DOMAIN items
         /\ \A j \in DOMAIN items, b \in Cat :
              SetFolder(i, c, f)[j][b] = IF j = i /\ b = c THEN f ELSE items[j][b]
<1>1. CASE i \in DOMAIN items
  <2> DEFINE t == SetFolder(i, c, f)
  <2>1. t = [items EXCEPT ![i][c] = f]
    BY <1>1 DEF SetFolder
  <2>2. /\ DOMAIN t = DOMAIN items /\ t \in [DOMAIN items -> [Cat -> Shows]]
        /\ \A j \in DOMAIN items, b \in Cat : t[j][b] = IF j = i /\ b = c THEN f ELSE items[j][b]
    BY <1>1, <2>1 DEF ItemsTyped
  <2> HIDE DEF t
  <2>3. ItemsTyped(t)
    BY <2>2 DEF ItemsTyped
  <2> QED BY <2>2, <2>3 DEF t
<1>2. CASE i \notin DOMAIN items
  BY <1>2 DEF SetFolder
<1> QED BY <1>1, <1>2

\* "..." and the text without it keep what is shown.
LEMMA FolderTexts ==
  ASSUME ItemsTyped(items), NEW i, NEW c \in Cat
  PROVE  /\ ItemsTyped(Loading(i, c)) /\ DOMAIN Loading(i, c) = DOMAIN items
         /\ \A j \in DOMAIN items, b \in Cat :
              Loading(i, c)[j][b] = IF j = i /\ b = c THEN Folder("loading", items[i][c].shown) ELSE items[j][b]
         /\ ItemsTyped(Restored(i, c)) /\ DOMAIN Restored(i, c) = DOMAIN items
         /\ \A j \in DOMAIN items, b \in Cat :
              Restored(i, c)[j][b] = IF j = i /\ b = c THEN Folder("plain", items[i][c].shown) ELSE items[j][b]
<1>1. CASE i \in DOMAIN items
  <2> DEFINE f(text) == Folder(text, items[i][c].shown)
  <2>1. items[i][c].shown \in SUBSET AnyName /\ items[i][c].shown \subseteq Name[c]
    BY <1>1 DEF ItemsTyped, Shows
  <2>2. /\ f("loading") \in Shows /\ f("loading").shown \subseteq Name[c]
        /\ f("plain") \in Shows /\ f("plain").shown \subseteq Name[c]
    BY <2>1 DEF Folder, Shows
  <2> HIDE DEF f
  <2>3. Loading(i, c) = SetFolder(i, c, f("loading")) /\ Restored(i, c) = SetFolder(i, c, f("plain"))
    BY <1>1 DEF Loading, Restored, f
  <2>4. /\ ItemsTyped(SetFolder(i, c, f("loading"))) /\ DOMAIN SetFolder(i, c, f("loading")) = DOMAIN items
        /\ \A j \in DOMAIN items, b \in Cat :
             SetFolder(i, c, f("loading"))[j][b] = IF j = i /\ b = c THEN f("loading") ELSE items[j][b]
    BY <2>2, FolderSet
  <2>5. /\ ItemsTyped(SetFolder(i, c, f("plain"))) /\ DOMAIN SetFolder(i, c, f("plain")) = DOMAIN items
        /\ \A j \in DOMAIN items, b \in Cat :
             SetFolder(i, c, f("plain"))[j][b] = IF j = i /\ b = c THEN f("plain") ELSE items[j][b]
    BY <2>2, FolderSet
  <2> QED BY <2>3, <2>4, <2>5 DEF f
<1>2. CASE i \notin DOMAIN items
  BY <1>2 DEF Loading, Restored
<1> QED BY <1>1, <1>2

\* The folders of a new item and of one without folders.
LEMMA NewItemTyped ==
  /\ NewItem \in [Cat -> Shows] /\ GoneItem \in [Cat -> Shows]
  /\ \A c \in Cat : NewItem[c] = Folder("plain", {}) /\ GoneItem[c] = Folder("gone", {})
  /\ \A c \in Cat : /\ NewItem[c].shown = {} /\ GoneItem[c].shown = {}
                    /\ NewItem[c].text = "plain" /\ GoneItem[c].text = "gone"
  BY DEF NewItem, GoneItem, Folder, Shows

\* A sound message stays sound while objects are added.
LEMMA MessagesAge ==
  ASSUME gen \in Nat, gen' \in Nat, gen' >= gen, UNCHANGED isReplicaSet
  PROVE  /\ \A r \in RequestType : RequestSound(r) => RequestSound(r)'
         /\ \A q \in ReplyType : ReplySound(q) => ReplySound(q)'
<1>1. \A m : m.op \in ContentOp /\ m.sender \in Object /\ m.sender[2] <= gen => m.sender[2] <= gen'
  BY DEF Object
<1>2. \A r : SenderSound(r) => SenderSound(r)'
  BY <1>1 DEF SenderSound
<1> QED BY <1>2 DEF RequestSound, ReplySound

\* Requests after a step of the user or the GUI thread.
LEMMA RequestsKept ==
  ASSUME Typed, gen' \in Nat, gen' >= gen, UNCHANGED isReplicaSet,
         \/ requests' = requests
         \/ requests # << >> /\ requests' = Tail(requests)
         \/ \E r \in RequestType : RequestSound(r) /\ requests' = Append(requests, r)
  PROVE  RequestsSound'
<1>1. /\ requests \in Seq(RequestType) /\ gen \in Nat
      /\ \A k \in DOMAIN requests : RequestSound(requests[k]) /\ requests[k] \in RequestType
  BY DEF Typed, TreeTyped, MessagesSound, RequestsSound
<1>2. \A r \in RequestType : RequestSound(r) => RequestSound(r)'
  BY <1>1, MessagesAge
<1> SUFFICES requests' \in Seq(RequestType) /\ \A k \in DOMAIN requests' : requests'[k] \in RequestType /\ RequestSound(requests'[k])
  <2>1. ASSUME NEW k \in DOMAIN requests' PROVE \E r \in RequestType : r = requests'[k] /\ RequestSound(r)'
    BY <1>2
  <2> QED BY <2>1 DEF RequestsSound
<1>3. CASE requests' = requests
  BY <1>1, <1>3
<1>4. CASE requests # << >> /\ requests' = Tail(requests)
  BY <1>1, <1>4, TailIndex
<1>5. ASSUME NEW r \in RequestType, RequestSound(r), requests' = Append(requests, r)
      PROVE  requests' \in Seq(RequestType) /\ \A k \in DOMAIN requests' : requests'[k] \in RequestType /\ RequestSound(requests'[k])
  <2>1. /\ requests' \in Seq(RequestType)
        /\ \A k \in DOMAIN requests' : k \in DOMAIN requests \/ k = Len(requests) + 1
        /\ \A k \in DOMAIN requests : requests'[k] = requests[k]
        /\ requests'[Len(requests) + 1] = r
    BY <1>1, <1>5, AppendIndex
  <2> QED BY <1>1, <1>5, <2>1
<1> QED BY <1>3, <1>4, <1>5

\* Replies after a step of the worker or the GUI thread.
LEMMA RepliesKept ==
  ASSUME Typed, gen' \in Nat, gen' >= gen, UNCHANGED isReplicaSet,
         \/ guiQueue' = guiQueue
         \/ guiQueue # << >> /\ guiQueue' = Tail(guiQueue)
         \/ \E q \in ReplyType : ReplySound(q) /\ guiQueue' = Append(guiQueue, q)
  PROVE  RepliesSound'
<1>1. /\ guiQueue \in Seq(ReplyType) /\ gen \in Nat
      /\ \A k \in DOMAIN guiQueue : ReplySound(guiQueue[k]) /\ guiQueue[k] \in ReplyType
  BY DEF Typed, TreeTyped, MessagesSound, RepliesSound
<1>2. \A q \in ReplyType : ReplySound(q) => ReplySound(q)'
  BY <1>1, MessagesAge
<1> SUFFICES guiQueue' \in Seq(ReplyType) /\ \A k \in DOMAIN guiQueue' : guiQueue'[k] \in ReplyType /\ ReplySound(guiQueue'[k])
  <2>1. ASSUME NEW k \in DOMAIN guiQueue' PROVE \E q \in ReplyType : q = guiQueue'[k] /\ ReplySound(q)'
    BY <1>2
  <2> QED BY <2>1 DEF RepliesSound
<1>3. CASE guiQueue' = guiQueue
  BY <1>1, <1>3
<1>4. CASE guiQueue # << >> /\ guiQueue' = Tail(guiQueue)
  BY <1>1, <1>4, TailIndex
<1>5. ASSUME NEW q \in ReplyType, ReplySound(q), guiQueue' = Append(guiQueue, q)
      PROVE  guiQueue' \in Seq(ReplyType) /\ \A k \in DOMAIN guiQueue' : guiQueue'[k] \in ReplyType /\ ReplySound(guiQueue'[k])
  <2>1. /\ guiQueue' \in Seq(ReplyType)
        /\ \A k \in DOMAIN guiQueue' : k \in DOMAIN guiQueue \/ k = Len(guiQueue) + 1
        /\ \A k \in DOMAIN guiQueue : guiQueue'[k] = guiQueue[k]
        /\ guiQueue'[Len(guiQueue) + 1] = q
    BY <1>1, <1>5, AppendIndex
  <2> QED BY <1>1, <1>5, <2>1
<1> QED BY <1>3, <1>4, <1>5

\* The requests of the server and of an object for a folder.
LEMMA OwnRequests ==
  ASSUME isReplicaSet \in BOOLEAN
  PROVE  /\ ReloadRequest \in RequestType /\ RequestSound(ReloadRequest)
         /\ ReloadRequest.op \in {"list", "refresh"}
         /\ \A i \in Object, c \in Cat :
              /\ LoadRequest(i, c) \in RequestType
              /\ LoadRequest(i, c).op = "load" /\ LoadRequest(i, c).sender = i /\ LoadRequest(i, c).cat = c
              /\ i[2] <= gen => RequestSound(LoadRequest(i, c))
  BY DEF ReloadRequest, LoadRequest, ServerRequest, Request, RequestType, RequestSound, SenderSound, Object, Op, ContentOp, ChangeOp

\* What the connection has found is of its types.
LEMMA InitTyped == ASSUME Init PROVE Typed
<1>1. PICK found \in SUBSET Db \ {{}} :
        /\ store = [d \in Db |-> IF d \in found THEN Found ELSE [c \in Cat |-> {}]]
        /\ databases = Objects(found, 1)
  BY DEF Init
<1>2. Found \in [Cat -> SUBSET AnyName] /\ \A c \in Cat : Found[c] \subseteq Name[c]
  BY ExplorerAssumption DEF AnyName
<1>3. StoreTyped
  <2>1. store \in [Db -> [Cat -> SUBSET AnyName]] /\ \A d \in Db, c \in Cat : store[d][c] \subseteq Name[c]
    BY <1>1, <1>2
  <2> QED BY <2>1 DEF StoreTyped, Init
<1>4. TreeTyped
  BY <1>1, NewItemTyped DEF TreeTyped, Init, ItemsLive, Objects
<1>5. RepliesSound
  BY DEF Init, RepliesSound
<1>6. RequestsSound
  <2>1. CASE ~ isReplicaSet
    BY <2>1 DEF Init, RequestsSound
  <2>2. CASE isReplicaSet
    <3> DEFINE r == ServerRequest("folder", NULL)
    <3>1. r \in RequestType /\ RequestSound(r)
      BY <2>2 DEF ServerRequest, Request, RequestType, RequestSound, SenderSound, Op, ContentOp, ChangeOp
    <3> HIDE DEF r
    <3>2. requests = <<r>>
      BY <2>2 DEF Init, r
    <3> QED BY <3>1, <3>2 DEF RequestsSound
  <2> QED BY <2>1, <2>2
<1> QED BY <1>3, <1>4, <1>5, <1>6, ExplorerAssumption DEF Typed, MessagesSound, Init

\* The user's steps ask with sound requests and keep the types.
LEMMA UserTyped == ASSUME Typed, UserNext PROVE Typed'
<1>1. UserKeeps
  BY UserSteps
<1>2. StoreTyped'
  BY <1>1 DEF Typed, StoreTyped, UserKeeps
<1>3. gen \in Nat /\ TreeTyped /\ ItemsTyped(items) /\ isReplicaSet \in BOOLEAN
  BY DEF Typed, TreeTyped, ItemsTyped
<1>4. ASSUME gen' \in Nat, gen' >= gen, RequestsSound', TreeTyped', wasUnreachable' \in BOOLEAN
      PROVE  Typed'
  <2>1. RepliesSound'
    BY <1>1, <1>4, RepliesKept DEF UserKeeps
  <2> QED BY <1>1, <1>2, <1>4, <2>1 DEF UserKeeps, Typed, MessagesSound
<1>5. wasUnreachable \in BOOLEAN
  BY DEF Typed
<1>6. CASE loadDatabases /\ UNCHANGED <<serverVars, items, wasUnreachable>>
  <2>1. gen' = gen /\ TreeTyped'
    BY <1>3, <1>6 DEF serverVars, loadDatabases, TreeTyped, ItemsLive
  <2>2. RequestsSound'
    BY <1>1, <1>3, <1>6, <2>1, OwnRequests, RequestsKept DEF UserKeeps, loadDatabases
  <2> QED BY <1>3, <1>4, <1>5, <1>6, <2>1, <2>2
<1>7. ASSUME NEW r, AskStep(r) PROVE Typed'
  <2>1. gen' = gen /\ TreeTyped' /\ wasUnreachable' = wasUnreachable
    BY <1>3, <1>7 DEF serverVars, treeVars, AskStep, TreeTyped, ItemsLive
  <2>2. RequestsSound'
    BY <1>1, <1>3, <1>7, <2>1, RequestsKept DEF UserKeeps, AskStep
  <2> QED BY <1>3, <1>4, <1>5, <2>1, <2>2
<1>8. ASSUME NEW d \in Db, MakeStep(d) PROVE Typed'
  <2>1. gen' = gen + 1 /\ gen' \in Nat /\ gen' >= gen
    BY <1>3, <1>8 DEF MakeStep
  <2>2. databases' \subseteq Db \X (1 .. gen')
    BY <1>3, <1>8, <2>1 DEF MakeStep, TreeTyped
  <2>3. ItemsLive'
    BY <1>3, <1>8 DEF MakeStep, ItemsLive, TreeTyped
  <2>4. /\ items' \in [DOMAIN items' -> [Cat -> Shows]]
        /\ \A i \in DOMAIN items', c \in Cat : items'[i][c].shown \subseteq Name[c]
    BY <1>3, <1>8, NewItemTyped DEF MakeStep, ItemsTyped
  <2>5. TreeTyped' /\ wasUnreachable' = wasUnreachable
    BY <1>8, <2>1, <2>2, <2>3, <2>4 DEF MakeStep, TreeTyped
  <2>6. RequestsSound'
    BY <1>1, <1>3, <1>8, <2>1, RequestsKept DEF UserKeeps, MakeStep
  <2> QED BY <1>4, <1>5, <2>1, <2>5, <2>6
<1>9. ASSUME NEW i \in DOMAIN items, NEW c \in Cat, ExpandStep(i, c) PROVE Typed'
  <2>1. items' = Loading(i, c) /\ ItemsTyped(items') /\ DOMAIN items' = DOMAIN items
    BY <1>3, <1>9, FolderTexts DEF ExpandStep, load
  <2>2. gen' = gen /\ TreeTyped' /\ wasUnreachable' = wasUnreachable
    BY <1>3, <1>9, <2>1 DEF serverVars, ExpandStep, TreeTyped, ItemsLive, ItemsTyped
  <2>3. LoadRequest(i, c) \in RequestType /\ RequestSound(LoadRequest(i, c))
    BY <1>3, ItemsBuilt, OwnRequests
  <2>4. RequestsSound'
    BY <1>1, <1>3, <1>9, <2>2, <2>3, RequestsKept DEF UserKeeps, ExpandStep, load
  <2> QED BY <1>3, <1>4, <1>5, <2>2, <2>4
<1> QED BY <1>6, <1>7, <1>8, <1>9, UserSteps

\* The worker's answers are sound.
LEMMA WorkerTyped == ASSUME Typed, WorkerNext PROVE Typed'
<1>1. PICK r \in RequestType, result \in {"ok", "error", "unreachable"}, names \in SUBSET (AnyName \cup Db) :
        RequestSound(r) /\ AnswerStep(r, result, names)
  BY WorkerSteps
<1> DEFINE q == Response(r, result, names)
<1>2. /\ requests # << >> /\ requests' = Tail(requests) /\ guiQueue' = Append(guiQueue, q)
      /\ q \in ReplyType /\ ReplySound(q)
      /\ UNCHANGED <<isReplicaSet, serverVars, treeVars>>
      /\ crashed' \in BOOLEAN /\ StoreTyped'
  BY <1>1 DEF AnswerStep, Reply, Effect, Deleted
<1> HIDE DEF q
<1>3. gen \in Nat /\ gen' = gen /\ TreeTyped' /\ isReplicaSet' \in BOOLEAN /\ wasUnreachable' \in BOOLEAN
  BY <1>2 DEF serverVars, treeVars, Typed, TreeTyped, ItemsLive
<1>4. RequestsSound'
  BY <1>2, <1>3, RequestsKept
<1>5. RepliesSound'
  BY <1>2, <1>3, RepliesKept
<1> QED BY <1>2, <1>3, <1>4, <1>5 DEF Typed, MessagesSound

\* The handlers of the GUI thread keep the types, whatever the answer.
LEMMA GuiTyped == ASSUME Typed, GuiNext PROVE Typed'
<1>1. PICK q \in ReplyType :
           /\ ReplySound(q) /\ GuiKeeps(q)
           /\ \/ DeletedStep \/ RebuildStep(q) \/ NoListStep(q) \/ LostStep(q) \/ ReloadStep(q)
              \/ IdleStep(q) \/ LoadedStep(q) \/ ChangedStep(q)
  BY GuiSteps
<1>2. StoreTyped' /\ isReplicaSet' \in BOOLEAN
  BY <1>1 DEF Typed, StoreTyped, GuiKeeps, mongoVars
<1>3. /\ gen \in Nat /\ TreeTyped /\ ItemsTyped(items)
      /\ isReplicaSet \in BOOLEAN /\ wasUnreachable \in BOOLEAN /\ crashed \in BOOLEAN
  BY DEF Typed, TreeTyped, ItemsTyped
<1>4. ASSUME gen' \in Nat, gen' >= gen, RequestsSound', TreeTyped', wasUnreachable' \in BOOLEAN, crashed' \in BOOLEAN
      PROVE  Typed'
  <2>1. RepliesSound'
    BY <1>1, <1>4, RepliesKept DEF GuiKeeps
  <2> QED BY <1>1, <1>2, <1>4, <2>1 DEF Typed, MessagesSound
<1>5. ASSUME UNCHANGED <<serverVars, items>>, label' \in {"plain", "loading", "count", "offline"}
      PROVE  gen' = gen /\ TreeTyped'
  BY <1>3, <1>5 DEF serverVars, TreeTyped, ItemsLive
<1>6. ASSUME UNCHANGED requests, gen' \in Nat, gen' >= gen PROVE RequestsSound'
  BY <1>1, <1>6, RequestsKept DEF GuiKeeps
<1>7. CASE DeletedStep \/ NoListStep(q) \/ IdleStep(q)
  <2>1. UNCHANGED <<serverVars, items>> /\ label' \in {"plain", "loading", "count", "offline"} /\ UNCHANGED requests
    BY <1>3, <1>7 DEF DeletedStep, NoListStep, IdleStep, treeVars, TreeTyped
  <2>2. wasUnreachable' \in BOOLEAN /\ crashed' \in BOOLEAN
    BY <1>3, <1>7 DEF DeletedStep, NoListStep, IdleStep, treeVars
  <2> QED BY <1>3, <1>4, <1>5, <1>6, <2>1, <2>2
<1>8. CASE RebuildStep(q)
  <2>1. gen' = gen + 1 /\ gen' \in Nat /\ gen' >= gen
    BY <1>3, <1>8 DEF RebuildStep, Rebuild
  <2>2. q.names \subseteq Db
    BY <1>1, <1>8 DEF RebuildStep, ReplySound
  <2>3. databases' \subseteq Db \X (1 .. gen')
    BY <1>3, <1>8, <2>1, <2>2 DEF RebuildStep, Rebuild, Objects
  <2>4. items' = [i \in databases' |-> NewItem] /\ label' = "count"
    BY <1>8 DEF RebuildStep, Rebuild
  <2>5. TreeTyped'
    BY <2>1, <2>3, <2>4, NewItemTyped DEF TreeTyped, ItemsLive
  <2>6. wasUnreachable' \in BOOLEAN /\ crashed' \in BOOLEAN /\ UNCHANGED requests
    BY <1>3, <1>8 DEF RebuildStep
  <2> QED BY <1>4, <1>6, <2>1, <2>5, <2>6
<1>9. CASE LostStep(q)
  <2>1. gen' = gen /\ UNCHANGED requests /\ wasUnreachable' \in BOOLEAN /\ crashed' \in BOOLEAN
    BY <1>9 DEF LostStep, Unreachable, serverVars
  <2>2. TreeTyped'
    BY <1>3, <1>9, NewItemTyped DEF LostStep, Unreachable, TreeTyped, ItemsLive, serverVars
  <2> QED BY <1>3, <1>4, <1>6, <2>1, <2>2
<1>10. CASE ReloadStep(q)
  <2>1. UNCHANGED <<serverVars, items>> /\ label' = "loading" /\ requests' = Append(requests, ReloadRequest)
    BY <1>10 DEF ReloadStep, loadDatabases
  <2>2. wasUnreachable' \in BOOLEAN /\ crashed' \in BOOLEAN
    BY <1>3, <1>10 DEF ReloadStep
  <2>3. RequestsSound'
    BY <1>1, <1>3, <1>5, <2>1, OwnRequests, RequestsKept DEF GuiKeeps
  <2> QED BY <1>3, <1>4, <1>5, <2>1, <2>2, <2>3
<1>11. CASE LoadedStep(q)
  <2>1. q.cat \in Cat /\ q.names \subseteq Name[q.cat]
    BY <1>1, <1>11 DEF LoadedStep, ReplySound, SenderSound, ContentOp
  <2>2. Folder("count", q.names) \in Shows /\ Folder("count", q.names).shown \subseteq Name[q.cat]
    BY <2>1 DEF Folder, Shows, AnyName
  <2>3. ItemsTyped(items') /\ DOMAIN items' = DOMAIN items
    <3> DEFINE f == Folder("count", q.names)
    <3>1. items' = SetFolder(q.sender, q.cat, f) \/ items' = Restored(q.sender, q.cat) \/ items' = items
      BY <1>11 DEF LoadedStep
    <3> HIDE DEF f
    <3>2. ItemsTyped(SetFolder(q.sender, q.cat, f)) /\ DOMAIN SetFolder(q.sender, q.cat, f) = DOMAIN items
      BY <1>3, <2>1, <2>2, FolderSet DEF f
    <3>3. ItemsTyped(Restored(q.sender, q.cat)) /\ DOMAIN Restored(q.sender, q.cat) = DOMAIN items
      BY <1>3, <2>1, FolderTexts
    <3> QED BY <1>3, <3>1, <3>2, <3>3
  <2>4. gen' = gen /\ UNCHANGED requests /\ wasUnreachable' \in BOOLEAN
    BY <1>3, <1>11 DEF LoadedStep, serverVars
  <2>5. crashed' \in BOOLEAN
    BY <1>3, <1>11 DEF LoadedStep, Touches
  <2>6. TreeTyped'
    BY <1>3, <1>11, <2>3 DEF LoadedStep, TreeTyped, ItemsLive, ItemsTyped, serverVars
  <2> QED BY <1>3, <1>4, <1>6, <2>4, <2>5, <2>6
<1>12. CASE ChangedStep(q)
  <2>1. q.cat \in Cat /\ q.sender \in Object /\ q.sender[2] <= gen
    BY <1>1, <1>12 DEF ChangedStep, ReplySound, SenderSound, ContentOp
  <2>2. ItemsTyped(items') /\ DOMAIN items' = DOMAIN items
    BY <1>3, <1>12, <2>1, FolderTexts DEF ChangedStep, load
  <2>3. gen' = gen /\ wasUnreachable' \in BOOLEAN
    BY <1>3, <1>12 DEF ChangedStep, serverVars
  <2>4. crashed' \in BOOLEAN
    BY <1>12 DEF ChangedStep, Touches
  <2>5. TreeTyped'
    BY <1>3, <1>12, <2>2 DEF ChangedStep, TreeTyped, ItemsLive, ItemsTyped, serverVars
  <2>6. RequestsSound'
    <3>1. LoadRequest(q.sender, q.cat) \in RequestType /\ RequestSound(LoadRequest(q.sender, q.cat))
      BY <1>3, <2>1, OwnRequests
    <3>2. requests' = Append(requests, LoadRequest(q.sender, q.cat))
      BY <1>12 DEF ChangedStep, load
    <3> QED BY <1>1, <1>3, <2>3, <3>1, <3>2, RequestsKept DEF GuiKeeps
  <2> QED BY <1>3, <1>4, <2>3, <2>4, <2>5, <2>6
<1> QED BY <1>1, <1>7, <1>8, <1>9, <1>10, <1>11, <1>12

\* A step of something else keeps them.
LEMMA StutterTyped == ASSUME Typed, UNCHANGED vars PROVE Typed'
  BY DEF vars, mongoVars, serverVars, treeVars, Typed, StoreTyped, TreeTyped, ItemsLive, MessagesSound,
         RequestsSound, RepliesSound, RequestSound, ReplySound, SenderSound

-----------------------------------------------------------------------------
(* Reloads of the list that are under way.                                    *)

Reloads(m) == m.op \in {"list", "refresh"}

\* An answer that is a reload of the list, or will be followed by one.
Announces(q) == Reloads(q) \/ (q.op \in {"createDb", "dropDb"} /\ q.result = "ok")

ReloadAsked == \E k \in DOMAIN requests : Reloads(requests[k])

\* After the answers up to p the list will be loaded again.
ReloadAfter(p) == ReloadAsked \/ \E k \in DOMAIN guiQueue : k > p /\ Announces(guiQueue[k])
ReloadPending == ReloadAfter(0)

\* One more request.
LEMMA ReloadsAsk ==
  ASSUME Typed, NEW r \in RequestType, requests' = Append(requests, r)
  PROVE  ReloadAsked' <=> ReloadAsked \/ Reloads(r)
<1>1. requests \in Seq(RequestType)
  BY DEF Typed, MessagesSound, RequestsSound
<1>2. /\ \A k \in DOMAIN requests' : k \in DOMAIN requests \/ k = Len(requests) + 1
      /\ \A k \in DOMAIN requests : k \in DOMAIN requests' /\ requests'[k] = requests[k]
      /\ Len(requests) + 1 \in DOMAIN requests' /\ requests'[Len(requests) + 1] = r
  BY <1>1, AppendIndex
<1> QED BY <1>2 DEF ReloadAsked, Reloads

\* The same, after the answers up to p.
LEMMA ReloadsAskAfter ==
  ASSUME Typed, NEW r \in RequestType, requests' = Append(requests, r), UNCHANGED guiQueue, NEW p
  PROVE  ReloadAfter(p)' <=> ReloadAfter(p) \/ Reloads(r)
  BY ReloadsAsk DEF ReloadAfter, Announces, Reloads

\* A request is answered.
LEMMA ReloadsAnswer ==
  ASSUME Typed, requests # << >>, requests' = Tail(requests),
         NEW q \in ReplyType, guiQueue' = Append(guiQueue, q), q.op = Head(requests).op,
         NEW p \in 0 .. Len(guiQueue)
  PROVE  ReloadAfter(p)' <=> ReloadAfter(p) \/ Announces(q)
<1>1. requests \in Seq(RequestType) /\ guiQueue \in Seq(ReplyType)
  BY DEF Typed, MessagesSound, RequestsSound, RepliesSound
<1>2. /\ Head(requests) = requests[1] /\ 1 \in DOMAIN requests
      /\ \A k \in DOMAIN requests' : k + 1 \in DOMAIN requests /\ requests'[k] = requests[k + 1]
      /\ \A k \in DOMAIN requests : k = 1 \/ (k - 1 \in DOMAIN requests' /\ requests'[k - 1] = requests[k])
  BY <1>1, TailIndex
<1>3. /\ \A k \in DOMAIN guiQueue' : k \in DOMAIN guiQueue \/ k = Len(guiQueue) + 1
      /\ \A k \in DOMAIN guiQueue : k \in DOMAIN guiQueue' /\ guiQueue'[k] = guiQueue[k]
      /\ Len(guiQueue) \in Nat /\ Len(guiQueue) + 1 \in DOMAIN guiQueue' /\ guiQueue'[Len(guiQueue) + 1] = q
  BY <1>1, AppendIndex
<1>4. ReloadAsked <=> ReloadAsked' \/ Reloads(q)
  BY <1>2 DEF ReloadAsked, Reloads
<1>5. (\E k \in DOMAIN guiQueue' : k > p /\ Announces(guiQueue'[k]))
        <=> Announces(q) \/ \E k \in DOMAIN guiQueue : k > p /\ Announces(guiQueue[k])
  <2>1. Len(guiQueue) + 1 > p
    BY <1>3
  <2> QED BY <1>3, <2>1 DEF Announces, Reloads
<1>6. Reloads(q) => Announces(q)
  BY DEF Announces
<1>7. ReloadAfter(p)' <=> ReloadAsked' \/ \E k \in DOMAIN guiQueue' : k > p /\ Announces(guiQueue'[k])
  BY DEF ReloadAfter, Announces, Reloads
<1> QED BY <1>4, <1>5, <1>6, <1>7 DEF ReloadAfter

\* An answer is handled.
LEMMA ReloadsHandle ==
  ASSUME Typed, guiQueue # << >>, guiQueue' = Tail(guiQueue), NEW p \in Nat
  PROVE  /\ UNCHANGED requests => (ReloadAfter(p)' <=> ReloadAfter(p + 1))
         /\ ReloadAsked' => ReloadAfter(p)'
         /\ \A r \in RequestType : requests' = Append(requests, r) => (ReloadAfter(p)' <=> ReloadAfter(p + 1) \/ Reloads(r))
         /\ ReloadPending <=> ReloadAfter(1) \/ Announces(Head(guiQueue))
<1>1. guiQueue \in Seq(ReplyType)
  BY DEF Typed, MessagesSound, RepliesSound
<1>2. /\ Head(guiQueue) = guiQueue[1] /\ 1 \in DOMAIN guiQueue
      /\ DOMAIN guiQueue \subseteq Nat \ {0} /\ DOMAIN guiQueue' \subseteq Nat \ {0}
      /\ \A k \in DOMAIN guiQueue' : k + 1 \in DOMAIN guiQueue /\ guiQueue'[k] = guiQueue[k + 1]
      /\ \A k \in DOMAIN guiQueue : k = 1 \/ (k - 1 \in DOMAIN guiQueue' /\ guiQueue'[k - 1] = guiQueue[k])
  BY <1>1, TailIndex
<1>3. (\E k \in DOMAIN guiQueue' : k > p /\ Announces(guiQueue'[k]))
        <=> \E k \in DOMAIN guiQueue : k > p + 1 /\ Announces(guiQueue[k])
  <2>1. ASSUME NEW k \in DOMAIN guiQueue', k > p, Announces(guiQueue'[k])
        PROVE  \E j \in DOMAIN guiQueue : j > p + 1 /\ Announces(guiQueue[j])
    <3>1. k + 1 \in DOMAIN guiQueue /\ k + 1 > p + 1 /\ Announces(guiQueue[k + 1])
      BY <1>2, <2>1
    <3> QED BY <3>1
  <2>2. ASSUME NEW k \in DOMAIN guiQueue, k > p + 1, Announces(guiQueue[k])
        PROVE  \E j \in DOMAIN guiQueue' : j > p /\ Announces(guiQueue'[j])
    <3>1. k - 1 \in DOMAIN guiQueue' /\ k - 1 > p /\ Announces(guiQueue'[k - 1])
      BY <1>2, <2>2
    <3> QED BY <3>1
  <2> QED BY <2>1, <2>2
<1>4. ReloadAfter(p)' <=> ReloadAsked' \/ \E k \in DOMAIN guiQueue' : k > p /\ Announces(guiQueue'[k])
  BY DEF ReloadAfter, Announces, Reloads
<1>5. UNCHANGED requests => (ReloadAsked' <=> ReloadAsked)
  BY DEF ReloadAsked, Reloads
<1>6. \A r \in RequestType : requests' = Append(requests, r) => (ReloadAsked' <=> ReloadAsked \/ Reloads(r))
  BY ReloadsAsk
<1>7. ReloadPending <=> ReloadAfter(1) \/ Announces(Head(guiQueue))
  BY <1>2 DEF ReloadPending, ReloadAfter
<1> QED BY <1>3, <1>4, <1>5, <1>6, <1>7 DEF ReloadAfter

-----------------------------------------------------------------------------
(* The server's item, and which objects have items.                           *)

\* The text of the server's item says what is to come, or what the last reload
\* found; an unreachable primary is a matter of replica sets.
LabelSound ==
  /\ wasUnreachable => isReplicaSet
  /\ label = "loading" => ReloadPending
  /\ label = "offline" => wasUnreachable
  /\ wasUnreachable /\ ~ ReloadPending => label = "offline"
  /\ isReplicaSet => label # "plain"

\* Only a lost primary takes items away from objects, until the next reload.
ObjectsSound == ~ isReplicaSet \/ (~ wasUnreachable /\ ~ ReloadPending) => DOMAIN items = databases

\* What is left of the tree without a primary has no folders.
GoneSound == wasUnreachable => \A i \in DOMAIN items : items[i] = GoneItem

Structure == LabelSound /\ ObjectsSound /\ GoneSound

\* The first list is shown, with an item for each object.
LEMMA InitStructure == ASSUME Init PROVE Structure
  BY DEF Init, Structure, LabelSound, ObjectsSound, GoneSound

\* The user's steps keep the server's item and the objects in step.
LEMMA UserStructure == ASSUME Typed, Structure, UserNext PROVE Structure'
<1>1. UserKeeps /\ isReplicaSet \in BOOLEAN
  BY UserSteps DEF Typed
<1>2. CASE loadDatabases /\ UNCHANGED <<serverVars, items, wasUnreachable>>
  <2>1. ReloadRequest \in RequestType /\ Reloads(ReloadRequest)
    BY <1>1, OwnRequests DEF Reloads
  <2>2. ReloadPending'
    BY <1>1, <1>2, <2>1, ReloadsAskAfter DEF UserKeeps, loadDatabases, ReloadPending
  <2>3. LabelSound'
    BY <1>1, <1>2, <2>2 DEF Structure, LabelSound, loadDatabases, UserKeeps
  <2>4. ObjectsSound'
    BY <1>1, <1>2, <2>2 DEF Structure, ObjectsSound, UserKeeps, serverVars
  <2>5. GoneSound'
    BY <1>2 DEF Structure, GoneSound
  <2> QED BY <2>3, <2>4, <2>5 DEF Structure
<1>3. ASSUME NEW r, AskStep(r) PROVE Structure'
  <2>1. r \in RequestType /\ ~ Reloads(r) /\ requests' = Append(requests, r) /\ UNCHANGED guiQueue
    BY <1>1, <1>3 DEF AskStep, Reloads, UserKeeps
  <2>2. ReloadPending' <=> ReloadPending
    BY <2>1, ReloadsAskAfter DEF ReloadPending
  <2> QED BY <1>1, <1>3, <2>2 DEF AskStep, UserKeeps, serverVars, treeVars, Structure, LabelSound, ObjectsSound, GoneSound
<1>4. ASSUME NEW d \in Db, MakeStep(d) PROVE Structure'
  <2>1. ReloadPending' <=> ReloadPending
    BY <1>1, <1>4 DEF MakeStep, UserKeeps, ReloadPending, ReloadAfter, ReloadAsked, Reloads, Announces
  <2>2. LabelSound'
    BY <1>1, <1>4, <2>1 DEF MakeStep, UserKeeps, Structure, LabelSound
  <2>3. ObjectsSound'
    BY <1>1, <1>4, <2>1 DEF MakeStep, UserKeeps, Structure, ObjectsSound
  <2>4. GoneSound'
    BY <1>4 DEF MakeStep, GoneSound
  <2> QED BY <2>2, <2>3, <2>4 DEF Structure
<1>5. ASSUME NEW i \in DOMAIN items, NEW c \in Cat, ExpandStep(i, c) PROVE Structure'
  <2>1. LoadRequest(i, c) \in RequestType /\ ~ Reloads(LoadRequest(i, c)) /\ requests' = Append(requests, LoadRequest(i, c))
    BY <1>1, <1>5, ItemsBuilt, OwnRequests DEF ExpandStep, load, Reloads
  <2>2. ReloadPending' <=> ReloadPending
    BY <1>1, <2>1, ReloadsAskAfter DEF ReloadPending, UserKeeps
  <2>3. DOMAIN items' = DOMAIN items /\ UNCHANGED <<databases, label, wasUnreachable, isReplicaSet>> /\ ~ wasUnreachable
    BY <1>1, <1>5, FolderDomains DEF ExpandStep, load, serverVars, UserKeeps, Structure, GoneSound
  <2> QED BY <2>2, <2>3 DEF Structure, LabelSound, ObjectsSound, GoneSound
<1> QED BY <1>2, <1>3, <1>4, <1>5, UserSteps

\* So do the worker's: an answer replaces a request that was pending.
LEMMA WorkerStructure == ASSUME Typed, Structure, WorkerNext PROVE Structure'
<1>1. PICK r \in RequestType, result \in {"ok", "error", "unreachable"}, names \in SUBSET (AnyName \cup Db) :
        RequestSound(r) /\ AnswerStep(r, result, names)
  BY WorkerSteps
<1> DEFINE q == Response(r, result, names)
<1>2. /\ requests # << >> /\ requests' = Tail(requests) /\ guiQueue' = Append(guiQueue, q)
      /\ q \in ReplyType /\ q.op = Head(requests).op
      /\ UNCHANGED <<isReplicaSet, serverVars, treeVars>>
  BY <1>1 DEF AnswerStep, Reply, Response
<1> HIDE DEF q
<1>3. guiQueue \in Seq(ReplyType)
  BY DEF Typed, MessagesSound, RepliesSound
<1>4. ReloadPending' <=> ReloadPending \/ Announces(q)
  BY <1>2, <1>3, ReloadsAnswer DEF ReloadPending
<1> QED BY <1>2, <1>4 DEF serverVars, treeVars, Structure, LabelSound, ObjectsSound, GoneSound

\* What becomes of the pending reloads when the answer q is handled.
LEMMA PendingHandled ==
  ASSUME Typed, NEW q \in ReplyType, GuiKeeps(q)
  PROVE  /\ UNCHANGED requests => (ReloadPending' <=> ReloadAfter(1))
         /\ \A r \in RequestType : requests' = Append(requests, r) => (ReloadPending' <=> ReloadAfter(1) \/ Reloads(r))
         /\ ReloadPending <=> ReloadAfter(1) \/ Announces(q)
<1>1. guiQueue # << >> /\ guiQueue' = Tail(guiQueue) /\ q = Head(guiQueue)
  BY DEF GuiKeeps
<1>2. /\ UNCHANGED requests => (ReloadAfter(0)' <=> ReloadAfter(0 + 1))
      /\ \A r \in RequestType : requests' = Append(requests, r) => (ReloadAfter(0)' <=> ReloadAfter(0 + 1) \/ Reloads(r))
      /\ ReloadPending <=> ReloadAfter(1) \/ Announces(Head(guiQueue))
  BY <1>1, ReloadsHandle
<1> QED BY <1>1, <1>2 DEF ReloadPending

\* So do the handlers: a list, a lost primary and a reload go with the text.
LEMMA GuiStructure == ASSUME Typed, Structure, GuiNext, ~ crashed' PROVE Structure'
<1>1. PICK q \in ReplyType :
           /\ ReplySound(q) /\ GuiKeeps(q)
           /\ \/ DeletedStep \/ RebuildStep(q) \/ NoListStep(q) \/ LostStep(q) \/ ReloadStep(q)
              \/ IdleStep(q) \/ LoadedStep(q) \/ ChangedStep(q)
  BY GuiSteps
<1>2. isReplicaSet' = isReplicaSet /\ isReplicaSet \in BOOLEAN /\ wasUnreachable \in BOOLEAN /\ ItemsTyped(items)
  BY <1>1 DEF GuiKeeps, Typed, TreeTyped, ItemsTyped
<1>3. /\ UNCHANGED requests => (ReloadPending' <=> ReloadAfter(1))
      /\ \A r \in RequestType : requests' = Append(requests, r) => (ReloadPending' <=> ReloadAfter(1) \/ Reloads(r))
      /\ ReloadPending <=> ReloadAfter(1) \/ Announces(q)
  BY <1>1, PendingHandled
<1>4. CASE RebuildStep(q)
  <2>1. label' = "count" /\ DOMAIN items' = databases' /\ UNCHANGED requests
    BY <1>4 DEF RebuildStep, Rebuild
  <2>2. wasUnreachable' = FALSE
    BY <1>1, <1>2, <1>4 DEF RebuildStep, Structure, LabelSound, ReplySound, SenderSound
  <2> QED BY <1>2, <2>1, <2>2 DEF Structure, LabelSound, ObjectsSound, GoneSound
<1>5. CASE NoListStep(q)
  <2>1. ~ isReplicaSet /\ ~ wasUnreachable
    BY <1>1, <1>5 DEF NoListStep, ReplySound, SenderSound, Structure, LabelSound
  <2> QED BY <1>2, <1>5, <2>1 DEF NoListStep, serverVars, Structure, LabelSound, ObjectsSound, GoneSound
<1>6. CASE LostStep(q)
  <2>1. isReplicaSet
    BY <1>1, <1>6 DEF LostStep, ReplySound
  <2> QED BY <1>2, <1>6, <2>1 DEF LostStep, Unreachable, Structure, LabelSound, ObjectsSound, GoneSound
<1>7. CASE ReloadStep(q)
  <2>1. ReloadRequest \in RequestType /\ Reloads(ReloadRequest) /\ requests' = Append(requests, ReloadRequest)
    BY <1>2, <1>7, OwnRequests DEF Reloads, ReloadStep, loadDatabases
  <2>2. ReloadPending'
    BY <1>3, <2>1
  <2>3. label' = "loading" /\ UNCHANGED <<databases, items>> /\ (wasUnreachable' => wasUnreachable)
    BY <1>7 DEF ReloadStep, loadDatabases, serverVars
  <2>4. LabelSound'
    BY <1>2, <2>2, <2>3 DEF Structure, LabelSound
  <2>5. ObjectsSound'
    BY <1>2, <2>2, <2>3 DEF Structure, ObjectsSound
  <2>6. GoneSound'
    BY <2>3 DEF Structure, GoneSound
  <2> QED BY <2>4, <2>5, <2>6 DEF Structure
<1>8. CASE IdleStep(q)
  <2>1. ~ Announces(q) /\ UNCHANGED <<databases, treeVars, requests>>
    BY <1>8 DEF IdleStep, Announces, Reloads, ChangeOp, serverVars
  <2>2. ReloadPending' <=> ReloadPending
    BY <1>3, <2>1
  <2> QED BY <1>2, <2>1, <2>2 DEF treeVars, Structure, LabelSound, ObjectsSound, GoneSound
<1>9. CASE LoadedStep(q)
  <2>1. ~ Announces(q) /\ UNCHANGED <<databases, label, wasUnreachable, requests>> /\ q.cat \in Cat
    BY <1>1, <1>9 DEF LoadedStep, Announces, Reloads, serverVars, ReplySound, SenderSound, ContentOp
  <2>2. ReloadPending' <=> ReloadPending
    BY <1>3, <2>1
  <2>3. DOMAIN items' = DOMAIN items
    BY <1>9, FolderDomains DEF LoadedStep
  <2>4. items' = items \/ ~ Touches(q.sender, q.cat)
    BY <1>9 DEF LoadedStep
  <2>5. wasUnreachable => q.sender \notin DOMAIN items \/ items' = items
    BY <2>1, <2>4, NewItemTyped DEF Touches, Structure, GoneSound
  <2>6. q.sender \notin DOMAIN items => items' = items
    BY <1>9 DEF LoadedStep, SetFolder, Restored
  <2> QED BY <1>2, <2>1, <2>2, <2>3, <2>5, <2>6 DEF Structure, LabelSound, ObjectsSound, GoneSound
<1>10. CASE ChangedStep(q)
  <2>1. /\ ~ Announces(q) /\ UNCHANGED <<databases, label, wasUnreachable>> /\ q.cat \in Cat /\ q.sender \in Object
        /\ requests' = Append(requests, LoadRequest(q.sender, q.cat)) /\ items' = Loading(q.sender, q.cat)
    BY <1>1, <1>10 DEF ChangedStep, Announces, Reloads, serverVars, ReplySound, SenderSound, ContentOp, ChangeOp, load
  <2>2. LoadRequest(q.sender, q.cat) \in RequestType /\ ~ Reloads(LoadRequest(q.sender, q.cat))
    BY <1>2, <2>1, OwnRequests DEF Reloads
  <2>3. ReloadPending' <=> ReloadPending
    BY <1>3, <2>1, <2>2
  <2>4. DOMAIN items' = DOMAIN items
    BY <2>1, FolderDomains
  <2>5. wasUnreachable => q.sender \notin DOMAIN items
    <3>1. ~ Touches(q.sender, q.cat)
      BY <1>10 DEF ChangedStep
    <3> QED BY <2>1, <3>1, NewItemTyped DEF Touches, Structure, GoneSound
  <2>6. q.sender \notin DOMAIN items => items' = items
    BY <2>1 DEF Loading
  <2> QED BY <1>2, <2>1, <2>3, <2>4, <2>5, <2>6 DEF Structure, LabelSound, ObjectsSound, GoneSound
<1> QED BY <1>1, <1>4, <1>5, <1>6, <1>7, <1>8, <1>9, <1>10 DEF DeletedStep

-----------------------------------------------------------------------------
(* Folders that say "...".                                                    *)

IsLoad(m, i, c) == m.op = "load" /\ m.sender = i /\ m.cat = c

LoadUnderWay(i, c) ==
  \/ \E k \in DOMAIN requests : IsLoad(requests[k], i, c)
  \/ \E k \in DOMAIN guiQueue : IsLoad(guiQueue[k], i, c)

\* A folder says "..." only as long as its contents, or an error, are to come; on a
\* replica set this is so for users only.
LoadingSound ==
  \A i \in DOMAIN items, c \in Cat :
    items[i][c].text = "loading" /\ (~ isReplicaSet \/ c = Users) => LoadUnderWay(i, c)

\* The requests of a step of the user or the GUI thread contain those before it.
LEMMA RequestsGrow ==
  ASSUME Typed, requests' = requests \/ \E r \in RequestType : requests' = Append(requests, r)
  PROVE  \A k \in DOMAIN requests : k \in DOMAIN requests' /\ requests'[k] = requests[k]
<1>1. requests \in Seq(RequestType)
  BY DEF Typed, MessagesSound, RequestsSound
<1> QED BY <1>1, AppendIndex

\* A load that is under way stays so until its answer is handled.
LEMMA LoadsStay ==
  ASSUME Typed, requests' = requests \/ \E r \in RequestType : requests' = Append(requests, r),
         NEW i, NEW c, LoadUnderWay(i, c),
         \/ UNCHANGED guiQueue
         \/ guiQueue # << >> /\ guiQueue' = Tail(guiQueue) /\ ~ IsLoad(Head(guiQueue), i, c)
  PROVE  LoadUnderWay(i, c)'
<1>1. CASE \E k \in DOMAIN requests : IsLoad(requests[k], i, c)
  BY <1>1, RequestsGrow DEF LoadUnderWay, IsLoad
<1>2. ASSUME NEW k \in DOMAIN guiQueue, IsLoad(guiQueue[k], i, c) PROVE LoadUnderWay(i, c)'
  <2>1. CASE UNCHANGED guiQueue
    BY <1>2, <2>1 DEF LoadUnderWay, IsLoad
  <2>2. CASE guiQueue # << >> /\ guiQueue' = Tail(guiQueue) /\ ~ IsLoad(Head(guiQueue), i, c)
    <3>1. guiQueue \in Seq(ReplyType)
      BY DEF Typed, MessagesSound, RepliesSound
    <3>2. k - 1 \in DOMAIN guiQueue' /\ guiQueue'[k - 1] = guiQueue[k]
      BY <1>2, <2>2, <3>1, TailIndex
    <3> QED BY <1>2, <3>2 DEF LoadUnderWay, IsLoad
  <2> QED BY <2>1, <2>2
<1> QED BY <1>1, <1>2 DEF LoadUnderWay

\* A new request for a folder.
LEMMA LoadAsked ==
  ASSUME Typed, NEW i \in Object, NEW c \in Cat, requests' = Append(requests, LoadRequest(i, c))
  PROVE  LoadRequest(i, c) \in RequestType /\ LoadUnderWay(i, c)'
<1>1. LoadRequest(i, c) \in RequestType /\ IsLoad(LoadRequest(i, c), i, c)
  BY OwnRequests DEF Typed, IsLoad
<1>2. requests \in Seq(RequestType)
  BY DEF Typed, MessagesSound, RequestsSound
<1>3. Len(requests) + 1 \in DOMAIN requests' /\ requests'[Len(requests) + 1] = LoadRequest(i, c)
  BY <1>1, <1>2, AppendIndex
<1> QED BY <1>1, <1>3 DEF LoadUnderWay, IsLoad

\* The user's steps write "..." with a request for the folder only.
LEMMA UserLoading == ASSUME Typed, LoadingSound, UserNext PROVE LoadingSound'
<1>1. UserKeeps /\ isReplicaSet \in BOOLEAN /\ ItemsTyped(items)
  BY UserSteps DEF Typed, TreeTyped, ItemsTyped
<1>2. ASSUME requests' = requests \/ \E r \in RequestType : requests' = Append(requests, r),
             \A j \in DOMAIN items', b \in Cat :
               items'[j][b].text = "loading" => \/ j \in DOMAIN items /\ items[j][b].text = "loading"
                                                \/ LoadUnderWay(j, b)'
      PROVE  LoadingSound'
  <2> SUFFICES ASSUME NEW j \in DOMAIN items', NEW b \in Cat, items'[j][b].text = "loading", ~ isReplicaSet \/ b = Users
               PROVE  LoadUnderWay(j, b)'
    BY <1>1 DEF LoadingSound, UserKeeps
  <2>1. LoadUnderWay(j, b)' \/ LoadUnderWay(j, b)
    BY <1>2 DEF LoadingSound
  <2> QED BY <1>1, <1>2, <2>1, LoadsStay DEF UserKeeps
<1>3. CASE loadDatabases /\ UNCHANGED <<serverVars, items, wasUnreachable>>
  BY <1>1, <1>2, <1>3, OwnRequests DEF loadDatabases
<1>4. ASSUME NEW r, AskStep(r) PROVE LoadingSound'
  BY <1>2, <1>4 DEF AskStep, treeVars
<1>5. ASSUME NEW d \in Db, MakeStep(d) PROVE LoadingSound'
  BY <1>2, <1>5, NewItemTyped DEF MakeStep
<1>6. ASSUME NEW i \in DOMAIN items, NEW c \in Cat, ExpandStep(i, c) PROVE LoadingSound'
  <2>1. LoadRequest(i, c) \in RequestType /\ LoadUnderWay(i, c)' /\ requests' = Append(requests, LoadRequest(i, c))
    BY <1>6, ItemsBuilt, LoadAsked DEF ExpandStep, load
  <2>2. /\ DOMAIN items' = DOMAIN items
        /\ \A j \in DOMAIN items, b \in Cat : (j = i /\ b = c) \/ items'[j][b] = items[j][b]
    BY <1>1, <1>6, FolderTexts DEF ExpandStep, load
  <2> QED BY <1>2, <2>1, <2>2
<1> QED BY <1>3, <1>4, <1>5, <1>6, UserSteps

\* The answer to a load takes the place of its request.
LEMMA WorkerLoading == ASSUME Typed, LoadingSound, WorkerNext PROVE LoadingSound'
<1>1. PICK r \in RequestType, result \in {"ok", "error", "unreachable"}, names \in SUBSET (AnyName \cup Db) :
        RequestSound(r) /\ AnswerStep(r, result, names)
  BY WorkerSteps
<1> DEFINE q == Response(r, result, names)
<1>2. /\ requests # << >> /\ requests' = Tail(requests) /\ guiQueue' = Append(guiQueue, q)
      /\ q \in ReplyType /\ r = Head(requests) /\ \A i, c : IsLoad(q, i, c) <=> IsLoad(r, i, c)
      /\ UNCHANGED <<isReplicaSet, items>>
  BY <1>1 DEF AnswerStep, Reply, Response, IsLoad, treeVars
<1> HIDE DEF q
<1>3. guiQueue \in Seq(ReplyType) /\ requests \in Seq(RequestType)
  BY DEF Typed, MessagesSound, RepliesSound, RequestsSound
<1>4. /\ \A k \in DOMAIN guiQueue : k \in DOMAIN guiQueue' /\ guiQueue'[k] = guiQueue[k]
      /\ Len(guiQueue) + 1 \in DOMAIN guiQueue' /\ guiQueue'[Len(guiQueue) + 1] = q
  BY <1>2, <1>3, AppendIndex
<1>5. \A k \in DOMAIN requests : requests[k] = r \/ (k - 1 \in DOMAIN requests' /\ requests'[k - 1] = requests[k])
  BY <1>2, <1>3, TailIndex
<1>6. ASSUME NEW i, NEW c, LoadUnderWay(i, c) PROVE LoadUnderWay(i, c)'
  <2>1. CASE \E k \in DOMAIN guiQueue : IsLoad(guiQueue[k], i, c)
    BY <1>4, <2>1 DEF LoadUnderWay, IsLoad
  <2>2. CASE \E k \in DOMAIN requests : IsLoad(requests[k], i, c)
    <3>1. CASE IsLoad(r, i, c)
      <4>1. IsLoad(guiQueue'[Len(guiQueue) + 1], i, c)
        BY <1>2, <1>4, <3>1
      <4> QED BY <1>4, <4>1 DEF LoadUnderWay, IsLoad
    <3>2. CASE ~ IsLoad(r, i, c)
      BY <1>5, <2>2, <3>2 DEF LoadUnderWay, IsLoad
    <3> QED BY <3>1, <3>2
  <2> QED BY <1>6, <2>1, <2>2 DEF LoadUnderWay
<1> QED BY <1>2, <1>6 DEF LoadingSound

\* Handling the answer takes the "..." away, where the code does so.
LEMMA GuiLoading == ASSUME Typed, LoadingSound, GuiNext, ~ crashed' PROVE LoadingSound'
<1>1. PICK q \in ReplyType :
           /\ ReplySound(q) /\ GuiKeeps(q)
           /\ \/ DeletedStep \/ RebuildStep(q) \/ NoListStep(q) \/ LostStep(q) \/ ReloadStep(q)
              \/ IdleStep(q) \/ LoadedStep(q) \/ ChangedStep(q)
  BY GuiSteps
<1>2. isReplicaSet' = isReplicaSet /\ isReplicaSet \in BOOLEAN /\ ItemsTyped(items)
  BY <1>1 DEF GuiKeeps, Typed, TreeTyped, ItemsTyped
<1>3. ASSUME requests' = requests \/ \E r \in RequestType : requests' = Append(requests, r),
             \A j \in DOMAIN items', b \in Cat :
               items'[j][b].text = "loading" /\ (~ isReplicaSet \/ b = Users)
                 => \/ j \in DOMAIN items /\ items[j][b].text = "loading" /\ ~ IsLoad(q, j, b)
                    \/ LoadUnderWay(j, b)'
      PROVE  LoadingSound'
  <2> SUFFICES ASSUME NEW j \in DOMAIN items', NEW b \in Cat, items'[j][b].text = "loading", ~ isReplicaSet \/ b = Users
               PROVE  LoadUnderWay(j, b)'
    BY <1>2 DEF LoadingSound
  <2>1. LoadUnderWay(j, b)' \/ (LoadUnderWay(j, b) /\ ~ IsLoad(q, j, b))
    BY <1>3 DEF LoadingSound
  <2>2. guiQueue # << >> /\ guiQueue' = Tail(guiQueue) /\ q = Head(guiQueue)
    BY <1>1 DEF GuiKeeps
  <2> QED BY <1>3, <2>1, <2>2, LoadsStay
<1>4. CASE RebuildStep(q)
  BY <1>3, <1>4, NewItemTyped DEF RebuildStep, Rebuild
<1>5. CASE LostStep(q)
  BY <1>3, <1>5, NewItemTyped DEF LostStep, Unreachable
<1>6. CASE NoListStep(q) \/ IdleStep(q)
  <2>1. UNCHANGED <<requests, items>> /\ \A j, b : ~ IsLoad(q, j, b)
    BY <1>6 DEF NoListStep, IdleStep, treeVars, IsLoad, ChangeOp
  <2> QED BY <1>3, <2>1
<1>7. CASE ReloadStep(q)
  <2>1. UNCHANGED items /\ \A j, b : ~ IsLoad(q, j, b)
    BY <1>7 DEF ReloadStep, IsLoad
  <2>2. \E r \in RequestType : requests' = Append(requests, r)
    BY <1>2, <1>7, OwnRequests DEF ReloadStep, loadDatabases
  <2> QED BY <1>3, <2>1, <2>2
<1>8. CASE LoadedStep(q)
  <2> DEFINE i == q.sender
             c == q.cat
             f == Folder("count", q.names)
  <2>1. c \in Cat /\ UNCHANGED requests /\ f.text = "count"
    BY <1>1, <1>8 DEF LoadedStep, ReplySound, SenderSound, ContentOp, Folder
  <2>2. f \in Shows /\ f.shown \subseteq Name[c]
    BY <1>1, <1>8, <2>1 DEF Folder, Shows, AnyName, LoadedStep, ReplySound
  <2>3. \A j, b : IsLoad(q, j, b) => j = i /\ b = c
    BY DEF IsLoad
  <2>4. CASE items' = SetFolder(i, c, f)
    <3> HIDE DEF f, i, c
    <3>1. /\ DOMAIN items' = DOMAIN items
          /\ \A j \in DOMAIN items, b \in Cat : items'[j][b] = IF j = i /\ b = c THEN f ELSE items[j][b]
      BY <1>2, <2>1, <2>2, <2>4, FolderSet
    <3> QED BY <1>3, <2>1, <2>3, <3>1
  <2>5. CASE items' = Restored(i, c)
    <3>1. /\ DOMAIN items' = DOMAIN items
          /\ \A j \in DOMAIN items, b \in Cat :
               items'[j][b] = IF j = i /\ b = c THEN Folder("plain", items[i][c].shown) ELSE items[j][b]
      BY <1>2, <2>1, <2>5, FolderTexts
    <3>2. \A s : Folder("plain", s).text = "plain"
      BY DEF Folder
    <3> QED BY <1>3, <2>1, <2>3, <3>1, <3>2
  <2>6. CASE UNCHANGED items /\ ~ (~ isReplicaSet \/ c = Users)
    <3>1. \A j, b : ~ isReplicaSet \/ b = Users => ~ IsLoad(q, j, b)
      BY <2>3, <2>6
    <3> QED BY <1>3, <2>1, <2>6, <3>1
  <2> QED BY <1>8, <2>4, <2>5, <2>6 DEF LoadedStep
<1>9. CASE ChangedStep(q)
  <2> DEFINE i == q.sender
             c == q.cat
  <2>1. c \in Cat /\ i \in Object /\ \A j, b : ~ IsLoad(q, j, b)
    BY <1>1, <1>9 DEF ChangedStep, ReplySound, SenderSound, ContentOp, IsLoad, ChangeOp
  <2>2. requests' = Append(requests, LoadRequest(i, c)) /\ items' = Loading(i, c)
    BY <1>9 DEF ChangedStep, load
  <2> HIDE DEF i, c
  <2>3. LoadRequest(i, c) \in RequestType /\ LoadUnderWay(i, c)'
    BY <2>1, <2>2, LoadAsked
  <2>4. /\ DOMAIN items' = DOMAIN items
        /\ \A j \in DOMAIN items, b \in Cat : (j = i /\ b = c) \/ items'[j][b] = items[j][b]
    BY <1>2, <2>1, <2>2, FolderTexts
  <2> QED BY <1>3, <2>1, <2>2, <2>3, <2>4
<1> QED BY <1>1, <1>4, <1>5, <1>6, <1>7, <1>8, <1>9 DEF DeletedStep

-----------------------------------------------------------------------------
(* What the folders show.                                                     *)

\* An answer after which the folder shows other contents, or is loaded again.
Updates(q, i, c) == q.sender = i /\ q.cat = c /\ q.result = "ok"
UpdateAfter(p, i, c) == \E k \in DOMAIN guiQueue : k > p /\ Updates(guiQueue[k], i, c)

\* The names are MongoDB's, or an answer after the p-th will correct them, or they
\* were changed by an operation that was reported as failed.
UpToDate(names, p, i, c) ==
  names = store[i[1]][c] \/ <<i[1], c>> \in unseen \/ UpdateAfter(p, i, c)

\* This is so for what a folder shows, and for the contents on their way to it.
FolderSound(i, c) ==
  /\ items[i][c].text = "count" => UpToDate(items[i][c].shown, 0, i, c)
  /\ \A p \in DOMAIN guiQueue :
       IsLoad(guiQueue[p], i, c) /\ guiQueue[p].result = "ok" => UpToDate(guiQueue[p].names, p, i, c)

Steady == ~ ReloadPending /\ ~ wasUnreachable /\ label = "count"
Alone(i) == \A j \in DOMAIN items : j[1] = i[1] => j = i

FoldersSound == Steady => \A i \in DOMAIN items, c \in Cat : Alone(i) => FolderSound(i, c)

\* The object of a message is older than the next generation.
LEMMA NoMessageAhead ==
  ASSUME Typed, NEW d \in Db, NEW k \in DOMAIN guiQueue
  PROVE  guiQueue[k].sender # <<d, gen + 1>>
<1>1. guiQueue[k] \in ReplyType /\ SenderSound(guiQueue[k]) /\ gen \in Nat
  BY DEF Typed, TreeTyped, MessagesSound, RepliesSound, ReplySound
<1>2. CASE guiQueue[k].op \in ContentOp
  BY <1>1, <1>2 DEF SenderSound, Object
<1>3. CASE guiQueue[k].op \notin ContentOp
  <2>1. <<d, gen + 1>> \in Db \X Nat
    BY <1>1
  <2>2. <<d, gen + 1>> # NULL
    BY <2>1, ExplorerAssumption
  <2> QED BY <1>1, <1>3, <2>2 DEF SenderSound
<1> QED BY <1>2, <1>3

\* A folder that is not written keeps what it has while no answer comes or goes.
LEMMA FolderKept ==
  ASSUME NEW i, NEW c, UNCHANGED <<guiQueue, store, unseen>>, FolderSound(i, c),
         items'[i][c].text = "count" => items'[i][c] = items[i][c]
  PROVE  FolderSound(i, c)'
<1>1. ASSUME NEW names, NEW p, UpToDate(names, p, i, c) PROVE UpToDate(names, p, i, c)'
  BY <1>1 DEF UpToDate, UpdateAfter, Updates
<1>2. ASSUME items'[i][c].text = "count" PROVE UpToDate(items[i][c].shown, 0, i, c)'
  BY <1>1, <1>2 DEF FolderSound
<1>3. ASSUME NEW p \in DOMAIN guiQueue, IsLoad(guiQueue[p], i, c), guiQueue[p].result = "ok"
      PROVE  UpToDate(guiQueue[p].names, p, i, c)'
  BY <1>1, <1>3 DEF FolderSound
<1>4. (items[i][c].text = "count" => UpToDate(items[i][c].shown, 0, i, c))'
  BY <1>2 DEF UpToDate, UpdateAfter, Updates
<1>5. (\A p \in DOMAIN guiQueue :
         IsLoad(guiQueue[p], i, c) /\ guiQueue[p].result = "ok" => UpToDate(guiQueue[p].names, p, i, c))'
  BY <1>3 DEF IsLoad, UpToDate, UpdateAfter, Updates
<1> QED BY <1>4, <1>5 DEF FolderSound

\* Asking changes no contents; a new item shows none.
LEMMA UserFolders == ASSUME Typed, Structure, FoldersSound, UserNext PROVE FoldersSound'
<1>1. UserKeeps /\ isReplicaSet \in BOOLEAN /\ ItemsTyped(items) /\ gen \in Nat
  BY UserSteps DEF Typed, TreeTyped, ItemsTyped
<1>2. UNCHANGED <<guiQueue, store, unseen, isReplicaSet>>
  BY <1>1 DEF UserKeeps
<1>3. CASE loadDatabases /\ UNCHANGED <<serverVars, items, wasUnreachable>>
  <2>1. label' # "count"
    BY <1>3 DEF loadDatabases
  <2> QED BY <2>1 DEF FoldersSound, Steady
<1>4. ASSUME NEW r, AskStep(r) PROVE FoldersSound'
  <2>1. r \in RequestType /\ ~ Reloads(r) /\ requests' = Append(requests, r)
    BY <1>4 DEF AskStep, Reloads
  <2>2. ReloadPending' <=> ReloadPending
    BY <1>2, <2>1, ReloadsAskAfter DEF ReloadPending
  <2>3. UNCHANGED <<items, label, wasUnreachable>>
    BY <1>4 DEF AskStep, treeVars
  <2>4. Steady' <=> Steady
    BY <2>2, <2>3 DEF Steady
  <2>5. \A i : Alone(i)' <=> Alone(i)
    BY <2>3 DEF Alone
  <2>6. \A i, c : FolderSound(i, c) => FolderSound(i, c)'
    BY <1>2, <2>3, FolderKept
  <2> QED BY <2>3, <2>4, <2>5, <2>6 DEF FoldersSound
<1>5. ASSUME NEW d \in Db, MakeStep(d) PROVE FoldersSound'
  <2> DEFINE n == <<d, gen + 1>>
  <2>1. ReloadPending' <=> ReloadPending
    BY <1>2, <1>5 DEF MakeStep, ReloadPending, ReloadAfter, ReloadAsked, Reloads, Announces
  <2>2. Steady' => Steady
    BY <1>5, <2>1 DEF Steady, MakeStep, Structure, LabelSound, Typed, TreeTyped
  <2>3. n \notin DOMAIN items
    BY <1>1, ItemsBuilt
  <2>4. /\ DOMAIN items' = DOMAIN items \cup {n}
        /\ \A i \in DOMAIN items : items'[i] = items[i]
        /\ items'[n] = NewItem
    BY <1>5, <2>3 DEF MakeStep
  <2> SUFFICES ASSUME Steady', NEW i \in DOMAIN items', NEW c \in Cat, Alone(i)' PROVE FolderSound(i, c)'
    BY DEF FoldersSound
  <2>5. CASE i \in DOMAIN items
    <3>1. Alone(i)
      BY <2>4 DEF Alone
    <3>2. FolderSound(i, c)
      BY <2>2, <2>5, <3>1 DEF FoldersSound
    <3> QED BY <1>2, <2>4, <2>5, <3>2, FolderKept
  <2>6. CASE i = n
    <3>1. items'[i][c].text # "count"
      BY <2>4, <2>6, NewItemTyped
    <3>2. \A p \in DOMAIN guiQueue' : ~ IsLoad(guiQueue'[p], i, c)
      BY <1>2, <2>6, NoMessageAhead DEF IsLoad
    <3> QED BY <3>1, <3>2 DEF FolderSound, IsLoad
  <2> QED BY <2>4, <2>5, <2>6
<1>6. ASSUME NEW i \in DOMAIN items, NEW c \in Cat, ExpandStep(i, c) PROVE FoldersSound'
  <2>1. LoadRequest(i, c) \in RequestType /\ ~ Reloads(LoadRequest(i, c)) /\ requests' = Append(requests, LoadRequest(i, c))
    BY <1>1, <1>6, ItemsBuilt, OwnRequests DEF ExpandStep, load, Reloads
  <2>2. ReloadPending' <=> ReloadPending
    BY <1>2, <2>1, ReloadsAskAfter DEF ReloadPending
  <2>3. /\ DOMAIN items' = DOMAIN items /\ UNCHANGED <<label, wasUnreachable>>
        /\ \A j \in DOMAIN items, b \in Cat :
             items'[j][b] = IF j = i /\ b = c THEN Folder("loading", items[i][c].shown) ELSE items[j][b]
    BY <1>1, <1>6, FolderTexts DEF ExpandStep, load
  <2>4. Steady' <=> Steady
    BY <2>2, <2>3 DEF Steady
  <2>5. \A j : Alone(j)' <=> Alone(j)
    BY <2>3 DEF Alone
  <2>6. ASSUME NEW j \in DOMAIN items, NEW b \in Cat, FolderSound(j, b) PROVE FolderSound(j, b)'
    <3>1. items'[j][b].text = "count" => items'[j][b] = items[j][b]
      BY <2>3 DEF Folder
    <3> QED BY <1>2, <2>6, <3>1, FolderKept
  <2> QED BY <2>3, <2>4, <2>5, <2>6 DEF FoldersSound
<1> QED BY <1>3, <1>4, <1>5, <1>6, UserSteps

\* Contents change with an answer to the folder's own object, or unseen.
LEMMA WorkerFolders ==
  ASSUME Typed, Structure, FoldersSound, WorkerNext, ~ crashed' PROVE FoldersSound'
<1>1. PICK r \in RequestType, result \in {"ok", "error", "unreachable"}, names \in SUBSET (AnyName \cup Db) :
        RequestSound(r) /\ AnswerStep(r, result, names)
  BY WorkerSteps
<1> DEFINE q == Response(r, result, names)
<1>2. /\ requests # << >> /\ requests' = Tail(requests) /\ guiQueue' = Append(guiQueue, q)
      /\ q \in ReplyType /\ q.op = Head(requests).op /\ Effect(r, result, names) /\ ~ Deleted(r.sender)
      /\ UNCHANGED <<isReplicaSet, databases, items, label, wasUnreachable>>
  BY <1>1 DEF AnswerStep, Reply, Response, serverVars, treeVars
<1>3. q.op = r.op /\ q.sender = r.sender /\ q.cat = r.cat /\ q.result = result /\ q.names = names
  BY DEF Response
<1> HIDE DEF q
<1>4. guiQueue \in Seq(ReplyType)
  BY DEF Typed, MessagesSound, RepliesSound
<1>5. ReloadPending' <=> ReloadPending \/ Announces(q)
  BY <1>2, <1>4, ReloadsAnswer DEF ReloadPending
<1>6. /\ \A k \in DOMAIN guiQueue : k \in DOMAIN guiQueue' /\ guiQueue'[k] = guiQueue[k]
      /\ \A k \in DOMAIN guiQueue : k < Len(guiQueue) + 1
      /\ Len(guiQueue) + 1 \in DOMAIN guiQueue' /\ guiQueue'[Len(guiQueue) + 1] = q
      /\ \A k \in DOMAIN guiQueue' : k \in DOMAIN guiQueue \/ k = Len(guiQueue) + 1
      /\ Len(guiQueue) \in Nat
  BY <1>2, <1>4, AppendIndex
<1> SUFFICES ASSUME Steady', NEW i \in DOMAIN items', NEW c \in Cat, Alone(i)' PROVE FolderSound(i, c)'
  BY DEF FoldersSound
<1>7. Steady /\ ~ Announces(q)
  BY <1>2, <1>5 DEF Steady
<1>8. FolderSound(i, c) /\ Alone(i) /\ i \in DOMAIN items /\ i[1] \in Db
  BY <1>2, <1>7, ItemsBuilt DEF FoldersSound, Alone
<1>9. r.op \in ContentOp /\ r.db = i[1] => r.sender = i
  <2> SUFFICES ASSUME r.op \in ContentOp, r.db = i[1] PROVE r.sender = i
    OBVIOUS
  <2>1. r.sender \in Object /\ r.sender[1] = i[1]
    BY <1>1 DEF RequestSound, SenderSound
  <2>2. r.sender \in databases
    BY <1>2, <2>1, ExplorerAssumption DEF Deleted, Object
  <2>3. databases = DOMAIN items
    BY <1>7 DEF Structure, ObjectsSound, Steady
  <2> QED BY <1>8, <2>1, <2>2, <2>3 DEF Alone
<1>10. FolderEffect(r, result, i[1], c)
  BY <1>2, <1>8 DEF Effect
<1>11. r.op \in ContentOp /\ r.db = i[1] /\ r.cat = c /\ result = "ok" => Updates(q, i, c)
  BY <1>3, <1>9 DEF Updates
<1>12. ASSUME NEW shown, NEW p \in 0 .. Len(guiQueue), UpToDate(shown, p, i, c)
       PROVE  UpToDate(shown, p, i, c)'
  <2>1. UpdateAfter(p, i, c) => UpdateAfter(p, i, c)'
    BY <1>6 DEF UpdateAfter, Updates
  <2>2. Updates(q, i, c) => UpdateAfter(p, i, c)'
    <3>1. Len(guiQueue) + 1 > p
      BY <1>6
    <3> QED BY <1>6, <3>1 DEF UpdateAfter, Updates
  <2>3. ~ (r.op \in {"createDb", "dropDb"} /\ result = "ok")
    BY <1>3, <1>7 DEF Announces
  <2>4. "load" \in ContentOp /\ ChangeOp \subseteq ContentOp
    BY DEF ContentOp
  <2> QED BY <1>10, <1>11, <1>12, <2>1, <2>2, <2>3, <2>4 DEF UpToDate, FolderEffect
<1>13. ASSUME items[i][c].text = "count", NEW shown, shown = items[i][c].shown
       PROVE  UpToDate(shown, 0, i, c)'
  <2>1. 0 \in 0 .. Len(guiQueue)
    BY <1>6
  <2> QED BY <1>2, <1>8, <1>12, <1>13, <2>1 DEF FolderSound
<1>14. ASSUME NEW p \in DOMAIN guiQueue, IsLoad(guiQueue[p], i, c), guiQueue[p].result = "ok",
              NEW shown, shown = guiQueue[p].names
       PROVE  UpToDate(shown, p, i, c)'
  <2>1. p \in 0 .. Len(guiQueue)
    BY <1>4
  <2>2. UpToDate(shown, p, i, c)
    BY <1>8, <1>14 DEF FolderSound
  <2> QED BY <1>12, <2>1, <2>2
<1>15. ASSUME IsLoad(q, i, c), q.result = "ok" PROVE q.names = store'[i[1]][c]
  <2>1. r.op = "load" /\ r.db = i[1] /\ r.cat = c /\ result = "ok"
    BY <1>1, <1>3, <1>15 DEF IsLoad, RequestSound, ContentOp
  <2> QED BY <1>2, <1>3, <2>1 DEF Effect
<1>16. ASSUME NEW p \in DOMAIN guiQueue', IsLoad(guiQueue'[p], i, c), guiQueue'[p].result = "ok",
              NEW shown, shown = guiQueue'[p].names
       PROVE  UpToDate(shown, p, i, c)'
  <2>1. CASE p \in DOMAIN guiQueue
    BY <1>6, <1>14, <1>16, <2>1
  <2>2. CASE p = Len(guiQueue) + 1
    BY <1>6, <1>15, <1>16, <2>2 DEF UpToDate
  <2> QED BY <1>6, <2>1, <2>2
<1> QED BY <1>2, <1>13, <1>16 DEF FolderSound, IsLoad

\* An answer q is handled that leaves the folder as it is, or writes to it what it
\* brings.
LEMMA FolderHandled ==
  ASSUME Typed, NEW q \in ReplyType, GuiKeeps(q), NEW i, NEW c, FolderSound(i, c),
         items'[i][c].text = "count" =>
           \/ items'[i][c] = items[i][c] /\ ~ Updates(q, i, c)
           \/ items'[i][c].shown = q.names /\ IsLoad(q, i, c) /\ q.result = "ok"
  PROVE  FolderSound(i, c)'
<1>1. guiQueue \in Seq(ReplyType) /\ guiQueue # << >> /\ guiQueue' = Tail(guiQueue) /\ q = Head(guiQueue)
      /\ UNCHANGED <<store, unseen>>
  BY DEF Typed, MessagesSound, RepliesSound, GuiKeeps, mongoVars
<1>2. /\ 1 \in DOMAIN guiQueue /\ q = guiQueue[1]
      /\ DOMAIN guiQueue \subseteq Nat \ {0} /\ DOMAIN guiQueue' \subseteq Nat \ {0}
      /\ \A k \in DOMAIN guiQueue' : k + 1 \in DOMAIN guiQueue /\ guiQueue'[k] = guiQueue[k + 1]
      /\ \A k \in DOMAIN guiQueue : k = 1 \/ (k - 1 \in DOMAIN guiQueue' /\ guiQueue'[k - 1] = guiQueue[k])
  BY <1>1, TailIndex
<1>3. ASSUME NEW shown, NEW p \in Nat, UpToDate(shown, p + 1, i, c) PROVE UpToDate(shown, p, i, c)'
  <2>1. ASSUME NEW k \in DOMAIN guiQueue, k > p + 1, Updates(guiQueue[k], i, c) PROVE UpdateAfter(p, i, c)'
    <3>1. k - 1 \in DOMAIN guiQueue' /\ k - 1 > p /\ Updates(guiQueue'[k - 1], i, c)
      BY <1>2, <2>1
    <3> QED BY <3>1 DEF UpdateAfter, Updates
  <2>2. UpdateAfter(p + 1, i, c) => UpdateAfter(p, i, c)'
    BY <2>1 DEF UpdateAfter
  <2> QED BY <1>1, <1>3, <2>2 DEF UpToDate
<1>4. ASSUME items'[i][c].text = "count", NEW shown, shown = items'[i][c].shown PROVE UpToDate(shown, 0, i, c)'
  <2>1. CASE items'[i][c] = items[i][c] /\ ~ Updates(q, i, c)
    <3>1. UpToDate(shown, 0, i, c)
      BY <1>4, <2>1 DEF FolderSound
    <3>2. UpToDate(shown, 0 + 1, i, c)
      BY <1>2, <2>1, <3>1 DEF UpToDate, UpdateAfter
    <3> QED BY <1>3, <3>2
  <2>2. CASE items'[i][c].shown = q.names /\ IsLoad(q, i, c) /\ q.result = "ok"
    <3>1. UpToDate(shown, 0 + 1, i, c)
      BY <1>2, <1>4, <2>2 DEF FolderSound
    <3> QED BY <1>3, <3>1
  <2> QED BY <1>4, <2>1, <2>2
<1>5. ASSUME NEW p \in DOMAIN guiQueue', IsLoad(guiQueue'[p], i, c), guiQueue'[p].result = "ok",
             NEW shown, shown = guiQueue'[p].names
      PROVE  UpToDate(shown, p, i, c)'
  <2>1. UpToDate(shown, p + 1, i, c)
    BY <1>2, <1>5 DEF FolderSound
  <2> QED BY <1>2, <1>3, <2>1
<1> QED BY <1>4, <1>5 DEF FolderSound, IsLoad

\* Handling an answer shows what it brings, or loads the folder again.
LEMMA GuiFolders == ASSUME Typed, Structure, FoldersSound, GuiNext, ~ crashed' PROVE FoldersSound'
<1>1. PICK q \in ReplyType :
           /\ ReplySound(q) /\ GuiKeeps(q)
           /\ \/ DeletedStep \/ RebuildStep(q) \/ NoListStep(q) \/ LostStep(q) \/ ReloadStep(q)
              \/ IdleStep(q) \/ LoadedStep(q) \/ ChangedStep(q)
  BY GuiSteps
<1>2. isReplicaSet \in BOOLEAN /\ ItemsTyped(items) /\ gen \in Nat
  BY <1>1 DEF GuiKeeps, Typed, TreeTyped, ItemsTyped
<1>3. /\ UNCHANGED requests => (ReloadPending' <=> ReloadAfter(1))
      /\ \A r \in RequestType : requests' = Append(requests, r) => (ReloadPending' <=> ReloadAfter(1) \/ Reloads(r))
      /\ ReloadPending <=> ReloadAfter(1) \/ Announces(q)
  BY <1>1, PendingHandled
<1>4. ASSUME Steady' => Steady, DOMAIN items' = DOMAIN items,
             \A j \in DOMAIN items, b \in Cat :
               items'[j][b].text = "count" =>
                 \/ items'[j][b] = items[j][b] /\ ~ Updates(q, j, b)
                 \/ items'[j][b].shown = q.names /\ IsLoad(q, j, b) /\ q.result = "ok"
      PROVE  FoldersSound'
  <2> SUFFICES ASSUME Steady', NEW j \in DOMAIN items, NEW b \in Cat, Alone(j)' PROVE FolderSound(j, b)'
    BY <1>4 DEF FoldersSound
  <2>1. FolderSound(j, b)
    BY <1>4 DEF FoldersSound, Alone
  <2> QED BY <1>1, <1>4, <2>1, FolderHandled
<1>5. CASE RebuildStep(q)
  <2> SUFFICES ASSUME NEW i \in DOMAIN items', NEW c \in Cat PROVE FolderSound(i, c)'
    BY DEF FoldersSound
  <2>1. items'[i] = NewItem /\ \E d \in Db : i = <<d, gen + 1>>
    BY <1>1, <1>5 DEF RebuildStep, Rebuild, Objects, ReplySound
  <2>2. items'[i][c].text # "count"
    BY <2>1, NewItemTyped
  <2>3. \A p \in DOMAIN guiQueue : ~ IsLoad(guiQueue[p], i, c)
    BY <2>1, NoMessageAhead DEF IsLoad
  <2>4. guiQueue \in Seq(ReplyType) /\ guiQueue # << >> /\ guiQueue' = Tail(guiQueue)
    BY <1>1 DEF GuiKeeps, Typed, MessagesSound, RepliesSound
  <2>5. \A p \in DOMAIN guiQueue' : p + 1 \in DOMAIN guiQueue /\ guiQueue'[p] = guiQueue[p + 1]
    BY <2>4, TailIndex
  <2>6. \A p \in DOMAIN guiQueue' : ~ IsLoad(guiQueue'[p], i, c)
    BY <2>3, <2>5
  <2> QED BY <2>2, <2>6 DEF FolderSound, IsLoad
<1>6. CASE NoListStep(q) \/ LostStep(q) \/ ReloadStep(q)
  <2>1. label' # "count"
    BY <1>6 DEF NoListStep, LostStep, Unreachable, ReloadStep, loadDatabases
  <2> QED BY <2>1 DEF FoldersSound, Steady
<1>7. CASE IdleStep(q)
  <2>1. ~ Announces(q) /\ UNCHANGED <<items, label, wasUnreachable, requests>>
    BY <1>7 DEF IdleStep, Announces, Reloads, ChangeOp, treeVars
  <2>2. ReloadPending' <=> ReloadPending
    BY <1>3, <2>1
  <2>3. Steady' => Steady
    BY <2>1, <2>2 DEF Steady
  <2>4. ASSUME NEW j \in DOMAIN items, NEW b PROVE ~ Updates(q, j, b)
    <3>1. q.result = "error" \/ q.sender = NULL
      BY <1>1, <1>7 DEF IdleStep, ReplySound, SenderSound, ContentOp, ChangeOp
    <3> QED BY <3>1, ItemsBuilt DEF Updates
  <2> QED BY <1>4, <2>1, <2>3, <2>4
<1>8. CASE LoadedStep(q)
  <2> DEFINE i == q.sender
             c == q.cat
             f == Folder("count", q.names)
  <2>1. c \in Cat /\ UNCHANGED <<requests, label, wasUnreachable>> /\ ~ Announces(q) /\ q.op = "load"
    BY <1>1, <1>8 DEF LoadedStep, ReplySound, SenderSound, ContentOp, Announces, Reloads
  <2>2. f \in Shows /\ f.shown \subseteq Name[c] /\ f.shown = q.names
    BY <1>1, <1>8, <2>1 DEF Folder, Shows, AnyName, LoadedStep, ReplySound
  <2>3. \A j, b : Updates(q, j, b) => j = i /\ b = c /\ q.result = "ok"
    BY DEF Updates
  <2>4. IsLoad(q, i, c)
    BY <2>1 DEF IsLoad
  <2>5. ReloadPending' <=> ReloadPending
    BY <1>3, <2>1
  <2>6. Steady' => Steady
    BY <2>1, <2>5 DEF Steady
  <2>7. CASE items' = SetFolder(i, c, f) /\ q.result = "ok"
    <3> HIDE DEF f, i, c
    <3>1. /\ DOMAIN items' = DOMAIN items
          /\ \A j \in DOMAIN items, b \in Cat : items'[j][b] = IF j = i /\ b = c THEN f ELSE items[j][b]
      BY <1>2, <2>1, <2>2, <2>7, FolderSet
    <3> QED BY <1>4, <2>2, <2>3, <2>4, <2>6, <2>7, <3>1
  <2>8. CASE items' = Restored(i, c) /\ q.result = "error"
    <3>1. /\ DOMAIN items' = DOMAIN items
          /\ \A j \in DOMAIN items, b \in Cat :
               items'[j][b] = IF j = i /\ b = c THEN Folder("plain", items[i][c].shown) ELSE items[j][b]
      BY <1>2, <2>1, <2>8, FolderTexts
    <3>2. \A s : Folder("plain", s).text = "plain"
      BY DEF Folder
    <3> QED BY <1>4, <2>3, <2>6, <2>8, <3>1, <3>2
  <2>9. CASE UNCHANGED items /\ q.result = "error"
    BY <1>4, <2>3, <2>6, <2>9
  <2> QED BY <1>8, <2>7, <2>8, <2>9 DEF LoadedStep
<1>9. CASE ChangedStep(q)
  <2> DEFINE i == q.sender
             c == q.cat
  <2>1. c \in Cat /\ i \in Object /\ UNCHANGED <<label, wasUnreachable>> /\ ~ Announces(q)
    BY <1>1, <1>9 DEF ChangedStep, ReplySound, SenderSound, ContentOp, ChangeOp, Announces, Reloads
  <2>2. requests' = Append(requests, LoadRequest(i, c)) /\ items' = Loading(i, c)
    BY <1>9 DEF ChangedStep, load
  <2>3. \A j, b : Updates(q, j, b) => j = i /\ b = c
    BY DEF Updates
  <2> HIDE DEF i, c
  <2>4. LoadRequest(i, c) \in RequestType /\ ~ Reloads(LoadRequest(i, c))
    BY <1>2, <2>1, OwnRequests DEF Reloads
  <2>5. ReloadPending' <=> ReloadPending
    BY <1>3, <2>1, <2>2, <2>4
  <2>6. Steady' => Steady
    BY <2>1, <2>5 DEF Steady
  <2>7. /\ DOMAIN items' = DOMAIN items
        /\ \A j \in DOMAIN items, b \in Cat :
             items'[j][b] = IF j = i /\ b = c THEN Folder("loading", items[i][c].shown) ELSE items[j][b]
    BY <1>2, <2>1, <2>2, FolderTexts
  <2>8. \A s : Folder("loading", s).text = "loading"
    BY DEF Folder
  <2> QED BY <1>4, <2>3, <2>6, <2>7, <2>8
<1> QED BY <1>1, <1>5, <1>6, <1>7, <1>8, <1>9 DEF DeletedStep

-----------------------------------------------------------------------------
(* The list of a single server.                                               *)

\* What the user was told is what MongoDB and the worker's _createdDbs hold.
KnownSound ==
  \A d \in Db : /\ known[d] = "created" /\ ~ Exists(d) => d \in createdDbs
                /\ known[d] = "dropped" => ~ Exists(d) /\ d \notin createdDbs

\* A list has what the user was told of.
Faithful(names) ==
  \A d \in Db : /\ known[d] = "created" /\ ~ Exists(d) => d \in names
                /\ known[d] = "dropped" => d \notin names

Listed == {i[1] : i \in DOMAIN items}

\* The list that is shown, and one on its way, is so unless another is to come.
ListSound ==
  ~ isReplicaSet =>
    /\ KnownSound
    /\ ~ ReloadPending /\ label = "count" => Faithful(Listed)
    /\ \A p \in DOMAIN guiQueue :
         guiQueue[p].op = "list" /\ guiQueue[p].result = "ok" => ReloadAfter(p) \/ Faithful(guiQueue[p].names)

\* At the start the user has been told of nothing.
LEMMA InitList == ASSUME Init PROVE ListSound
  BY DEF Init, ListSound, KnownSound, Faithful

\* An answer changes the list, or says that it has.
ListEffect(r, result, names) ==
  /\ KnownSound'
  /\ (\A s : Faithful(s) => Faithful(s)') \/ (r.op \in {"createDb", "dropDb"} /\ result = "ok")
  /\ r.op = "list" /\ result = "ok" => Faithful(names)'

\* An operation on one database d that the user is not told of.
LEMMA ListKept ==
  ASSUME StoreTyped, KnownSound, UNCHANGED createdDbs, NEW d \in Db,
         \/ store' = store /\ known' = known
         \/ (\A e \in Db \ {d}, c \in Cat : store'[e][c] = store[e][c]) /\ known' = [known EXCEPT ![d] = "none"]
  PROVE  KnownSound' /\ \A s : Faithful(s) => Faithful(s)'
<1>1. CASE store' = store /\ known' = known
  BY <1>1 DEF KnownSound, Faithful, Exists
<1>2. CASE (\A e \in Db \ {d}, c \in Cat : store'[e][c] = store[e][c]) /\ known' = [known EXCEPT ![d] = "none"]
  <2>1. \A e \in Db : known'[e] = IF e = d THEN "none" ELSE known[e]
    BY <1>2 DEF StoreTyped
  <2>2. \A e \in Db \ {d} : Exists(e)' <=> Exists(e)
    BY <1>2 DEF Exists
  <2>3. KnownSound'
    BY <2>1, <2>2 DEF KnownSound
  <2>4. ASSUME NEW s, Faithful(s) PROVE Faithful(s)'
    BY <2>1, <2>2, <2>4 DEF Faithful
  <2> QED BY <2>3, <2>4
<1> QED BY <1>1, <1>2

\* What each answer of the worker means for the list.
LEMMA ListAnswered ==
  ASSUME Typed, KnownSound, WorkerNext
  PROVE  \E result, names : Reply(result, names) /\ ListEffect(Head(requests), result, names)
<1> DEFINE r == Head(requests)
<1>0. StoreTyped
  BY DEF Typed
<1>1. ASSUME UNCHANGED <<store, known, createdDbs>>, NEW result, NEW names, r.op # "list" \/ result # "ok"
      PROVE  ListEffect(r, result, names)
  BY <1>1 DEF ListEffect, KnownSound, Faithful, Exists
<1>2. CASE LoadDatabaseNames
  <2>1. UNCHANGED <<store, known>> /\ r.op = "list"
    BY <1>2 DEF LoadDatabaseNames, Takes
  <2>2. PICK listed \in DatabaseNames : MergeCreated(listed)
    BY <1>2 DEF LoadDatabaseNames
  <2>3. \A d \in Db : d \in listed => Exists(d)
    BY <2>2 DEF DatabaseNames
  <2>4. createdDbs' = createdDbs \ listed
    BY <2>2 DEF MergeCreated
  <2>5. \A d \in Db : Exists(d)' <=> Exists(d)
    BY <2>1 DEF Exists
  <2>6. KnownSound'
    BY <2>1, <2>3, <2>4, <2>5 DEF KnownSound
  <2>7. \A s : Faithful(s) => Faithful(s)'
    BY <2>1, <2>5 DEF Faithful
  <2>8. Faithful(listed \cup createdDbs)
    BY <2>3 DEF KnownSound, Faithful
  <2>9. ASSUME NEW all, all = listed \cup createdDbs PROVE Faithful(all)'
    BY <2>7, <2>8, <2>9
  <2>10. PICK all : all = listed \cup createdDbs
    OBVIOUS
  <2>11. Reply("error", {}) \/ Reply("ok", all)
    BY <2>2, <2>10 DEF MergeCreated
  <2>12. ListEffect(r, "error", {}) /\ ListEffect(r, "ok", all)
    BY <2>6, <2>7, <2>9, <2>10 DEF ListEffect
  <2> QED BY <2>11, <2>12
<1>3. CASE RefreshConnection
  <2>1. r.op = "refresh" /\ UNCHANGED <<store, known, createdDbs>>
    BY <1>3 DEF RefreshConnection, Takes, mongoVars
  <2> QED BY <1>1, <1>3, <2>1 DEF RefreshConnection
<1>4. CASE RefreshFolder
  <2>1. r.op = "folder" /\ UNCHANGED <<store, known, createdDbs>>
    BY <1>4 DEF RefreshFolder, Takes, mongoVars
  <2> QED BY <1>1, <1>4, <2>1 DEF RefreshFolder
<1>5. CASE CreateDatabase
  <2> DEFINE before == store[r.db][Collections]
             temps(s) == [store EXCEPT ![r.db][Collections] = s]
  <2>1. r.op = "createDb" /\ r.db \in Db
    BY <1>5, HeadRequest DEF CreateDatabase, RequestSound
  <2>2. PICK after : store' = temps(after)
    BY <1>5 DEF CreateDatabase
  <2>3. \A e \in Db \ {r.db}, c \in Cat : store'[e][c] = store[e][c]
    BY <1>0, <2>1, <2>2 DEF StoreTyped
  <2>4. CASE /\ createdDbs' = createdDbs \cup {r.db}
             /\ known' = [known EXCEPT ![r.db] = "created"]
             /\ Reply("ok", {})
    <3>1. \A e \in Db : known'[e] = IF e = r.db THEN "created" ELSE known[e]
      BY <1>0, <2>4 DEF StoreTyped
    <3>2. \A e \in Db \ {r.db} : Exists(e)' <=> Exists(e)
      BY <2>3 DEF Exists
    <3>3. KnownSound'
      BY <2>4, <3>1, <3>2 DEF KnownSound
    <3> QED BY <2>1, <2>4, <3>3 DEF ListEffect
  <2>5. ASSUME NEW result, Reply(result, {}), UNCHANGED createdDbs,
               known' = IF store' = store THEN known ELSE [known EXCEPT ![r.db] = "none"]
        PROVE  ListEffect(r, result, {})
    BY <1>0, <2>1, <2>3, <2>5, ListKept DEF ListEffect
  <2> QED BY <1>5, <2>4, <2>5 DEF CreateDatabase
<1>6. CASE DropDatabase
  <2> DEFINE dropped == [store EXCEPT ![r.db] = [c \in Cat |-> {}]]
  <2>1. r.op = "dropDb" /\ r.db \in Db
    BY <1>6, HeadRequest DEF DropDatabase, RequestSound
  <2>2. \A e \in Db \ {r.db}, c \in Cat : store'[e][c] = store[e][c]
    BY <1>0, <1>6, <2>1 DEF StoreTyped, DropDatabase
  <2>3. CASE /\ store' = dropped
             /\ createdDbs' = createdDbs \ {r.db}
             /\ known' = [known EXCEPT ![r.db] = "dropped"]
             /\ Reply("ok", {})
    <3>1. \A e \in Db : known'[e] = IF e = r.db THEN "dropped" ELSE known[e]
      BY <1>0, <2>3 DEF StoreTyped
    <3>2. \A e \in Db \ {r.db} : Exists(e)' <=> Exists(e)
      BY <2>2 DEF Exists
    <3>3. \A c \in Cat : store'[r.db][c] = {}
      BY <1>0, <2>1, <2>3 DEF StoreTyped
    <3>4. \A e \in Db : e = r.db => ~ Exists(e)'
      BY <3>3 DEF Exists
    <3>5. KnownSound'
      BY <2>3, <3>1, <3>2, <3>4 DEF KnownSound
    <3> QED BY <2>1, <2>3, <3>5 DEF ListEffect
  <2>4. ASSUME NEW result, Reply(result, {}), UNCHANGED createdDbs,
               known' = IF store' = store THEN known ELSE [known EXCEPT ![r.db] = "none"]
        PROVE  ListEffect(r, result, {})
    BY <1>0, <2>1, <2>2, <2>4, ListKept DEF ListEffect
  <2> QED BY <1>6, <2>3, <2>4 DEF DropDatabase
<1>7. ASSUME NEW c \in Cat, Loads(c) PROVE \E result, names : Reply(result, names) /\ ListEffect(r, result, names)
  <2>1. r.op = "load" /\ UNCHANGED <<store, known, createdDbs>>
    BY <1>7 DEF Loads, Takes
  <2> QED BY <1>1, <1>7, <2>1 DEF Loads
<1>8. ASSUME NEW c \in Cat, Changes(c) PROVE \E result, names : Reply(result, names) /\ ListEffect(r, result, names)
  <2>1. r.op \in ChangeOp /\ r.db \in Db /\ r.op # "list"
    BY <1>8, HeadRequest DEF Changes, RequestSound, SenderSound, ContentOp, Object, ChangeOp
  <2>2. PICK result, after : Reply(result, {}) /\ store' = [store EXCEPT ![r.db][c] = after]
    BY <1>8 DEF Changes
  <2>3. \A e \in Db \ {r.db}, b \in Cat : store'[e][b] = store[e][b]
    BY <1>0, <2>1, <2>2 DEF StoreTyped
  <2>4. UNCHANGED createdDbs /\ known' = IF store' = store THEN known ELSE [known EXCEPT ![r.db] = "none"]
    BY <1>8 DEF Changes
  <2>5. ListEffect(r, result, {})
    BY <1>0, <2>1, <2>3, <2>4, ListKept DEF ListEffect
  <2> QED BY <2>2, <2>5
<1> QED BY <1>2, <1>3, <1>4, <1>5, <1>6, <1>7, <1>8
        DEF WorkerNext, LoadCollectionNames, LoadUsers, LoadFunctions, ChangeCollections, ChangeUsers, ChangeFunctions, Cat

\* Nothing that the list depends on changes.
LEMMA ListsKept ==
  ASSUME UNCHANGED <<store, known, createdDbs>>
  PROVE  (KnownSound' <=> KnownSound) /\ \A s : Faithful(s)' <=> Faithful(s)
  BY DEF KnownSound, Faithful, Exists

\* Asking leaves the list as it is or announces a new one.
LEMMA UserList == ASSUME Typed, ListSound, UserNext PROVE ListSound'
<1>1. UserKeeps /\ isReplicaSet \in BOOLEAN
  BY UserSteps DEF Typed
<1>2. UNCHANGED <<guiQueue, store, known, createdDbs, isReplicaSet>>
  BY <1>1 DEF UserKeeps
<1> SUFFICES ASSUME ~ isReplicaSet PROVE ListSound'
  BY <1>2 DEF ListSound
<1>3. ASSUME NEW r \in RequestType, requests' = Append(requests, r),
             label' # "count" \/ (label' = label /\ DOMAIN items' = DOMAIN items)
      PROVE  ListSound'
  <2>1. \A p : ReloadAfter(p) => ReloadAfter(p)'
    BY <1>2, <1>3, ReloadsAskAfter
  <2>2. KnownSound' /\ \A s : Faithful(s) => Faithful(s)'
    BY <1>2, ListsKept DEF ListSound
  <2>3. ASSUME ~ ReloadPending', label' = "count" PROVE Faithful(Listed)'
    <3>1. PICK s : s = Listed
      OBVIOUS
    <3>2. Listed' = s
      BY <1>3, <2>3, <3>1 DEF Listed
    <3>3. Faithful(s)
      BY <1>3, <2>1, <2>3, <3>1 DEF ListSound, ReloadPending
    <3>4. Faithful(s)'
      BY <2>2, <3>3
    <3> QED BY <3>2, <3>4 DEF Faithful
  <2>4. ASSUME NEW p \in DOMAIN guiQueue, guiQueue[p].op = "list", guiQueue[p].result = "ok",
               NEW s, s = guiQueue[p].names
        PROVE  ReloadAfter(p)' \/ Faithful(s)'
    BY <2>1, <2>2, <2>4 DEF ListSound
  <2> QED BY <1>2, <2>2, <2>3, <2>4 DEF ListSound
<1>4. CASE loadDatabases /\ UNCHANGED <<serverVars, items, wasUnreachable>>
  BY <1>1, <1>3, <1>4, OwnRequests DEF loadDatabases
<1>5. ASSUME NEW r, AskStep(r) PROVE ListSound'
  BY <1>3, <1>5 DEF AskStep, treeVars
<1>6. ASSUME NEW d \in Db, MakeStep(d) PROVE ListSound'
  BY <1>6 DEF MakeStep
<1>7. ASSUME NEW i \in DOMAIN items, NEW c \in Cat, ExpandStep(i, c) PROVE ListSound'
  <2>1. LoadRequest(i, c) \in RequestType
    BY <1>1, ItemsBuilt, OwnRequests
  <2>2. DOMAIN items' = DOMAIN items
    BY <1>7, FolderDomains DEF ExpandStep, load
  <2> QED BY <1>3, <1>7, <2>1, <2>2 DEF ExpandStep, load
<1> QED BY <1>4, <1>5, <1>6, <1>7, UserSteps

\* A change of the list is announced by its answer.
LEMMA WorkerList == ASSUME Typed, ListSound, WorkerNext PROVE ListSound'
<1>1. PICK r \in RequestType, result \in {"ok", "error", "unreachable"}, names \in SUBSET (AnyName \cup Db) :
        RequestSound(r) /\ AnswerStep(r, result, names)
  BY WorkerSteps
<1> DEFINE q == Response(r, result, names)
<1>2. /\ requests # << >> /\ requests' = Tail(requests) /\ guiQueue' = Append(guiQueue, q)
      /\ q \in ReplyType /\ q.op = Head(requests).op /\ r = Head(requests)
      /\ UNCHANGED <<isReplicaSet, items, label>>
  BY <1>1 DEF AnswerStep, Reply, Response, treeVars
<1>3. guiQueue \in Seq(ReplyType) /\ isReplicaSet \in BOOLEAN
  BY DEF Typed, MessagesSound, RepliesSound
<1> SUFFICES ASSUME ~ isReplicaSet PROVE ListSound'
  BY <1>2 DEF ListSound
<1>4. PICK result2, names2 : Reply(result2, names2) /\ ListEffect(r, result2, names2)
  BY <1>2, ListAnswered DEF ListSound
<1>5. q.op = r.op /\ q.result = result2 /\ q.names = names2
  <2> DEFINE q2 == Response(r, result2, names2)
  <2>1. guiQueue' = Append(guiQueue, q2)
    BY <1>2, <1>4 DEF Reply
  <2>2. q2 = q
    <3> HIDE DEF q, q2
    <3>1. Append(guiQueue, q2)[Len(guiQueue) + 1] = q2 /\ Append(guiQueue, q)[Len(guiQueue) + 1] = q
      BY <1>3
    <3> QED BY <1>2, <2>1, <3>1
  <2>3. q2.result = result2 /\ q2.names = names2 /\ q.op = r.op
    BY DEF Response
  <2> QED BY <2>2, <2>3
<1> HIDE DEF q
<1>6. ListEffect(r, q.result, q.names)
  BY <1>4, <1>5
<1>7. \A p \in 0 .. Len(guiQueue) : ReloadAfter(p)' <=> ReloadAfter(p) \/ Announces(q)
  BY <1>2, ReloadsAnswer
<1>8. /\ \A k \in DOMAIN guiQueue : k \in DOMAIN guiQueue' /\ guiQueue'[k] = guiQueue[k]
      /\ \A k \in DOMAIN guiQueue : k < Len(guiQueue) + 1 /\ k \in Nat
      /\ guiQueue'[Len(guiQueue) + 1] = q
      /\ \A k \in DOMAIN guiQueue' : k \in DOMAIN guiQueue \/ k = Len(guiQueue) + 1
      /\ Len(guiQueue) \in Nat
  BY <1>2, <1>3, AppendIndex
<1>9. Announces(q) \/ \A s : Faithful(s) => Faithful(s)'
  BY <1>5, <1>6 DEF ListEffect, Announces
<1>10. ASSUME ~ ReloadPending', label' = "count" PROVE Faithful(Listed)'
  <2>1. ~ ReloadPending /\ ~ Announces(q)
    BY <1>7, <1>8, <1>10 DEF ReloadPending
  <2>2. PICK s : s = Listed
    OBVIOUS
  <2>3. Listed' = s
    BY <1>2, <2>2 DEF Listed
  <2>4. Faithful(s)'
    BY <1>2, <1>9, <1>10, <2>1, <2>2 DEF ListSound
  <2> QED BY <2>3, <2>4 DEF Faithful
<1>11. ASSUME NEW p \in DOMAIN guiQueue', guiQueue'[p].op = "list", guiQueue'[p].result = "ok",
              NEW s, s = guiQueue'[p].names
       PROVE  ReloadAfter(p)' \/ Faithful(s)'
  <2>1. CASE p \in DOMAIN guiQueue
    <3>1. p \in 0 .. Len(guiQueue)
      BY <1>8, <2>1
    <3>2. ReloadAfter(p) \/ Faithful(s)
      BY <1>8, <1>11, <2>1 DEF ListSound
    <3> QED BY <1>7, <1>9, <3>1, <3>2
  <2>2. CASE p = Len(guiQueue) + 1
    BY <1>5, <1>6, <1>8, <1>11, <2>2 DEF ListEffect
  <2> QED BY <1>8, <2>1, <2>2
<1> QED BY <1>6, <1>10, <1>11 DEF ListSound, ListEffect

\* A list that is shown has what the user was told of, or another will come.
LEMMA GuiList == ASSUME Typed, Structure, ListSound, GuiNext, ~ crashed' PROVE ListSound'
<1>1. PICK q \in ReplyType :
           /\ ReplySound(q) /\ GuiKeeps(q)
           /\ \/ DeletedStep \/ RebuildStep(q) \/ NoListStep(q) \/ LostStep(q) \/ ReloadStep(q)
              \/ IdleStep(q) \/ LoadedStep(q) \/ ChangedStep(q)
  BY GuiSteps
<1>2. isReplicaSet \in BOOLEAN /\ UNCHANGED <<isReplicaSet, store, known, createdDbs>>
  BY <1>1 DEF GuiKeeps, Typed, mongoVars
<1>3. guiQueue \in Seq(ReplyType) /\ guiQueue # << >> /\ guiQueue' = Tail(guiQueue) /\ q = Head(guiQueue)
  BY <1>1 DEF GuiKeeps, Typed, MessagesSound, RepliesSound
<1>4. /\ 1 \in DOMAIN guiQueue /\ q = guiQueue[1]
      /\ DOMAIN guiQueue' \subseteq Nat
      /\ \A k \in DOMAIN guiQueue' : k + 1 \in DOMAIN guiQueue /\ guiQueue'[k] = guiQueue[k + 1]
  BY <1>3, TailIndex
<1> SUFFICES ASSUME ~ isReplicaSet PROVE ListSound'
  BY <1>2 DEF ListSound
<1>5. KnownSound' /\ \A s : Faithful(s)' <=> Faithful(s)
  BY <1>2, ListsKept DEF ListSound
<1>6. /\ UNCHANGED requests => (ReloadPending' <=> ReloadAfter(1))
      /\ \A r \in RequestType : requests' = Append(requests, r) => (ReloadPending' <=> ReloadAfter(1) \/ Reloads(r))
      /\ ReloadPending <=> ReloadAfter(1) \/ Announces(q)
  BY <1>1, PendingHandled
<1>7. ASSUME requests' = requests \/ \E r \in RequestType : requests' = Append(requests, r),
             ~ ReloadPending' /\ label' = "count" => \E s : Faithful(s) /\ Listed' = s
      PROVE  ListSound'
  <2>1. \A p \in Nat : ReloadAfter(p + 1) => ReloadAfter(p)'
    BY <1>3, <1>7, ReloadsHandle
  <2>2. ASSUME ~ ReloadPending', label' = "count" PROVE Faithful(Listed)'
    <3>1. PICK s : Faithful(s) /\ Listed' = s
      BY <1>7, <2>2
    <3>2. Faithful(s)'
      BY <1>5, <3>1
    <3> QED BY <3>1, <3>2 DEF Faithful
  <2>3. ASSUME NEW p \in DOMAIN guiQueue', guiQueue'[p].op = "list", guiQueue'[p].result = "ok",
               NEW s, s = guiQueue'[p].names
        PROVE  ReloadAfter(p)' \/ Faithful(s)'
    <3>1. ReloadAfter(p + 1) \/ Faithful(s)
      BY <1>4, <2>3 DEF ListSound
    <3> QED BY <1>4, <1>5, <2>1, <3>1
  <2> QED BY <1>5, <2>2, <2>3 DEF ListSound
<1>8. CASE RebuildStep(q)
  <2>1. q.op = "list" /\ q.result = "ok" /\ UNCHANGED requests
    BY <1>1, <1>8 DEF RebuildStep, ReplySound, SenderSound
  <2>2. DOMAIN items' = Objects(q.names, gen + 1)
    BY <1>8 DEF RebuildStep, Rebuild
  <2>3. Listed' = q.names
    <3>1. Listed' = {i[1] : i \in Objects(q.names, gen + 1)}
      BY <2>2 DEF Listed
    <3>2. ASSUME NEW d \in q.names PROVE d \in Listed'
      <4>1. <<d, gen + 1>> \in Objects(q.names, gen + 1) /\ <<d, gen + 1>>[1] = d
        BY DEF Objects
      <4> QED BY <3>1, <4>1
    <3>3. ASSUME NEW d \in Listed' PROVE d \in q.names
      <4>1. PICK i \in Objects(q.names, gen + 1) : d = i[1]
        BY <3>1
      <4> QED BY <4>1 DEF Objects
    <3> QED BY <3>2, <3>3
  <2>4. ReloadAfter(1) \/ Faithful(q.names)
    BY <1>4, <2>1 DEF ListSound
  <2> QED BY <1>6, <1>7, <2>1, <2>3, <2>4
<1>9. CASE NoListStep(q)
  <2>1. label' # "count" /\ UNCHANGED requests
    BY <1>9 DEF NoListStep
  <2> QED BY <1>7, <2>1
<1>10. CASE LostStep(q)
  BY <1>1, <1>10 DEF LostStep, ReplySound
<1>11. CASE ReloadStep(q)
  <2>1. label' # "count" /\ \E r \in RequestType : requests' = Append(requests, r)
    BY <1>2, <1>11, OwnRequests DEF ReloadStep, loadDatabases
  <2> QED BY <1>7, <2>1
<1>12. CASE IdleStep(q) \/ LoadedStep(q) \/ ChangedStep(q)
  <2>1. ~ Announces(q) /\ UNCHANGED label
    BY <1>12 DEF IdleStep, LoadedStep, ChangedStep, Announces, Reloads, ChangeOp, treeVars
  <2>2. DOMAIN items' = DOMAIN items
    BY <1>12, FolderDomains DEF IdleStep, LoadedStep, ChangedStep, load, treeVars
  <2>3. requests' = requests \/ \E r \in RequestType : requests' = Append(requests, r) /\ ~ Reloads(r)
    <3>1. CASE IdleStep(q) \/ LoadedStep(q)
      BY <3>1 DEF IdleStep, LoadedStep
    <3>2. CASE ChangedStep(q)
      <4>1. q.cat \in Cat /\ q.sender \in Object /\ requests' = Append(requests, LoadRequest(q.sender, q.cat))
        BY <1>1, <3>2 DEF ChangedStep, ReplySound, SenderSound, ContentOp, load
      <4> QED BY <1>2, <4>1, OwnRequests DEF Reloads
    <3> QED BY <1>12, <3>1, <3>2
  <2>4. ReloadPending' <=> ReloadPending
    BY <1>6, <2>1, <2>3
  <2>5. Listed' = Listed
    BY <2>2 DEF Listed
  <2> QED BY <1>7, <2>1, <2>3, <2>4, <2>5 DEF ListSound
<1> QED BY <1>1, <1>8, <1>9, <1>10, <1>11, <1>12 DEF DeletedStep

-----------------------------------------------------------------------------
(* The invariant.                                                             *)

\* As long as no deleted object was used.
Settling == Structure /\ LoadingSound /\ FoldersSound /\ ListSound

IInv ==
  /\ Typed
  /\ label = "offline" => isReplicaSet
  /\ ~ crashed => Settling

\* The invariant holds at first.
LEMMA InitInvariant == ASSUME Init PROVE IInv
<1>1. Typed /\ Structure /\ ListSound
  BY InitTyped, InitStructure, InitList
<1>2. \A i \in DOMAIN items, c \in Cat : items[i][c].text = "plain" /\ guiQueue = << >>
  BY NewItemTyped DEF Init
<1>3. LoadingSound
  BY <1>2 DEF LoadingSound
<1>4. FoldersSound
  BY <1>2 DEF FoldersSound, FolderSound
<1>5. label # "offline"
  BY DEF Init
<1> QED BY <1>1, <1>3, <1>4, <1>5 DEF IInv, Settling

\* A step of something else keeps it.
LEMMA StutterInvariant == ASSUME IInv, UNCHANGED vars PROVE IInv'
<1>1. Typed'
  BY StutterTyped DEF IInv
<1>2. UNCHANGED <<isReplicaSet, store, createdDbs, known, unseen, databases, gen, items, label, wasUnreachable,
                  requests, guiQueue, crashed>>
  BY DEF vars, mongoVars, serverVars, treeVars
<1>3. \A p : ReloadAfter(p)' <=> ReloadAfter(p)
  BY <1>2 DEF ReloadAfter, ReloadAsked, Announces, Reloads
<1>4. ReloadPending' <=> ReloadPending
  BY <1>3 DEF ReloadPending
<1>5. Structure => Structure'
  BY <1>2, <1>4 DEF Structure, LabelSound, ObjectsSound, GoneSound
<1>6. LoadingSound => LoadingSound'
  BY <1>2 DEF LoadingSound, LoadUnderWay, IsLoad
<1>7. FoldersSound => FoldersSound'
  <2>1. \A i, c : FolderSound(i, c) => FolderSound(i, c)'
    BY <1>2, FolderKept
  <2> QED BY <1>2, <1>4, <2>1 DEF FoldersSound, Steady, Alone
<1>8. ListSound => ListSound'
  <2>1. (KnownSound' <=> KnownSound) /\ \A s : Faithful(s)' <=> Faithful(s)
    BY <1>2, ListsKept
  <2> SUFFICES ASSUME ListSound, ~ isReplicaSet PROVE ListSound'
    BY <1>2 DEF ListSound
  <2>2. ASSUME ~ ReloadPending', label' = "count" PROVE Faithful(Listed)'
    BY <1>2, <1>4, <2>2 DEF ListSound, Faithful, Listed, Exists
  <2>3. ASSUME NEW p \in DOMAIN guiQueue, guiQueue[p].op = "list", guiQueue[p].result = "ok",
               NEW s, s = guiQueue[p].names
        PROVE  ReloadAfter(p)' \/ Faithful(s)'
    BY <1>3, <2>1, <2>3 DEF ListSound
  <2> QED BY <1>2, <2>1, <2>2, <2>3 DEF ListSound
<1> QED BY <1>1, <1>2, <1>5, <1>6, <1>7, <1>8 DEF IInv, Settling

\* Every step of the three processes keeps it.
LEMMA NextInvariant == ASSUME IInv, Next PROVE IInv'
<1>1. Typed /\ Settling /\ ~ crashed
  BY UserSteps, WorkerSteps, GuiSteps DEF IInv, Next, UserKeeps, AnswerStep, GuiKeeps
<1>2. Typed'
  BY <1>1, UserTyped, WorkerTyped, GuiTyped DEF Next
<1>3. ~ crashed' => Structure'
  BY <1>1, UserStructure, WorkerStructure, GuiStructure DEF Next, Settling
<1>4. ~ crashed' => LoadingSound'
  BY <1>1, UserLoading, WorkerLoading, GuiLoading DEF Next, Settling
<1>5. ~ crashed' => FoldersSound'
  BY <1>1, UserFolders, WorkerFolders, GuiFolders DEF Next, Settling
<1>6. ~ crashed' => ListSound'
  BY <1>1, UserList, WorkerList, GuiList DEF Next, Settling
<1>7. label' = "offline" => isReplicaSet'
  <2> SUFFICES ASSUME label' = "offline" PROVE isReplicaSet'
    OBVIOUS
  <2>1. label = "offline" => isReplicaSet
    BY DEF IInv
  <2>2. CASE UserNext
    BY <1>1, <2>1, <2>2, UserSteps DEF UserKeeps, loadDatabases, AskStep, MakeStep, ExpandStep, treeVars
  <2>3. CASE WorkerNext
    BY <1>1, <2>1, <2>3, WorkerSteps DEF AnswerStep, Reply, treeVars
  <2>4. CASE GuiNext
    <3>1. PICK q \in ReplyType :
           /\ ReplySound(q) /\ GuiKeeps(q)
           /\ \/ DeletedStep \/ RebuildStep(q) \/ NoListStep(q) \/ LostStep(q) \/ ReloadStep(q)
              \/ IdleStep(q) \/ LoadedStep(q) \/ ChangedStep(q)
      BY <1>1, <2>4, GuiSteps
    <3>2. isReplicaSet' = isReplicaSet
      BY <3>1 DEF GuiKeeps
    <3>3. LostStep(q) => isReplicaSet
      BY <3>1 DEF LostStep, ReplySound
    <3>4. LostStep(q) \/ label' = label
      BY <3>1 DEF DeletedStep, RebuildStep, Rebuild, NoListStep, ReloadStep, loadDatabases, IdleStep, LoadedStep,
                  ChangedStep, treeVars
    <3> QED BY <2>1, <3>2, <3>3, <3>4
  <2> QED BY <2>2, <2>3, <2>4 DEF Next
<1> QED BY <1>2, <1>3, <1>4, <1>5, <1>6, <1>7 DEF IInv, Settling

\* What the invariant says of the types.
LEMMA InvariantTypes == ASSUME IInv PROVE TypeOK
<1>1. Typed
  BY DEF IInv
<1>2. \A i \in DOMAIN items, c \in Cat : items[i][c] \in FolderType(c)
  <2>1. ASSUME NEW i \in DOMAIN items, NEW c \in Cat PROVE items[i][c] \in FolderType(c)
    <3>1. items[i][c] \in Shows /\ items[i][c].shown \subseteq Name[c]
      BY <1>1 DEF Typed, TreeTyped
    <3> QED BY <3>1 DEF Shows, FolderType
  <2> QED BY <2>1
<1> QED BY <1>1, <1>2 DEF IInv, Typed, StoreTyped, TreeTyped, TypeOK

\* What it says when nothing is under way.
LEMMA InvariantSettles == ASSUME IInv PROVE TreeSettled
<1>1. SUFFICES ASSUME Quiet PROVE TreeSettled
  BY DEF TreeSettled, FoldersFresh, ListFaithful, NothingLoadsForever
<1>2. Settling /\ requests = << >> /\ guiQueue = << >> /\ isReplicaSet \in BOOLEAN /\ wasUnreachable \in BOOLEAN
  BY <1>1 DEF IInv, Quiet, Typed
<1>3. ~ ReloadPending
  BY <1>2 DEF ReloadPending, ReloadAfter, ReloadAsked
<1>4. FoldersFresh
  <2> SUFFICES ASSUME label = "count", NEW i \in DOMAIN items, NEW c \in Cat,
                      items[i][c].text = "count", <<i[1], c>> \notin unseen, Alone(i)
               PROVE  items[i][c].shown = store[i[1]][c]
    BY DEF FoldersFresh, Alone
  <2>1. ~ wasUnreachable
    BY <1>2, <1>3 DEF Settling, Structure, LabelSound
  <2>2. FolderSound(i, c)
    BY <1>2, <1>3, <2>1 DEF Settling, FoldersSound, Steady
  <2> QED BY <1>2, <2>2 DEF FolderSound, UpToDate, UpdateAfter
<1>5. ListFaithful
  <2> SUFFICES ASSUME label = "count", ~ isReplicaSet, NEW d \in Db
               PROVE  /\ known[d] = "created" /\ ~ Exists(d) => \E i \in DOMAIN items : i[1] = d
                      /\ known[d] = "dropped" => \A i \in DOMAIN items : i[1] # d
    BY DEF ListFaithful
  <2>1. Faithful(Listed)
    BY <1>2, <1>3 DEF Settling, ListSound
  <2> QED BY <2>1 DEF Faithful, Listed
<1>6. NothingLoadsForever
  <2>1. label # "loading"
    BY <1>2, <1>3 DEF Settling, Structure, LabelSound
  <2>2. \A i \in DOMAIN items, c \in Cat : ~ isReplicaSet \/ c = Users => items[i][c].text # "loading"
    BY <1>2 DEF Settling, LoadingSound, LoadUnderWay
  <2> QED BY <2>1, <2>2 DEF NothingLoadsForever
<1> QED BY <1>4, <1>5, <1>6 DEF TreeSettled

\* The invariant is inductive.
THEOREM Inductive == Spec => []IInv
<1>1. IInv /\ [Next]_vars => IInv'
  BY NextInvariant, StutterInvariant
<1> QED BY InitInvariant, <1>1, PTL DEF Spec

\* MongoDB's contents, the queues' effects and the items stay of their types, and
\* only a replica set is offline.
THEOREM TypeCorrect == Spec => []TypeOK
  BY Inductive, InvariantTypes, PTL

\* An item of the explorer points to a MongoDatabase that has not been deleted,
\* for any databases and any number of reloads, operations and lost primaries.
THEOREM ItemsLiveHolds == Spec => []ItemsLive
<1>1. IInv => ItemsLive
  BY DEF IInv, Typed, TreeTyped
<1> QED BY <1>1, Inductive, PTL

\* When nothing is under way, every folder that shows a count shows what MongoDB has,
\* the list has what the user was told of, and nothing says that it is loading, for
\* any databases, any names and any number of operations, reloads and errors.
THEOREM TreeSettles == Spec => []TreeSettled
  BY Inductive, InvariantSettles, PTL

-----------------------------------------------------------------------------
(* The items of a replica set (ReplicaSetItems).                              *)

\* A step of the items is a step of the explorer.
LEMMA ItemsStep == ASSUME ItemsNext PROVE Next
  BY DEF ItemsNext, FolderLoading, OtherUserStep, SetRefreshed, SetNotRefreshed, FolderRefreshed, PrimaryUnreachable,
         OtherAnswer, Next, UserNext, GuiNext

\* The items of a replica set only watch the explorer.
THEOREM ItemsImplement == ItemsSpec => Spec
<1>1. ItemsInit => Init
  BY DEF ItemsInit
<1>2. [ItemsNext]_<<vars, setVars>> => [Next]_vars
  BY ItemsStep
<1> QED BY <1>1, <1>2, PTL DEF ItemsSpec, Spec

\* A refresh of the members' folder has been asked for and not been shown.
FolderUnderWay ==
  \/ \E k \in DOMAIN requests : requests[k].op = "folder"
  \/ \E k \in DOMAIN guiQueue : guiQueue[k].op = "folder"

IsFolder(f) == \E t, m, off : f = [text |-> t, items |-> m, statusOff |-> off]

\* The folder f shows the view i of the set, and the menus go with it.
ViewShown(f, i, off) ==
  /\ IsFolder(f)
  /\ f.items = MemberItems(i)
  /\ ~ f.statusOff => i.primary # NULL \/ i.up # {}
  /\ ~ off => i.primary # NULL

SetSound ==
  /\ menuOff = wasUnreachable
  /\ ViewShown(folder, replicaSetInfo, menuOff)
  /\ folder.text = Cardinality(replicaSetInfo.members) \/ FolderUnderWay

\* The parts of a folder.
LEMMA FolderParts ==
  ASSUME NEW t, NEW m, NEW off, NEW f, f = [text |-> t, items |-> m, statusOff |-> off]
  PROVE  f.text = t /\ f.items = m /\ f.statusOff = off /\ IsFolder(f)
<1>1. f.text = t /\ f.items = m /\ f.statusOff = off
  OBVIOUS
<1> QED BY <1>1 DEF IsFolder

\* What is left of a folder when its text, or its text and items, are replaced.
LEMMA FolderReplaced ==
  ASSUME NEW t, NEW m, NEW off, NEW f, f = [text |-> t, items |-> m, statusOff |-> off]
  PROVE  /\ \A t2 : [f EXCEPT !.text = t2] = [text |-> t2, items |-> m, statusOff |-> off]
         /\ \A t2, m2 : [f EXCEPT !.text = t2, !.items = m2] = [text |-> t2, items |-> m2, statusOff |-> off]
<1>1. ASSUME NEW t2 PROVE [f EXCEPT !.text = t2] = [text |-> t2, items |-> m, statusOff |-> off]
  OBVIOUS
<1>2. ASSUME NEW t2, NEW m2 PROVE [f EXCEPT !.text = t2, !.items = m2] = [text |-> t2, items |-> m2, statusOff |-> off]
  <2>1. [f EXCEPT !.text = t2, !.items = m2] = [[f EXCEPT !.text = t2] EXCEPT !.items = m2]
    BY Zenon
  <2>2. ASSUME NEW g, g = [text |-> t2, items |-> m, statusOff |-> off]
        PROVE  [g EXCEPT !.items = m2] = [text |-> t2, items |-> m2, statusOff |-> off]
    BY <2>2
  <2> QED BY <1>1, <2>1, <2>2
<1> QED BY <1>1, <1>2

\* What the operations on the folder make of it.
LEMMA FoldersShow ==
  ASSUME NEW i, IsFolder(folder)
  PROVE  /\ NewFolder(i).text = Cardinality(i.members)
         /\ i.primary # NULL => \A off : ViewShown(NewFolder(i), i, off)
         /\ StatusSwitched(buildReplicaSetFolder(i), i).text = Cardinality(i.members)
         /\ ViewShown(StatusSwitched(buildReplicaSetFolder(i), i), i, TRUE)
         /\ i.primary # NULL => \A off : ViewShown(StatusSwitched(buildReplicaSetFolder(i), i), i, off)
<1> DEFINE n == Cardinality(i.members)
           ms == MemberItems(i)
           up == i.up = {}
           g == StatusSwitched(buildReplicaSetFolder(i), i)
<1>1. PICK t, m, off : folder = [text |-> t, items |-> m, statusOff |-> off]
  BY DEF IsFolder
<1>2. buildReplicaSetFolder(i) = [text |-> n, items |-> ms, statusOff |-> off]
  <2>1. buildReplicaSetFolder(i) = [folder EXCEPT !.text = n, !.items = ms]
    BY DEF buildReplicaSetFolder
  <2> HIDE DEF n, ms
  <2> QED BY <1>1, <2>1, FolderReplaced
<1>3. g = [text |-> n, items |-> ms, statusOff |-> up]
  <2> DEFINE b == buildReplicaSetFolder(i)
  <2>1. g = [b EXCEPT !.statusOff = up]
    BY DEF StatusSwitched
  <2>2. b = [text |-> n, items |-> ms, statusOff |-> off]
    BY <1>2
  <2> HIDE DEF n, ms, up, g, b
  <2>3. [b EXCEPT !.statusOff = up] = [text |-> n, items |-> ms, statusOff |-> up]
    BY <2>2
  <2> QED BY <2>1, <2>3
<1>4. NewFolder(i) = [text |-> n, items |-> ms, statusOff |-> FALSE]
  BY DEF NewFolder
<1>5. g.text = n /\ g.items = ms /\ g.statusOff = up /\ IsFolder(g)
  <2> HIDE DEF n, ms, up, g
  <2> QED BY <1>3, FolderParts
<1>6. NewFolder(i).text = n /\ NewFolder(i).items = ms /\ NewFolder(i).statusOff = FALSE /\ IsFolder(NewFolder(i))
  <2> HIDE DEF n, ms
  <2> QED BY <1>4, FolderParts
<1> QED BY <1>5, <1>6 DEF ViewShown

\* A refresh that is under way stays so until its answer is handled.
LEMMA FolderStays ==
  ASSUME Typed, FolderUnderWay,
         \/ /\ requests' = requests \/ \E r \in RequestType : requests' = Append(requests, r)
            /\ \/ UNCHANGED guiQueue
               \/ guiQueue # << >> /\ guiQueue' = Tail(guiQueue) /\ Head(guiQueue).op # "folder"
         \/ /\ requests # << >> /\ requests' = Tail(requests)
            /\ \E q \in ReplyType : q.op = Head(requests).op /\ guiQueue' = Append(guiQueue, q)
  PROVE  FolderUnderWay'
<1>1. guiQueue \in Seq(ReplyType) /\ requests \in Seq(RequestType)
  BY DEF Typed, MessagesSound, RepliesSound, RequestsSound
<1>2. CASE /\ requests' = requests \/ \E r \in RequestType : requests' = Append(requests, r)
           /\ \/ UNCHANGED guiQueue
              \/ guiQueue # << >> /\ guiQueue' = Tail(guiQueue) /\ Head(guiQueue).op # "folder"
  <2>1. CASE \E k \in DOMAIN requests : requests[k].op = "folder"
    BY <1>2, <2>1, RequestsGrow DEF FolderUnderWay
  <2>2. ASSUME NEW k \in DOMAIN guiQueue, guiQueue[k].op = "folder" PROVE FolderUnderWay'
    <3>1. CASE UNCHANGED guiQueue
      BY <2>2, <3>1 DEF FolderUnderWay
    <3>2. CASE guiQueue # << >> /\ guiQueue' = Tail(guiQueue) /\ Head(guiQueue).op # "folder"
      <4>1. k - 1 \in DOMAIN guiQueue' /\ guiQueue'[k - 1] = guiQueue[k]
        BY <1>1, <2>2, <3>2, TailIndex
      <4> QED BY <2>2, <4>1 DEF FolderUnderWay
    <3> QED BY <1>2, <3>1, <3>2
  <2> QED BY <2>1, <2>2 DEF FolderUnderWay
<1>3. ASSUME requests # << >>, requests' = Tail(requests), NEW q \in ReplyType, q.op = Head(requests).op,
             guiQueue' = Append(guiQueue, q)
      PROVE  FolderUnderWay'
  <2>1. /\ \A k \in DOMAIN guiQueue : k \in DOMAIN guiQueue' /\ guiQueue'[k] = guiQueue[k]
        /\ Len(guiQueue) + 1 \in DOMAIN guiQueue' /\ guiQueue'[Len(guiQueue) + 1] = q
    BY <1>1, <1>3, AppendIndex
  <2>2. \A k \in DOMAIN requests : \/ requests[k].op = q.op
                                   \/ k - 1 \in DOMAIN requests' /\ requests'[k - 1] = requests[k]
    BY <1>1, <1>3, TailIndex
  <2> QED BY <2>1, <2>2 DEF FolderUnderWay
<1> QED BY <1>2, <1>3

\* The folder is made from the view of a set with a primary.
LEMMA ItemsInitSound == ASSUME ItemsInit PROVE SetSound
<1>1. replicaSetInfo.primary # NULL /\ folder = NewFolder(replicaSetInfo) /\ menuOff = FALSE /\ wasUnreachable = FALSE
  BY DEF ItemsInit, Init, WithPrimary
<1>2. IsFolder(folder)
  BY <1>1 DEF NewFolder, IsFolder
<1>3. ViewShown(folder, replicaSetInfo, FALSE) /\ folder.text = Cardinality(replicaSetInfo.members)
  BY <1>1, <1>2, FoldersShow
<1> QED BY <1>1, <1>3 DEF SetSound

\* Nothing of the set is touched.
LEMMA SetKept ==
  ASSUME SetSound, UNCHANGED <<setVars, wasUnreachable>>, FolderUnderWay => FolderUnderWay'
  PROVE  SetSound'
  BY DEF SetSound, setVars, ViewShown, IsFolder

\* A new view of the set is shown.
LEMMA SetReplaced ==
  ASSUME NEW i, replicaSetInfo' = i, ViewShown(folder', i, menuOff'), folder'.text = Cardinality(i.members),
         menuOff' = wasUnreachable'
  PROVE  SetSound'
  BY DEF SetSound, ViewShown, IsFolder

\* Every step keeps the folder, the menus and the view together.
LEMMA ItemsNextSound == ASSUME Typed, SetSound, ItemsNext PROVE SetSound'
<1>1. IsFolder(folder) /\ wasUnreachable \in BOOLEAN /\ menuOff = wasUnreachable
  BY DEF SetSound, ViewShown, Typed
<1>2. CASE FolderLoading
  <2>1. /\ requests' = Append(requests, ServerRequest("folder", NULL)) /\ folder' = [folder EXCEPT !.text = NULL]
        /\ UNCHANGED <<wasUnreachable, replicaSetInfo, menuOff>>
    BY <1>2 DEF FolderLoading, RefreshReplicaSetFolder, treeVars
  <2>2. FolderUnderWay'
    <3> DEFINE r == ServerRequest("folder", NULL)
    <3>1. r \in RequestType /\ r.op = "folder"
      BY DEF ServerRequest, Request, RequestType, Op
    <3> HIDE DEF r
    <3>2. requests \in Seq(RequestType) /\ requests' = Append(requests, r)
      BY <2>1 DEF r, Typed, MessagesSound, RequestsSound
    <3>3. Len(requests) + 1 \in DOMAIN requests' /\ requests'[Len(requests) + 1] = r
      BY <3>1, <3>2, AppendIndex
    <3> QED BY <3>1, <3>3 DEF FolderUnderWay
  <2>3. IsFolder(folder') /\ folder'.items = folder.items /\ folder'.statusOff = folder.statusOff
    <3>1. PICK t, m, off : folder = [text |-> t, items |-> m, statusOff |-> off]
      BY <1>1 DEF IsFolder
    <3>2. folder' = [text |-> NULL, items |-> m, statusOff |-> off]
      BY <2>1, <3>1, FolderReplaced
    <3> QED BY <3>1, <3>2, FolderParts
  <2> QED BY <2>1, <2>2, <2>3 DEF SetSound, ViewShown, IsFolder
<1>3. CASE OtherUserStep
  <2>1. UserNext /\ UNCHANGED setVars
    BY <1>3 DEF OtherUserStep
  <2>2. UNCHANGED <<guiQueue, wasUnreachable>>
    BY <2>1, UserSteps DEF UserKeeps, AskStep, MakeStep, ExpandStep, treeVars
  <2>3. requests' = requests \/ \E r \in RequestType : requests' = Append(requests, r)
    <3>1. CASE loadDatabases
      BY <3>1, OwnRequests DEF loadDatabases, Typed
    <3>2. ASSUME NEW j \in DOMAIN items, NEW c \in Cat, ExpandStep(j, c)
          PROVE  \E r \in RequestType : requests' = Append(requests, r)
      BY <3>2, ItemsBuilt, OwnRequests DEF ExpandStep, load, Typed
    <3>3. (\E r : AskStep(r)) \/ (\E d \in Db : MakeStep(d))
            => requests' = requests \/ \E r \in RequestType : requests' = Append(requests, r)
      BY DEF AskStep, MakeStep
    <3> QED BY <2>1, <3>1, <3>2, <3>3, UserSteps
  <2> QED BY <2>1, <2>2, <2>3, FolderStays, SetKept
<1>4. CASE WorkerNext /\ UNCHANGED setVars
  <2>1. PICK r \in RequestType, result \in {"ok", "error", "unreachable"}, names \in SUBSET (AnyName \cup Db) :
          RequestSound(r) /\ AnswerStep(r, result, names)
    BY <1>4, WorkerSteps
  <2> DEFINE q == Response(r, result, names)
  <2>2. /\ requests # << >> /\ requests' = Tail(requests) /\ guiQueue' = Append(guiQueue, q)
        /\ q \in ReplyType /\ q.op = Head(requests).op
        /\ UNCHANGED wasUnreachable
    BY <2>1 DEF AnswerStep, Reply, Response, treeVars
  <2> HIDE DEF q
  <2> QED BY <1>4, <2>2, FolderStays, SetKept
<1>5. CASE SetRefreshed
  <2>1. PICK i \in WithPrimary : replicaSetInfo' = i /\ folder' = NewFolder(i)
    BY <1>5 DEF SetRefreshed
  <2>2. menuOff' = FALSE /\ wasUnreachable' = FALSE
    BY <1>1, <1>5 DEF SetRefreshed, HandleRefresh
  <2>3. i.primary # NULL
    BY DEF WithPrimary
  <2> QED BY <1>1, <2>1, <2>2, <2>3, FoldersShow, SetReplaced
<1>6. ASSUME NEW i, PrimaryLost(i), wasUnreachable' = TRUE PROVE SetSound'
  BY <1>1, <1>6, FoldersShow, SetReplaced DEF PrimaryLost
<1>7. CASE SetNotRefreshed
  BY <1>6, <1>7 DEF SetNotRefreshed, HandleRefresh, Unreachable
<1>8. CASE FolderRefreshed
  <2>1. PICK i \in WithPrimary : replicaSetInfo' = i /\ folder' = StatusSwitched(buildReplicaSetFolder(i), i)
    BY <1>8 DEF FolderRefreshed
  <2>2. menuOff' = FALSE /\ wasUnreachable' = FALSE
    BY <1>8 DEF FolderRefreshed, HandleFolder
  <2>3. i.primary # NULL
    BY DEF WithPrimary
  <2> QED BY <1>1, <2>1, <2>2, <2>3, FoldersShow, SetReplaced
<1>9. CASE PrimaryUnreachable
  <2>1. wasUnreachable' = TRUE
    BY <1>9 DEF PrimaryUnreachable, HandleFolder, HandleDatabaseChanged, HandleContents, HandleChanged, Unreachable
  <2> QED BY <1>6, <1>9, <2>1 DEF PrimaryUnreachable
<1>10. CASE OtherAnswer
  <2>1. UNCHANGED <<setVars, wasUnreachable>>
    BY <1>10 DEF OtherAnswer, HandlesDeleted, HandleDatabaseNames, HandleDatabaseChanged, HandleContents, HandleChanged,
                 loadDatabases, treeVars
  <2>2. GuiNext
    BY <1>10 DEF OtherAnswer, GuiNext
  <2>3. PICK q \in ReplyType :
           /\ ReplySound(q) /\ GuiKeeps(q)
           /\ \/ DeletedStep \/ RebuildStep(q) \/ NoListStep(q) \/ LostStep(q) \/ ReloadStep(q)
              \/ IdleStep(q) \/ LoadedStep(q) \/ ChangedStep(q)
    BY <2>2, GuiSteps
  <2>4. guiQueue # << >> /\ guiQueue' = Tail(guiQueue) /\ q = Head(guiQueue)
    BY <2>3 DEF GuiKeeps
  <2>5. q.op # "folder"
    <3>1. CASE HandlesDeleted
      BY <2>3, <2>4, <3>1 DEF HandlesDeleted, Deleted, ReplySound, SenderSound, ContentOp, ChangeOp
    <3>2. CASE ~ HandlesDeleted
      BY <1>10, <2>4, <3>2 DEF OtherAnswer, HandleDatabaseNames, HandleDatabaseChanged, HandleContents, HandleChanged, Handles
    <3> QED BY <3>1, <3>2
  <2>6. requests' = requests \/ \E r \in RequestType : requests' = Append(requests, r)
    <3>1. ReloadStep(q) => \E r \in RequestType : requests' = Append(requests, r)
      BY OwnRequests DEF ReloadStep, loadDatabases, Typed
    <3>2. ChangedStep(q) => \E r \in RequestType : requests' = Append(requests, r)
      <4>1. ChangedStep(q) => q.cat \in Cat /\ q.sender \in Object
        BY <2>3 DEF ChangedStep, ReplySound, SenderSound, ContentOp
      <4> QED BY <4>1, OwnRequests DEF ChangedStep, load, Typed
    <3>3. DeletedStep \/ RebuildStep(q) \/ NoListStep(q) \/ LostStep(q) \/ IdleStep(q) \/ LoadedStep(q) => requests' = requests
      BY DEF DeletedStep, RebuildStep, NoListStep, LostStep, IdleStep, LoadedStep
    <3> QED BY <2>3, <3>1, <3>2, <3>3
  <2> QED BY <2>1, <2>4, <2>5, <2>6, FolderStays, SetKept
<1> QED BY <1>2, <1>3, <1>4, <1>5, <1>7, <1>8, <1>9, <1>10 DEF ItemsNext

\* What the invariants say of the items.
LEMMA SoundShown == ASSUME IInv, SetSound PROVE SetShownAsKnown
<1>1. StatusFindsMember /\ folder.items = MemberItems(replicaSetInfo) /\ (~ menuOff => replicaSetInfo.primary # NULL)
  BY DEF SetSound, ViewShown, StatusFindsMember
<1>2. ASSUME Quiet
      PROVE  /\ folder.text = Cardinality(replicaSetInfo.members)
             /\ (label = "offline") = menuOff
             /\ menuOff => \A d \in DOMAIN items : items[d] = GoneItem
  <2>1. requests = << >> /\ guiQueue = << >> /\ ~ crashed
    BY <1>2 DEF Quiet
  <2>2. ~ FolderUnderWay /\ ~ ReloadPending
    BY <2>1 DEF FolderUnderWay, ReloadPending, ReloadAfter, ReloadAsked
  <2>3. Structure /\ menuOff = wasUnreachable /\ wasUnreachable \in BOOLEAN
    BY <2>1 DEF IInv, Settling, SetSound, Typed
  <2>4. (label = "offline") = menuOff
    BY <2>2, <2>3 DEF Structure, LabelSound
  <2> QED BY <2>2, <2>3, <2>4 DEF SetSound, Structure, GoneSound
<1> QED BY <1>1, <1>2 DEF SetShownAsKnown

\* For any members and any views of the set: what the explorer shows of a replica set
\* is the last view the server was given, whichever answer brought it, and at rest
\* name, menu and databases agree on whether the set is offline.
THEOREM SetIsShownAsKnown == ItemsSpec => []SetShownAsKnown
<1>1. ItemsSpec => []IInv
  BY ItemsImplement, Inductive, PTL
<1>2. ItemsInit => SetSound
  BY ItemsInitSound
<1>3. IInv /\ SetSound /\ [ItemsNext]_<<vars, setVars>> => SetSound'
  <2> SUFFICES ASSUME IInv, SetSound, [ItemsNext]_<<vars, setVars>> PROVE SetSound'
    OBVIOUS
  <2>1. CASE ItemsNext
    BY <2>1, ItemsNextSound DEF IInv
  <2>2. CASE UNCHANGED <<vars, setVars>>
    <3>1. UNCHANGED <<requests, guiQueue, wasUnreachable, setVars>>
      BY <2>2 DEF vars, treeVars
    <3> QED BY <3>1, SetKept DEF FolderUnderWay
  <2> QED BY <2>1, <2>2
<1>4. ItemsSpec => []SetSound
  BY <1>1, <1>2, <1>3, PTL DEF ItemsSpec
<1> QED BY <1>1, <1>4, SoundShown, PTL
=============================================================================
