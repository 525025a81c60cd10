-------------------------- MODULE ConnectionsProofs --------------------------
(* Connections and dialogs. First servers, workers, tunnels and the explorer,   *)
(* for any number of connections, of any kind, and any order of answers,       *)
(* failures, refreshes and closings: the invariants WorkersServe and           *)
(* ExplorerTruthful of module Connections. Then the modal dialogs of module    *)
(* Dialogs, for any texts, files, servers, users and numbers that may be       *)
(* entered and any sequence of clicks: what they show, keep and send.          *)
EXTENDS Connections, Dialogs, FiniteSetTheorems, SequenceTheorems, TLAPS

-----------------------------------------------------------------------------
(* The inductive invariant.                                                   *)

ConnectionType == {Primary, Secondary, Test, Refresh}
KindType == [ssh : BOOLEAN, rs : BOOLEAN, named : BOOLEAN]

\* The settings of a connection: the user's, or those of a replica set's member.
AnyKind == {k \in KindType : k.rs => k \in Kind}
Request == [op : {"connect", "folder", "script"}, type : ConnectionType]
ResponseType == [handle : Handle, op : {"sshEstablish", "sshListen", "connect", "folder", "script"},
                 type : ConnectionType, ok : BOOLEAN, name : BOOLEAN]
DialogType == [open : BOOLEAN, handle : Handle \cup {NoHandle}, server : Handle \cup {NoHandle},
               result : {"none", "completed", "failed"}]
UiType == [progress : Nat, items : SUBSET Handle, added : [Handle -> Nat], failed : SUBSET Handle,
           unreachable : SUBSET Handle, lastBox : Int, boxes : [Handle -> Nat], dialog : DialogType]

\* The types of all of the state: the queues and the user interface too.
Typed ==
  /\ lastHandle \in 0 .. MaxHandles
  /\ conn \in [Handle -> [type : {Primary, Secondary, Test}, kind : KindType]]
  /\ server \in [Handle -> ServerType]
  /\ worker \in [Handle -> WorkerType]
  /\ requests \in [Handle -> Seq(Request)]
  /\ ssh \in [Handle -> {"none", "establishing", "established", "listening", "stopped"}]
  /\ guiQueue \in Seq(ResponseType)
  /\ shell \in [Handle -> Handle \cup {NoHandle}]
  /\ saved \subseteq Kind
  /\ ui \in UiType
  /\ crashed \in BOOLEAN

\* The connection a server is created for, as against a refresh of it: there is
\* one request and one response of it in the life of a server.
FirstConnect(x) == x.op = "connect" /\ x.type # Refresh

\* The queue of a worker: only its head may be the first connect, and a folder
\* is only asked for once there is a client.
RequestSound(h, i) ==
  /\ requests[h][i].op = "folder" => worker[h].client
  /\ FirstConnect(requests[h][i]) => i = 1 /\ requests[h][i].type = conn[h].type /\ ui.added[h] = 0

\* A connection that has no server yet has left no trace elsewhere.
Unborn(h) == server[h].state = "none"

LifeSound(h) ==
  /\ h > lastHandle => Unborn(h) /\ ssh[h] = "none" /\ h \notin ui.failed
  /\ h <= lastHandle => conn[h].kind \in AnyKind
  /\ ssh[h] \in {"establishing", "established"} => Unborn(h)
  /\ Unborn(h) => worker[h] = NoWorker /\ requests[h] = <<>> /\ ui.added[h] = 0
  /\ (worker[h].state = "running" /\ ~ worker[h].isQuiting) <=> server[h].state = "live"
  /\ \A i \in DOMAIN requests[h] : RequestSound(h, i)

\* Tabs, the dialog and the explorer each use connections of their own type; what
\* the explorer shows has been established once and not been deleted.
UseSound(h) ==
  /\ shell[h] # NoHandle => ~ Unborn(h) /\ conn[h].type = Secondary
  /\ h = ui.dialog.server => ~ Unborn(h) /\ conn[h].type = Test
  /\ h \in ui.items => /\ server[h].state = "live" /\ conn[h].type = Primary
                       /\ ui.added[h] = 1 /\ worker[h].client
  /\ ui.added[h] <= 1 /\ ui.boxes[h] <= 1
  /\ h > ui.lastBox => ui.boxes[h] = 0

\* A response is for a connection that was opened; the first one of a server says
\* that neither its request nor its item exist.
ResponseSound(r) ==
  /\ r.handle <= lastHandle
  /\ r.op \in {"sshEstablish", "sshListen"} => r.type = conn[r.handle].type
  /\ r.op = "sshEstablish" /\ r.ok => ssh[r.handle] = "established"
  /\ r.op = "connect" => ~ Unborn(r.handle) /\ (r.ok => worker[r.handle].client)
  /\ FirstConnect(r) => /\ r.type = conn[r.handle].type /\ ui.added[r.handle] = 0
                        /\ \A i \in DOMAIN requests[r.handle] : ~ FirstConnect(requests[r.handle][i])

\* The responses a connection gets at most once: the tunnel is up, and the first
\* connect, which must not be handled twice.
Once(r) == FirstConnect(r) \/ (r.op = "sshEstablish" /\ r.ok)

QueueSound ==
  /\ \A i \in DOMAIN guiQueue : ResponseSound(guiQueue[i])
  /\ \A i, j \in DOMAIN guiQueue :
       Once(guiQueue[i]) /\ Once(guiQueue[j]) /\ guiQueue[i].handle = guiQueue[j].handle => i = j

IInv ==
  /\ Typed
  /\ \A h \in Handle : LifeSound(h)
  /\ \A h \in Handle : UseSound(h)
  /\ QueueSound
  /\ ProgressOnlyWhilePending

-----------------------------------------------------------------------------
(* What the subscribers of the two events do, field by field.                 *)

LEMMA NoHandleIsNone == NoHandle \notin Handle
  BY BoundAssumption DEF Handle, NoHandle

LEMMA Decreased ==
  ASSUME NEW u \in UiType
  PROVE  /\ decreaseProgress(u) = [u EXCEPT !.progress = decreaseProgress(u).progress]
         /\ decreaseProgress(u).progress \in Nat
         /\ decreaseProgress(u).progress <= u.progress
         /\ u.progress > 0 => decreaseProgress(u).progress < u.progress
  BY DEF decreaseProgress, UiType

\* ConnectionFailedEvent counts one connection down and changes neither the items nor
\* the server the dialog remembers; a box is opened for a later handle only.
LEMMA FailedFields ==
  ASSUME NEW u \in UiType, NEW h \in Handle, NEW type \in ConnectionType
  PROVE  LET v == ConnectionFailed(u, h, type) IN
         /\ v \in UiType
         /\ v.items = u.items /\ v.added = u.added /\ v.failed = u.failed \cup {h}
         /\ v.dialog.server = u.dialog.server
         /\ v.progress <= u.progress /\ (u.progress > 0 => v.progress < u.progress)
         /\ \/ v.lastBox = u.lastBox /\ v.boxes = u.boxes
            \/ /\ h > u.lastBox /\ v.lastBox = h
               /\ v.boxes = [u.boxes EXCEPT ![h] = u.boxes[h] + 1]
<1> DEFINE b == IF type = Primary /\ h > u.lastBox
                  THEN [u EXCEPT !.lastBox = h, !.boxes[h] = @ + 1] ELSE u
           t == IF b.dialog.open /\ type = Test /\ b.dialog.handle = h
                  THEN [b EXCEPT !.dialog.result = "failed"] ELSE b
           o == IF type = Refresh THEN [t EXCEPT !.unreachable = @ \cup {h}] ELSE t
           v == ConnectionFailed(u, h, type)
<1>1. /\ b \in UiType /\ b.items = u.items /\ b.added = u.added /\ b.failed = u.failed
      /\ b.dialog = u.dialog /\ b.progress = u.progress
      /\ \/ b.lastBox = u.lastBox /\ b.boxes = u.boxes
         \/ /\ h > u.lastBox /\ b.lastBox = h
            /\ b.boxes = [u.boxes EXCEPT ![h] = u.boxes[h] + 1]
  <2>1. h \in Int
    BY DEF Handle
  <2>2. CASE type = Primary /\ h > u.lastBox
    <3>1. b = [u EXCEPT !.lastBox = h, !.boxes = [u.boxes EXCEPT ![h] = u.boxes[h] + 1]]
      BY <2>2 DEF UiType
    <3>2. [u.boxes EXCEPT ![h] = u.boxes[h] + 1] \in [Handle -> Nat]
      BY DEF UiType
    <3> HIDE DEF b
    <3> QED BY <2>1, <2>2, <3>1, <3>2 DEF UiType
  <2>3. CASE ~ (type = Primary /\ h > u.lastBox)
    BY <2>3
  <2> QED BY <2>2, <2>3
<1> HIDE DEF b
<1>2. /\ t \in UiType /\ t.items = b.items /\ t.added = b.added /\ t.failed = b.failed
      /\ t.dialog.server = b.dialog.server /\ t.progress = b.progress
      /\ t.lastBox = b.lastBox /\ t.boxes = b.boxes
  <2>1. CASE b.dialog.open /\ type = Test /\ b.dialog.handle = h
    <3>1. t = [b EXCEPT !.dialog = [b.dialog EXCEPT !.result = "failed"]]
      BY <2>1, <1>1 DEF UiType
    <3>2. [b.dialog EXCEPT !.result = "failed"] \in DialogType
          /\ [b.dialog EXCEPT !.result = "failed"].server = b.dialog.server
      BY <1>1 DEF UiType, DialogType
    <3> HIDE DEF t
    <3> QED BY <1>1, <3>1, <3>2 DEF UiType
  <2>2. CASE ~ (b.dialog.open /\ type = Test /\ b.dialog.handle = h)
    BY <1>1, <2>2
  <2> QED BY <2>1, <2>2
<1> HIDE DEF t
<1>3. /\ o \in UiType /\ o.items = t.items /\ o.added = t.added /\ o.failed = t.failed
      /\ o.dialog = t.dialog /\ o.progress = t.progress
      /\ o.lastBox = t.lastBox /\ o.boxes = t.boxes
  BY <1>2 DEF UiType
<1> HIDE DEF o
<1>4. v = [decreaseProgress(o) EXCEPT !.failed = @ \cup {h}]
  BY DEF ConnectionFailed, b, t, o
<1>5. v = [o EXCEPT !.progress = decreaseProgress(o).progress, !.failed = o.failed \cup {h}]
  BY <1>3, <1>4, Decreased DEF UiType
<1>6. /\ v \in UiType /\ v.items = o.items /\ v.added = o.added /\ v.failed = o.failed \cup {h}
      /\ v.dialog = o.dialog /\ v.progress = decreaseProgress(o).progress
      /\ v.lastBox = o.lastBox /\ v.boxes = o.boxes
  <2>1. decreaseProgress(o).progress \in Nat
    BY <1>3, Decreased
  <2>2. o.failed \cup {h} \in SUBSET Handle
    BY <1>3 DEF UiType
  <2> HIDE DEF v
  <2> QED BY <1>3, <1>5, <2>1, <2>2 DEF UiType
<1>7. v.progress <= o.progress /\ (o.progress > 0 => v.progress < o.progress)
  BY <1>3, <1>6, Decreased
<1> HIDE DEF v
<1> QED BY <1>1, <1>2, <1>3, <1>6, <1>7 DEF v

\* ConnectionEstablishedEvent: only the first connection of a primary server adds an item
\* and counts down; only a test is remembered by the dialog.
LEMMA EstablishedFields ==
  ASSUME NEW u \in UiType, NEW h \in Handle, NEW type \in ConnectionType
  PROVE  LET v == ConnectionEstablished(u, h, type) IN
         /\ v \in UiType
         /\ v.failed = u.failed /\ v.lastBox = u.lastBox /\ v.boxes = u.boxes
         /\ v.dialog.server = u.dialog.server \/ (type = Test /\ v.dialog.server = h)
         /\ type = Primary => /\ v.items = u.items \cup {h}
                              /\ v.added = [u.added EXCEPT ![h] = u.added[h] + 1]
                              /\ v.progress <= u.progress /\ (u.progress > 0 => v.progress < u.progress)
         /\ type # Primary => v.items = u.items /\ v.added = u.added /\ v.progress = u.progress
<1> DEFINE a == IF type = Primary
                  THEN [decreaseProgress(u) EXCEPT !.items = @ \cup {h}, !.added[h] = @ + 1] ELSE u
           t == IF a.dialog.open /\ type = Test
                  THEN [a EXCEPT !.dialog.server = h, !.dialog.result = "completed"] ELSE a
           v == ConnectionEstablished(u, h, type)
<1>1. /\ a \in UiType /\ a.failed = u.failed /\ a.lastBox = u.lastBox /\ a.boxes = u.boxes
      /\ a.dialog = u.dialog
      /\ type = Primary => /\ a.items = u.items \cup {h}
                           /\ a.added = [u.added EXCEPT ![h] = u.added[h] + 1]
                           /\ a.progress <= u.progress /\ (u.progress > 0 => a.progress < u.progress)
      /\ type # Primary => a.items = u.items /\ a.added = u.added /\ a.progress = u.progress
  <2>1. CASE type = Primary
    <3> DEFINE p == decreaseProgress(u).progress
    <3>1. a = [u EXCEPT !.progress = p, !.items = u.items \cup {h},
                        !.added = [u.added EXCEPT ![h] = u.added[h] + 1]]
      BY <2>1, Decreased DEF UiType
    <3>2. p \in Nat /\ p <= u.progress /\ (u.progress > 0 => p < u.progress)
      BY Decreased
    <3>3. [u.added EXCEPT ![h] = u.added[h] + 1] \in [Handle -> Nat] /\ u.items \cup {h} \in SUBSET Handle
      BY DEF UiType
    <3> HIDE DEF a, p
    <3> QED BY <2>1, <3>1, <3>2, <3>3 DEF UiType
  <2>2. CASE type # Primary
    BY <2>2
  <2> QED BY <2>1, <2>2
<1> HIDE DEF a
<1>2. /\ t \in UiType /\ t.failed = a.failed /\ t.lastBox = a.lastBox /\ t.boxes = a.boxes
      /\ t.dialog.server = a.dialog.server \/ (type = Test /\ t.dialog.server = h)
      /\ t.items = a.items /\ t.added = a.added /\ t.progress = a.progress
  <2>1. CASE a.dialog.open /\ type = Test
    <3> DEFINE d == [a.dialog EXCEPT !.server = h, !.result = "completed"]
    <3>1. t = [a EXCEPT !.dialog = d]
      BY <2>1, <1>1 DEF UiType
    <3>2. d \in DialogType /\ d.server = h
      BY <1>1 DEF UiType, DialogType
    <3> HIDE DEF t, d
    <3> QED BY <1>1, <2>1, <3>1, <3>2 DEF UiType
  <2>2. CASE ~ (a.dialog.open /\ type = Test)
    BY <1>1, <2>2
  <2> QED BY <2>1, <2>2
<1> HIDE DEF t
<1>3. v = IF type = Refresh THEN [t EXCEPT !.unreachable = @ \ {h}] ELSE t
  BY DEF ConnectionEstablished, a, t
<1> HIDE DEF v
<1>4. /\ v \in UiType /\ v.failed = t.failed /\ v.lastBox = t.lastBox /\ v.boxes = t.boxes
      /\ v.dialog = t.dialog /\ v.items = t.items /\ v.added = t.added /\ v.progress = t.progress
  BY <1>2, <1>3 DEF UiType
<1> QED BY <1>1, <1>2, <1>4 DEF v

-----------------------------------------------------------------------------
(* Sequences and sets.                                                        *)

LEMMA AppendIndex ==
  ASSUME NEW S, NEW q \in Seq(S), NEW e \in S
  PROVE  /\ Append(q, e) \in Seq(S)
         /\ \A i \in DOMAIN Append(q, e) : \/ i \in DOMAIN q /\ Append(q, e)[i] = q[i]
                                           \/ i = Len(q) + 1 /\ i \notin DOMAIN q /\ Append(q, e)[i] = e
         /\ Append(q, e) # <<>>
  OBVIOUS

LEMMA TailIndex ==
  ASSUME NEW S, NEW q \in Seq(S), q # <<>>
  PROVE  /\ Tail(q) \in Seq(S)
         /\ 1 \in DOMAIN q /\ Head(q) = q[1] /\ Head(q) \in S
         /\ \A i \in DOMAIN Tail(q) : i \in Nat /\ i + 1 \in DOMAIN q /\ i + 1 # 1 /\ Tail(q)[i] = q[i + 1]
  OBVIOUS

LEMMA PendingFinite ==
  ASSUME Typed
  PROVE  IsFiniteSet(Pending) /\ Cardinality(Pending) \in Nat
<1>1. IsFiniteSet(1 .. lastHandle)
  BY FS_Interval, BoundAssumption DEF Typed
<1>2. Pending \subseteq 1 .. lastHandle
  BY DEF Pending, Opened
<1> QED BY <1>1, <1>2, FS_Subset, FS_CardinalityType

\* An event that settles at most one connection and counts down does no harm, even when
\* the count is at zero already.
LEMMA CountedDown ==
  ASSUME IInv, Typed', NEW h,
         Pending \ {h} \subseteq Pending',
         ui'.progress <= ui.progress,
         ui.progress > 0 => ui'.progress < ui.progress
  PROVE  ProgressOnlyWhilePending'
<1> DEFINE P == Pending
           Q == Pending'
<1>1. IsFiniteSet(P) /\ Cardinality(P) \in Nat /\ ui.progress <= Cardinality(P)
  BY PendingFinite DEF IInv, ProgressOnlyWhilePending
<1>2. IsFiniteSet(Q) /\ Cardinality(Q) \in Nat
  <2>1. (IsFiniteSet(Pending) /\ Cardinality(Pending) \in Nat)'
    BY PendingFinite, PTL
  <2> QED BY <2>1
<1>3. ui.progress \in Nat /\ ui'.progress \in Nat
  BY DEF IInv, Typed, UiType
<1>4. Cardinality(P \ {h}) \in Nat /\ Cardinality(P) - 1 <= Cardinality(P \ {h})
  <2> HIDE DEF P
  <2>1. IsFiniteSet(P \ {h})
        /\ Cardinality(P \ {h}) = IF h \in P THEN Cardinality(P) - 1 ELSE Cardinality(P)
    BY <1>1, FS_RemoveElement
  <2>2. Cardinality(P \ {h}) \in Nat
    BY <2>1, FS_CardinalityType
  <2> QED BY <1>1, <2>1, <2>2
<1>5. Cardinality(P \ {h}) <= Cardinality(Q)
  BY <1>2, FS_Subset
<1> HIDE DEF P, Q
<1>6. ui'.progress <= Cardinality(Q)
  BY <1>1, <1>2, <1>3, <1>4, <1>5
<1> QED BY <1>6 DEF ProgressOnlyWhilePending, Q

LEMMA CountKept ==
  ASSUME IInv, Pending' = Pending, ui'.progress = ui.progress
  PROVE  ProgressOnlyWhilePending'
  BY DEF IInv, ProgressOnlyWhilePending

-----------------------------------------------------------------------------
(* What a step leaves alone stays sound.                                      *)

NoFirst(h) == \A i \in DOMAIN requests[h] : ~ FirstConnect(requests[h][i])

LEMMA LifeKept ==
  ASSUME NEW k \in Handle, LifeSound(k), lastHandle' = lastHandle,
         conn'[k] = conn[k], server'[k].state = server[k].state, worker'[k] = worker[k],
         requests'[k] = requests[k], ssh'[k] = ssh[k],
         ui'.added[k] = ui.added[k], k \in ui'.failed => k \in ui.failed
  PROVE  LifeSound(k)'
  BY DEF LifeSound, RequestSound, FirstConnect, Unborn

LEMMA UseKept ==
  ASSUME NEW k \in Handle, UseSound(k),
         conn'[k] = conn[k], server'[k].state = server[k].state,
         worker[k].client => worker'[k].client,
         shell'[k] \in {shell[k], NoHandle},
         ui'.dialog.server = ui.dialog.server \/ ui'.dialog.server # k,
         k \in ui'.items => k \in ui.items,
         ui'.added[k] = ui.added[k], ui'.boxes[k] = ui.boxes[k], ui'.lastBox = ui.lastBox
  PROVE  UseSound(k)'
  BY DEF UseSound, Unborn

LEMMA ResponseKept ==
  ASSUME NEW r \in ResponseType, NEW h, h = r.handle, ResponseSound(r),
         r.handle <= lastHandle',
         conn'[h] = conn[h], ssh[h] = "established" => ssh'[h] = ssh[h],
         server[h].state # "none" => server'[h].state # "none",
         worker[h].client => worker'[h].client,
         ui'.added[h] = ui.added[h], NoFirst(h) => NoFirst(h)'
  PROVE  ResponseSound(r)'
  BY DEF ResponseSound, NoFirst, Unborn

\* The three things a step does to the queue of the GUI thread.
LEMMA QueueKept ==
  ASSUME IInv, guiQueue' = guiQueue,
         \A r \in ResponseType : ResponseSound(r) => ResponseSound(r)'
  PROVE  QueueSound'
<1>1. ASSUME NEW i \in DOMAIN guiQueue PROVE guiQueue[i] \in ResponseType /\ ResponseSound(guiQueue[i])
  BY DEF IInv, Typed, QueueSound
<1>2. ASSUME NEW i \in DOMAIN guiQueue' PROVE ResponseSound(guiQueue[i])'
  <2> DEFINE r == guiQueue[i]
  <2>1. r \in ResponseType /\ ResponseSound(r) /\ r = guiQueue'[i]
    BY <1>1
  <2> QED BY <2>1 DEF ResponseSound, NoFirst, Unborn
<1>3. \A i, j \in DOMAIN guiQueue :
        Once(guiQueue[i]) /\ Once(guiQueue[j]) /\ guiQueue[i].handle = guiQueue[j].handle => i = j
  BY DEF IInv, QueueSound
<1> QED BY <1>2, <1>3 DEF QueueSound, Once, FirstConnect

\* The new response must not be a second one of those that come once.
LEMMA QueueAppended ==
  ASSUME IInv, NEW x \in ResponseType, guiQueue' = Append(guiQueue, x),
         \A r \in ResponseType : ResponseSound(r) => ResponseSound(r)',
         ResponseSound(x)',
         Once(x) => \A i \in DOMAIN guiQueue : Once(guiQueue[i]) => guiQueue[i].handle # x.handle
  PROVE  guiQueue' \in Seq(ResponseType) /\ QueueSound'
<1>1. guiQueue \in Seq(ResponseType)
  BY DEF IInv, Typed
<1>2. /\ guiQueue' \in Seq(ResponseType)
      /\ \A i \in DOMAIN guiQueue' : \/ i \in DOMAIN guiQueue /\ guiQueue'[i] = guiQueue[i]
                                     \/ i = Len(guiQueue) + 1 /\ guiQueue'[i] = x
  BY <1>1, AppendIndex
<1>3. ASSUME NEW i \in DOMAIN guiQueue' PROVE ResponseSound(guiQueue[i])'
  <2>1. CASE i \in DOMAIN guiQueue /\ guiQueue'[i] = guiQueue[i]
    <3> DEFINE r == guiQueue[i]
    <3>1. r \in ResponseType /\ ResponseSound(r) /\ r = guiQueue'[i]
      BY <1>1, <2>1 DEF IInv, QueueSound
    <3> HIDE DEF r
    <3>2. ResponseSound(r) /\ r \in ResponseType
      BY <3>1
    <3> QED BY <3>1, <3>2 DEF ResponseSound, Unborn
  <2>2. CASE guiQueue'[i] = x
    BY <2>2 DEF ResponseSound, Unborn
  <2> QED BY <1>2, <2>1, <2>2
<1>4. ASSUME NEW i \in DOMAIN guiQueue', NEW j \in DOMAIN guiQueue',
             Once(guiQueue'[i]), Once(guiQueue'[j]), guiQueue'[i].handle = guiQueue'[j].handle
      PROVE  i = j
  <2>1. \A k, l \in DOMAIN guiQueue :
          Once(guiQueue[k]) /\ Once(guiQueue[l]) /\ guiQueue[k].handle = guiQueue[l].handle => k = l
    BY DEF IInv, QueueSound
  <2>2. CASE i \in DOMAIN guiQueue /\ guiQueue'[i] = guiQueue[i]
    BY <1>2, <1>4, <2>1, <2>2
  <2>3. CASE i = Len(guiQueue) + 1 /\ guiQueue'[i] = x
    BY <1>2, <1>4, <2>3
  <2> QED BY <1>2, <2>2, <2>3
<1> QED BY <1>2, <1>3, <1>4 DEF QueueSound, Once, FirstConnect

\* Taking the head: the others are sound afterwards, although they need not have been
\* sound if the head had stayed.
LEMMA QueueTaken ==
  ASSUME IInv, guiQueue # <<>>, guiQueue' = Tail(guiQueue),
         \A r \in ResponseType :
           ResponseSound(r) /\ (\E i \in DOMAIN guiQueue : i # 1 /\ guiQueue[i] = r) => ResponseSound(r)'
  PROVE  guiQueue' \in Seq(ResponseType) /\ QueueSound'
<1>1. guiQueue \in Seq(ResponseType)
  BY DEF IInv, Typed
<1>2. /\ guiQueue' \in Seq(ResponseType)
      /\ \A i \in DOMAIN guiQueue' : i \in Nat /\ i + 1 \in DOMAIN guiQueue /\ i + 1 # 1
                                     /\ guiQueue'[i] = guiQueue[i + 1]
  BY <1>1, TailIndex
<1>3. ASSUME NEW i \in DOMAIN guiQueue' PROVE ResponseSound(guiQueue[i])'
  <2> DEFINE r == guiQueue[i + 1]
  <2>1. i + 1 \in DOMAIN guiQueue /\ i + 1 # 1
    BY <1>2
  <2>2. r \in ResponseType /\ ResponseSound(r) /\ r = guiQueue'[i]
    BY <1>1, <1>2, <2>1 DEF IInv, QueueSound
  <2>3. \E j \in DOMAIN guiQueue : j # 1 /\ guiQueue[j] = r
    BY <2>1
  <2> HIDE DEF r
  <2>4. ResponseSound(r) /\ r \in ResponseType
    BY <2>2
  <2> QED BY <2>2, <2>3, <2>4 DEF ResponseSound, NoFirst, Unborn
<1>4. ASSUME NEW i \in DOMAIN guiQueue', NEW j \in DOMAIN guiQueue',
             Once(guiQueue'[i]), Once(guiQueue'[j]), guiQueue'[i].handle = guiQueue'[j].handle
      PROVE  i = j
  <2>1. \A k, l \in DOMAIN guiQueue :
          Once(guiQueue[k]) /\ Once(guiQueue[l]) /\ guiQueue[k].handle = guiQueue[l].handle => k = l
    BY DEF IInv, QueueSound
  <2>2. i + 1 = j + 1 /\ i \in Nat /\ j \in Nat
    BY <1>2, <1>4, <2>1
  <2> QED BY <2>2
<1> QED BY <1>2, <1>3, <1>4 DEF QueueSound, Once, FirstConnect

\* The head of the GUI thread's queue, and that no other response of the kind that comes
\* once is for the same connection.
LEMMA HeadSound ==
  ASSUME IInv, guiQueue # <<>>, NEW r, r = Head(guiQueue)
  PROVE  /\ r \in ResponseType /\ ResponseSound(r) /\ r.handle \in Handle
         /\ \A i \in DOMAIN guiQueue :
              i # 1 /\ Once(r) /\ Once(guiQueue[i]) => guiQueue[i].handle # r.handle
<1>1. guiQueue \in Seq(ResponseType)
  BY DEF IInv, Typed
<1>2. 1 \in DOMAIN guiQueue /\ r = guiQueue[1] /\ r \in ResponseType
  BY <1>1, TailIndex
<1>3. ResponseSound(guiQueue[1])
  BY <1>2 DEF IInv, QueueSound
<1>4. \A i, j \in DOMAIN guiQueue :
        Once(guiQueue[i]) /\ Once(guiQueue[j]) /\ guiQueue[i].handle = guiQueue[j].handle => i = j
  BY DEF IInv, QueueSound
<1>5. r.handle \in Handle
  BY <1>2 DEF ResponseType
<1> QED BY <1>2, <1>3, <1>4, <1>5

-----------------------------------------------------------------------------
(* The queues of the workers.                                                 *)

LEMMA Posted ==
  ASSUME Typed, NEW h \in Handle, NEW x \in Request, requests' = Post(h, x)
  PROVE  /\ requests' \in [Handle -> Seq(Request)]
         /\ \A k \in Handle : k # h => requests'[k] = requests[k]
         /\ \A i \in DOMAIN requests'[h] :
              \/ i \in DOMAIN requests[h] /\ requests'[h][i] = requests[h][i]
              \/ requests'[h][i] = x
         /\ ~ FirstConnect(x) => \A k \in Handle : NoFirst(k) => NoFirst(k)'
<1>1. requests \in [Handle -> Seq(Request)] /\ requests[h] \in Seq(Request)
  BY DEF Typed
<1>2. Append(requests[h], x) \in Seq(Request)
  BY <1>1, AppendIndex
<1>3. requests' = [requests EXCEPT ![h] = Append(requests[h], x)]
  BY DEF Post
<1>4. requests'[h] = Append(requests[h], x) /\ requests' \in [Handle -> Seq(Request)]
      /\ \A k \in Handle : k # h => requests'[k] = requests[k]
  BY <1>1, <1>2, <1>3
<1>5. \A i \in DOMAIN requests'[h] :
        \/ i \in DOMAIN requests[h] /\ requests'[h][i] = requests[h][i]
        \/ requests'[h][i] = x
  BY <1>1, <1>4, AppendIndex
<1>6. ASSUME ~ FirstConnect(x), NEW k \in Handle, NoFirst(k) PROVE NoFirst(k)'
  <2>1. CASE k = h
    BY <1>5, <1>6, <2>1 DEF NoFirst, FirstConnect
  <2>2. CASE k # h
    BY <1>4, <1>6, <2>2 DEF NoFirst, FirstConnect
  <2> QED BY <2>1, <2>2
<1> QED BY <1>4, <1>5, <1>6

LEMMA LifePosted ==
  ASSUME IInv, NEW h \in Handle, NEW x \in Request, requests' = Post(h, x),
         ~ FirstConnect(x), x.op = "folder" => worker[h].client, ~ Unborn(h),
         lastHandle' = lastHandle, conn'[h] = conn[h], server'[h].state = server[h].state,
         worker'[h] = worker[h], ssh'[h] = ssh[h], ui'.failed = ui.failed,
         ui'.added[h] = ui.added[h] \/ NoFirst(h)
  PROVE  LifeSound(h)'
<1>1. LifeSound(h) /\ Typed
  BY DEF IInv
<1>2. ASSUME NEW i \in DOMAIN requests'[h] PROVE RequestSound(h, i)'
  <2>1. CASE i \in DOMAIN requests[h] /\ requests'[h][i] = requests[h][i]
    BY <1>1, <2>1 DEF LifeSound, RequestSound, FirstConnect, NoFirst
  <2>2. CASE requests'[h][i] = x
    BY <2>2 DEF RequestSound, FirstConnect
  <2> QED BY <1>1, <2>1, <2>2, Posted
<1>3. ~ Unborn(h)'
  BY DEF Unborn
<1> QED BY <1>1, <1>2, <1>3 DEF LifeSound, Unborn

\* The worker takes its head: the first connect is not there afterwards.
LEMMA Taken ==
  ASSUME IInv, NEW h \in Handle, requests[h] # <<>>, requests' = [requests EXCEPT ![h] = Tail(@)]
  PROVE  /\ requests' \in [Handle -> Seq(Request)]
         /\ \A k \in Handle : k # h => requests'[k] = requests[k]
         /\ NoFirst(h)' /\ \A k \in Handle : NoFirst(k) => NoFirst(k)'
         /\ 1 \in DOMAIN requests[h] /\ Head(requests[h]) = requests[h][1] /\ Head(requests[h]) \in Request
         /\ \A i \in DOMAIN requests'[h] : \E j \in DOMAIN requests[h] : requests'[h][i] = requests[h][j]
         /\ ~ Unborn(h)
<1>1. requests \in [Handle -> Seq(Request)] /\ requests[h] \in Seq(Request)
  BY DEF IInv, Typed
<1>2. /\ Tail(requests[h]) \in Seq(Request)
      /\ 1 \in DOMAIN requests[h] /\ Head(requests[h]) = requests[h][1] /\ Head(requests[h]) \in Request
      /\ \A i \in DOMAIN Tail(requests[h]) :
           i + 1 \in DOMAIN requests[h] /\ i + 1 # 1 /\ Tail(requests[h])[i] = requests[h][i + 1]
  BY <1>1, TailIndex
<1>3. requests'[h] = Tail(requests[h]) /\ requests' \in [Handle -> Seq(Request)]
      /\ \A k \in Handle : k # h => requests'[k] = requests[k]
  BY <1>1, <1>2
<1>4. ASSUME NEW i \in DOMAIN requests'[h] PROVE ~ FirstConnect(requests'[h][i])
  <2>1. i + 1 \in DOMAIN requests[h] /\ i + 1 # 1 /\ requests'[h][i] = requests[h][i + 1]
    BY <1>2, <1>3
  <2>2. RequestSound(h, i + 1)
    BY <2>1 DEF IInv, LifeSound
  <2> QED BY <2>1, <2>2 DEF RequestSound
<1>5. NoFirst(h)'
  BY <1>4 DEF NoFirst, FirstConnect
<1>6. ASSUME NEW k \in Handle, NoFirst(k) PROVE NoFirst(k)'
  BY <1>3, <1>5, <1>6 DEF NoFirst, FirstConnect
<1>7. ~ Unborn(h)
  BY DEF IInv, LifeSound
<1>8. ASSUME NEW i \in DOMAIN requests'[h]
      PROVE  \E j \in DOMAIN requests[h] : requests'[h][i] = requests[h][j]
  BY <1>2, <1>3
<1> QED BY <1>2, <1>3, <1>5, <1>6, <1>7, <1>8

-----------------------------------------------------------------------------
(* The steps of the user.                                                     *)

\* Nothing but the user interface changes, and of it nothing the invariant counts.
LEMMA ViewStep ==
  ASSUME IInv, UNCHANGED <<lastHandle, conn, server, worker, requests, ssh, guiQueue, shell, saved, crashed>>,
         ui' \in UiType, ui'.items \subseteq ui.items, ui'.added = ui.added, ui'.failed = ui.failed,
         ui'.progress = ui.progress, ui'.dialog.server = ui.dialog.server,
         ui'.boxes = ui.boxes, ui'.lastBox = ui.lastBox
  PROVE  IInv'
<1>1. Typed'
  BY DEF IInv, Typed
<1>2. \A k \in Handle : LifeSound(k)'
  BY LifeKept DEF IInv
<1>3. \A k \in Handle : UseSound(k)'
  BY UseKept DEF IInv
<1>4. QueueSound'
  <2>1. ASSUME NEW r \in ResponseType, ResponseSound(r) PROVE ResponseSound(r)'
    BY <2>1 DEF ResponseSound, Unborn
  <2> QED BY <2>1, QueueKept
<1>5. ProgressOnlyWhilePending'
  <2>1. Pending' = Pending
    BY DEF Pending, Opened
  <2> QED BY <2>1, CountKept
<1> QED BY <1>1, <1>2, <1>3, <1>4, <1>5 DEF IInv

\* closeServer() for a server of the explorer, of a tab or of the dialog.
LEMMA CloseStep ==
  ASSUME IInv, NEW h \in Handle, closeServer(h), ~ Unborn(h),
         UNCHANGED <<lastHandle, conn, requests, ssh, guiQueue, saved, crashed>>,
         shell' \in [Handle -> Handle \cup {NoHandle}], \A k \in Handle : shell'[k] \in {shell[k], NoHandle},
         ui' \in UiType, ui'.items \subseteq ui.items \ {h}, ui'.added = ui.added, ui'.failed = ui.failed,
         ui'.progress = ui.progress, ui'.dialog.server = ui.dialog.server,
         ui'.boxes = ui.boxes, ui'.lastBox = ui.lastBox
  PROVE  IInv'
<1>1. /\ server' \in [Handle -> ServerType] /\ worker' \in [Handle -> WorkerType]
      /\ server'[h].state = "deleted" /\ worker'[h].isQuiting
      /\ worker'[h].client = worker[h].client /\ worker'[h].state = worker[h].state
      /\ \A k \in Handle : k # h => server'[k] = server[k] /\ worker'[k] = worker[k]
  <2>1. server \in [Handle -> ServerType] /\ worker \in [Handle -> WorkerType]
    BY DEF IInv, Typed
  <2>2. /\ server' = [server EXCEPT ![h] = [server[h] EXCEPT !.state = "deleted"]]
        /\ worker' = [worker EXCEPT ![h] = [worker[h] EXCEPT !.isQuiting = TRUE]]
    BY <2>1 DEF closeServer
  <2>3. [server[h] EXCEPT !.state = "deleted"] \in ServerType
    BY <2>1 DEF ServerType
  <2>4. [worker[h] EXCEPT !.isQuiting = TRUE] \in WorkerType
    BY <2>1 DEF WorkerType
  <2>5. server' \in [Handle -> ServerType] /\ worker' \in [Handle -> WorkerType]
    BY <2>1, <2>2, <2>3, <2>4
  <2>6. server'[h] = [server[h] EXCEPT !.state = "deleted"] /\ worker'[h] = [worker[h] EXCEPT !.isQuiting = TRUE]
        /\ \A k \in Handle : k # h => server'[k] = server[k] /\ worker'[k] = worker[k]
    BY <2>1, <2>2
  <2>7. server'[h].state = "deleted" /\ worker'[h].isQuiting = TRUE
        /\ worker'[h].client = worker[h].client /\ worker'[h].state = worker[h].state
    BY <2>1, <2>6 DEF ServerType, WorkerType
  <2> QED BY <2>5, <2>6, <2>7
<1>2. Typed'
  BY <1>1 DEF IInv, Typed
<1>3. ASSUME NEW k \in Handle PROVE LifeSound(k)'
  <2>1. CASE k = h
    <3>1. LifeSound(h)
      BY DEF IInv
    <3>2. \A i \in DOMAIN requests[h] : RequestSound(h, i)'
      BY <1>1, <3>1 DEF LifeSound, RequestSound
    <3> QED BY <1>1, <2>1, <3>1, <3>2 DEF LifeSound, Unborn
  <2>2. CASE k # h
    BY <1>1, <2>2, LifeKept DEF IInv
  <2> QED BY <2>1, <2>2
<1>4. ASSUME NEW k \in Handle PROVE UseSound(k)'
  <2>1. CASE k = h
    BY <1>1, <2>1 DEF IInv, UseSound, Unborn
  <2>2. CASE k # h
    BY <1>1, <2>2, UseKept DEF IInv
  <2> QED BY <2>1, <2>2
<1>5. QueueSound'
  <2>1. ASSUME NEW r \in ResponseType, ResponseSound(r) PROVE ResponseSound(r)'
    <3>1. r.handle \in Handle /\ (server[r.handle].state # "none" => server'[r.handle].state # "none")
      BY <1>1 DEF ResponseType
    <3>2. worker'[r.handle].client = worker[r.handle].client
      BY <1>1, <3>1
    <3> QED BY <2>1, <3>1, <3>2 DEF ResponseSound, Unborn
  <2> QED BY <2>1, QueueKept
<1>6. ProgressOnlyWhilePending'
  <2>1. Pending' = Pending
    BY DEF Pending, Opened
  <2> QED BY <2>1, CountKept
<1> QED BY <1>2, <1>3, <1>4, <1>5, <1>6 DEF IInv

LEMMA ClosingStep ==
  ASSUME IInv, CloseDialog \/ \E h \in Handle : closeShell(h) \/ DisconnectServer(h)
  PROVE  IInv'
<1>1. ui \in UiType /\ shell \in [Handle -> Handle \cup {NoHandle}]
  BY DEF IInv, Typed
<1>2. CASE CloseDialog
  <2> DEFINE d == [ui.dialog EXCEPT !.open = FALSE]
  <2>1. ui' = [ui EXCEPT !.dialog = d]
    BY <1>1, <1>2 DEF CloseDialog, UiType
  <2>2. d \in DialogType /\ d.server = ui.dialog.server /\ ui.dialog.server \in Handle \cup {NoHandle}
    BY <1>1 DEF UiType, DialogType
  <2> HIDE DEF d
  <2>3. /\ ui' \in UiType /\ ui'.items = ui.items /\ ui'.added = ui.added /\ ui'.failed = ui.failed
        /\ ui'.progress = ui.progress /\ ui'.dialog = d
        /\ ui'.boxes = ui.boxes /\ ui'.lastBox = ui.lastBox
    BY <1>1, <2>1, <2>2 DEF UiType
  <2>4. UNCHANGED <<lastHandle, conn, requests, ssh, guiQueue, shell, saved, crashed>>
    BY <1>2 DEF CloseDialog
  <2>5. CASE ui.dialog.server # NoHandle /\ closeServer(ui.dialog.server)
    <3> DEFINE h == ui.dialog.server
    <3>1. h \in Handle /\ closeServer(h)
      BY <2>2, <2>5
    <3>2. ~ Unborn(h) /\ h \notin ui.items
      BY <3>1 DEF IInv, UseSound, Primary, Test
    <3>3. ui'.items \subseteq ui.items \ {h}
      BY <2>3, <3>2
    <3>4. shell' \in [Handle -> Handle \cup {NoHandle}] /\ \A k \in Handle : shell'[k] \in {shell[k], NoHandle}
      BY <1>1, <2>4
    <3> HIDE DEF h
    <3> QED BY <2>2, <2>3, <2>4, <3>1, <3>2, <3>3, <3>4, CloseStep
  <2>6. CASE UNCHANGED <<server, worker>>
    BY <2>2, <2>3, <2>4, <2>6, ViewStep
  <2> QED BY <1>2, <2>5, <2>6 DEF CloseDialog
<1>3. ASSUME NEW h \in Handle, closeShell(h) PROVE IInv'
  <2>1. ~ Unborn(h) /\ h \notin ui.items
    BY <1>3 DEF closeShell, IInv, UseSound, Primary, Secondary
  <2>2. shell' \in [Handle -> Handle \cup {NoHandle}] /\ \A k \in Handle : shell'[k] \in {shell[k], NoHandle}
    BY <1>1, <1>3 DEF closeShell
  <2>3. closeServer(h) /\ UNCHANGED <<lastHandle, conn, requests, ssh, guiQueue, saved, crashed, ui>>
    BY <1>3 DEF closeShell
  <2>4. ui' \in UiType /\ ui'.items \subseteq ui.items \ {h} /\ ui' = ui
    BY <1>1, <2>1, <2>3
  <2> QED BY <2>1, <2>2, <2>3, <2>4, CloseStep
<1>4. ASSUME NEW h \in Handle, DisconnectServer(h) PROVE IInv'
  <2>1. ~ Unborn(h)
    BY <1>4 DEF DisconnectServer, IInv, UseSound, Unborn
  <2>2. shell' \in [Handle -> Handle \cup {NoHandle}] /\ \A k \in Handle : shell'[k] \in {shell[k], NoHandle}
    BY <1>1, <1>4 DEF DisconnectServer
  <2>3. closeServer(h) /\ UNCHANGED <<lastHandle, conn, requests, ssh, guiQueue, saved, crashed>>
    BY <1>4 DEF DisconnectServer
  <2>4. /\ ui' \in UiType /\ ui'.items = ui.items \ {h} /\ ui'.added = ui.added /\ ui'.failed = ui.failed
        /\ ui'.progress = ui.progress /\ ui'.dialog = ui.dialog
        /\ ui'.boxes = ui.boxes /\ ui'.lastBox = ui.lastBox
    BY <1>1, <1>4 DEF DisconnectServer, UiType
  <2> QED BY <2>1, <2>2, <2>3, <2>4, CloseStep
<1> QED BY <1>2, <1>3, <1>4

\* A request for a worker that exists: a refresh, a folder or a script.
LEMMA AskStep ==
  ASSUME IInv, \E h \in Handle : RefreshServer(h) \/ tryRefreshReplicaSetFolder(h) \/ ExecuteScript(h)
  PROVE  IInv'
<1>1. PICK h \in Handle : RefreshServer(h) \/ tryRefreshReplicaSetFolder(h) \/ ExecuteScript(h)
  OBVIOUS
<1>2. /\ \A x \in {Connect(Refresh), Folder, Script} : x \in Request /\ ~ FirstConnect(x)
      /\ Connect(Refresh).op # "folder" /\ Script.op # "folder"
  BY DEF Connect, Folder, Script, Request, FirstConnect, ConnectionType, Refresh, Secondary
<1>3. h \in ui.items => ~ Unborn(h) /\ worker[h].client
  BY DEF IInv, UseSound, Unborn
<1>4. shell[h] # NoHandle => ~ Unborn(h)
  BY DEF IInv, UseSound
<1>5. PICK x \in Request : Ask(h, x) /\ ~ FirstConnect(x) /\ (x.op = "folder" => worker[h].client) /\ ~ Unborn(h)
  BY <1>1, <1>2, <1>3, <1>4 DEF RefreshServer, tryRefreshReplicaSetFolder, ExecuteScript
<1>6. /\ requests' = Post(h, x)
      /\ UNCHANGED <<lastHandle, conn, server, worker, ssh, guiQueue, shell, saved, ui, crashed>>
  BY <1>5 DEF Ask
<1>7. Typed'
  BY <1>6, Posted DEF IInv, Typed
<1>8. ASSUME NEW k \in Handle PROVE LifeSound(k)'
  <2>1. CASE k = h
    BY <1>5, <1>6, <2>1, LifePosted
  <2>2. CASE k # h
    <3>1. requests'[k] = requests[k]
      BY <1>6, <2>2, Posted DEF IInv
    <3> QED BY <1>6, <3>1, LifeKept DEF IInv
  <2> QED BY <2>1, <2>2
<1>9. \A k \in Handle : UseSound(k)'
  BY <1>6, UseKept DEF IInv
<1>10. QueueSound'
  <2>1. ASSUME NEW r \in ResponseType, ResponseSound(r) PROVE ResponseSound(r)'
    <3>1. r.handle \in Handle
      BY DEF ResponseType
    <3>2. NoFirst(r.handle) => NoFirst(r.handle)'
      BY <1>5, <1>6, <3>1, Posted DEF IInv
    <3>3. r.handle <= lastHandle'
      BY <1>6, <2>1 DEF ResponseSound
    <3> QED BY <1>6, <2>1, <3>2, <3>3, ResponseKept
  <2> QED BY <1>6, <2>1, QueueKept
<1>11. ProgressOnlyWhilePending'
  <2>1. Pending' = Pending
    BY <1>6 DEF Pending, Opened
  <2> QED BY <1>6, <2>1, CountKept
<1> QED BY <1>7, <1>8, <1>9, <1>10, <1>11 DEF IInv

\* A server is born with its worker and a queue that starts with the first connect.
LEMMA Born ==
  ASSUME Typed, NEW h \in Handle, worker[h] = NoWorker, NEW cached \in BOOLEAN,
         NEW type \in {Primary, Secondary, Test}, NEW more \in {<<>>, <<Script>>},
         continueOpenServer(h, cached, type, more)
  PROVE  /\ server' \in [Handle -> ServerType] /\ worker' \in [Handle -> WorkerType]
         /\ requests' \in [Handle -> Seq(Request)]
         /\ server'[h].state = "live" /\ worker'[h].state = "running" /\ ~ worker'[h].isQuiting
         /\ \A i \in DOMAIN requests'[h] : \/ i = 1 /\ requests'[h][i] = Connect(type)
                                           \/ requests'[h][i] = Script
         /\ \A k \in Handle : k # h => /\ server'[k] = server[k] /\ worker'[k] = worker[k]
                                       /\ requests'[k] = requests[k]
<1>1. server \in [Handle -> ServerType] /\ worker \in [Handle -> WorkerType]
      /\ requests \in [Handle -> Seq(Request)]
  BY DEF Typed
<1> DEFINE s == NewServer(cached, type)
           w == [NoWorker EXCEPT !.state = "running"]
           q == <<Connect(type)>> \o more
<1>2. s \in ServerType /\ s.state = "live"
  BY DEF NewServer, ServerType, Primary, Secondary, Test
<1>3. w \in WorkerType /\ w.state = "running" /\ w.isQuiting = FALSE
  BY DEF NoWorker, WorkerType
<1>4. q \in Seq(Request) /\ \A i \in DOMAIN q : (i = 1 /\ q[i] = Connect(type)) \/ q[i] = Script
  <2>1. Connect(type) \in Request /\ Script \in Request
    BY DEF Connect, Script, Request, ConnectionType, Secondary
  <2>2. CASE more = <<>>
    BY <2>1, <2>2
  <2>3. CASE more = <<Script>>
    BY <2>1, <2>3
  <2> QED BY <2>2, <2>3
<1>5. /\ server' = [server EXCEPT ![h] = s] /\ worker' = [worker EXCEPT ![h] = w]
      /\ requests' = [requests EXCEPT ![h] = q]
  BY <1>1 DEF continueOpenServer
<1> HIDE DEF s, w, q
<1>6. server'[h] = s /\ worker'[h] = w /\ requests'[h] = q
  BY <1>1, <1>5
<1>7. \A k \in Handle : k # h => /\ server'[k] = server[k] /\ worker'[k] = worker[k]
                                 /\ requests'[k] = requests[k]
  BY <1>1, <1>5
<1>8. /\ server' \in [Handle -> ServerType] /\ worker' \in [Handle -> WorkerType]
      /\ requests' \in [Handle -> Seq(Request)]
  BY <1>1, <1>2, <1>3, <1>4, <1>5
<1> QED BY <1>2, <1>3, <1>4, <1>6, <1>7, <1>8

LEMMA BornSound ==
  ASSUME Typed, NEW h \in Handle, worker[h] = NoWorker, NEW cached \in BOOLEAN,
         NEW type \in {Primary, Secondary, Test}, NEW more \in {<<>>, <<Script>>},
         continueOpenServer(h, cached, type, more),
         h <= lastHandle', lastHandle' \in Nat, conn'[h].kind \in AnyKind, conn'[h].type = type, ui'.added[h] = 0,
         ssh'[h] \notin {"establishing", "established"}
  PROVE  LifeSound(h)' /\ ~ Unborn(h)'
<1>1. /\ server'[h].state = "live" /\ worker'[h].state = "running" /\ ~ worker'[h].isQuiting
      /\ \A i \in DOMAIN requests'[h] : \/ i = 1 /\ requests'[h][i] = Connect(type)
                                        \/ requests'[h][i] = Script
  BY Born
<1>2. ASSUME NEW i \in DOMAIN requests'[h] PROVE RequestSound(h, i)'
  BY <1>1 DEF RequestSound, FirstConnect, Connect, Script
<1>3. ~ (h > lastHandle')
  BY DEF Handle
<1> QED BY <1>1, <1>2, <1>3 DEF LifeSound, Unborn

\* A connection is opened under the next handle, with a server or with a tunnel first.
LEMMA OpenStep ==
  ASSUME IInv, NEW h, h = lastHandle + 1, h <= MaxHandles, lastHandle' = h,
         NEW kind \in AnyKind, NEW type \in {Primary, Secondary, Test},
         conn' = [conn EXCEPT ![h] = [type |-> type, kind |-> kind]],
         \/ /\ ssh' = [ssh EXCEPT ![h] = "establishing"]
            /\ UNCHANGED <<server, worker, requests, shell>>
         \/ /\ \E cached \in BOOLEAN, more \in {<<>>, <<Script>>} : continueOpenServer(h, cached, type, more)
            /\ UNCHANGED ssh
            /\ shell' = shell \/ (type = Secondary /\ \E p \in Handle : shell' = [shell EXCEPT ![h] = p]),
         UNCHANGED <<guiQueue, saved, crashed>>,
         ui' \in UiType, ui'.items = ui.items, ui'.added = ui.added, ui'.failed = ui.failed,
         ui'.boxes = ui.boxes, ui'.lastBox = ui.lastBox,
         ui'.dialog.server \in {ui.dialog.server, NoHandle},
         ui'.progress = ui.progress + (IF type = Primary THEN 1 ELSE 0)
  PROVE  IInv'
<1>1. h \in Handle /\ h > lastHandle /\ lastHandle \in Nat /\ lastHandle' \in 0 .. MaxHandles
  BY BoundAssumption DEF IInv, Typed, Handle
<1>2. /\ Unborn(h) /\ ssh[h] = "none" /\ h \notin ui.failed /\ worker[h] = NoWorker /\ ui.added[h] = 0
      /\ shell[h] = NoHandle /\ h # ui.dialog.server /\ h \notin ui.items /\ requests[h] = <<>>
  BY <1>1 DEF IInv, LifeSound, UseSound, Unborn
<1>3. /\ conn' \in [Handle -> [type : {Primary, Secondary, Test}, kind : KindType]]
      /\ conn'[h].type = type /\ conn'[h].kind = kind /\ \A k \in Handle : k # h => conn'[k] = conn[k]
  <2>1. kind \in KindType
    BY DEF AnyKind
  <2> QED BY <1>1, <2>1 DEF IInv, Typed
<1>4. /\ server' \in [Handle -> ServerType] /\ worker' \in [Handle -> WorkerType]
      /\ requests' \in [Handle -> Seq(Request)]
      /\ ssh' \in [Handle -> {"none", "establishing", "established", "listening", "stopped"}]
      /\ shell' \in [Handle -> Handle \cup {NoHandle}]
      /\ \A k \in Handle : k # h => /\ server'[k] = server[k] /\ worker'[k] = worker[k]
                                    /\ requests'[k] = requests[k] /\ ssh'[k] = ssh[k] /\ shell'[k] = shell[k]
      /\ LifeSound(h)' /\ (shell'[h] # NoHandle => ~ Unborn(h)' /\ type = Secondary)
  <2>1. CASE /\ ssh' = [ssh EXCEPT ![h] = "establishing"]
             /\ UNCHANGED <<server, worker, requests, shell>>
    <3>1. ssh' \in [Handle -> {"none", "establishing", "established", "listening", "stopped"}]
          /\ \A k \in Handle : k # h => ssh'[k] = ssh[k]
      BY <1>1, <2>1 DEF IInv, Typed
    <3>2. Unborn(h)' /\ worker'[h] = NoWorker /\ requests'[h] = <<>> /\ ui'.added[h] = 0 /\ shell'[h] = NoHandle
      BY <1>2, <2>1 DEF Unborn
    <3>3. ~ (h > lastHandle') /\ conn'[h].kind \in AnyKind
      BY <1>1, <1>3
    <3>4. LifeSound(h)'
      BY <3>2, <3>3 DEF LifeSound, Unborn, NoWorker
    <3> QED BY <2>1, <3>1, <3>2, <3>4 DEF IInv, Typed
  <2>2. CASE /\ \E cached \in BOOLEAN, more \in {<<>>, <<Script>>} : continueOpenServer(h, cached, type, more)
             /\ UNCHANGED ssh
             /\ shell' = shell \/ (type = Secondary /\ \E p \in Handle : shell' = [shell EXCEPT ![h] = p])
    <3>1. PICK cached \in BOOLEAN, more \in {<<>>, <<Script>>} : continueOpenServer(h, cached, type, more)
      BY <2>2
    <3>2. /\ server' \in [Handle -> ServerType] /\ worker' \in [Handle -> WorkerType]
          /\ requests' \in [Handle -> Seq(Request)]
          /\ \A k \in Handle : k # h => /\ server'[k] = server[k] /\ worker'[k] = worker[k]
                                        /\ requests'[k] = requests[k]
      BY <1>1, <1>2, <3>1, Born DEF IInv
    <3>3. ssh'[h] = "none" /\ ssh' = ssh /\ ui'.added[h] = 0
      BY <1>2, <2>2
    <3>4. LifeSound(h)' /\ ~ Unborn(h)'
      BY <1>1, <1>2, <1>3, <3>1, <3>3, BornSound DEF IInv
    <3>5. /\ shell' \in [Handle -> Handle \cup {NoHandle}]
          /\ \A k \in Handle : k # h => shell'[k] = shell[k]
          /\ shell'[h] # NoHandle => type = Secondary
      BY <1>1, <1>2, <2>2 DEF IInv, Typed
    <3> QED BY <3>2, <3>3, <3>4, <3>5 DEF IInv, Typed
  <2> QED BY <2>1, <2>2
<1>5. Typed'
  BY <1>1, <1>3, <1>4 DEF IInv, Typed
<1>6. ASSUME NEW k \in Handle PROVE LifeSound(k)'
  <2>1. CASE k # h
    <3>1. LifeSound(k) /\ (k > lastHandle' => k > lastHandle) /\ (k <= lastHandle' => k <= lastHandle)
      BY <1>1, <2>1 DEF IInv, Handle
    <3> QED BY <1>3, <1>4, <2>1, <3>1 DEF LifeSound, RequestSound, FirstConnect, Unborn
  <2> QED BY <1>4, <2>1
<1>7. ASSUME NEW k \in Handle PROVE UseSound(k)'
  <2>1. CASE k # h
    <3>1. ui'.dialog.server = ui.dialog.server \/ ui'.dialog.server # k
      BY NoHandleIsNone
    <3> QED BY <1>3, <1>4, <2>1, <3>1, UseKept DEF IInv
  <2>2. CASE k = h
    <3>1. h # ui'.dialog.server /\ h \notin ui'.items /\ UseSound(h)
      BY <1>1, <1>2, NoHandleIsNone DEF IInv
    <3> QED BY <1>3, <1>4, <2>2, <3>1 DEF UseSound
  <2> QED BY <2>1, <2>2
<1>8. QueueSound'
  <2>1. ASSUME NEW r \in ResponseType, ResponseSound(r) PROVE ResponseSound(r)'
    <3>1. r.handle \in Handle /\ r.handle <= lastHandle /\ r.handle # h /\ r.handle <= lastHandle'
      BY <1>1, <2>1 DEF ResponseType, ResponseSound, Handle
    <3>2. NoFirst(r.handle) => NoFirst(r.handle)'
      BY <1>4, <3>1 DEF NoFirst, FirstConnect
    <3> QED BY <1>3, <1>4, <2>1, <3>1, <3>2, ResponseKept
  <2> QED BY <2>1, QueueKept
<1>9. ProgressOnlyWhilePending'
  <2>1. ASSUME NEW k PROVE k \in Pending' <=> k \in Pending \/ (k = h /\ type = Primary)
    <3>1. k \in 1 .. lastHandle' <=> k \in 1 .. lastHandle \/ k = h
      BY <1>1
    <3>2. CASE k = h
      BY <1>1, <1>2, <1>3, <3>1, <3>2 DEF Pending, Opened
    <3>3. CASE k # h
      <4>1. k \in 1 .. lastHandle => conn'[k] = conn[k]
        BY <1>1, <1>3, <3>3 DEF Handle
      <4> QED BY <3>1, <3>3, <4>1 DEF Pending, Opened
    <3> QED BY <3>2, <3>3
  <2>2. CASE type = Primary
    <3> DEFINE P == Pending
               Q == Pending'
    <3>1. Q = P \cup {h} /\ h \notin P
      <4>1. h \notin P
        BY <1>1 DEF Pending, Opened
      <4>2. \A k : k \in Q <=> k \in P \cup {h}
        BY <2>1, <2>2
      <4> HIDE DEF P, Q
      <4> QED BY <4>1, <4>2
    <3>2. IsFiniteSet(P) /\ Cardinality(P) \in Nat /\ ui.progress <= Cardinality(P) /\ ui.progress \in Nat
      BY PendingFinite DEF IInv, ProgressOnlyWhilePending, Typed, UiType
    <3> HIDE DEF P, Q
    <3>3. Cardinality(Q) = Cardinality(P) + 1
      BY <3>1, <3>2, FS_AddElement
    <3>4. ui'.progress <= Cardinality(Q)
      BY <2>2, <3>2, <3>3
    <3> QED BY <3>4 DEF ProgressOnlyWhilePending, Q
  <2>3. CASE type # Primary
    <3>1. Pending' = Pending
      BY <2>1, <2>3
    <3>2. ui'.progress = ui.progress
      BY <2>3 DEF IInv, Typed, UiType
    <3> QED BY <3>1, <3>2, CountKept
  <2> QED BY <2>2, <2>3
<1> QED BY <1>5, <1>6, <1>7, <1>8, <1>9 DEF IInv

LEMMA OpeningStep ==
  ASSUME IInv, OpenPrimary \/ OpenDialog \/ \E p \in Handle : openShell(p)
  PROVE  IInv'
<1> DEFINE h == lastHandle + 1
<1>1. ui \in UiType /\ lastHandle \in Nat
  BY DEF IInv, Typed
<1>0. Kind \subseteq AnyKind
  BY KindAssumption DEF AnyKind, KindType
<1>2. ASSUME NEW type \in {Primary, Test}, NEW kind \in Kind, NEW u, openServer(h, kind, type, u)
      PROVE  /\ h <= MaxHandles /\ lastHandle' = h /\ UNCHANGED <<guiQueue, saved, crashed, shell>>
             /\ conn' = [conn EXCEPT ![h] = [type |-> type, kind |-> kind]]
             /\ ui' = IF type = Primary THEN increaseProgress(u) ELSE u
             /\ \/ /\ ssh' = [ssh EXCEPT ![h] = "establishing"]
                   /\ UNCHANGED <<server, worker, requests, shell>>
                \/ /\ \E cached \in BOOLEAN, more \in {<<>>, <<Script>>} : continueOpenServer(h, cached, type, more)
                   /\ UNCHANGED ssh /\ shell' = shell
  <2>1. /\ h <= MaxHandles /\ lastHandle' = h /\ UNCHANGED <<guiQueue, saved, crashed, shell>>
        /\ conn' = [conn EXCEPT ![h] = [type |-> type, kind |-> kind]]
        /\ ui' = IF type = Primary THEN increaseProgress(u) ELSE u
    BY <1>2 DEF openServer
  <2>2. CASE kind.ssh
    BY <1>2, <2>1, <2>2 DEF openServer
  <2>3. CASE ~ kind.ssh
    <3>1. continueOpenServer(h, kind \in saved, type, <<>>) /\ UNCHANGED ssh
      BY <1>2, <2>3 DEF openServer
    <3>2. (kind \in saved) \in BOOLEAN
      OBVIOUS
    <3> QED BY <2>1, <3>1, <3>2
  <2> QED BY <2>1, <2>2, <2>3
<1>3. CASE OpenPrimary
  <2>1. PICK kind \in Kind : openServer(h, kind, Primary, ui)
    BY <1>3 DEF OpenPrimary
  <2>2. ui' = [ui EXCEPT !.progress = ui.progress + 1]
    BY <1>2, <2>1 DEF increaseProgress
  <2>3. /\ ui' \in UiType /\ ui'.items = ui.items /\ ui'.added = ui.added /\ ui'.failed = ui.failed
        /\ ui'.boxes = ui.boxes /\ ui'.lastBox = ui.lastBox /\ ui'.dialog = ui.dialog
        /\ ui'.progress = ui.progress + 1
    BY <1>1, <2>2 DEF UiType
  <2> HIDE DEF h
  <2> QED BY <1>0, <1>2, <2>1, <2>3, OpenStep DEF h
<1>4. CASE OpenDialog
  <2> DEFINE d == [open |-> TRUE, handle |-> h, server |-> NoHandle, result |-> "none"]
  <2>1. PICK kind \in Kind : openServer(h, kind, Test, [ui EXCEPT !.dialog = d])
    BY <1>4 DEF OpenDialog
  <2>2. ui' = [ui EXCEPT !.dialog = d] /\ h <= MaxHandles
    BY <1>2, <2>1 DEF Primary, Test
  <2>3. d \in DialogType /\ d.server = NoHandle
    BY <1>1, <2>2, BoundAssumption DEF DialogType, Handle
  <2> HIDE DEF d
  <2>4. /\ ui' \in UiType /\ ui'.items = ui.items /\ ui'.added = ui.added /\ ui'.failed = ui.failed
        /\ ui'.boxes = ui.boxes /\ ui'.lastBox = ui.lastBox /\ ui'.dialog.server = NoHandle
        /\ ui'.progress = ui.progress + 0
    BY <1>1, <2>2, <2>3 DEF UiType
  <2> HIDE DEF h
  <2> QED BY <1>0, <1>2, <2>1, <2>4, OpenStep DEF h, Primary, Test
<1>5. ASSUME NEW p \in Handle, openShell(p) PROVE IInv'
  <2>1. PICK kind \in ShellKinds(p) :
        /\ lastHandle' = h /\ UNCHANGED <<ssh, guiQueue, saved, ui, crashed>>
        /\ conn' = [conn EXCEPT ![h] = [type |-> Secondary, kind |-> kind]]
        /\ continueOpenServer(h, server[p].cached, Secondary, <<Script>>)
        /\ shell' = [shell EXCEPT ![h] = p] /\ lastHandle < MaxHandles
    BY <1>5 DEF openShell
  <2>2. h <= MaxHandles /\ h \in Handle
    BY <1>1, <2>1, BoundAssumption DEF Handle
  <2>3. ~ Unborn(p)
    BY <2>1 DEF ShellKinds, IInv, UseSound, Unborn
  <2>4. kind \in AnyKind
    <3>1. conn[p].kind \in AnyKind
      BY <1>1, <2>3 DEF IInv, LifeSound, Handle
    <3>2. MemberOf(p) \in AnyKind
      BY <3>1 DEF MemberOf, AnyKind, KindType
    <3> QED BY <2>1, <3>1, <3>2 DEF ShellKinds
  <2>5. server[p].cached \in BOOLEAN
    BY DEF IInv, Typed, ServerType
  <2>6. Secondary # Primary
    BY DEF Primary, Secondary
  <2>7. ui'.progress = ui.progress + 0 /\ ui' \in UiType
    BY <1>1, <2>1 DEF UiType
  <2>8. \E cached \in BOOLEAN, more \in {<<>>, <<Script>>} : continueOpenServer(h, cached, Secondary, more)
    BY <2>1, <2>5
  <2> HIDE DEF h
  <2> QED BY <2>1, <2>2, <2>4, <2>6, <2>7, <2>8, OpenStep DEF h
<1> QED BY <1>3, <1>4, <1>5

-----------------------------------------------------------------------------
(* The tunnel and the worker.                                                 *)

LEMMA SshStep ==
  ASSUME IInv, \E h \in Handle : SshNext(h)
  PROVE  IInv'
<1>1. PICK h \in Handle, ok \in BOOLEAN : SshEstablish(h, ok) \/ SshListenEnds(h, ok)
  BY DEF SshNext
<1>2. /\ ssh[h] \in {"establishing", "listening"}
      /\ ssh'[h] \in {"established", "stopped"} /\ (ssh'[h] = "established" => ssh[h] = "establishing")
      /\ ssh' \in [Handle -> {"none", "establishing", "established", "listening", "stopped"}]
      /\ \A k \in Handle : k # h => ssh'[k] = ssh[k]
      /\ UNCHANGED <<lastHandle, conn, server, worker, requests, shell, saved, ui, crashed>>
  BY <1>1 DEF SshEstablish, SshListenEnds, IInv, Typed
<1>3. h <= lastHandle /\ conn[h].type \in ConnectionType
  <2>1. LifeSound(h) /\ lastHandle \in Nat /\ h \in Nat
    BY DEF IInv, Typed, Handle
  <2>2. ~ (h > lastHandle)
    BY <1>2, <2>1 DEF LifeSound
  <2>3. conn[h].type \in ConnectionType
    BY DEF IInv, Typed, ConnectionType
  <2> QED BY <2>1, <2>2, <2>3
<1>4. ASSUME NEW r \in ResponseType, ResponseSound(r) PROVE ResponseSound(r)'
  BY <1>2, <1>4 DEF ResponseSound, Unborn, ResponseType
<1>5. guiQueue' \in Seq(ResponseType) /\ QueueSound'
  <2>1. CASE SshEstablish(h, ok)
    <3> DEFINE y == EstablishSshResponse(h, ok)
    <3>0. y \in ResponseType /\ y.handle = h /\ y.op = "sshEstablish" /\ y.type = conn[h].type /\ y.ok = ok
      BY <1>3 DEF EstablishSshResponse, Response, ResponseType
    <3> HIDE DEF y
    <3>1. PICK x \in ResponseType :
            x = y /\ x.handle = h /\ x.op = "sshEstablish" /\ x.type = conn[h].type /\ x.ok = ok
      BY <3>0
    <3>2. ssh[h] = "establishing" /\ (ok => ssh'[h] = "established") /\ guiQueue' = Append(guiQueue, x)
      BY <2>1, <3>1 DEF SshEstablish, IInv, Typed, y
    <3>3. ResponseSound(x)'
      BY <1>2, <1>3, <3>1, <3>2 DEF ResponseSound, FirstConnect
    <3>4. ASSUME NEW i \in DOMAIN guiQueue, Once(guiQueue[i]) PROVE guiQueue[i].handle # h
      <4>1. ResponseSound(guiQueue[i]) /\ LifeSound(h)
        BY DEF IInv, QueueSound
      <4> QED BY <3>2, <3>4, <4>1 DEF ResponseSound, LifeSound, Once, FirstConnect
    <3> QED BY <1>4, <3>1, <3>2, <3>3, <3>4, QueueAppended
  <2>2. CASE SshListenEnds(h, ok) /\ ok
    <3>1. guiQueue' = guiQueue
      BY <2>2 DEF SshListenEnds
    <3> QED BY <1>4, <3>1, QueueKept DEF IInv, Typed
  <2>3. CASE SshListenEnds(h, ok) /\ ~ ok
    <3> DEFINE y == ListenSshResponse(h)
    <3>0. y \in ResponseType /\ y.handle = h /\ y.op = "sshListen" /\ y.type = conn[h].type
      BY <1>3 DEF ListenSshResponse, Response, ResponseType
    <3> HIDE DEF y
    <3>1. PICK x \in ResponseType : x = y /\ x.handle = h /\ x.op = "sshListen" /\ x.type = conn[h].type
      BY <3>0
    <3>2. guiQueue' = Append(guiQueue, x)
      BY <2>3, <3>1 DEF SshListenEnds, y
    <3>3. ResponseSound(x)'
      BY <1>2, <1>3, <3>1 DEF ResponseSound, FirstConnect
    <3> QED BY <1>4, <3>1, <3>2, <3>3, QueueAppended DEF Once, FirstConnect
  <2> QED BY <1>1, <2>1, <2>2, <2>3
<1>6. Typed'
  BY <1>2, <1>5 DEF IInv, Typed
<1>7. ASSUME NEW k \in Handle PROVE LifeSound(k)'
  <2>1. CASE k = h
    <3>1. LifeSound(h)
      BY DEF IInv
    <3> QED BY <1>2, <1>3, <2>1, <3>1, BoundAssumption DEF LifeSound, RequestSound, Unborn, Handle, IInv, Typed
  <2>2. CASE k # h
    BY <1>2, <2>2, LifeKept DEF IInv
  <2> QED BY <2>1, <2>2
<1>8. \A k \in Handle : UseSound(k)'
  BY <1>2, UseKept DEF IInv
<1>9. ProgressOnlyWhilePending'
  <2>1. Pending' = Pending
    BY <1>2 DEF Pending, Opened
  <2> QED BY <1>2, <2>1, CountKept
<1> QED BY <1>5, <1>6, <1>7, <1>8, <1>9 DEF IInv

\* What handling a connect leaves and answers: a client that is there stays, and success
\* means there is one.
LEMMA Established ==
  ASSUME Typed, NEW h \in Handle, NEW type \in ConnectionType, NEW r \in EstablishConnection(h, type)
  PROVE  /\ r.worker \in WorkerType /\ r.worker.state = worker[h].state
         /\ r.worker.isQuiting = worker[h].isQuiting /\ (worker[h].client => r.worker.client)
         /\ r.response \in ResponseType /\ r.response.handle = h /\ r.response.op = "connect"
         /\ r.response.type = type /\ (r.response.ok => r.worker.client)
<1> DEFINE w == worker[h]
           rs == conn[h].kind.rs
           early == [w EXCEPT !.engine = @ \/ rs]
           set == [early EXCEPT !.client = TRUE]
           done == [set EXCEPT !.engine = TRUE]
           Answer(ok, n) == Response(h, "connect", type, ok, n)
<1>1. w \in WorkerType /\ rs \in BOOLEAN
  BY DEF Typed, KindType
<1> HIDE DEF w, rs
<1>2. early \in WorkerType /\ early.state = w.state /\ early.isQuiting = w.isQuiting /\ early.client = w.client
  <2>1. (w.engine \/ rs) \in BOOLEAN
    OBVIOUS
  <2>2. early = [w EXCEPT !.engine = (w.engine \/ rs)]
    OBVIOUS
  <2> DEFINE b == w.engine \/ rs
  <2> HIDE DEF b
  <2>3. b \in BOOLEAN /\ early = [w EXCEPT !.engine = b]
    BY <2>1, <2>2 DEF b
  <2> HIDE DEF early
  <2> QED BY <1>1, <2>3 DEF WorkerType
<1> HIDE DEF early
<1>3. set \in WorkerType /\ set.state = w.state /\ set.isQuiting = w.isQuiting /\ set.client = TRUE
  BY <1>2 DEF WorkerType
<1> HIDE DEF set
<1>4. done \in WorkerType /\ done.state = w.state /\ done.isQuiting = w.isQuiting /\ done.client = TRUE
  BY <1>3 DEF WorkerType
<1> HIDE DEF done
<1>5. ASSUME NEW ok \in BOOLEAN, NEW n \in BOOLEAN
      PROVE  /\ Answer(ok, n) \in ResponseType /\ Answer(ok, n).handle = h /\ Answer(ok, n).op = "connect"
             /\ Answer(ok, n).type = type /\ Answer(ok, n).ok = ok
  BY DEF Response, ResponseType
<1> HIDE DEF Answer
<1>6. \/ r = [worker |-> done, response |-> Answer(TRUE, rs)]
      \/ \E n \in {FALSE, rs} : r = [worker |-> set, response |-> Answer(FALSE, n)]
      \/ r = [worker |-> early, response |-> Answer(FALSE, FALSE)]
  BY DEF EstablishConnection, done, set, early, w, rs, Answer
<1>7. /\ \E ok \in BOOLEAN, n \in BOOLEAN : r.response = Answer(ok, n) /\ (ok => r.worker = done)
      /\ r.worker = early \/ r.worker = set \/ r.worker = done
  <2> DEFINE Goal == /\ \E ok \in BOOLEAN, n \in BOOLEAN : r.response = Answer(ok, n) /\ (ok => r.worker = done)
                     /\ r.worker = early \/ r.worker = set \/ r.worker = done
  <2>1. CASE r = [worker |-> done, response |-> Answer(TRUE, rs)]
    <3>1. r.response = Answer(TRUE, rs) /\ r.worker = done
      BY <2>1
    <3> QED BY <1>1, <3>1, Zenon
  <2>2. ASSUME NEW n \in {FALSE, rs}, r = [worker |-> set, response |-> Answer(FALSE, n)] PROVE Goal
    <3>1. r.response = Answer(FALSE, n) /\ r.worker = set
      BY <2>2
    <3>2. n \in BOOLEAN
      BY <1>1, Zenon
    <3> QED BY <3>1, <3>2, Zenon
  <2>3. CASE r = [worker |-> early, response |-> Answer(FALSE, FALSE)]
    <3>1. r.response = Answer(FALSE, FALSE) /\ r.worker = early
      BY <2>3
    <3> QED BY <3>1, Zenon
  <2> HIDE DEF Goal
  <2>4. Goal
    BY <1>6, <2>1, <2>2, <2>3, Zenon DEF Goal
  <2> QED BY <2>4, Zenon DEF Goal
<1>8. /\ r.response \in ResponseType /\ r.response.handle = h /\ r.response.op = "connect"
      /\ r.response.type = type
  BY <1>5, <1>7
<1>9. r.worker \in WorkerType /\ r.worker.state = w.state /\ r.worker.isQuiting = w.isQuiting
       /\ (w.client => r.worker.client)
  BY <1>2, <1>3, <1>4, <1>7
<1>10. r.response.ok => r.worker.client
  BY <1>4, <1>5, <1>7
<1> QED BY <1>8, <1>9, <1>10 DEF w

\* A worker handles the head of its queue and answers: only the answer to the first
\* connect may be the first response.
LEMMA HandledStep ==
  ASSUME IInv, NEW h \in Handle, requests[h] # <<>>, requests' = [requests EXCEPT ![h] = Tail(@)],
         UNCHANGED <<lastHandle, conn, server, ssh, shell, saved, ui>>, crashed' \in BOOLEAN,
         worker' \in [Handle -> WorkerType], \A k \in Handle : k # h => worker'[k] = worker[k],
         worker'[h].state = worker[h].state, worker'[h].isQuiting = worker[h].isQuiting,
         worker[h].client => worker'[h].client,
         NEW x \in ResponseType, guiQueue' = Append(guiQueue, x), x.handle = h,
         x.op \in {"connect", "folder", "script"},
         x.op = "connect" => /\ Head(requests[h]).op = "connect" /\ x.type = Head(requests[h]).type
                             /\ x.ok => worker'[h].client
  PROVE  IInv'
<1>1. /\ requests' \in [Handle -> Seq(Request)]
      /\ \A k \in Handle : k # h => requests'[k] = requests[k]
      /\ NoFirst(h)' /\ \A k \in Handle : NoFirst(k) => NoFirst(k)'
      /\ 1 \in DOMAIN requests[h] /\ Head(requests[h]) = requests[h][1]
      /\ \A i \in DOMAIN requests'[h] : \E j \in DOMAIN requests[h] : requests'[h][i] = requests[h][j]
      /\ ~ Unborn(h)
  BY Taken
<1>2. LifeSound(h) /\ UseSound(h) /\ RequestSound(h, 1)
  BY <1>1 DEF IInv, LifeSound
<1>3. h <= lastHandle
  <2>1. h \in Nat /\ lastHandle \in Nat
    BY DEF IInv, Typed, Handle
  <2> QED BY <1>1, <1>2, <2>1 DEF LifeSound
<1>4. ASSUME NEW r \in ResponseType, ResponseSound(r) PROVE ResponseSound(r)'
  <2>1. r.handle \in Handle /\ r.handle <= lastHandle'
    BY <1>4 DEF ResponseType, ResponseSound
  <2>2. worker[r.handle].client => worker'[r.handle].client
    BY <2>1
  <2> QED BY <1>1, <1>4, <2>1, <2>2, ResponseKept
<1>5. FirstConnect(x) => /\ FirstConnect(requests[h][1]) /\ x.type = conn[h].type /\ ui.added[h] = 0
  BY <1>1, <1>2 DEF RequestSound, FirstConnect
<1>6. ResponseSound(x)'
  <2>1. ~ Unborn(h)'
    BY <1>1 DEF Unborn
  <2>2. \A i \in DOMAIN requests'[h] : ~ FirstConnect(requests'[h][i])
    BY <1>1 DEF NoFirst, FirstConnect
  <2> QED BY <1>3, <1>5, <2>1, <2>2 DEF ResponseSound, Unborn, FirstConnect
<1>7. ASSUME Once(x), NEW i \in DOMAIN guiQueue, Once(guiQueue[i]) PROVE guiQueue[i].handle # h
  <2>1. ResponseSound(guiQueue[i])
    BY DEF IInv, QueueSound
  <2>2. FirstConnect(x)
    BY <1>7 DEF Once
  <2> QED BY <1>1, <1>2, <1>5, <1>7, <2>1, <2>2 DEF ResponseSound, Once, LifeSound
<1>8. guiQueue' \in Seq(ResponseType) /\ QueueSound'
  BY <1>4, <1>6, <1>7, QueueAppended
<1>9. Typed'
  BY <1>1, <1>8 DEF IInv, Typed
<1>10. ASSUME NEW k \in Handle PROVE LifeSound(k)'
  <2>1. CASE k = h
    <3>1. ASSUME NEW i \in DOMAIN requests'[h] PROVE RequestSound(h, i)'
      <4>1. PICK j \in DOMAIN requests[h] : requests'[h][i] = requests[h][j]
        BY <1>1
      <4>2. RequestSound(h, j)
        BY <1>2 DEF LifeSound
      <4>3. ~ FirstConnect(requests'[h][i])
        BY <1>1 DEF NoFirst, FirstConnect
      <4> QED BY <4>1, <4>2, <4>3 DEF RequestSound, FirstConnect
    <3> QED BY <1>1, <1>2, <2>1, <3>1 DEF LifeSound, Unborn
  <2>2. CASE k # h
    BY <1>1, <2>2, LifeKept DEF IInv
  <2> QED BY <2>1, <2>2
<1>11. \A k \in Handle : UseSound(k)'
  BY UseKept DEF IInv
<1>12. ProgressOnlyWhilePending'
  <2>1. Pending' = Pending
    BY DEF Pending, Opened
  <2> QED BY <2>1, CountKept
<1> QED BY <1>8, <1>9, <1>10, <1>11, <1>12 DEF IInv

LEMMA WorkerStep ==
  ASSUME IInv, \E h \in Handle : WorkerNext(h)
  PROVE  IInv'
<1>1. PICK h \in Handle : WorkerNext(h)
  OBVIOUS
<1>2. worker \in [Handle -> WorkerType] /\ worker[h].client \in BOOLEAN /\ worker[h].engine \in BOOLEAN
      /\ conn[h].kind.rs \in BOOLEAN /\ requests[h] \in Seq(Request)
  BY DEF IInv, Typed, WorkerType, KindType
<1>3. ASSUME NEW op, WorkerTakes(h, op)
      PROVE  /\ requests[h] # <<>> /\ requests' = [requests EXCEPT ![h] = Tail(@)]
             /\ UNCHANGED <<lastHandle, conn, server, ssh, shell, saved, ui>>
             /\ Head(requests[h]).op = op /\ Head(requests[h]) \in Request
             /\ \A x : reply(h, x) = Append(guiQueue, x)
  BY <1>2, <1>3, TailIndex DEF WorkerTakes, reply
<1>4. CASE WorkerConnects(h)
  <2>1. WorkerTakes(h, "connect") /\ crashed' = crashed
    BY <1>4 DEF WorkerConnects
  <2>2. Head(requests[h]).type \in ConnectionType
    BY <1>3, <2>1 DEF Request
  <2>3. PICK r \in EstablishConnection(h, Head(requests[h]).type) :
          worker' = [worker EXCEPT ![h] = r.worker] /\ guiQueue' = reply(h, r.response)
    BY <1>4 DEF WorkerConnects
  <2>4. /\ r.worker \in WorkerType /\ r.worker.state = worker[h].state
        /\ r.worker.isQuiting = worker[h].isQuiting /\ (worker[h].client => r.worker.client)
        /\ r.response \in ResponseType /\ r.response.handle = h /\ r.response.op = "connect"
        /\ r.response.type = Head(requests[h]).type /\ (r.response.ok => r.worker.client)
    BY <2>2, <2>3, Established DEF IInv
  <2>5. /\ worker' \in [Handle -> WorkerType] /\ worker'[h] = r.worker
        /\ \A k \in Handle : k # h => worker'[k] = worker[k]
    BY <1>2, <2>3, <2>4
  <2>6. crashed' \in BOOLEAN
    BY <2>1, Zenon DEF IInv, Typed
  <2> QED BY <1>3, <2>1, <2>3, <2>4, <2>5, <2>6, HandledStep
<1>5. CASE WorkerRefreshesFolder(h)
  <2>1. WorkerTakes(h, "folder") /\ worker' = worker
    BY <1>5 DEF WorkerRefreshesFolder
  <2>2. crashed' \in BOOLEAN
    BY <1>5, Zenon DEF WorkerRefreshesFolder
  <2>3. PICK ok \in BOOLEAN : guiQueue' = reply(h, Response(h, "folder", Refresh, ok, ok))
    BY <1>5 DEF WorkerRefreshesFolder
  <2> DEFINE y == Response(h, "folder", Refresh, ok, ok)
  <2>4. y \in ResponseType /\ y.handle = h /\ y.op = "folder"
    BY DEF Response, ResponseType, ConnectionType
  <2>5. guiQueue' = Append(guiQueue, y)
    BY <1>3, <2>1, <2>3
  <2> HIDE DEF y
  <2> QED BY <1>2, <1>3, <2>1, <2>2, <2>4, <2>5, HandledStep
<1>6. CASE WorkerExecutes(h)
  <2>1. WorkerTakes(h, "script") /\ worker' = worker
    BY <1>6 DEF WorkerExecutes
  <2>2. crashed' \in BOOLEAN
    BY <1>6, Zenon DEF WorkerExecutes
  <2>3. PICK ok \in BOOLEAN : guiQueue' = reply(h, ScriptResponse(h, ok))
    BY <1>6 DEF WorkerExecutes
  <2> DEFINE y == ScriptResponse(h, ok)
  <2>4. y \in ResponseType /\ y.handle = h /\ y.op = "script"
    BY DEF ScriptResponse, Response, ResponseType, ConnectionType
  <2>5. guiQueue' = Append(guiQueue, y)
    BY <1>3, <2>1, <2>3
  <2> HIDE DEF y
  <2> QED BY <1>2, <1>3, <2>1, <2>2, <2>4, <2>5, HandledStep
<1>7. CASE WorkerFinishes(h)
  <2>1. /\ UNCHANGED <<lastHandle, conn, server, ssh, guiQueue, shell, saved, ui, crashed>>
        /\ worker[h].state = "running" /\ worker[h].isQuiting
        /\ requests' = [requests EXCEPT ![h] = <<>>]
    BY <1>7 DEF WorkerFinishes
  <2>2. /\ worker' \in [Handle -> WorkerType] /\ worker'[h].state = "deleted"
        /\ worker'[h].client = worker[h].client
        /\ \A k \in Handle : k # h => worker'[k] = worker[k]
    <3>1. worker' = [worker EXCEPT ![h] = [worker[h] EXCEPT !.state = "deleted"]]
      BY <1>2, <1>7 DEF WorkerFinishes
    <3>2. [worker[h] EXCEPT !.state = "deleted"] \in WorkerType
          /\ [worker[h] EXCEPT !.state = "deleted"].client = worker[h].client
          /\ [worker[h] EXCEPT !.state = "deleted"].state = "deleted"
      BY <1>2 DEF WorkerType
    <3> QED BY <1>2, <3>1, <3>2
  <2>3. /\ requests' \in [Handle -> Seq(Request)] /\ requests'[h] = <<>>
        /\ \A k \in Handle : k # h => requests'[k] = requests[k]
    BY <2>1 DEF IInv, Typed
  <2>4. Typed'
    BY <2>1, <2>2, <2>3 DEF IInv, Typed
  <2>5. ASSUME NEW k \in Handle PROVE LifeSound(k)'
    <3>1. CASE k = h
      <4>1. LifeSound(h) /\ ~ Unborn(h)
        BY <2>1 DEF IInv, LifeSound, NoWorker
      <4>2. DOMAIN requests'[h] = {}
        BY <2>3
      <4> QED BY <2>1, <2>2, <2>3, <3>1, <4>1, <4>2 DEF LifeSound, Unborn
    <3>2. CASE k # h
      BY <2>1, <2>2, <2>3, <3>2, LifeKept DEF IInv
    <3> QED BY <3>1, <3>2
  <2>6. \A k \in Handle : UseSound(k)'
    BY <2>1, <2>2, UseKept DEF IInv
  <2>7. QueueSound'
    <3>1. ASSUME NEW r \in ResponseType, ResponseSound(r) PROVE ResponseSound(r)'
      <4>1. r.handle \in Handle /\ r.handle <= lastHandle'
        BY <2>1, <3>1 DEF ResponseType, ResponseSound
      <4>2. NoFirst(r.handle) => NoFirst(r.handle)'
        <5>1. CASE r.handle = h
          <6>1. DOMAIN requests'[h] = {}
            BY <2>3
          <6> QED BY <5>1, <6>1 DEF NoFirst
        <5>2. CASE r.handle # h
          BY <2>3, <4>1, <5>2 DEF NoFirst, FirstConnect
        <5> QED BY <5>1, <5>2
      <4>3. worker[r.handle].client => worker'[r.handle].client
        BY <2>2, <4>1
      <4> QED BY <2>1, <3>1, <4>1, <4>2, <4>3, ResponseKept
    <3> QED BY <2>1, <3>1, QueueKept
  <2>8. ProgressOnlyWhilePending'
    <3>1. Pending' = Pending
      BY <2>1 DEF Pending, Opened
    <3> QED BY <2>1, <3>1, CountKept
  <2> QED BY <2>4, <2>5, <2>6, <2>7, <2>8 DEF IInv
<1> QED BY <1>1, <1>4, <1>5, <1>6, <1>7 DEF WorkerNext

-----------------------------------------------------------------------------
(* The steps of the GUI thread.                                               *)

\* A response that changes nothing, or that finds its object deleted.
LEMMA DroppedStep ==
  ASSUME IInv, guiQueue # <<>>, guiQueue' = Tail(guiQueue), crashed' \in BOOLEAN,
         UNCHANGED <<lastHandle, conn, server, worker, requests, ssh, shell, saved, ui>>
  PROVE  IInv'
<1>1. ASSUME NEW r \in ResponseType, ResponseSound(r) PROVE ResponseSound(r)'
  BY <1>1 DEF ResponseSound, Unborn
<1>2. guiQueue' \in Seq(ResponseType) /\ QueueSound'
  BY <1>1, QueueTaken
<1>3. Typed'
  BY <1>2 DEF IInv, Typed
<1>4. \A k \in Handle : LifeSound(k)'
  BY LifeKept DEF IInv
<1>5. \A k \in Handle : UseSound(k)'
  BY UseKept DEF IInv
<1>6. ProgressOnlyWhilePending'
  <2>1. Pending' = Pending
    BY DEF Pending, Opened
  <2> QED BY <2>1, CountKept
<1> QED BY <1>2, <1>3, <1>4, <1>5, <1>6 DEF IInv

\* The main window has reported a connection at most once, and none after a later one.
BoxSound(u) == \A k \in Handle : u.boxes[k] <= 1 /\ (k > u.lastBox => u.boxes[k] = 0)

\* What one or two failures of connection h make of the user interface u.
AfterFailure(v, u, h) ==
  /\ v \in UiType /\ BoxSound(v)
  /\ v.items = u.items /\ v.added = u.added /\ v.failed = u.failed \cup {h}
  /\ v.dialog.server = u.dialog.server
  /\ v.progress <= u.progress /\ (u.progress > 0 => v.progress < u.progress)

LEMMA FailedOnce ==
  ASSUME NEW u \in UiType, NEW h \in Handle, NEW type \in ConnectionType, BoxSound(u)
  PROVE  AfterFailure(ConnectionFailed(u, h, type), u, h)
<1> DEFINE v == ConnectionFailed(u, h, type)
<1>1. /\ v \in UiType
      /\ v.items = u.items /\ v.added = u.added /\ v.failed = u.failed \cup {h}
      /\ v.dialog.server = u.dialog.server
      /\ v.progress <= u.progress /\ (u.progress > 0 => v.progress < u.progress)
      /\ \/ v.lastBox = u.lastBox /\ v.boxes = u.boxes
         \/ /\ h > u.lastBox /\ v.lastBox = h
            /\ v.boxes = [u.boxes EXCEPT ![h] = u.boxes[h] + 1]
  BY FailedFields
<1> HIDE DEF v
<1>2. ASSUME NEW k \in Handle PROVE v.boxes[k] <= 1 /\ (k > v.lastBox => v.boxes[k] = 0)
  <2>1. u.lastBox \in Int /\ u.boxes \in [Handle -> Nat] /\ k \in Int /\ h \in Int
    BY DEF UiType, Handle
  <2>2. u.boxes[k] <= 1 /\ (k > u.lastBox => u.boxes[k] = 0) /\ (h > u.lastBox => u.boxes[h] = 0)
    BY DEF BoxSound
  <2> QED BY <1>1, <2>1, <2>2
<1>3. BoxSound(v)
  BY <1>2 DEF BoxSound
<1> QED BY <1>1, <1>3 DEF AfterFailure, v

LEMMA FailedTwice ==
  ASSUME NEW u \in UiType, NEW v, NEW h \in Handle, NEW type \in ConnectionType, AfterFailure(v, u, h)
  PROVE  AfterFailure(ConnectionFailed(v, h, type), u, h)
<1> DEFINE w == ConnectionFailed(v, h, type)
<1>1. v \in UiType /\ AfterFailure(w, v, h)
  BY FailedOnce DEF AfterFailure
<1> HIDE DEF w
<1>2. w.progress <= u.progress /\ (u.progress > 0 => w.progress < u.progress)
  <2>1. w.progress \in Nat /\ v.progress \in Nat /\ u.progress \in Nat
    BY <1>1 DEF AfterFailure, UiType
  <2> QED BY <1>1, <2>1 DEF AfterFailure
<1>3. w.failed = u.failed \cup {h}
  BY <1>1 DEF AfterFailure
<1> QED BY <1>1, <1>2, <1>3 DEF AfterFailure, w

\* A failure is handled: the server of the connection stays as it is, or it is closed
\* with its worker, which only happens to one the explorer does not show.
LEMMA FailureStep ==
  ASSUME IInv, guiQueue # <<>>, guiQueue' = Tail(guiQueue), NEW h \in Handle, h <= lastHandle,
         AfterFailure(ui', ui, h),
         UNCHANGED <<lastHandle, conn, requests, ssh, shell, crashed>>, saved' \subseteq Kind,
         server' \in [Handle -> ServerType], worker' \in [Handle -> WorkerType],
         \A k \in Handle : k # h => server'[k] = server[k] /\ worker'[k] = worker[k],
         \/ server'[h].state = server[h].state /\ worker'[h] = worker[h]
         \/ /\ server[h].state = "live" /\ server'[h].state = "deleted" /\ h \notin ui.items
            /\ worker'[h].isQuiting /\ worker'[h].client = worker[h].client
  PROVE  IInv'
<1>1. /\ ui' \in UiType /\ BoxSound(ui')
      /\ ui'.items = ui.items /\ ui'.added = ui.added /\ ui'.failed = ui.failed \cup {h}
      /\ ui'.dialog.server = ui.dialog.server
      /\ ui'.progress <= ui.progress /\ (ui.progress > 0 => ui'.progress < ui.progress)
  BY DEF AfterFailure
<1>2. ASSUME NEW k \in Handle
      PROVE  /\ worker'[k].client = worker[k].client
             /\ server[k].state # "none" => server'[k].state # "none"
             /\ server'[k].state = "none" => server[k].state = "none"
             /\ k \in ui.items => server'[k].state = server[k].state
  BY DEF ServerType
<1>3. ASSUME NEW r \in ResponseType, ResponseSound(r) PROVE ResponseSound(r)'
  <2>1. r.handle \in Handle /\ r.handle <= lastHandle'
    BY <1>3 DEF ResponseType, ResponseSound
  <2>2. NoFirst(r.handle) => NoFirst(r.handle)'
    BY DEF NoFirst
  <2> QED BY <1>1, <1>2, <1>3, <2>1, <2>2, ResponseKept
<1>4. guiQueue' \in Seq(ResponseType) /\ QueueSound'
  BY <1>3, QueueTaken
<1>5. Typed'
  BY <1>1, <1>4 DEF IInv, Typed
<1>6. ASSUME NEW k \in Handle PROVE LifeSound(k)'
  <2>1. CASE k = h
    <3>1. LifeSound(h) /\ ~ (h > lastHandle)
      BY DEF IInv, Typed, Handle
    <3>2. \A i \in DOMAIN requests[h] : RequestSound(h, i)'
      BY <1>1, <1>2, <3>1 DEF LifeSound, RequestSound
    <3>3. (worker'[h].state = "running" /\ ~ worker'[h].isQuiting) <=> server'[h].state = "live"
      BY <3>1 DEF LifeSound
    <3>4. Unborn(h)' => Unborn(h) /\ worker'[h] = worker[h]
      BY <1>2 DEF Unborn
    <3>5. Unborn(h) => Unborn(h)'
      BY DEF Unborn
    <3> QED BY <1>1, <2>1, <3>1, <3>2, <3>3, <3>4, <3>5 DEF LifeSound
  <2>2. CASE k # h
    BY <1>1, <2>2, LifeKept DEF IInv
  <2> QED BY <2>1, <2>2
<1>7. ASSUME NEW k \in Handle PROVE UseSound(k)'
  <2>1. UseSound(k)
    BY DEF IInv
  <2> QED BY <1>1, <1>2, <2>1 DEF UseSound, Unborn, BoxSound
<1>8. ProgressOnlyWhilePending'
  <2>1. Pending \ {h} \subseteq Pending'
    BY <1>1 DEF Pending, Opened
  <2> QED BY <1>1, <1>5, <2>1, CountedDown
<1> QED BY <1>4, <1>5, <1>6, <1>7, <1>8 DEF IInv

\* A tunnel that failed is reported; one that is up gets its server.
LEMMA TunnelStep ==
  ASSUME IInv, HandleSshEstablish \/ HandleSshListen
  PROVE  IInv'
<1>0. PICK r, h : r = Head(guiQueue) /\ h = r.handle
  OBVIOUS
<1>1. guiQueue # <<>> /\ guiQueue' = Tail(guiQueue) /\ UNCHANGED <<lastHandle, conn, shell, saved, crashed>>
      /\ (HandleSshEstablish => r.op = "sshEstablish") /\ (HandleSshListen => r.op = "sshListen")
  BY <1>0 DEF HandleSshEstablish, HandleSshListen, GuiTakes
<1>2. /\ r \in ResponseType /\ ResponseSound(r) /\ h \in Handle
      /\ \A i \in DOMAIN guiQueue :
           i # 1 /\ Once(r) /\ Once(guiQueue[i]) => guiQueue[i].handle # h
  BY <1>0, <1>1, HeadSound
<1>3. /\ h <= lastHandle /\ lastHandle \in Nat /\ conn[h].kind \in AnyKind /\ r.type \in ConnectionType
      /\ r.type = conn[h].type /\ r.ok \in BOOLEAN
      /\ r.type \in {Primary, Secondary, Test}
  <2>1. h <= lastHandle /\ r.type = conn[h].type
    BY <1>0, <1>1, <1>2 DEF ResponseSound
  <2>2. LifeSound(h) /\ lastHandle \in Nat /\ conn[h].type \in {Primary, Secondary, Test}
    BY <1>2 DEF IInv, Typed
  <2>3. r.type \in ConnectionType /\ r.ok \in BOOLEAN
    BY <1>2 DEF ResponseType
  <2>4. conn[h].kind \in AnyKind
    BY <2>1, <2>2 DEF LifeSound
  <2> QED BY <2>1, <2>2, <2>3, <2>4
<1>4. CASE UNCHANGED <<server, worker, requests, ssh>> /\ ui' = ConnectionFailed(ui, h, r.type)
  <2>1. BoxSound(ui) /\ ui \in UiType
    BY DEF IInv, UseSound, BoxSound, Typed
  <2>2. AfterFailure(ui', ui, h)
    BY <1>2, <1>3, <1>4, <2>1, FailedOnce
  <2>3. saved' \subseteq Kind /\ server' \in [Handle -> ServerType] /\ worker' \in [Handle -> WorkerType]
    BY <1>1, <1>4 DEF IInv, Typed
  <2> QED BY <1>1, <1>2, <1>3, <1>4, <2>2, <2>3, FailureStep
<1>5. CASE UNCHANGED <<server, worker, requests, ssh, ui>>
  <2>1. crashed' \in BOOLEAN
    BY <1>1, Zenon DEF IInv, Typed
  <2> QED BY <1>1, <1>5, <2>1, DroppedStep
<1>6. CASE /\ r.ok /\ r.op = "sshEstablish"
           /\ continueOpenServer(h, conn[h].kind \in saved, r.type, <<>>)
           /\ ssh' = [ssh EXCEPT ![h] = "listening"] /\ UNCHANGED ui
  <2>1. ssh[h] = "established" /\ Once(r)
    BY <1>0, <1>2, <1>6 DEF ResponseSound, Once
  <2>2. /\ Unborn(h) /\ worker[h] = NoWorker /\ ui.added[h] = 0 /\ LifeSound(h) /\ UseSound(h)
        /\ shell[h] = NoHandle /\ h # ui.dialog.server /\ h \notin ui.items
    BY <1>2, <2>1 DEF IInv, LifeSound, UseSound, Unborn
  <2>3. PICK cached \in BOOLEAN : continueOpenServer(h, cached, r.type, <<>>)
    <3>1. (conn[h].kind \in saved) \in BOOLEAN
      OBVIOUS
    <3> QED BY <1>6, <3>1
  <2>4. /\ server' \in [Handle -> ServerType] /\ worker' \in [Handle -> WorkerType]
        /\ requests' \in [Handle -> Seq(Request)]
        /\ \A k \in Handle : k # h => /\ server'[k] = server[k] /\ worker'[k] = worker[k]
                                      /\ requests'[k] = requests[k]
    BY <1>2, <1>3, <2>2, <2>3, Born DEF IInv
  <2>5. /\ ssh' \in [Handle -> {"none", "establishing", "established", "listening", "stopped"}]
        /\ ssh'[h] = "listening" /\ \A k \in Handle : k # h => ssh'[k] = ssh[k]
    BY <1>2, <1>6 DEF IInv, Typed
  <2>6. LifeSound(h)' /\ ~ Unborn(h)'
    <3>1. /\ h <= lastHandle' /\ lastHandle' \in Nat /\ conn'[h].kind \in AnyKind /\ conn'[h].type = r.type
          /\ ui'.added[h] = 0 /\ ssh'[h] \notin {"establishing", "established"} /\ Typed
      BY <1>1, <1>3, <1>6, <2>2, <2>5 DEF IInv
    <3> QED BY <1>2, <1>3, <2>2, <2>3, <3>1, BornSound
  <2>7. ASSUME NEW q \in ResponseType, ResponseSound(q), \E i \in DOMAIN guiQueue : i # 1 /\ guiQueue[i] = q
        PROVE  ResponseSound(q)'
    <3>1. q.handle \in Handle /\ q.handle <= lastHandle'
      BY <1>1, <2>7 DEF ResponseType, ResponseSound
    <3>2. CASE q.handle # h
      <4>1. NoFirst(q.handle) => NoFirst(q.handle)'
        BY <2>4, <3>1, <3>2 DEF NoFirst, FirstConnect
      <4> QED BY <1>1, <1>6, <2>4, <2>5, <2>7, <3>1, <3>2, <4>1, ResponseKept
    <3>3. CASE q.handle = h
      <4>1. ~ Once(q)
        BY <1>2, <2>1, <2>7, <3>3
      <4>2. q.op # "connect"
        BY <2>2, <2>7, <3>3 DEF ResponseSound
      <4> QED BY <1>1, <2>7, <3>1, <4>1, <4>2 DEF ResponseSound, Once, FirstConnect
    <3> QED BY <3>2, <3>3
  <2>8. guiQueue' \in Seq(ResponseType) /\ QueueSound'
    BY <1>1, <2>7, QueueTaken
  <2>9. Typed'
    BY <1>1, <1>6, <2>4, <2>5, <2>8 DEF IInv, Typed
  <2>10. ASSUME NEW k \in Handle PROVE LifeSound(k)'
    <3>1. CASE k # h
      BY <1>1, <1>6, <2>4, <2>5, <3>1, LifeKept DEF IInv
    <3> QED BY <2>6, <3>1
  <2>11. ASSUME NEW k \in Handle PROVE UseSound(k)'
    <3>1. CASE k # h
      BY <1>1, <1>6, <2>4, <3>1, UseKept DEF IInv
    <3>2. CASE k = h
      BY <1>1, <1>6, <2>2, <3>2 DEF UseSound
    <3> QED BY <3>1, <3>2
  <2>12. ProgressOnlyWhilePending'
    <3>1. Pending' = Pending
      BY <1>1, <1>6 DEF Pending, Opened
    <3> QED BY <1>6, <3>1, CountKept
  <2> QED BY <2>8, <2>9, <2>10, <2>11, <2>12 DEF IInv
<1>7. CASE HandleSshEstablish
  BY <1>0, <1>1, <1>4, <1>6, <1>7 DEF HandleSshEstablish
<1>8. CASE HandleSshListen
  BY <1>0, <1>1, <1>4, <1>5, <1>8 DEF HandleSshListen
<1> QED BY <1>7, <1>8

\* The folder of a set was refreshed, or a script of a tab failed on it.
LEMMA FolderStep ==
  ASSUME IInv, NEW h \in Handle, server[h].state = "live", NEW ok \in BOOLEAN, NEW name \in BOOLEAN,
         FolderRefreshed(h, ok, name), guiQueue # <<>>, guiQueue' = Tail(guiQueue),
         UNCHANGED <<lastHandle, conn, worker, ssh, shell, saved, crashed>>
  PROVE  IInv'
<1>1. /\ ui' \in UiType /\ ui'.items = ui.items /\ ui'.added = ui.added /\ ui'.failed = ui.failed
      /\ ui'.progress = ui.progress /\ ui'.dialog = ui.dialog
      /\ ui'.boxes = ui.boxes /\ ui'.lastBox = ui.lastBox
  <2> DEFINE n == IF ok THEN ui.unreachable \ {h} ELSE ui.unreachable \cup ({h} \cap ui.items)
  <2>1. ui \in UiType
    BY DEF IInv, Typed
  <2>2. n \in SUBSET Handle
    BY <2>1 DEF UiType
  <2>3. ui' = [ui EXCEPT !.unreachable = n]
    BY DEF FolderRefreshed
  <2> HIDE DEF n
  <2> QED BY <2>1, <2>2, <2>3 DEF UiType
<1>2. /\ server' \in [Handle -> ServerType]
      /\ \A k \in Handle : server'[k].state = server[k].state
  <2> DEFINE c == IF ok THEN ~ conn[h].kind.named /\ name ELSE server[h].cached
  <2>1. server \in [Handle -> ServerType] /\ server[h].cached \in BOOLEAN
    BY DEF IInv, Typed, ServerType
  <2>2. c \in BOOLEAN
    BY <2>1
  <2>3. server' = [server EXCEPT ![h] = [server[h] EXCEPT !.cached = c]]
    BY <2>1 DEF FolderRefreshed
  <2> HIDE DEF c
  <2>4. [server[h] EXCEPT !.cached = c] \in ServerType /\ [server[h] EXCEPT !.cached = c].state = server[h].state
    BY <2>1, <2>2 DEF ServerType
  <2> QED BY <2>1, <2>3, <2>4
<1>3. PICK x \in Request : /\ requests' = Post(h, x) \/ requests' = requests
                           /\ x = Connect(Refresh) /\ ~ FirstConnect(x) /\ x.op # "folder"
  <2>1. /\ Connect(Refresh) \in Request /\ ~ FirstConnect(Connect(Refresh))
        /\ Connect(Refresh).op # "folder"
    BY DEF Connect, Request, FirstConnect, ConnectionType, Refresh
  <2>2. requests' = Post(h, Connect(Refresh)) \/ requests' = requests
    BY DEF FolderRefreshed
  <2> QED BY <2>1, <2>2
<1>4. /\ requests' \in [Handle -> Seq(Request)]
      /\ \A k \in Handle : (k # h => requests'[k] = requests[k]) /\ (NoFirst(k) => NoFirst(k)')
  <2>1. CASE requests' = Post(h, x)
    BY <1>3, <2>1, Posted DEF IInv
  <2>2. CASE requests' = requests
    BY <2>2 DEF IInv, Typed, NoFirst
  <2> QED BY <1>3, <2>1, <2>2
<1>5. ASSUME NEW r \in ResponseType, ResponseSound(r) PROVE ResponseSound(r)'
  <2>1. r.handle \in Handle /\ r.handle <= lastHandle'
    BY <1>5 DEF ResponseType, ResponseSound
  <2> QED BY <1>1, <1>2, <1>4, <1>5, <2>1, ResponseKept
<1>6. guiQueue' \in Seq(ResponseType) /\ QueueSound'
  BY <1>5, QueueTaken
<1>7. Typed'
  BY <1>1, <1>2, <1>4, <1>6 DEF IInv, Typed
<1>8. ASSUME NEW k \in Handle PROVE LifeSound(k)'
  <2>1. CASE requests'[k] = requests[k]
    BY <1>1, <1>2, <2>1, LifeKept DEF IInv
  <2>2. CASE k = h /\ requests' = Post(h, x)
    <3>1. ~ Unborn(h)
      BY DEF Unborn
    <3> QED BY <1>1, <1>2, <1>3, <2>2, <3>1, LifePosted
  <2> QED BY <1>3, <1>4, <2>1, <2>2
<1>9. \A k \in Handle : UseSound(k)'
  BY <1>1, <1>2, UseKept DEF IInv
<1>10. ProgressOnlyWhilePending'
  <2>1. Pending' = Pending
    BY <1>1 DEF Pending, Opened
  <2> QED BY <1>1, <2>1, CountKept
<1> QED BY <1>6, <1>7, <1>8, <1>9, <1>10 DEF IInv

\* The server is connected: its item, or the server of the dialog.
LEMMA SuccessStep ==
  ASSUME IInv, guiQueue # <<>>, guiQueue' = Tail(guiQueue), NEW r, r = Head(guiQueue),
         r.op = "connect", r.ok, server[r.handle].state = "live", connectionSucceeded(r),
         saved' \subseteq Kind, UNCHANGED <<lastHandle, conn, ssh, shell, crashed>>
  PROVE  IInv'
<1>1. PICK h : h = r.handle
  OBVIOUS
<1>2. /\ r \in ResponseType /\ ResponseSound(r) /\ h \in Handle /\ r.type \in ConnectionType
      /\ \A i \in DOMAIN guiQueue :
           i # 1 /\ Once(r) /\ Once(guiQueue[i]) => guiQueue[i].handle # h
  BY <1>1, HeadSound DEF ResponseType
<1>3. /\ ~ Unborn(h) /\ worker[h].client /\ LifeSound(h) /\ UseSound(h) /\ server[h].state = "live"
      /\ r.type # Refresh => /\ Once(r) /\ FirstConnect(r) /\ NoFirst(h)
                             /\ r.type = conn[h].type /\ ui.added[h] = 0
  BY <1>1, <1>2 DEF ResponseSound, IInv, Once, FirstConnect, NoFirst
<1>4. /\ ui' \in UiType
      /\ ui'.failed = ui.failed /\ ui'.lastBox = ui.lastBox /\ ui'.boxes = ui.boxes
      /\ ui'.dialog.server = ui.dialog.server \/ (r.type = Test /\ ui'.dialog.server = h)
      /\ r.type = Primary => /\ ui'.items = ui.items \cup {h}
                             /\ ui'.added = [ui.added EXCEPT ![h] = ui.added[h] + 1]
                             /\ ui'.progress <= ui.progress /\ (ui.progress > 0 => ui'.progress < ui.progress)
      /\ r.type # Primary => ui'.items = ui.items /\ ui'.added = ui.added /\ ui'.progress = ui.progress
  <2>1. ui \in UiType
    BY DEF IInv, Typed
  <2> DEFINE v == ConnectionEstablished(ui, h, r.type)
  <2>2. /\ v \in UiType
        /\ v.failed = ui.failed /\ v.lastBox = ui.lastBox /\ v.boxes = ui.boxes
        /\ v.dialog.server = ui.dialog.server \/ (r.type = Test /\ v.dialog.server = h)
        /\ r.type = Primary => /\ v.items = ui.items \cup {h}
                               /\ v.added = [ui.added EXCEPT ![h] = ui.added[h] + 1]
                               /\ v.progress <= ui.progress /\ (ui.progress > 0 => v.progress < ui.progress)
        /\ r.type # Primary => v.items = ui.items /\ v.added = ui.added /\ v.progress = ui.progress
    BY <1>2, <2>1, EstablishedFields
  <2>3. ui' = v \/ (ui' = ui /\ r.type # Primary)
    BY <1>1 DEF connectionSucceeded, Refresh, Primary
  <2> HIDE DEF v
  <2>4. CASE ui' = v
    BY <2>2, <2>4
  <2>5. CASE ui' = ui /\ r.type # Primary
    BY <2>1, <2>5
  <2> QED BY <2>3, <2>4, <2>5
<1>5. /\ ui.added \in [Handle -> Nat] /\ \A k \in Handle : k # h => ui'.added[k] = ui.added[k]
      /\ r.type = Primary => ui'.added[h] = 1
      /\ r.type # Primary => ui'.added[h] = ui.added[h]
  <2>1. ui.added \in [Handle -> Nat]
    BY DEF IInv, Typed, UiType
  <2> QED BY <1>2, <1>3, <1>4, <2>1 DEF Primary, Refresh
<1>6. /\ server' \in [Handle -> ServerType]
      /\ \A k \in Handle : server'[k].state = server[k].state
  <2> DEFINE c == CachedName(r)
             t == [state |-> "live", cached |-> c, type |-> r.type, isConnected |-> TRUE]
  <2>1. server \in [Handle -> ServerType] /\ server[h].cached \in BOOLEAN
    BY <1>2 DEF IInv, Typed, ServerType
  <2>2. c \in BOOLEAN
    BY <1>1, <2>1, Zenon DEF CachedName
  <2>3. server' = [server EXCEPT ![h] = t]
    BY <1>1 DEF connectionSucceeded
  <2> HIDE DEF c
  <2>4. t \in ServerType /\ t.state = "live"
    BY <1>2, <2>2 DEF ServerType, ConnectionType
  <2> HIDE DEF t
  <2> QED BY <1>2, <1>3, <2>1, <2>3, <2>4
<1>7. PICK x \in Request : /\ requests' = Post(h, x) \/ requests' = requests
                           /\ ~ FirstConnect(x)
  <2>1. Folder \in Request /\ ~ FirstConnect(Folder)
    BY DEF Folder, Request, FirstConnect, ConnectionType
  <2>2. requests' = Post(h, Folder) \/ requests' = requests
    BY <1>1 DEF connectionSucceeded
  <2> QED BY <2>1, <2>2
<1>8. /\ requests' \in [Handle -> Seq(Request)]
      /\ \A k \in Handle : (k # h => requests'[k] = requests[k]) /\ (NoFirst(k) => NoFirst(k)')
  <2>1. CASE requests' = Post(h, x)
    BY <1>2, <1>7, <2>1, Posted DEF IInv
  <2>2. CASE requests' = requests
    BY <2>2 DEF IInv, Typed, NoFirst
  <2> QED BY <1>7, <2>1, <2>2
<1>9. worker' = worker
  BY DEF connectionSucceeded
<1>10. ASSUME NEW q \in ResponseType, ResponseSound(q), \E i \in DOMAIN guiQueue : i # 1 /\ guiQueue[i] = q
       PROVE  ResponseSound(q)'
  <2>1. q.handle \in Handle /\ q.handle <= lastHandle'
    BY <1>10 DEF ResponseType, ResponseSound
  <2>2. CASE ui'.added[q.handle] = ui.added[q.handle]
    BY <1>6, <1>8, <1>9, <1>10, <2>1, <2>2, ResponseKept
  <2>3. CASE ui'.added[q.handle] # ui.added[q.handle]
    <3>1. q.handle = h /\ r.type = Primary
      BY <1>5, <2>1, <2>3
    <3>2. ~ Once(q)
      BY <1>2, <1>3, <1>10, <3>1 DEF Primary, Refresh
    <3> QED BY <1>6, <1>9, <1>10, <2>1, <3>2 DEF ResponseSound, Unborn, Once, FirstConnect
  <2> QED BY <2>2, <2>3
<1>11. guiQueue' \in Seq(ResponseType) /\ QueueSound'
  BY <1>10, QueueTaken
<1>12. Typed'
  BY <1>4, <1>6, <1>8, <1>9, <1>11 DEF IInv, Typed
<1>13. ASSUME NEW k \in Handle PROVE LifeSound(k)'
  <2>1. CASE k # h
    BY <1>4, <1>5, <1>6, <1>8, <1>9, <2>1, LifeKept DEF IInv
  <2>2. CASE k = h /\ requests' = Post(h, x)
    <3>1. ui'.added[h] = ui.added[h] \/ NoFirst(h)
      BY <1>3, <1>5 DEF Primary, Refresh
    <3> QED BY <1>2, <1>3, <1>4, <1>6, <1>7, <1>9, <2>2, <3>1, LifePosted
  <2>3. CASE k = h /\ requests' = requests
    <3>1. ASSUME NEW i \in DOMAIN requests[h] PROVE RequestSound(h, i)'
      <4>1. RequestSound(h, i)
        BY <1>3 DEF LifeSound
      <4>2. FirstConnect(requests[h][i]) => ui'.added[h] = ui.added[h]
        BY <1>3, <1>5 DEF NoFirst, Primary, Refresh
      <4> QED BY <1>9, <2>3, <4>1, <4>2 DEF RequestSound
    <3> QED BY <1>2, <1>3, <1>4, <1>6, <1>9, <2>3, <3>1 DEF LifeSound, Unborn
  <2> QED BY <1>7, <2>1, <2>2, <2>3
<1>14. ASSUME NEW k \in Handle PROVE UseSound(k)'
  <2>1. UseSound(k)
    BY DEF IInv
  <2>2. CASE k # h
    BY <1>4, <1>5, <1>6, <1>9, <2>1, <2>2, UseKept
  <2>3. CASE k = h
    <3>1. h \in ui'.items => conn[h].type = Primary /\ ui'.added[h] = 1
      BY <1>3, <1>4, <1>5 DEF UseSound, Primary, Refresh
    <3>2. h = ui'.dialog.server => conn[h].type = Test
      BY <1>3, <1>4 DEF UseSound, Test, Refresh
    <3>3. ui'.added[h] <= 1
      BY <1>3, <1>5 DEF UseSound
    <3> QED BY <1>2, <1>3, <1>4, <1>6, <1>9, <2>3, <3>1, <3>2, <3>3 DEF UseSound, Unborn
  <2> QED BY <2>2, <2>3
<1>15. ProgressOnlyWhilePending'
  <2>1. CASE r.type = Primary
    <3>1. Pending \ {h} \subseteq Pending'
      <4>1. \A k \in 1 .. lastHandle : k \in Handle
        BY BoundAssumption DEF IInv, Typed, Handle
      <4> QED BY <1>4, <1>5, <4>1 DEF Pending, Opened
    <3> QED BY <1>4, <1>12, <2>1, <3>1, CountedDown
  <2>2. CASE r.type # Primary
    <3>1. Pending' = Pending
      BY <1>4, <2>2 DEF Pending, Opened
    <3> QED BY <1>4, <2>2, <3>1, CountKept
  <2> QED BY <2>1, <2>2
<1> QED BY <1>11, <1>12, <1>13, <1>14, <1>15 DEF IInv

\* The connection failed: a single server is closed, unless a tab uses it.
LEMMA FailedStep ==
  ASSUME IInv, guiQueue # <<>>, guiQueue' = Tail(guiQueue), NEW r, r = Head(guiQueue),
         r.op = "connect", server[r.handle].state = "live", handleConnectionFailure(r),
         saved' \subseteq Kind, UNCHANGED <<lastHandle, conn, ssh, shell, crashed>>
  PROVE  IInv'
<1>1. PICK h : h = r.handle
  OBVIOUS
<1>2. r \in ResponseType /\ ResponseSound(r) /\ h \in Handle /\ r.type \in ConnectionType /\ h <= lastHandle
  BY <1>1, HeadSound DEF ResponseType, ResponseSound
<1> DEFINE close == ~ conn[h].kind.rs /\ r.type \in {Primary, Test}
<1>3. close => h \notin ui.items
  BY <1>1, <1>2 DEF ResponseSound, FirstConnect, IInv, UseSound, Primary, Test, Refresh
<1>4. close \in BOOLEAN
  OBVIOUS
<1>5. AfterFailure(ui', ui, h)
  <2>1. BoxSound(ui) /\ ui \in UiType
    BY DEF IInv, UseSound, BoxSound, Typed
  <2> DEFINE once == ConnectionFailed(ui, h, r.type)
  <2>2. AfterFailure(once, ui, h)
    BY <1>2, <2>1, FailedOnce
  <2>3. AfterFailure(ConnectionFailed(once, h, r.type), ui, h)
    BY <1>2, <2>1, <2>2, FailedTwice
  <2>4. ui' = IF conn[h].kind.rs THEN ConnectionFailed(once, h, r.type) ELSE once
    BY <1>1 DEF handleConnectionFailure, FailurePublished
  <2> HIDE DEF once
  <2> QED BY <2>2, <2>3, <2>4
<1>6. /\ server' \in [Handle -> ServerType]
      /\ \A k \in Handle : k # h => server'[k] = server[k]
      /\ server'[h].state = IF close THEN "deleted" ELSE "live"
  <2> DEFINE c == CachedName(r)
             s == IF close THEN "deleted" ELSE "live"
             t == [state |-> s, cached |-> c, type |-> r.type, isConnected |-> FALSE]
  <2>1. server \in [Handle -> ServerType] /\ server[h].cached \in BOOLEAN
    BY <1>2 DEF IInv, Typed, ServerType
  <2>2. c \in BOOLEAN
    BY <1>1, <2>1, Zenon DEF CachedName
  <2>3. server' = [server EXCEPT ![h] = t]
    BY <1>1 DEF handleConnectionFailure, ServerAfterFailure
  <2>4. s \in {"deleted", "live"}
    OBVIOUS
  <2> HIDE DEF c, s
  <2>5. t \in ServerType /\ t.state = s
    BY <1>2, <2>2, <2>4 DEF ServerType, ConnectionType
  <2> HIDE DEF t
  <2> QED BY <1>2, <2>1, <2>3, <2>5 DEF s
<1>7. /\ worker' \in [Handle -> WorkerType]
      /\ \A k \in Handle : k # h => worker'[k] = worker[k]
      /\ worker'[h].client = worker[h].client
      /\ close => worker'[h].isQuiting
      /\ ~ close => worker'[h] = worker[h]
  <2> DEFINE b == worker[h].isQuiting \/ close
             w == [worker[h] EXCEPT !.isQuiting = b]
  <2>1. worker \in [Handle -> WorkerType] /\ worker[h] \in WorkerType /\ worker[h].isQuiting \in BOOLEAN
    BY <1>2 DEF IInv, Typed, WorkerType
  <2>2. worker' = [worker EXCEPT ![h] = w]
    BY <1>1, <2>1 DEF handleConnectionFailure
  <2>3. b \in BOOLEAN /\ (close => b = TRUE) /\ (~ close => b = worker[h].isQuiting)
    BY <2>1, Zenon
  <2> HIDE DEF b, close
  <2>4. w \in WorkerType /\ w.client = worker[h].client /\ w.isQuiting = b
        /\ (b = worker[h].isQuiting => w = worker[h])
    BY <2>1, <2>3 DEF WorkerType
  <2> HIDE DEF w
  <2>5. /\ worker' \in [Handle -> WorkerType] /\ worker'[h] = w
        /\ \A k \in Handle : k # h => worker'[k] = worker[k]
    BY <1>2, <2>1, <2>2, <2>4
  <2> QED BY <2>3, <2>4, <2>5
<1>8. requests' = requests /\ server[h].state = "live"
  BY <1>1 DEF handleConnectionFailure
<1> HIDE DEF close
<1> QED BY <1>2, <1>3, <1>5, <1>6, <1>7, <1>8, FailureStep

LEMMA ConnectStep ==
  ASSUME IInv, HandleConnect
  PROVE  IInv'
<1>1. PICK r : r = Head(guiQueue)
  OBVIOUS
<1>2. /\ guiQueue # <<>> /\ guiQueue' = Tail(guiQueue) /\ r.op = "connect" /\ UNCHANGED <<lastHandle, conn>>
  BY <1>1 DEF HandleConnect, ToDeleted, GuiTakes
<1>3. /\ r \in ResponseType /\ ResponseSound(r) /\ r.handle \in Handle
  BY <1>1, <1>2, HeadSound
<1>4. CASE ToDeleted("connect", server[r.handle].state = "deleted")
  BY <1>2, <1>4, DroppedStep DEF ToDeleted
<1>5. CASE /\ server[r.handle].state = "live" /\ UNCHANGED <<ssh, shell, crashed>>
           /\ IF conn[r.handle].kind.rs THEN updateReplicaSetSettings(r) ELSE UNCHANGED saved
           /\ IF r.ok THEN connectionSucceeded(r) ELSE handleConnectionFailure(r)
  <2>1. conn[r.handle].kind.rs => conn[r.handle].kind \in Kind
    BY <1>3 DEF ResponseSound, IInv, LifeSound, AnyKind
  <2>2. saved' \subseteq Kind
    <3>1. saved \subseteq Kind
      BY DEF IInv, Typed
    <3> QED BY <1>5, <2>1, <3>1 DEF updateReplicaSetSettings
  <2>3. CASE r.ok
    BY <1>1, <1>2, <1>5, <2>2, <2>3, SuccessStep
  <2>4. CASE ~ r.ok
    BY <1>1, <1>2, <1>5, <2>2, <2>4, FailedStep
  <2> QED BY <2>3, <2>4
<1> QED BY <1>1, <1>4, <1>5 DEF HandleConnect

LEMMA FolderOrScriptStep ==
  ASSUME IInv, HandleFolder \/ HandleScript
  PROVE  IInv'
<1>1. PICK r : r = Head(guiQueue)
  OBVIOUS
<1>2. guiQueue # <<>> /\ guiQueue' = Tail(guiQueue) /\ UNCHANGED <<lastHandle, conn>>
  BY DEF HandleFolder, HandleScript, ToDeleted, GuiTakes
<1>3. r.handle \in Handle /\ r.ok \in BOOLEAN /\ r.name \in BOOLEAN
  BY <1>1, <1>2, HeadSound DEF ResponseType
<1>4. CASE /\ crashed' = TRUE
           /\ UNCHANGED <<server, worker, requests, ssh, shell, saved, ui>>
  BY <1>2, <1>4, DroppedStep
<1>5. CASE HandleFolder
  <2>1. CASE /\ server[r.handle].state = "live" /\ FolderRefreshed(r.handle, r.ok, r.name)
             /\ UNCHANGED <<worker, ssh, shell, saved, crashed>>
    BY <1>2, <1>3, <2>1, FolderStep
  <2> QED BY <1>1, <1>4, <1>5, <2>1 DEF HandleFolder, ToDeleted
<1>6. CASE HandleScript
  <2>1. ASSUME NEW p, p = shell[r.handle], p # NoHandle,
               UNCHANGED <<worker, ssh, shell, saved, crashed>>,
               server[p].state = "live", FolderRefreshed(p, FALSE, FALSE)
        PROVE  IInv'
    <3>1. p \in Handle
      BY <1>3, <2>1 DEF IInv, Typed
    <3> QED BY <1>2, <2>1, <3>1, FolderStep
  <2>2. CASE UNCHANGED <<worker, ssh, shell, saved, crashed, ui, requests, server>>
    <3>1. crashed' \in BOOLEAN
      BY <2>2, Zenon DEF IInv, Typed
    <3> QED BY <1>2, <2>2, <3>1, DroppedStep
  <2> QED BY <1>1, <1>4, <1>6, <2>1, <2>2 DEF HandleScript, ToDeleted
<1> QED BY <1>5, <1>6

-----------------------------------------------------------------------------
(* The theorems.                                                              *)

\* The invariant holds in every state of App's connections, whatever order tunnels,
\* workers, the GUI thread and the user act in.
THEOREM Invariance == Spec => []IInv
<1>1. Init => IInv
  <2> SUFFICES ASSUME Init PROVE IInv
    OBVIOUS
  <2>1. ui \in UiType
    <3> DEFINE d == [open |-> FALSE, handle |-> NoHandle, server |-> NoHandle, result |-> "none"]
    <3>1. d \in DialogType
      BY DEF DialogType
    <3>2. ui = [progress |-> 0, items |-> {}, added |-> [h \in Handle |-> 0], failed |-> {},
                unreachable |-> {}, lastBox |-> -1, boxes |-> [h \in Handle |-> 0], dialog |-> d]
      BY DEF Init
    <3> HIDE DEF d
    <3> QED BY <3>1, <3>2 DEF UiType
  <2>2. Typed
    <3>1. lastHandle \in 0 .. MaxHandles /\ saved \subseteq Kind /\ guiQueue \in Seq(ResponseType)
      BY BoundAssumption DEF Init
    <3>2. conn \in [Handle -> [type : {Primary, Secondary, Test}, kind : KindType]]
      BY DEF Init, KindType
    <3>3. server \in [Handle -> ServerType] /\ worker \in [Handle -> WorkerType]
      BY DEF Init, ServerType, WorkerType, NoServer, NoWorker
    <3>4. /\ requests \in [Handle -> Seq(Request)]
          /\ ssh \in [Handle -> {"none", "establishing", "established", "listening", "stopped"}]
          /\ shell \in [Handle -> Handle \cup {NoHandle}]
      BY DEF Init
    <3>5. crashed \in BOOLEAN
      BY DEF Init
    <3> QED BY <2>1, <3>1, <3>2, <3>3, <3>4, <3>5 DEF Typed
  <2>3. /\ ui.progress = 0 /\ ui.items = {} /\ ui.failed = {} /\ ui.dialog.server = NoHandle
        /\ \A h \in Handle : ui.added[h] = 0 /\ ui.boxes[h] = 0
    BY DEF Init
  <2>4. ASSUME NEW h \in Handle PROVE LifeSound(h)
    <3>1. DOMAIN requests[h] = {} /\ h > lastHandle
      BY DEF Init, Handle
    <3>2. requests[h] = <<>> /\ worker[h] = NoWorker /\ server[h] = NoServer /\ ssh[h] = "none"
      BY DEF Init
    <3>3. h \in Nat /\ lastHandle = 0
      BY DEF Init, Handle
    <3> QED BY <2>3, <3>1, <3>2, <3>3 DEF LifeSound, Unborn, NoWorker, NoServer
  <2>5. ASSUME NEW h \in Handle PROVE UseSound(h)
    <3>1. shell[h] = NoHandle /\ h # ui.dialog.server
      BY <2>3, NoHandleIsNone DEF Init
    <3> QED BY <2>3, <3>1 DEF UseSound
  <2>6. QueueSound
    <3>1. DOMAIN guiQueue = {}
      BY DEF Init
    <3> QED BY <3>1 DEF QueueSound
  <2>7. ProgressOnlyWhilePending
    BY <2>2, <2>3, PendingFinite DEF ProgressOnlyWhilePending
  <2> QED BY <2>2, <2>4, <2>5, <2>6, <2>7 DEF IInv
<1>2. IInv /\ [Next]_vars => IInv'
  <2> SUFFICES ASSUME IInv, [Next]_vars PROVE IInv'
    OBVIOUS
  <2>1. CASE OpenPrimary \/ OpenDialog \/ \E h \in Handle : openShell(h)
    BY <2>1, OpeningStep
  <2>2. CASE CloseDialog \/ \E h \in Handle : closeShell(h) \/ DisconnectServer(h)
    BY <2>2, ClosingStep
  <2>3. CASE \E h \in Handle : RefreshServer(h) \/ tryRefreshReplicaSetFolder(h) \/ ExecuteScript(h)
    BY <2>3, AskStep
  <2>4. CASE \E h \in Handle : SshNext(h)
    BY <2>4, SshStep
  <2>5. CASE \E h \in Handle : WorkerNext(h)
    BY <2>5, WorkerStep
  <2>6. CASE HandleSshEstablish \/ HandleSshListen
    BY <2>6, TunnelStep
  <2>7. CASE HandleConnect
    BY <2>7, ConnectStep
  <2>8. CASE HandleFolder \/ HandleScript
    BY <2>8, FolderOrScriptStep
  <2>9. CASE UNCHANGED vars
    <3>1. ui' = ui /\ ui' \in UiType
          /\ UNCHANGED <<lastHandle, conn, server, worker, requests, ssh, guiQueue, shell, saved, crashed>>
      BY <2>9 DEF vars, IInv, Typed
    <3> QED BY <3>1, ViewStep
  <2> QED BY <2>1, <2>2, <2>3, <2>4, <2>5, <2>6, <2>7, <2>8, <2>9 DEF Next, UserNext, GuiNext
<1> QED BY <1>1, <1>2, PTL DEF Spec

\* App's handle counter, the servers, workers, tunnels and shells keep their types, and the
\* explorer shows only connections that were opened.
THEOREM TypeCorrect == Spec => []TypeOK
<1>1. IInv => TypeOK
  <2> SUFFICES ASSUME IInv PROVE TypeOK
    OBVIOUS
  <2>1. ui.items \subseteq Opened
    <3> SUFFICES ASSUME NEW h \in ui.items PROVE h \in Opened
      OBVIOUS
    <3>1. h \in Handle
      BY DEF IInv, Typed, UiType
    <3>2. h \in Nat /\ h >= 1 /\ lastHandle \in Nat
      BY <3>1 DEF IInv, Typed, Handle
    <3>3. ~ Unborn(h)
      BY <3>1 DEF IInv, UseSound, Unborn
    <3>4. ~ (h > lastHandle)
      BY <3>1, <3>3 DEF IInv, LifeSound
    <3> QED BY <3>2, <3>4 DEF Opened
  <2>2. ui.progress \in Nat
    BY DEF IInv, Typed, UiType
  <2> QED BY <2>1, <2>2 DEF IInv, Typed, TypeOK
<1> QED BY <1>1, Invariance, PTL

\* A worker serves exactly while its server lives, although closing a server, a failed
\* connection and the end of a tab or the dialog all stop it, and it is never asked to
\* refresh a folder before it has a client (MongoServer's destructor, getReplicaSetInfo).
THEOREM WorkersBelong == Spec => []WorkersServe
<1>1. IInv => WorkersServe
  <2> SUFFICES ASSUME IInv PROVE WorkersServe
    OBVIOUS
  <2>1. NoOrphanWorkers
    BY DEF IInv, LifeSound, NoOrphanWorkers
  <2>2. FolderNeedsClient
    BY DEF IInv, LifeSound, RequestSound, FolderNeedsClient
  <2> QED BY <2>1, <2>2 DEF WorkersServe
<1> QED BY <1>1, Invariance, PTL

\* The explorer's items point to living servers, a connection is shown and reported at most
\* once, and progress is only shown while a connection is pending, in whatever order the
\* answers of tunnels and workers and the user's closing come.
THEOREM ExplorerTrue == Spec => []ExplorerTruthful
<1>1. IInv => ExplorerTruthful
  <2> SUFFICES ASSUME IInv PROVE ExplorerTruthful
    OBVIOUS
  <2>1. ItemsLive
    <3>1. ui.items \subseteq Handle
      BY DEF IInv, Typed, UiType
    <3> QED BY <3>1 DEF IInv, UseSound, ItemsLive
  <2>2. ShownAndReportedOnce
    BY DEF IInv, UseSound, ShownAndReportedOnce
  <2>3. ProgressOnlyWhilePending
    BY DEF IInv
  <2> QED BY <2>1, <2>2, <2>3 DEF ExplorerTruthful
<1> QED BY <1>1, Invariance, PTL

-----------------------------------------------------------------------------
(* The dialogs of the explorer.                                               *)

CollectionFields ==
  {"dialog", "server", "w", "text", "validation", "obj", "front", "activeFrame", "activeObj", "advanced",
   "off", "hidden"}

\* The dialog for a collection of the server s: the options and tabs it switched off stay
\* so, and a tab that is off still has its empty document.
CollectionSound(f) ==
  /\ DOMAIN f = CollectionFields /\ f.server \in Server
  /\ DOMAIN f.text = Frame /\ DOMAIN f.obj = Frame
  /\ \A x \in disableUnsupportedOptions(f.server) : x \in f.off
  /\ \A x \in Frame : x \in f.off => f.text[x] = "{}"

\* The names users have or are given.
UserNames == Texts \cup {u.name : u \in User}

UserFields == {"dialog", "user", "existing", "w"}

\* The dialog for a user: the source is no database or one of them.
UserSound(f) ==
  /\ DOMAIN f = UserFields
  /\ DOMAIN f.user = {"version", "id", "name", "pwd", "readOnly", "userSource", "roles"}
  /\ DOMAIN f.w = {"name", "password", "readOnly", "source", "roles"}
  /\ f.w.source \in Database \cup {""} 
  /\ f.w.name \in UserNames /\ f.w.password \in Texts

EulaFields == {"dialog", "page", "agree", "enabled", "email"}

\* The licence: without consent no button leads on, and the first page has only the
\* button that consent gives.
EulaSound(f) ==
  /\ DOMAIN f = EulaFields /\ f.agree \in BOOLEAN
  /\ ~ f.agree => f.enabled = {}
  /\ f.page = 1 => f.enabled \subseteq {Consent}
  /\ "next" \in f.enabled \/ "back" \in f.enabled => TwoPages

\* The other dialogs keep their name.
PlainSound(f) == "dialog" \in DOMAIN f

\* The inductive invariant of these dialogs.
ExplorerSound ==
  /\ IsOpen("collection") => CollectionSound(form)
  /\ IsOpen("user") => UserSound(form)
  /\ IsOpen("eula") => EulaSound(form)
  /\ IsOpen("function") \/ IsOpen("name") => PlainSound(form)
  /\ connection = NULL => ~ IsOpen("connection")
  /\ SentConsistent

\* A step after which no dialog of these is open, or none that was not, and nothing is sent.
LEMMA NothingOpened ==
  ASSUME ExplorerSound, sent' = sent \/ sent' = NULL, connection' = NULL => form' = NULL,
         form' = NULL \/ (form' # NULL /\ form'.dialog \notin {"collection", "user", "eula", "function", "name"})
  PROVE  ExplorerSound'
<1>1. SentConsistent'
  BY DEF ExplorerSound, SentConsistent, CommandFitsServer, OneWayToAuthenticate, AgreedBeforeUse, Sent
<1>2. ~ IsOpen("collection")' /\ ~ IsOpen("user")' /\ ~ IsOpen("eula")' /\ ~ IsOpen("function")' /\ ~ IsOpen("name")'
  BY DEF IsOpen
<1>3. connection' = NULL => ~ IsOpen("connection")'
  BY DEF IsOpen
<1> QED BY <1>1, <1>2, <1>3 DEF ExplorerSound

\* What is sent stays consistent when nothing is sent.
LEMMA NothingSent ==
  ASSUME ExplorerSound, sent' = sent \/ sent' = NULL
  PROVE  SentConsistent'
  BY DEF ExplorerSound, SentConsistent, CommandFitsServer, OneWayToAuthenticate, AgreedBeforeUse, Sent

\* A dialog of one kind is open after the step, and sound.
LEMMA OneOpen ==
  ASSUME ExplorerSound, SentConsistent', NEW d, form'.dialog = d,
         d \in {"collection", "user", "eula", "function", "name"},
         d = "collection" => CollectionSound(form'),
         d = "user" => UserSound(form'),
         d = "eula" => EulaSound(form'),
         d \in {"function", "name"} => PlainSound(form')
  PROVE  ExplorerSound'
<1>1. \A x : IsOpen(x)' => x = d
  BY DEF IsOpen
<1>2. CollectionSound(form)' = CollectionSound(form') /\ UserSound(form)' = UserSound(form')
      /\ EulaSound(form)' = EulaSound(form') /\ PlainSound(form)' = PlainSound(form')
  BY DEF CollectionSound, UserSound, EulaSound, PlainSound
<1> QED BY <1>1, <1>2 DEF ExplorerSound

-----------------------------------------------------------------------------
(* CreateCollectionDialog.                                                    *)

\* An edit that leaves the server, the frames' texts and what is switched off.
LEMMA CollectionKept ==
  ASSUME ExplorerSound, IsOpen("collection"), sent' = sent,
         DOMAIN form' = DOMAIN form, form'.dialog = form.dialog, form'.server = form.server,
         form'.text = form.text, DOMAIN form'.obj = DOMAIN form.obj, form'.off = form.off
  PROVE  ExplorerSound'
<1>1. CollectionSound(form)
  BY DEF ExplorerSound
<1>2. CollectionSound(form')
  BY <1>1 DEF CollectionSound
<1>3. form'.dialog = "collection"
  BY DEF IsOpen
<1> QED BY <1>2, <1>3, NothingSent, OneOpen

LEMMA OpenCollection == ASSUME ExplorerSound, ui_createCollection PROVE ExplorerSound'
<1>1. PICK s \in Server : form' = CreateCollectionDialog(s) /\ sent' = NULL
  BY DEF ui_createCollection, Opens
<1>2. /\ form'.dialog = "collection" /\ DOMAIN form' = CollectionFields /\ form'.server = s
      /\ form'.text = createFrameTab /\ form'.obj = createFrameTab
      /\ form'.off = disableUnsupportedOptions(s) \cup {"size", "max"}
  BY <1>1 DEF CreateCollectionDialog, CollectionFields
<1>3. CollectionSound(form')
  BY <1>2 DEF CollectionSound, createFrameTab
<1> QED BY <1>1, <1>2, <1>3, NothingSent, OneOpen

LEMMA CollectionEdits ==
  ASSUME ExplorerSound,
         \/ onAdvancedButtonToggled \/ \E tab \in Tab : onTabChanged(tab)
         \/ TypeCollectionName \/ TypeNumber \/ ChooseLevel \/ ChooseAction
  PROVE  ExplorerSound'
<1>1. IsOpen("collection") /\ sent' = sent
  BY DEF onAdvancedButtonToggled, onTabChanged, TypeCollectionName, TypeNumber, ChooseLevel, ChooseAction, Edit, Offered
<1>2. DOMAIN form = CollectionFields
  BY <1>1 DEF ExplorerSound, CollectionSound
<1>3. /\ DOMAIN form' = DOMAIN form /\ form'.dialog = form.dialog /\ form'.server = form.server
      /\ form'.text = form.text /\ form'.obj = form.obj /\ form'.off = form.off
  <2>1. CASE onAdvancedButtonToggled
    BY <1>2, <2>1 DEF onAdvancedButtonToggled, Edit, CollectionFields
  <2>2. ASSUME NEW tab, onTabChanged(tab)
        PROVE  /\ DOMAIN form' = DOMAIN form /\ form'.dialog = form.dialog /\ form'.server = form.server
               /\ form'.text = form.text /\ form'.obj = form.obj /\ form'.off = form.off
    BY <1>2, <2>2 DEF onTabChanged, Edit, CollectionFields
  <2>3. CASE TypeCollectionName
    BY <1>2, <2>3 DEF TypeCollectionName, Edit, CollectionFields
  <2>4. CASE TypeNumber
    BY <1>2, <2>4 DEF TypeNumber, Edit, CollectionFields
  <2>5. CASE ChooseLevel
    BY <1>2, <2>5 DEF ChooseLevel, Edit, CollectionFields
  <2>6. CASE ChooseAction
    BY <1>2, <2>6 DEF ChooseAction, Edit, CollectionFields
  <2> QED BY <2>1, <2>2, <2>3, <2>4, <2>5, <2>6
<1> QED BY <1>1, <1>3, CollectionKept

\* The check boxes: only the numbers of a capped collection are switched on and off.
LEMMA ToggleOptionSound == ASSUME ExplorerSound, ToggleOption PROVE ExplorerSound'
<1>1. IsOpen("collection") /\ sent' = sent
  BY DEF ToggleOption, Edit, Offered
<1>2. CollectionSound(form)
  BY <1>1 DEF ExplorerSound
<1>3. PICK x \in Options : form' = onCappedCheckBoxChanged([form EXCEPT !.w[x] = ~ @])
  BY DEF ToggleOption, Edit
<1> DEFINE g == [form EXCEPT !.w[x] = ~ @]
<1>4. /\ DOMAIN g = CollectionFields /\ g.dialog = form.dialog /\ g.server = form.server
      /\ g.text = form.text /\ g.obj = form.obj /\ g.off = form.off
  BY <1>2 DEF CollectionSound, CollectionFields
<1> HIDE DEF g
<1>5. /\ DOMAIN form' = CollectionFields /\ form'.dialog = form.dialog /\ form'.server = form.server
      /\ form'.text = form.text /\ form'.obj = form.obj
      /\ form'.off = form.off \cup {"size", "max"} \/ form'.off = form.off \ {"size", "max"}
  BY <1>3, <1>4 DEF onCappedCheckBoxChanged, SetOff, CollectionFields, g
<1>6. \A y \in disableUnsupportedOptions(form.server) \cup Frame : y # "size" /\ y # "max"
  BY DEF disableUnsupportedOptions, Frame
<1>7. CollectionSound(form')
  BY <1>2, <1>5, <1>6 DEF CollectionSound
<1>8. form'.dialog = "collection"
  BY <1>1, <1>5 DEF IsOpen
<1> QED BY <1>1, <1>7, <1>8, NothingSent, OneOpen

\* A frame whose tab is on.
LEMMA FrameTextSound == ASSUME ExplorerSound, onFrameTextChanged PROVE ExplorerSound'
<1>1. PICK x \in Frame, t \in FrameText :
         /\ IsOpen("collection") /\ x \notin form.off /\ form' = [form EXCEPT !.text[x] = t] /\ sent' = sent
  BY DEF onFrameTextChanged, Edit, Offered
<1>2. CollectionSound(form)
  BY <1>1 DEF ExplorerSound
<1>3. /\ DOMAIN form' = CollectionFields /\ form'.dialog = form.dialog /\ form'.server = form.server
      /\ form'.text = [form.text EXCEPT ![x] = t] /\ form'.obj = form.obj /\ form'.off = form.off
  BY <1>1, <1>2 DEF CollectionSound, CollectionFields
<1>4. CollectionSound(form')
  BY <1>1, <1>2, <1>3 DEF CollectionSound
<1>5. form'.dialog = "collection"
  BY <1>1, <1>3 DEF IsOpen
<1> QED BY <1>1, <1>4, <1>5, NothingSent, OneOpen

\* What validate leaves alone.
LEMMA ValidateKeeps ==
  ASSUME NEW f, DOMAIN f = CollectionFields, NEW frame, NEW obj
  PROVE  LET g == validate(f, frame, obj)
         IN /\ DOMAIN g = CollectionFields /\ DOMAIN g.obj = DOMAIN f.obj
            /\ g.dialog = f.dialog /\ g.server = f.server /\ g.text = f.text /\ g.off = f.off /\ g.w = f.w
            /\ f.text[frame] # "bad" /\ obj \in DOMAIN f.obj => g.obj[obj] = f.text[frame]
            /\ \A x \in DOMAIN f.obj : x # obj => g.obj[x] = f.obj[x]
  BY DEF validate, CollectionFields

LEMMA ValidateSound == ASSUME ExplorerSound, onValidateButtonClicked PROVE ExplorerSound'
<1>1. IsOpen("collection") /\ form' = validate(form, form.activeFrame, form.activeObj) /\ sent' = sent
  BY DEF onValidateButtonClicked
<1>2. DOMAIN form = CollectionFields
  BY <1>1 DEF ExplorerSound, CollectionSound
<1> QED BY <1>1, <1>2, ValidateKeeps, CollectionKept

\* The three frames that all can be parsed: each object is what its frame shows.
LEMMA AllValidated ==
  ASSUME NEW f, DOMAIN f = CollectionFields, DOMAIN f.obj = Frame, DOMAIN f.text = Frame,
         \A x \in Frame : f.text[x] # "bad"
  PROVE  LET g == validateAll(f)
         IN /\ g.server = f.server /\ g.text = f.text /\ g.off = f.off /\ g.w = f.w
            /\ \A x \in Frame : g.obj[x] = f.text[x]
<1> DEFINE one == validate(f, "storageEngine", "storageEngine")
           two == validate(one, "validator", "validator")
           three == validate(two, "indexOptionDefaults", "indexOptionDefaults")
<1>1. validateAll(f) = three
  BY DEF validateAll, Frame
<1>2. /\ DOMAIN one = CollectionFields /\ DOMAIN one.obj = Frame
      /\ one.server = f.server /\ one.text = f.text /\ one.off = f.off /\ one.w = f.w
      /\ one.obj["storageEngine"] = f.text["storageEngine"]
  BY ValidateKeeps DEF Frame
<1> HIDE DEF one
<1>3. /\ DOMAIN two = CollectionFields /\ DOMAIN two.obj = Frame
      /\ two.server = f.server /\ two.text = f.text /\ two.off = f.off /\ two.w = f.w
      /\ two.obj["storageEngine"] = f.text["storageEngine"] /\ two.obj["validator"] = f.text["validator"]
  BY <1>2, ValidateKeeps DEF Frame
<1> HIDE DEF two
<1>4. /\ three.server = f.server /\ three.text = f.text /\ three.off = f.off /\ three.w = f.w
      /\ three.obj["storageEngine"] = f.text["storageEngine"] /\ three.obj["validator"] = f.text["validator"]
      /\ three.obj["indexOptionDefaults"] = f.text["indexOptionDefaults"]
  BY <1>3, ValidateKeeps DEF Frame
<1> QED BY <1>1, <1>4 DEF Frame

\* Up to the first frame that cannot be parsed.
LEMMA PartlyValidated ==
  ASSUME NEW f, DOMAIN f = CollectionFields
  PROVE  LET g == validateAll(f)
         IN /\ DOMAIN g = CollectionFields /\ DOMAIN g.obj = DOMAIN f.obj
            /\ g.dialog = f.dialog /\ g.server = f.server /\ g.text = f.text /\ g.off = f.off
<1> DEFINE one == validate(f, "storageEngine", "storageEngine")
           two == validate(one, "validator", "validator")
           three == validate(two, "indexOptionDefaults", "indexOptionDefaults")
           Kept(g) == /\ DOMAIN g = CollectionFields /\ DOMAIN g.obj = DOMAIN f.obj
                      /\ g.dialog = f.dialog /\ g.server = f.server /\ g.text = f.text /\ g.off = f.off
<1>1. Kept(one)
  BY ValidateKeeps
<1> HIDE DEF one
<1>2. Kept(two)
  BY <1>1, ValidateKeeps
<1> HIDE DEF two
<1>3. Kept(three)
  BY <1>2, ValidateKeeps
<1>4. validateAll(f) \in {f, one, three}
  BY DEF validateAll, one, two
<1> QED BY <1>1, <1>3, <1>4

\* What is switched off for a server that lacks it.
LEMMA OffForServer ==
  ASSUME NEW s \in Server
  PROVE  /\ s.engine # "wiredTiger" \/ s.version < 30 => "storageEngine" \in disableUnsupportedOptions(s)
         /\ s.version < 32 => {"validator", "indexOptionDefaults"} \subseteq disableUnsupportedOptions(s)
         /\ s.engine = "wiredTiger" => {"noPadding", "powerOfTwo"} \subseteq disableUnsupportedOptions(s)
         /\ s.engine \in {"mmapv1", ""} /\ s.version < 30 => "noPadding" \in disableUnsupportedOptions(s)
         /\ s.version > 32 => "autoIndex" \in disableUnsupportedOptions(s)
  BY DEF disableUnsupportedOptions

\* The versions a limit is about.
LEMMA Either ==
  \A v \in Nat : (v >= 30 \/ v < 30) /\ (v >= 32 \/ v < 32) /\ (v <= 32 \/ v > 32)
  OBVIOUS

\* One flag is below the other, and they add up.
LEMMA FlagSums == \A n \in {0, 1} : n < 2 /\ 0 + n = n
  OBVIOUS

\* The command made of a dialog whose frames were all parsed.
LEMMA CommandSound ==
  ASSUME NEW f, f.server \in Server, NEW c, c = CreateCommand(f),
         \A x \in disableUnsupportedOptions(f.server) : x \in f.off,
         \A x \in Frame : (x \in f.off => f.text[x] = "{}") /\ f.obj[x] = f.text[x],
         validateOptionDependencies(f)
  PROVE  LET s == c.server
             extra == c.extra
         IN /\ extra.storageEngine # NULL => s.engine = "wiredTiger" /\ s.version >= 30
            /\ extra.validator # NULL \/ extra.indexOptionDefaults # NULL => s.version >= 32
            /\ extra.flags # NULL => s.engine # "wiredTiger"
            /\ extra.flags # NULL /\ s.engine \in {"mmapv1", ""} /\ s.version < 30 => extra.flags < 2
            /\ extra.autoIndexId # NULL => s.version <= 32
            /\ c.capped => c.size > 0
            /\ \A x \in Frame : extra[x] \in {NULL, c.text[x]} /\ (c.text[x] # "{}" => extra[x] = c.text[x])
<1> DEFINE s == f.server
           e == makeExtraOptionsObj(f)
<1>1. /\ c.server = s /\ c.extra = e /\ c.text = f.text /\ c.capped = f.w.capped
      /\ c.size = getSizeInputValue(f)
  BY DEF CreateCommand
<1>2. s.version \in Nat
  BY ExplorerFormsAssumption
<1>3. /\ e.storageEngine = ExtraOption(f, "storageEngine") /\ e.validator = ExtraOption(f, "validator")
      /\ e.indexOptionDefaults = ExtraOption(f, "indexOptionDefaults")
      /\ "autoIndex" \in f.off => e.autoIndexId = NULL
      /\ {"noPadding", "powerOfTwo"} \subseteq f.off => e.flags = NULL
  BY DEF makeExtraOptionsObj
<1>14. "noPadding" \in f.off => e.flags \in {NULL, 0, 1}
  <2> DEFINE pad == Flag("noPadding" \notin f.off /\ f.w.noPadding, 2)
             two == Flag("powerOfTwo" \notin f.off /\ f.w.powerOfTwo, 1)
  <2>1. e.flags \in {NULL, pad + two}
    BY DEF makeExtraOptionsObj
  <2>2. "noPadding" \in f.off => pad = 0
    BY DEF Flag
  <2>3. two \in {0, 1}
    BY DEF Flag
  <2> HIDE DEF pad, two
  <2>4. "noPadding" \in f.off => pad + two \in {0, 1}
    BY <2>2, <2>3, FlagSums, Zenon
  <2> QED BY <2>1, <2>4
<1>4. \A x \in Frame : x \in f.off => ExtraOption(f, x) = NULL
  BY DEF ExtraOption
<1>5. \A x \in Frame : e[x] = ExtraOption(f, x)
  BY <1>3 DEF Frame
<1> HIDE DEF e
<1>6. /\ s.version >= 30 \/ s.version < 30
      /\ s.version >= 32 \/ s.version < 32
      /\ s.version <= 32 \/ s.version > 32
  BY <1>2, Either
<1>7. {"storageEngine", "validator", "indexOptionDefaults"} \subseteq Frame
  BY DEF Frame
<1>8. e.storageEngine # NULL => s.engine = "wiredTiger" /\ s.version >= 30
  BY <1>3, <1>4, <1>6, <1>7, OffForServer, Zenon
<1>9. e.validator # NULL \/ e.indexOptionDefaults # NULL => s.version >= 32
  BY <1>3, <1>4, <1>6, <1>7, OffForServer, Zenon
<1>10. e.flags # NULL => s.engine # "wiredTiger"
  BY <1>3, OffForServer, Zenon
<1>15. e.flags # NULL /\ s.engine \in {"mmapv1", ""} /\ s.version < 30 => e.flags \in {0, 1}
  BY <1>14, OffForServer, Zenon
<1>16. e.flags # NULL /\ s.engine \in {"mmapv1", ""} /\ s.version < 30 => e.flags < 2
  BY <1>15, FlagSums, Zenon
<1>11. e.autoIndexId # NULL => s.version <= 32
  BY <1>3, <1>6, OffForServer, Zenon
<1>12. c.capped => c.size > 0
  BY <1>1 DEF validateOptionDependencies
<1>13. \A x \in Frame : e[x] \in {NULL, f.text[x]} /\ (f.text[x] # "{}" => e[x] = f.text[x])
  BY <1>5 DEF ExtraOption
<1> QED BY <1>1, <1>8, <1>9, <1>10, <1>11, <1>12, <1>13, <1>16

LEMMA AcceptCollectionSound == ASSUME ExplorerSound, acceptCollection PROVE ExplorerSound'
<1> DEFINE f == validateAll(form)
<1>1. IsOpen("collection") /\ validateOptionDependencies(form)
  BY DEF acceptCollection
<1>2. CollectionSound(form)
  BY <1>1 DEF ExplorerSound
<1>3. CASE \E x \in Frame : form.text[x] = "bad"
  <2>1. form' = f /\ sent' = sent
    BY <1>3 DEF acceptCollection
  <2> QED BY <1>1, <1>2, <2>1, PartlyValidated, CollectionKept DEF CollectionSound
<1>4. CASE ~ \E x \in Frame : form.text[x] = "bad"
  <2>1. sent' = CreateCommand(f) /\ form' = NULL
    BY <1>4 DEF acceptCollection, Send, Close
  <2>2. /\ f.server = form.server /\ f.text = form.text /\ f.off = form.off /\ f.w = form.w
        /\ \A x \in Frame : f.obj[x] = form.text[x]
    BY <1>2, <1>4, AllValidated DEF CollectionSound
  <2>3. validateOptionDependencies(f)
    BY <1>1, <2>2 DEF validateOptionDependencies, getSizeInputValue
  <2> HIDE DEF f
  <2>4. CommandFitsServer'
    <3>1. \A x \in disableUnsupportedOptions(f.server) : x \in f.off
      BY <1>2, <2>2 DEF CollectionSound
    <3>2. \A x \in Frame : (x \in f.off => f.text[x] = "{}") /\ f.obj[x] = f.text[x]
      BY <1>2, <2>2 DEF CollectionSound
    <3>3. f.server \in Server
      BY <1>2, <2>2 DEF CollectionSound
    <3> QED BY <2>1, <2>3, <3>1, <3>2, <3>3, CommandSound DEF CommandFitsServer
  <2>5. sent'.kind = "create"
    BY <2>1 DEF CreateCommand
  <2>6. SentConsistent'
    BY <2>4, <2>5 DEF SentConsistent, OneWayToAuthenticate, AgreedBeforeUse, Sent
  <2> QED BY <2>1, <2>6 DEF ExplorerSound, IsOpen
<1> QED BY <1>3, <1>4

LEMMA CancelSound ==
  ASSUME ExplorerSound, NEW d, Cancel(d)
  PROVE  ExplorerSound'
<1>1. form' = NULL /\ sent' = sent
  BY DEF Cancel, Close
<1> QED BY <1>1, NothingOpened

LEMMA CollectionStep == ASSUME ExplorerSound, CollectionNext PROVE ExplorerSound'
  BY OpenCollection, CollectionEdits, ToggleOptionSound, FrameTextSound, ValidateSound, AcceptCollectionSound,
     CancelSound DEF CollectionNext

-----------------------------------------------------------------------------
(* CreateUserDialog, EulaDialog and the dialogs for a function and a name.    *)

LEMMA OpenUser == ASSUME ExplorerSound, ui_addUser \/ ui_editUser PROVE ExplorerSound'
<1>1. PICK u, existing :
         /\ form' = CreateUserDialog(u, existing) /\ sent' = NULL /\ u.name \in UserNames
         /\ DOMAIN u = {"version", "id", "name", "pwd", "readOnly", "userSource", "roles"}
  <2>1. CASE ui_addUser
    <3>1. PICK s \in Server : form' = CreateUserDialog(NewUser(s.version), FALSE) /\ sent' = NULL
      BY <2>1 DEF ui_addUser, Opens
    <3>2. NewUser(s.version).name \in UserNames
          /\ DOMAIN NewUser(s.version) = {"version", "id", "name", "pwd", "readOnly", "userSource", "roles"}
      BY DEF NewUser, UserNames, Texts
    <3> QED BY <3>1, <3>2, Zenon
  <2>2. CASE ui_editUser
    <3>1. PICK u \in User : form' = CreateUserDialog(u, TRUE) /\ sent' = NULL
      BY <2>2 DEF ui_editUser, Opens
    <3>2. u.name \in UserNames /\ DOMAIN u = {"version", "id", "name", "pwd", "readOnly", "userSource", "roles"}
      BY ExplorerFormsAssumption DEF UserNames
    <3> QED BY <3>1, <3>2, Zenon
  <2> QED BY <2>1, <2>2
<1>2. /\ form'.dialog = "user" /\ DOMAIN form' = UserFields /\ form'.user = u
      /\ DOMAIN form'.w = {"name", "password", "readOnly", "source", "roles"}
      /\ form'.w.source \in Database \cup {""} /\ form'.w.name = u.name /\ form'.w.password = ""
  BY <1>1 DEF CreateUserDialog, UserFields
<1>3. UserSound(form')
  BY <1>1, <1>2 DEF UserSound, Texts
<1> QED BY <1>1, <1>2, <1>3, NothingSent, OneOpen

LEMMA UserEdits ==
  ASSUME ExplorerSound, TypeUser \/ ToggleReadOnly \/ ToggleRole \/ ChooseSource
  PROVE  ExplorerSound'
<1>1. IsOpen("user") /\ sent' = sent
  BY DEF TypeUser, ToggleReadOnly, ToggleRole, ChooseSource, Edit
<1>2. UserSound(form)
  BY <1>1 DEF ExplorerSound
<1>3. /\ DOMAIN form' = DOMAIN form /\ form'.dialog = form.dialog /\ form'.user = form.user
      /\ DOMAIN form'.w = DOMAIN form.w /\ form'.w.source \in Database \cup {""}
      /\ form'.w.name \in UserNames /\ form'.w.password \in Texts
  <2>1. CASE TypeUser
    <3>1. PICK x \in {"name", "password"}, t \in Texts : form' = [form EXCEPT !.w[x] = t]
      BY <2>1 DEF TypeUser, Edit
    <3>2. t \in UserNames
      BY DEF UserNames
    <3>3. form'.w = [form.w EXCEPT ![x] = t] /\ DOMAIN form' = DOMAIN form
          /\ form'.dialog = form.dialog /\ form'.user = form.user
      BY <1>2, <3>1 DEF UserSound, UserFields
    <3> QED BY <1>2, <3>2, <3>3 DEF UserSound
  <2>2. CASE ToggleReadOnly
    BY <1>2, <2>2 DEF ToggleReadOnly, Edit, UserSound, UserFields
  <2>3. CASE ToggleRole
    <3>1. PICK r \in rolesText : form' = [form EXCEPT !.w.roles = IF r \in @ THEN @ \ {r} ELSE @ \cup {r}]
      BY <2>3 DEF ToggleRole, Edit
    <3> QED BY <1>2, <3>1 DEF UserSound, UserFields
  <2>4. CASE ChooseSource
    <3>1. PICK d \in Database \cup {""} : form' = [form EXCEPT !.w.source = d]
      BY <2>4 DEF ChooseSource, Edit
    <3>2. form'.w = [form.w EXCEPT !.source = d] /\ DOMAIN form' = DOMAIN form
          /\ form'.dialog = form.dialog /\ form'.user = form.user
      BY <1>2, <3>1 DEF UserSound, UserFields
    <3> QED BY <1>2, <3>2 DEF UserSound
  <2> QED BY <1>1, <2>1, <2>2, <2>3, <2>4
<1>4. form'.dialog = "user" /\ UserSound(form')
  BY <1>1, <1>2, <1>3 DEF UserSound, IsOpen
<1> QED BY <1>1, <1>4, NothingSent, OneOpen

\* A user that is not refused authenticates in one way.
LEMMA AcceptUserSound == ASSUME ExplorerSound, acceptUser PROVE ExplorerSound'
<1> DEFINE f == form
           a == acceptedUser(form)
           d == UserToBson(a)
<1>1. /\ IsOpen("user") /\ ~ UserRefused(f) /\ form' = NULL
      /\ sent' = [kind |-> "user", document |-> d, was |-> f.user, existing |-> f.existing]
  BY DEF acceptUser, Send, Close
<1>2. UserSound(f)
  BY <1>1 DEF ExplorerSound
<1>3. /\ a.version = f.user.version /\ a.id = f.user.id /\ a.name = f.w.name
      /\ a.pwd = IF f.w.password = "" THEN NULL ELSE buildPasswordHash(f.w.name, f.w.password)
      /\ ~ Old(f.user) => a.userSource = f.w.source
  BY <1>2 DEF UserSound, acceptedUser, Old
<1>4. Old(a) = Old(f.user)
  BY <1>3 DEF Old
<1> HIDE DEF a
<1>5. /\ d.pwd = a.pwd /\ d.user = a.name /\ d.id = a.id
      /\ d.userSource = IF Old(a) \/ a.userSource = "" THEN NULL ELSE a.userSource
  BY DEF UserToBson
<1> HIDE DEF d
<1>6. buildPasswordHash(f.w.name, f.w.password) \in UserNames \X Texts
      /\ buildPasswordHash(f.w.name, f.w.password)[1] = f.w.name
  BY <1>2 DEF buildPasswordHash, UserSound
<1>7. (a.pwd # NULL => a.pwd[1] = a.name) /\ (f.w.password # "" => a.pwd # NULL)
  BY <1>3, <1>6, ExplorerFormsAssumption DEF UserNames
<1>8. f.w.source # "" => f.w.source # NULL
  BY <1>2, ExplorerFormsAssumption DEF UserSound
<1>9. (d.pwd # NULL) # (d.userSource # NULL)
  <2>1. CASE Old(f.user)
    BY <1>1, <1>3, <1>4, <1>5, <1>7, <2>1 DEF UserRefused
  <2>2. CASE ~ Old(f.user) /\ f.w.source = ""
    BY <1>1, <1>3, <1>4, <1>5, <1>7, <2>2 DEF UserRefused
  <2>3. CASE ~ Old(f.user) /\ f.w.source # ""
    BY <1>1, <1>3, <1>4, <1>5, <1>8, <2>3 DEF UserRefused
  <2> QED BY <2>1, <2>2, <2>3
<1>10. sent'.kind = "user" /\ sent'.document = d /\ sent'.was = f.user
  BY <1>1
<1>11. SentConsistent'
  BY <1>3, <1>5, <1>7, <1>9, <1>10 DEF SentConsistent, CommandFitsServer, OneWayToAuthenticate, AgreedBeforeUse, Sent
<1> QED BY <1>1, <1>11 DEF ExplorerSound, IsOpen

LEMMA UserStep == ASSUME ExplorerSound, UserDialogNext PROVE ExplorerSound'
  BY OpenUser, UserEdits, AcceptUserSound, CancelSound DEF UserDialogNext

LEMMA NameStep == ASSUME ExplorerSound, NameNext PROVE ExplorerSound'
<1>1. ASSUME NEW name, NEW code, NEW x, Opens(FunctionTextEditor(name, code, x)) PROVE ExplorerSound'
  <2>1. form'.dialog = "function" /\ PlainSound(form') /\ sent' = NULL
    BY <1>1 DEF Opens, FunctionTextEditor, PlainSound
  <2> QED BY <2>1, NothingSent, OneOpen
<1>2. ASSUME NEW purpose, NEW text, Opens(CreateDatabaseDialog(purpose, text)) PROVE ExplorerSound'
  <2>1. form'.dialog = "name" /\ PlainSound(form') /\ sent' = NULL
    BY <1>2 DEF Opens, CreateDatabaseDialog, PlainSound
  <2> QED BY <2>1, NothingSent, OneOpen
<1>3. CASE TypeFunction
  <2>1. PICK x \in {"name", "code"}, t \in Texts :
           IsOpen("function") /\ form' = [form EXCEPT !.w[x] = t] /\ sent' = sent
    BY <1>3 DEF TypeFunction, Edit
  <2>2. form'.dialog = "function" /\ PlainSound(form')
    BY <2>1 DEF ExplorerSound, PlainSound, IsOpen
  <2> QED BY <2>1, <2>2, NothingSent, OneOpen
<1>4. CASE TypeName
  <2>1. PICK t \in Texts : IsOpen("name") /\ form' = [form EXCEPT !.w.name = t] /\ sent' = sent
    BY <1>4 DEF TypeName, Edit
  <2>2. form'.dialog = "name" /\ PlainSound(form')
    BY <2>1 DEF ExplorerSound, PlainSound, IsOpen
  <2> QED BY <2>1, <2>2, NothingSent, OneOpen
<1>5. ASSUME form' = NULL, sent'.kind \in {"function", "name"} PROVE ExplorerSound'
  BY <1>5 DEF ExplorerSound, IsOpen, SentConsistent, CommandFitsServer, OneWayToAuthenticate, AgreedBeforeUse, Sent
<1>6. CASE acceptFunction
  BY <1>5, <1>6 DEF acceptFunction, Send, Close
<1>7. CASE acceptName
  BY <1>5, <1>7 DEF acceptName, Send, Close
<1>8. CASE ui_addFunction \/ ui_editFunction
  BY <1>1, <1>8 DEF ui_addFunction, ui_editFunction
<1>9. CASE ui_createDatabase \/ ui_duplicateCollection \/ ui_renameCollection
  BY <1>2, <1>9 DEF ui_createDatabase, ui_duplicateCollection, ui_renameCollection
<1>10. CASE Cancel("function") \/ Cancel("name")
  BY <1>10, CancelSound
<1> QED BY <1>3, <1>4, <1>6, <1>7, <1>8, <1>9, <1>10 DEF NameNext

LEMMA EulaStep == ASSUME ExplorerSound, EulaNext PROVE ExplorerSound'
<1>1. CASE ShowEula
  <2>1. form' = EulaDialog /\ sent' = NULL
    BY <1>1 DEF ShowEula, Opens
  <2>2. form'.dialog = "eula" /\ EulaSound(form')
    BY <2>1 DEF EulaDialog, EulaSound, EulaFields
  <2> QED BY <2>1, <2>2, NothingSent, OneOpen
<1>2. CASE \/ on_agreeButton_clicked \/ on_notAgreeButton_clicked \/ on_next_clicked \/ on_back_clicked
           \/ TypeEmail
  <2>1. IsOpen("eula") /\ sent' = sent
    BY <1>2 DEF on_agreeButton_clicked, on_notAgreeButton_clicked, on_next_clicked, on_back_clicked, TypeEmail, Edit
  <2>2. EulaSound(form)
    BY <2>1 DEF ExplorerSound
  <2>3. form'.dialog = form.dialog /\ EulaSound(form')
    <3>1. CASE on_agreeButton_clicked
      BY <2>2, <3>1 DEF on_agreeButton_clicked, Edit, EulaSound, EulaFields, Consent
    <3>2. CASE on_notAgreeButton_clicked
      BY <2>2, <3>2 DEF on_notAgreeButton_clicked, Edit, EulaSound, EulaFields, Consent
    <3>3. CASE on_next_clicked
      BY <2>2, <3>3 DEF on_next_clicked, Edit, EulaSound, EulaFields, Consent
    <3>4. CASE on_back_clicked
      BY <2>2, <3>4 DEF on_back_clicked, Edit, EulaSound, EulaFields, Consent
    <3>5. CASE TypeEmail
      BY <2>2, <3>5 DEF TypeEmail, Edit, EulaSound, EulaFields
    <3> QED BY <1>2, <3>1, <3>2, <3>3, <3>4, <3>5
  <2>4. form'.dialog = "eula"
    BY <2>1, <2>3 DEF IsOpen
  <2> QED BY <2>1, <2>3, <2>4, NothingSent, OneOpen
<1>3. CASE on_finish_clicked
  <2>1. IsOpen("eula") /\ "finish" \in form.enabled /\ form' = NULL
    BY <1>3 DEF on_finish_clicked, Send, Close
  <2>2. form.agree
    BY <2>1, Zenon DEF ExplorerSound, EulaSound
  <2>3. sent' = [kind |-> "eula", agreed |-> form.agree, posted |-> form.email # ""]
    BY <1>3 DEF on_finish_clicked, Send
  <2>4. sent'.kind = "eula" /\ sent'.agreed = form.agree
    BY <2>3, Zenon
  <2>5. SentConsistent'
    BY <2>2, <2>4 DEF SentConsistent, CommandFitsServer, OneWayToAuthenticate, AgreedBeforeUse, Sent
  <2> QED BY <2>1, <2>5 DEF ExplorerSound, IsOpen
<1>4. CASE rejectEula
  BY <1>4, CancelSound DEF rejectEula
<1> QED BY <1>1, <1>2, <1>3, <1>4 DEF EulaNext

LEMMA ExplorerStep == ASSUME ExplorerSound, ExplorerNext PROVE ExplorerSound'
  BY CollectionStep, UserStep, NameStep, EulaStep DEF ExplorerNext

-----------------------------------------------------------------------------
(* The dialog for a connection.                                               *)

Host == DOMAIN Left

Member == [host : Host, port : Nat]

Boxes == {"useAuth", "sshOn", "sshAsk", "sslOn", "usePem", "pemAsk", "advanced"}

\* What the widget x may hold.
Fits(x, v) ==
  /\ x = "type" => v \in {"set", "direct"}
  /\ x = "certificate" => v \in {"ca", "selfSigned"}
  /\ x \in Boxes => v \in BOOLEAN
  /\ x = "key" => v \in DOMAIN AtHome
  /\ x = "members" => v \in Seq(Member)
  /\ x = "host" => v \in Host
  /\ x \in {"port", "sshPort"} => v \in PortText

WidgetsTyped(w) == DOMAIN w = Widget /\ \A x \in Widget : Fits(x, w[x])

\* Nothing is typed that is to be asked for.
NothingTyped(w) ==
  /\ w.sshAsk => w.sshPassword = "" /\ w.passphrase = ""
  /\ w.pemAsk => w.pemPass = ""

\* What the boxes switch off, tab by tab.
AuthOff(w) == IF w.useAuth THEN {} ELSE AuthTab \ {"useAuth"}

SshOff(w) == IF ~ w.sshOn THEN SshTab \ {"sshOn"} ELSE IF w.sshAsk THEN {"sshPassword", "passphrase"} ELSE {}

SslOff(w) == IF ~ w.sslOn THEN SslTab \ {"sslOn"} ELSE IF w.pemAsk THEN {"pemPass"} ELSE {}

\* What they hide.
TypeHidden(w) == IF w.type = "set" THEN {"host", "port"} ELSE {"members", "setName"}

MethodHidden(w) == IF w.method = "publickey" THEN {"sshPassword"} ELSE {"key", "passphrase"}

CertificateHidden(w) == IF w.certificate = "ca" THEN {} ELSE {"caFile"}

PemHidden(w) == IF w.usePem THEN {} ELSE {"pemFile", "pemPass", "pemAsk"}

AdvancedHidden(w) == IF w.advanced THEN {} ELSE {"crlFile", "hostnames"}

OffFollows(f) == f.off = AuthOff(f.w) \cup SshOff(f.w) \cup SslOff(f.w)

HiddenFollows(f) ==
  f.hidden = TypeHidden(f.w) \cup MethodHidden(f.w) \cup CertificateHidden(f.w) \cup PemHidden(f.w)
             \cup AdvancedHidden(f.w)

FormFields == {"dialog", "copy", "front", "off", "hidden", "w"}

ConnectionFields ==
  {"name", "address", "defaultDb", "isReplicaSet", "replicaSet", "credentials", "ssh", "ssl"}

SslFields ==
  {"enabled", "allowInvalidCertificates", "caFile", "usePemFile", "pemKeyFile", "pemPassPhrase", "ask",
   "advanced", "crlFile", "allowInvalidHostnames"}

FormSound(f) ==
  /\ DOMAIN f = FormFields /\ DOMAIN f.copy = ConnectionFields
  /\ WidgetsTyped(f.w) /\ NothingTyped(f.w) /\ OffFollows(f) /\ HiddenFollows(f)

\* A connection of the list, as the dialog can show it.
SavedSound(c) ==
  /\ DOMAIN c = ConnectionFields /\ DOMAIN c.ssl = SslFields
  /\ c.address.host \in Host /\ c.address.port \in Nat /\ c.ssh.port \in Nat
  /\ c.isReplicaSet \in BOOLEAN /\ (c.isReplicaSet => c.replicaSet.members \in Seq(Member))
  /\ c.ssh.enabled \in BOOLEAN /\ c.ssh.ask \in BOOLEAN /\ c.ssh.key \in DOMAIN AtHome
  /\ c.ssl.enabled \in BOOLEAN /\ c.ssl.usePemFile \in BOOLEAN /\ c.ssl.ask \in BOOLEAN /\ c.ssl.advanced \in BOOLEAN
  /\ OnlyPromptedKept(c) /\ AddressOfSet(c)

\* The connection c is what the widgets w say, setting by setting; the passphrase of the
\* PEM file is another where it is asked for.
Agrees(c, w) ==
  /\ c.isReplicaSet = (w.type = "set") /\ c.name = w.name /\ c.defaultDb = w.defaultDb
  /\ w.type = "direct" => Left[c.address.host] = Left[w.host] /\ c.address.port = toInt(w.port.digits)
  /\ w.type = "set" => c.replicaSet.members = w.members /\ c.replicaSet.setName = w.setName /\ w.members # << >>
  /\ c.credentials = IF w.user = "" /\ w.password = "" /\ w.db = "" THEN << >>
                     ELSE <<[enabled |-> w.useAuth, user |-> w.user, password |-> w.password, db |-> w.db,
                             mechanism |-> w.mechanism]>>
  /\ c.ssh.enabled = w.sshOn /\ c.ssh.host = w.sshHost /\ c.ssh.method = w.method
  /\ c.ssh.password = w.sshPassword /\ c.ssh.key = KeyFile(w) /\ c.ssh.passphrase = w.passphrase
  /\ c.ssh.ask = w.sshAsk /\ c.ssh.port = toInt(w.sshPort.digits) /\ c.ssh.userName = w.sshUser
  /\ c.ssl.enabled = w.sslOn /\ c.ssl.allowInvalidCertificates = (w.certificate # "ca")
  /\ c.ssl.caFile = w.caFile /\ c.ssl.usePemFile = w.usePem /\ c.ssl.pemKeyFile = w.pemFile
  /\ ~ w.pemAsk => c.ssl.pemPassPhrase = w.pemPass
  /\ c.ssl.ask = w.pemAsk /\ c.ssl.advanced = w.advanced
  /\ c.ssl.crlFile = w.crlFile /\ c.ssl.allowInvalidHostnames = w.hostnames

\* The inductive invariant of the dialog for a connection.
ConnectionSound ==
  /\ connection # NULL \/ shown # NULL => SavedSound(connection)
  /\ connection # NULL /\ form # NULL => form.dialog = "connection"
  /\ IsOpen("connection") => FormSound(form)
  /\ shown # NULL => WidgetsTyped(shown) /\ NothingTyped(shown) /\ Agrees(connection, shown)

\* The widgets of the tabs, one by one.
LEMMA WidgetNames ==
  Widget = {"type", "name", "host", "port", "members", "setName", "useAuth", "db", "user", "password", "mechanism",
            "sshOn", "sshHost", "sshPort", "sshUser", "method", "sshPassword", "key", "passphrase", "sshAsk",
            "sslOn", "certificate", "caFile", "usePem", "pemFile", "pemPass", "pemAsk", "advanced",
            "crlFile", "hostnames", "defaultDb"}
  BY DEF Widget, BasicTab, AuthTab, SshTab, SslTab

\* One widget is given a value.
LEMMA WidgetSet ==
  ASSUME NEW w, WidgetsTyped(w), NEW x, NEW v, Fits(x, v)
  PROVE  WidgetsTyped([w EXCEPT ![x] = v])
  BY DEF WidgetsTyped

\* A value for a text field that is not read as a file, a host or a port fits.
LEMMA TextFits ==
  ASSUME NEW x, NEW v, x \notin {"type", "certificate", "members", "key", "host", "port", "sshPort"} \cup Boxes
  PROVE  Fits(x, v)
  BY DEF Fits

-----------------------------------------------------------------------------
(* The handlers of the boxes: each leaves alone what is another's.            *)

\* g is f with other widgets switched off or hidden, and other values w.
Rest(g, f) == DOMAIN g = FormFields /\ g.dialog = f.dialog /\ g.copy = f.copy /\ g.front = f.front

LEMMA TypeHandler ==
  ASSUME NEW f, DOMAIN f = FormFields
  PROVE  LET g == on_ConnectionTypeChange(f)
         IN /\ Rest(g, f) /\ g.w = f.w /\ g.off = f.off
            /\ g.hidden = TypeHidden(f.w) \cup (f.hidden \ {"host", "port", "members", "setName"})
<1> DEFINE one == SetHidden(f, {"members", "setName"}, f.w.type # "set")
           two == SetHidden(one, {"host", "port"}, f.w.type = "set")
<1>1. on_ConnectionTypeChange(f) = two
  BY DEF on_ConnectionTypeChange
<1>2. /\ DOMAIN one = FormFields /\ Rest(one, f) /\ one.w = f.w /\ one.off = f.off
      /\ one.hidden = IF f.w.type # "set" THEN f.hidden \cup {"members", "setName"} ELSE f.hidden \ {"members", "setName"}
  BY DEF SetHidden, FormFields, Rest
<1> HIDE DEF one
<1>3. /\ DOMAIN two = FormFields /\ Rest(two, f) /\ two.w = f.w /\ two.off = f.off
      /\ two.hidden = IF f.w.type = "set" THEN one.hidden \cup {"host", "port"} ELSE one.hidden \ {"host", "port"}
  BY <1>2 DEF SetHidden, FormFields, Rest
<1> HIDE DEF two
<1>4. two.hidden = TypeHidden(f.w) \cup (f.hidden \ {"host", "port", "members", "setName"})
  <2>1. CASE f.w.type = "set"
    BY <1>2, <1>3, <2>1 DEF TypeHidden
  <2>2. CASE f.w.type # "set"
    BY <1>2, <1>3, <2>2 DEF TypeHidden
  <2> QED BY <2>1, <2>2
<1> QED BY <1>1, <1>3, <1>4

LEMMA MethodHandler ==
  ASSUME NEW f, DOMAIN f = FormFields
  PROVE  LET g == securityChange(f)
         IN /\ Rest(g, f) /\ g.w = f.w /\ g.off = f.off
            /\ g.hidden = MethodHidden(f.w) \cup (f.hidden \ {"sshPassword", "key", "passphrase"})
<1> DEFINE isKey == f.w.method = "publickey"
           one == SetHidden(f, {"key", "passphrase"}, ~ isKey)
           two == SetHidden(one, {"sshPassword"}, isKey)
<1>1. securityChange(f) = two
  BY DEF securityChange
<1>2. /\ DOMAIN one = FormFields /\ Rest(one, f) /\ one.w = f.w /\ one.off = f.off
      /\ one.hidden = IF ~ isKey THEN f.hidden \cup {"key", "passphrase"} ELSE f.hidden \ {"key", "passphrase"}
  BY DEF SetHidden, FormFields, Rest
<1> HIDE DEF one
<1>3. /\ DOMAIN two = FormFields /\ Rest(two, f) /\ two.w = f.w /\ two.off = f.off
      /\ two.hidden = IF isKey THEN one.hidden \cup {"sshPassword"} ELSE one.hidden \ {"sshPassword"}
  BY <1>2 DEF SetHidden, FormFields, Rest
<1> HIDE DEF two
<1>4. two.hidden = MethodHidden(f.w) \cup (f.hidden \ {"sshPassword", "key", "passphrase"})
  <2>1. CASE isKey
    BY <1>2, <1>3, <2>1 DEF MethodHidden
  <2>2. CASE ~ isKey
    BY <1>2, <1>3, <2>2 DEF MethodHidden
  <2> QED BY <2>1, <2>2
<1> QED BY <1>1, <1>3, <1>4

LEMMA CertificateHandler ==
  ASSUME NEW f, DOMAIN f = FormFields
  PROVE  LET g == on_authModeComboBox_change(f)
         IN /\ Rest(g, f) /\ g.w = f.w /\ g.off = f.off
            /\ g.hidden = CertificateHidden(f.w) \cup (f.hidden \ {"caFile"})
<1>1. LET g == on_authModeComboBox_change(f)
      IN /\ Rest(g, f) /\ g.w = f.w /\ g.off = f.off
         /\ g.hidden = IF f.w.certificate # "ca" THEN f.hidden \cup {"caFile"} ELSE f.hidden \ {"caFile"}
  BY DEF SetHidden, FormFields, on_authModeComboBox_change, Rest
<1> QED BY <1>1 DEF CertificateHidden

LEMMA PemHandler ==
  ASSUME NEW f, DOMAIN f = FormFields
  PROVE  LET g == on_usePemFileCheckBox_toggle(f)
         IN /\ Rest(g, f) /\ g.w = f.w /\ g.off = f.off
            /\ g.hidden = PemHidden(f.w) \cup (f.hidden \ {"pemFile", "pemPass", "pemAsk"})
<1>1. LET g == on_usePemFileCheckBox_toggle(f)
      IN /\ Rest(g, f) /\ g.w = f.w /\ g.off = f.off
         /\ g.hidden = IF ~ f.w.usePem THEN f.hidden \cup {"pemFile", "pemPass", "pemAsk"}
                       ELSE f.hidden \ {"pemFile", "pemPass", "pemAsk"}
  BY DEF SetHidden, FormFields, on_usePemFileCheckBox_toggle, Rest
<1> QED BY <1>1 DEF PemHidden

LEMMA AdvancedHandler ==
  ASSUME NEW f, DOMAIN f = FormFields
  PROVE  LET g == on_useAdvancedOptionsCheckBox_toggle(f)
         IN /\ Rest(g, f) /\ g.w = f.w /\ g.off = f.off
            /\ g.hidden = AdvancedHidden(f.w) \cup (f.hidden \ {"crlFile", "hostnames"})
<1>1. LET g == on_useAdvancedOptionsCheckBox_toggle(f)
      IN /\ Rest(g, f) /\ g.w = f.w /\ g.off = f.off
         /\ g.hidden = IF ~ f.w.advanced THEN f.hidden \cup {"crlFile", "hostnames"}
                       ELSE f.hidden \ {"crlFile", "hostnames"}
  BY DEF SetHidden, FormFields, on_useAdvancedOptionsCheckBox_toggle, Rest
<1> QED BY <1>1 DEF AdvancedHidden

LEMMA AuthHandler ==
  ASSUME NEW f, DOMAIN f = FormFields
  PROVE  LET g == authChecked(f)
         IN /\ Rest(g, f) /\ g.w = f.w /\ g.hidden = f.hidden
            /\ g.off = AuthOff(f.w) \cup (f.off \ (AuthTab \ {"useAuth"}))
<1>1. LET g == authChecked(f)
      IN /\ Rest(g, f) /\ g.w = f.w /\ g.hidden = f.hidden
         /\ g.off = IF ~ f.w.useAuth THEN f.off \cup (AuthTab \ {"useAuth"}) ELSE f.off \ (AuthTab \ {"useAuth"})
  BY DEF SetOff, FormFields, authChecked, Rest
<1> QED BY <1>1 DEF AuthOff

\* The fields that a box to be asked empties.
SshCleared(w) == IF w.sshAsk THEN [w EXCEPT !.passphrase = "", !.sshPassword = ""] ELSE w

PemCleared(w) == IF w.pemAsk THEN [w EXCEPT !.pemPass = ""] ELSE w

AskOff(w) == IF w.sshAsk \/ ~ w.sshOn THEN {"sshPassword", "passphrase"} ELSE {}

LEMMA AskHandler ==
  ASSUME NEW f, DOMAIN f = FormFields
  PROVE  LET g == askForPasswordStateChanged(f)
         IN /\ Rest(g, f) /\ g.w = SshCleared(f.w) /\ g.hidden = f.hidden
            /\ g.off = AskOff(f.w) \cup (f.off \ {"sshPassword", "passphrase"})
<1> DEFINE one == IF f.w.sshAsk THEN [f EXCEPT !.w.passphrase = "", !.w.sshPassword = ""] ELSE f
           S == {"sshPassword", "passphrase"}
           two == SetOff(one, S, f.w.sshAsk \/ ~ f.w.sshOn)
<1>1. askForPasswordStateChanged(f) = two
  BY DEF askForPasswordStateChanged
<1>2. Rest(one, f) /\ one.w = SshCleared(f.w) /\ one.hidden = f.hidden /\ one.off = f.off
  BY DEF SshCleared, Rest, FormFields
<1> HIDE DEF one
<1>3. /\ Rest(two, f) /\ two.w = one.w /\ two.hidden = f.hidden
      /\ two.off = IF f.w.sshAsk \/ ~ f.w.sshOn THEN one.off \cup S ELSE one.off \ S
  BY <1>2 DEF SetOff, Rest, FormFields
<1> HIDE DEF two
<1>4. two.off = AskOff(f.w) \cup (f.off \ S)
  BY <1>2, <1>3 DEF AskOff
<1> QED BY <1>1, <1>2, <1>3, <1>4

LEMMA SshHandler ==
  ASSUME NEW f, DOMAIN f = FormFields
  PROVE  LET g == sshSupportStateChange(f)
         IN /\ Rest(g, f) /\ g.w = SshCleared(f.w) /\ g.hidden = f.hidden
            /\ g.off = SshOff(f.w) \cup (f.off \ (SshTab \ {"sshOn"}))
<1> DEFINE S == {"sshHost", "sshPort", "sshUser", "method", "key", "sshAsk"}
           one == SetOff(f, S, ~ f.w.sshOn)
<1>1. sshSupportStateChange(f) = askForPasswordStateChanged(one)
  BY DEF sshSupportStateChange
<1>2. /\ Rest(one, f) /\ one.w = f.w /\ one.hidden = f.hidden
      /\ one.off = IF ~ f.w.sshOn THEN f.off \cup S ELSE f.off \ S
  BY DEF SetOff, Rest, FormFields
<1> HIDE DEF one
<1>3. DOMAIN one = FormFields
  BY <1>2 DEF Rest
<1>4. LET g == askForPasswordStateChanged(one)
      IN /\ Rest(g, one) /\ g.w = SshCleared(one.w) /\ g.hidden = one.hidden
         /\ g.off = AskOff(one.w) \cup (one.off \ {"sshPassword", "passphrase"})
  BY <1>3, AskHandler
<1>5. AskOff(one.w) \cup (one.off \ {"sshPassword", "passphrase"}) = SshOff(f.w) \cup (f.off \ (SshTab \ {"sshOn"}))
  BY <1>2 DEF AskOff, SshOff, SshTab
<1> QED BY <1>1, <1>2, <1>4, <1>5 DEF Rest

LEMMA PemAskHandler ==
  ASSUME NEW f, DOMAIN f = FormFields
  PROVE  LET g == on_askPemPassCheckBox_toggle(f)
         IN /\ Rest(g, f) /\ g.w = PemCleared(f.w) /\ g.hidden = f.hidden
            /\ g.off = (IF f.w.pemAsk THEN {"pemPass"} ELSE {}) \cup (f.off \ {"pemPass"})
<1> DEFINE one == IF f.w.pemAsk THEN [f EXCEPT !.w.pemPass = ""] ELSE f
           two == SetOff(one, {"pemPass"}, f.w.pemAsk)
<1>1. on_askPemPassCheckBox_toggle(f) = two
  BY DEF on_askPemPassCheckBox_toggle
<1>2. Rest(one, f) /\ one.w = PemCleared(f.w) /\ one.hidden = f.hidden /\ one.off = f.off
  BY DEF PemCleared, Rest, FormFields
<1> HIDE DEF one
<1>3. /\ Rest(two, f) /\ two.w = one.w /\ two.hidden = f.hidden
      /\ two.off = IF f.w.pemAsk THEN one.off \cup {"pemPass"} ELSE one.off \ {"pemPass"}
  BY <1>2 DEF SetOff, Rest, FormFields
<1> HIDE DEF two
<1>4. two.off = (IF f.w.pemAsk THEN {"pemPass"} ELSE {}) \cup (f.off \ {"pemPass"})
  BY <1>2, <1>3
<1> QED BY <1>1, <1>2, <1>3, <1>4

LEMMA SslHandler ==
  ASSUME NEW f, DOMAIN f = FormFields
  PROVE  LET g == useSslCheckBoxStateChange(f)
         IN /\ Rest(g, f) /\ g.off = SslOff(f.w) \cup (f.off \ (SslTab \ {"sslOn"}))
            /\ g.hidden = f.hidden \/ g.hidden = PemHidden(f.w) \cup (f.hidden \ {"pemFile", "pemPass", "pemAsk"})
            /\ g.w = IF f.w.sslOn THEN PemCleared(f.w) ELSE f.w
<1> DEFINE S == SslTab \ {"sslOn"}
           one == SetOff(f, S, ~ f.w.sslOn)
           two == on_usePemFileCheckBox_toggle(one)
           three == on_askPemPassCheckBox_toggle(two)
<1>1. useSslCheckBoxStateChange(f) = IF f.w.sslOn THEN three ELSE one
  BY DEF useSslCheckBoxStateChange
<1>2. /\ Rest(one, f) /\ one.w = f.w /\ one.hidden = f.hidden
      /\ one.off = IF ~ f.w.sslOn THEN f.off \cup S ELSE f.off \ S
  BY DEF SetOff, Rest, FormFields
<1> HIDE DEF one
<1>3. CASE ~ f.w.sslOn
  <2>1. one.off = SslOff(f.w) \cup (f.off \ S)
    BY <1>2, <1>3 DEF SslOff
  <2> QED BY <1>1, <1>2, <1>3, <2>1
<1>4. CASE f.w.sslOn
  <2>1. /\ Rest(two, one) /\ two.w = one.w /\ two.off = one.off
        /\ two.hidden = PemHidden(one.w) \cup (one.hidden \ {"pemFile", "pemPass", "pemAsk"})
    BY <1>2, PemHandler DEF Rest
  <2> HIDE DEF two
  <2>2. /\ Rest(three, two) /\ three.w = PemCleared(two.w) /\ three.hidden = two.hidden
        /\ three.off = (IF two.w.pemAsk THEN {"pemPass"} ELSE {}) \cup (two.off \ {"pemPass"})
    BY <2>1, PemAskHandler DEF Rest
  <2> HIDE DEF three
  <2>3. two.off = f.off \ S /\ "pemPass" \notin two.off
    BY <1>2, <1>4, <2>1 DEF SslTab
  <2>4. three.off = SslOff(f.w) \cup (f.off \ S)
    BY <1>2, <1>4, <2>1, <2>2, <2>3 DEF SslOff
  <2> QED BY <1>1, <1>2, <1>4, <2>1, <2>2, <2>4 DEF Rest
<1> QED BY <1>3, <1>4

-----------------------------------------------------------------------------
(* Opening the dialog.                                                        *)

\* What one handler switches off or hides is no other's.
LEMMA OffApart ==
  ASSUME NEW w
  PROVE  /\ AuthOff(w) \subseteq AuthTab \ {"useAuth"} /\ SshOff(w) \subseteq SshTab \ {"sshOn"}
         /\ SslOff(w) \subseteq SslTab \ {"sslOn"}
         /\ (SshOff(w) \cup SslOff(w)) \cap AuthTab = {} /\ (AuthOff(w) \cup SslOff(w)) \cap SshTab = {}
         /\ (AuthOff(w) \cup SshOff(w)) \cap SslTab = {}
<1>1. AuthOff(w) \subseteq AuthTab \ {"useAuth"}
  BY DEF AuthOff
<1>2. SshOff(w) \subseteq SshTab \ {"sshOn"}
  BY DEF SshOff, SshTab
<1>3. SslOff(w) \subseteq SslTab \ {"sslOn"}
  BY DEF SslOff, SslTab
<1>4. AuthTab \cap SshTab = {} /\ AuthTab \cap SslTab = {} /\ SshTab \cap SslTab = {}
  BY DEF AuthTab, SshTab, SslTab
<1> QED BY <1>1, <1>2, <1>3, <1>4

LEMMA HiddenWithin ==
  ASSUME NEW w
  PROVE  /\ TypeHidden(w) \subseteq {"host", "port", "members", "setName"}
         /\ MethodHidden(w) \subseteq {"sshPassword", "key", "passphrase"}
         /\ CertificateHidden(w) \subseteq {"caFile"} /\ PemHidden(w) \subseteq {"pemFile", "pemPass", "pemAsk"}
         /\ AdvancedHidden(w) \subseteq {"crlFile", "hostnames"}
  BY DEF TypeHidden, MethodHidden, CertificateHidden, PemHidden, AdvancedHidden

\* Nothing is emptied where nothing is typed.
LEMMA NothingToClear ==
  ASSUME NEW w, w = [x \in Widget |-> w[x]], NothingTyped(w)
  PROVE  SshCleared(w) = w /\ PemCleared(w) = w
<1>1. SshCleared(w) = w
  <2>1. CASE w.sshAsk
    <3>1. w.sshPassword = "" /\ w.passphrase = ""
      BY <2>1 DEF NothingTyped
    <3> QED BY <2>1, <3>1 DEF SshCleared
  <2>2. CASE ~ w.sshAsk
    BY <2>2 DEF SshCleared
  <2> QED BY <2>1, <2>2
<1>2. PemCleared(w) = w
  <2>1. CASE w.pemAsk
    <3>1. w.pemPass = ""
      BY <2>1 DEF NothingTyped
    <3> QED BY <2>1, <3>1 DEF PemCleared
  <2>2. CASE ~ w.pemAsk
    BY <2>2 DEF PemCleared
  <2> QED BY <2>1, <2>2
<1> QED BY <1>1, <1>2

\* The constructors of the tabs, for widgets where nothing is typed that is asked for.
LEMMA TabsBuilt ==
  ASSUME NEW c, NEW w, w = [x \in Widget |-> w[x]], NothingTyped(w),
         NEW f, f = [dialog |-> "connection", copy |-> c, front |-> "basic", off |-> {}, hidden |-> {}, w |-> w]
  PROVE  LET g == sslTab(sshTab(authChecked(on_ConnectionTypeChange(f))))
         IN Rest(g, f) /\ g.w = w /\ OffFollows(g) /\ HiddenFollows(g)
<1> DEFINE f1 == on_ConnectionTypeChange(f)
           f2 == authChecked(f1)
           f3 == securityChange(f2)
           f4 == sshSupportStateChange(f3)
           f5 == on_authModeComboBox_change(f4)
           f6 == on_usePemFileCheckBox_toggle(f5)
           f7 == on_askPemPassCheckBox_toggle(f6)
           f8 == on_useAdvancedOptionsCheckBox_toggle(f7)
           f9 == useSslCheckBoxStateChange(f8)
           Shape(g) == DOMAIN g = FormFields /\ Rest(g, f) /\ g.w = w
           T == TypeHidden(w)
           M == MethodHidden(w)
           C == CertificateHidden(w)
           P == PemHidden(w)
           A == AdvancedHidden(w)
<1>1. sslTab(sshTab(authChecked(on_ConnectionTypeChange(f)))) = f9
  BY DEF sslTab, sshTab
<1>2. SshCleared(w) = w /\ PemCleared(w) = w
  BY NothingToClear
<1>3. Shape(f) /\ f.off = {} /\ f.hidden = {}
  BY DEF FormFields, Rest
<1>4. Shape(f1) /\ f1.off = {} /\ f1.hidden = T
  <2>1. /\ Rest(f1, f) /\ f1.w = f.w /\ f1.off = f.off
        /\ f1.hidden = TypeHidden(f.w) \cup (f.hidden \ {"host", "port", "members", "setName"})
    BY <1>3, TypeHandler
  <2> HIDE DEF f1
  <2>2. f1.hidden = T
    BY <1>3, <2>1
  <2> QED BY <1>3, <2>1, <2>2 DEF Rest
<1> HIDE DEF f1
<1>5. Shape(f2) /\ f2.off = AuthOff(w) /\ f2.hidden = T
  BY <1>4, AuthHandler DEF Rest
<1> HIDE DEF f2
<1>6. Shape(f3) /\ f3.off = AuthOff(w) /\ f3.hidden = M \cup T
  <2>1. Shape(f3) /\ f3.off = AuthOff(w) /\ f3.hidden = M \cup (T \ {"sshPassword", "key", "passphrase"})
    BY <1>5, MethodHandler DEF Rest
  <2> QED BY <2>1, HiddenWithin
<1> HIDE DEF f3
<1>7. Shape(f4) /\ f4.off = SshOff(w) \cup AuthOff(w) /\ f4.hidden = M \cup T
  <2>1. Shape(f4) /\ f4.off = SshOff(w) \cup (AuthOff(w) \ (SshTab \ {"sshOn"})) /\ f4.hidden = M \cup T
    BY <1>2, <1>6, SshHandler DEF Rest
  <2> QED BY <2>1, OffApart
<1> HIDE DEF f4
<1>8. Shape(f5) /\ f5.off = f4.off /\ f5.hidden = C \cup M \cup T
  <2>1. Shape(f5) /\ f5.off = f4.off /\ f5.hidden = C \cup ((M \cup T) \ {"caFile"})
    BY <1>7, CertificateHandler DEF Rest
  <2> QED BY <2>1, HiddenWithin
<1> HIDE DEF f5
<1>9. Shape(f6) /\ f6.off = f4.off /\ f6.hidden = P \cup C \cup M \cup T
  <2>1. Shape(f6) /\ f6.off = f4.off /\ f6.hidden = P \cup ((C \cup M \cup T) \ {"pemFile", "pemPass", "pemAsk"})
    BY <1>8, PemHandler DEF Rest
  <2> QED BY <2>1, HiddenWithin
<1> HIDE DEF f6
<1>10. Shape(f7) /\ f7.off \ (SslTab \ {"sslOn"}) = f4.off /\ f7.hidden = P \cup C \cup M \cup T
  <2>1. /\ Shape(f7) /\ f7.hidden = P \cup C \cup M \cup T
        /\ f7.off = (IF w.pemAsk THEN {"pemPass"} ELSE {}) \cup (f4.off \ {"pemPass"})
    BY <1>2, <1>9, PemAskHandler DEF Rest
  <2>2. f4.off \cap SslTab = {} /\ {"pemPass"} \subseteq SslTab \ {"sslOn"}
    BY <1>7, OffApart DEF SslTab
  <2> QED BY <2>1, <2>2
<1> HIDE DEF f7
<1>11. Shape(f8) /\ f8.off = f7.off /\ f8.hidden = A \cup P \cup C \cup M \cup T
  <2>1. Shape(f8) /\ f8.off = f7.off /\ f8.hidden = A \cup ((P \cup C \cup M \cup T) \ {"crlFile", "hostnames"})
    BY <1>10, AdvancedHandler DEF Rest
  <2> QED BY <2>1, HiddenWithin
<1> HIDE DEF f8
<1>12. Shape(f9) /\ f9.off = SslOff(w) \cup f4.off /\ f9.hidden = f8.hidden
  <2>1. /\ Shape(f9) /\ f9.off = SslOff(w) \cup f4.off
        /\ f9.hidden = f8.hidden \/ f9.hidden = P \cup (f8.hidden \ {"pemFile", "pemPass", "pemAsk"})
    BY <1>2, <1>10, <1>11, SslHandler DEF Rest
  <2>2. P \cup (f8.hidden \ {"pemFile", "pemPass", "pemAsk"}) = f8.hidden
    BY <1>11, HiddenWithin
  <2> QED BY <2>1, <2>2
<1> HIDE DEF f9
<1>13. OffFollows(f9)
  BY <1>7, <1>12 DEF OffFollows
<1>14. HiddenFollows(f9)
  BY <1>11, <1>12 DEF HiddenFollows
<1> QED BY <1>1, <1>12, <1>13, <1>14

\* Each widget shows its setting.
LEMMA WidgetsOf ==
  ASSUME NEW c
  PROVE  /\ Widgets(c) = [x \in Widget |-> Widgets(c)[x]]
         /\ \A x \in BasicTab : Widgets(c)[x] = BasicWidgets(c)[x]
         /\ \A x \in AuthTab : Widgets(c)[x] = AuthWidgets(c)[x]
         /\ \A x \in SshTab : Widgets(c)[x] = SshWidgets(c)[x]
         /\ \A x \in SslTab : Widgets(c)[x] = SslWidgets(c)[x]
         /\ Widgets(c).defaultDb = c.defaultDb
<1>1. \A x \in BasicTab : x \notin AuthTab /\ x \notin SshTab /\ x \notin SslTab /\ x # "defaultDb"
  BY DEF BasicTab, AuthTab, SshTab, SslTab
<1>2. \A x \in AuthTab : x \notin SshTab /\ x \notin SslTab /\ x # "defaultDb"
  BY DEF AuthTab, SshTab, SslTab
<1>3. \A x \in SshTab : x \notin SslTab /\ x # "defaultDb"
  BY DEF SshTab, SslTab
<1>4. \A x \in SslTab : x # "defaultDb"
  BY DEF SslTab
<1> QED BY <1>1, <1>2, <1>3, <1>4 DEF Widgets, Widget

\* What the dialog for the connection c shows, by the name of the widget.
LEMMA BasicShown ==
  ASSUME NEW c, NEW w, w = Widgets(c)
  PROVE  /\ w.type = (IF c.isReplicaSet THEN "set" ELSE "direct") /\ w.name = c.name /\ w.host = c.address.host
         /\ w.port = NumberText(c.address.port)
         /\ w.setName = c.replicaSet.setName /\ w.defaultDb = c.defaultDb
  BY WidgetsOf DEF BasicTab, BasicWidgets

LEMMA MembersShown ==
  ASSUME NEW c, NEW w, w = Widgets(c)
  PROVE  w.members = IF c.isReplicaSet /\ c.replicaSet.members # << >> THEN c.replicaSet.members ELSE <<Localhost>>
  BY WidgetsOf DEF BasicTab, BasicWidgets

LEMMA SshShown ==
  ASSUME NEW c, NEW w, w = Widgets(c)
  PROVE  /\ w.sshOn = c.ssh.enabled /\ w.sshHost = c.ssh.host /\ w.method = c.ssh.method
         /\ w.sshPassword = c.ssh.password /\ w.key = c.ssh.key /\ w.passphrase = c.ssh.passphrase
         /\ w.sshAsk = c.ssh.ask /\ w.sshPort = NumberText(c.ssh.port) /\ w.sshUser = c.ssh.userName
  BY WidgetsOf DEF SshTab, SshWidgets

LEMMA SslShown ==
  ASSUME NEW c, NEW w, w = Widgets(c)
  PROVE  /\ w.sslOn = c.ssl.enabled /\ w.certificate = (IF c.ssl.allowInvalidCertificates THEN "selfSigned" ELSE "ca")
         /\ w.caFile = c.ssl.caFile /\ w.usePem = c.ssl.usePemFile /\ w.pemFile = c.ssl.pemKeyFile
         /\ w.pemPass = (IF c.ssl.ask THEN "" ELSE c.ssl.pemPassPhrase) /\ w.pemAsk = c.ssl.ask
         /\ w.advanced = c.ssl.advanced /\ w.crlFile = c.ssl.crlFile /\ w.hostnames = c.ssl.allowInvalidHostnames
  BY WidgetsOf DEF SslTab, SslWidgets

LEMMA AuthShown ==
  ASSUME NEW c, NEW w, w = Widgets(c)
  PROVE  /\ w.useAuth \in BOOLEAN /\ (w.useAuth <=> c.credentials # << >> /\ c.credentials[1].enabled)
         /\ c.credentials = << >> =>
              w.user = "" /\ w.password = "" /\ w.db = "admin" /\ w.mechanism = "SCRAM-SHA-1"
         /\ c.credentials # << >> =>
              /\ w.user = c.credentials[1].user /\ w.password = c.credentials[1].password
              /\ w.db = c.credentials[1].db /\ w.mechanism = c.credentials[1].mechanism
<1>1. \A x \in AuthTab : w[x] = AuthWidgets(c)[x]
  BY WidgetsOf
<1>2. w.useAuth = hasEnabledPrimaryCredential(c)
  BY <1>1 DEF AuthTab, AuthWidgets
<1>3. /\ c.credentials = << >> => w.user = "" /\ w.password = "" /\ w.db = "admin" /\ w.mechanism = "SCRAM-SHA-1"
      /\ c.credentials # << >> =>
              /\ w.user = c.credentials[1].user /\ w.password = c.credentials[1].password
              /\ w.db = c.credentials[1].db /\ w.mechanism = c.credentials[1].mechanism
  BY <1>1 DEF AuthTab, AuthWidgets
<1> QED BY <1>2, <1>3, Zenon DEF hasEnabledPrimaryCredential

\* The text of a number, and the number of a text.
LEMMA NumberTextType == \A n \in Nat : NumberText(n) \in PortText /\ NumberText(n).digits = n
  BY DEF NumberText, PortText

LEMMA toIntType ==
  \A n \in Nat \cup {NoPort, Junk} : toInt(n) \in Nat /\ toInt(toInt(n)) = toInt(n)
  BY FormStateAssumption DEF toInt, NoPort, Junk

LEMMA LocalhostIsMember == Localhost \in Member /\ <<Localhost>> \in Seq(Member)
<1>1. Localhost \in Member
  BY ConnectionFormAssumption DEF Localhost, Address, DefaultPort, Member, Host
<1> QED BY <1>1

\* Opened on a connection of the list.
LEMMA DialogOpened ==
  ASSUME NEW c, SavedSound(c)
  PROVE  /\ FormSound(ConnectionDialog(c)) /\ ConnectionDialog(c).dialog = "connection"
         /\ ConnectionDialog(c).w = Widgets(c)
<1> DEFINE w == Widgets(c)
           f == [dialog |-> "connection", copy |-> c, front |-> "basic", off |-> {}, hidden |-> {}, w |-> w]
           g == sslTab(sshTab(authChecked(on_ConnectionTypeChange(f))))
<1>1. ConnectionDialog(c) = g
  BY DEF ConnectionDialog
<1>2. NothingTyped(w)
  <2>1. w.sshPassword = c.ssh.password /\ w.passphrase = c.ssh.passphrase /\ w.sshAsk = c.ssh.ask
    BY SshShown
  <2>3. w.pemPass = (IF c.ssl.ask THEN "" ELSE c.ssl.pemPassPhrase) /\ w.pemAsk = c.ssl.ask
    BY SslShown
  <2> HIDE DEF w
  <2>2. c.ssh.ask => c.ssh.password = "" /\ c.ssh.passphrase = ""
    BY DEF SavedSound, OnlyPromptedKept, NoSshSecret
  <2> QED BY <2>1, <2>2, <2>3 DEF NothingTyped
<1>3. w = [x \in Widget |-> w[x]]
  BY WidgetsOf
<1>4. WidgetsTyped(w)
  <2>1. w.type \in {"set", "direct"} /\ w.certificate \in {"ca", "selfSigned"} /\ w.key \in DOMAIN AtHome
    <3>1. w.type = (IF c.isReplicaSet THEN "set" ELSE "direct")
      BY BasicShown
    <3>2. w.certificate = (IF c.ssl.allowInvalidCertificates THEN "selfSigned" ELSE "ca")
      BY SslShown
    <3>3. w.key = c.ssh.key
      BY SshShown
    <3> HIDE DEF w
    <3> QED BY <3>1, <3>2, <3>3 DEF SavedSound
  <2>2. /\ w.sshOn \in BOOLEAN /\ w.sshAsk \in BOOLEAN /\ w.sslOn \in BOOLEAN /\ w.usePem \in BOOLEAN
        /\ w.pemAsk \in BOOLEAN /\ w.advanced \in BOOLEAN
    <3>1. w.sshOn = c.ssh.enabled /\ w.sshAsk = c.ssh.ask
      BY SshShown
    <3>2. /\ w.sslOn = c.ssl.enabled /\ w.usePem = c.ssl.usePemFile /\ w.pemAsk = c.ssl.ask
          /\ w.advanced = c.ssl.advanced
      BY SslShown
    <3> HIDE DEF w
    <3> QED BY <3>1, <3>2 DEF SavedSound
  <2>3. w.useAuth \in BOOLEAN
    BY AuthShown
  <2>4. w.members \in Seq(Member)
    <3>1. w.members = IF c.isReplicaSet /\ c.replicaSet.members # << >> THEN c.replicaSet.members ELSE <<Localhost>>
      BY MembersShown
    <3> HIDE DEF w
    <3> QED BY <3>1, LocalhostIsMember DEF SavedSound
  <2>5. DOMAIN w = Widget
    BY <1>3
  <2>7. w.host \in Host /\ w.port \in PortText /\ w.sshPort \in PortText
    <3>1. w.host = c.address.host /\ w.port = NumberText(c.address.port)
      BY BasicShown
    <3>2. w.sshPort = NumberText(c.ssh.port)
      BY SshShown
    <3> HIDE DEF w
    <3> QED BY <3>1, <3>2, NumberTextType DEF SavedSound
  <2> HIDE DEF w
  <2>6. \A x \in Widget : Fits(x, w[x])
    BY <2>1, <2>2, <2>3, <2>4, <2>7 DEF Fits, Boxes
  <2> QED BY <2>5, <2>6 DEF WidgetsTyped
<1> HIDE DEF w
<1>5. Rest(g, f) /\ g.w = w /\ OffFollows(g) /\ HiddenFollows(g)
  BY <1>2, <1>3, TabsBuilt
<1> HIDE DEF g
<1>6. g.dialog = "connection" /\ g.copy = c /\ DOMAIN g = FormFields
  BY <1>5 DEF Rest
<1> QED BY <1>1, <1>2, <1>4, <1>5, <1>6 DEF FormSound, SavedSound, w

-----------------------------------------------------------------------------
(* What the user does in it.                                                  *)

\* The dialog stays open, sound.
LEMMA StaysOpen ==
  ASSUME ConnectionSound, FormSound(form'), form'.dialog = "connection",
         connection' = connection, shown' = shown \/ shown' = NULL
  PROVE  ConnectionSound'
<1>1. (connection # NULL \/ shown # NULL => SavedSound(connection))'
  BY DEF ConnectionSound, SavedSound, OnlyPromptedKept, NoSshSecret, AddressOfSet
<1>2. FormSound(form)'
  BY DEF FormSound, WidgetsTyped, Fits, NothingTyped, OffFollows, HiddenFollows, AuthOff, SshOff, SslOff,
         TypeHidden, MethodHidden, CertificateHidden, PemHidden, AdvancedHidden
<1>3. (shown # NULL => WidgetsTyped(shown) /\ NothingTyped(shown) /\ Agrees(connection, shown))'
  <2>1. CASE shown' = NULL
    BY <2>1
  <2>2. CASE shown' = shown
    BY <2>2 DEF ConnectionSound, WidgetsTyped, NothingTyped, Agrees, Fits, KeyFile
  <2> QED BY <2>1, <2>2
<1> QED BY <1>1, <1>2, <1>3 DEF ConnectionSound

\* It is changed by an edit that leaves the rest.
LEMMA EditSound ==
  ASSUME ConnectionSound, IsOpen("connection"), NEW g, form' = g, Rest(g, form),
         WidgetsTyped(g.w), NothingTyped(g.w), OffFollows(g), HiddenFollows(g),
         connection' = connection, shown' = shown
  PROVE  ConnectionSound'
<1>1. FormSound(form)
  BY DEF ConnectionSound
<1>2. FormSound(g)
  BY <1>1 DEF FormSound, Rest
<1>3. g.dialog = "connection"
  BY DEF Rest, IsOpen
<1> QED BY <1>2, <1>3, StaysOpen

LEMMA Edited ==
  ASSUME ConnectionSound, NEW g, Edit("connection", g)
  PROVE  /\ IsOpen("connection") /\ FormSound(form) /\ DOMAIN form.w = Widget
         /\ form' = g /\ connection' = connection /\ shown' = shown /\ sent' = sent
  BY DEF Edit, ConnectionSound, FormSound, WidgetsTyped

LEMMA WithKeeps ==
  ASSUME FormSound(form), NEW x, NEW v
  PROVE  LET g == With(x, v)
         IN /\ Rest(g, form) /\ g.off = form.off /\ g.hidden = form.hidden
            /\ g.w = [form.w EXCEPT ![x] = v]
  BY DEF FormSound, With, Rest, FormFields

\* Which boxes switch what.
LEMMA SwitchedBy ==
  ASSUME NEW w, DOMAIN w = Widget, NEW x, NEW v
  PROVE  LET u == [w EXCEPT ![x] = v]
         IN /\ x # "useAuth" => AuthOff(u) = AuthOff(w)
            /\ x # "sshOn" /\ x # "sshAsk" => SshOff(u) = SshOff(w)
            /\ x # "sslOn" /\ x # "pemAsk" => SslOff(u) = SslOff(w)
            /\ x # "type" => TypeHidden(u) = TypeHidden(w)
            /\ x # "method" => MethodHidden(u) = MethodHidden(w)
            /\ x # "certificate" => CertificateHidden(u) = CertificateHidden(w)
            /\ x # "usePem" => PemHidden(u) = PemHidden(w)
            /\ x # "advanced" => AdvancedHidden(u) = AdvancedHidden(w)
<1> DEFINE u == [w EXCEPT ![x] = v]
<1>1. \A y \in Widget : y # x => u[y] = w[y]
  OBVIOUS
<1>2. {"useAuth", "sshOn", "sshAsk", "sslOn", "pemAsk", "type", "method", "certificate", "usePem", "advanced"}
        \subseteq Widget
  BY WidgetNames
<1> HIDE DEF u
<1>3. x # "useAuth" => AuthOff(u) = AuthOff(w)
  BY <1>1, <1>2 DEF AuthOff
<1>4. x # "sshOn" /\ x # "sshAsk" => SshOff(u) = SshOff(w)
  BY <1>1, <1>2 DEF SshOff
<1>5. x # "sslOn" /\ x # "pemAsk" => SslOff(u) = SslOff(w)
  BY <1>1, <1>2 DEF SslOff
<1>6. x # "type" => TypeHidden(u) = TypeHidden(w)
  BY <1>1, <1>2 DEF TypeHidden
<1>7. x # "method" => MethodHidden(u) = MethodHidden(w)
  BY <1>1, <1>2 DEF MethodHidden
<1>8. x # "certificate" => CertificateHidden(u) = CertificateHidden(w)
  BY <1>1, <1>2 DEF CertificateHidden
<1>9. x # "usePem" => PemHidden(u) = PemHidden(w)
  BY <1>1, <1>2 DEF PemHidden
<1>10. x # "advanced" => AdvancedHidden(u) = AdvancedHidden(w)
  BY <1>1, <1>2 DEF AdvancedHidden
<1> QED BY <1>3, <1>4, <1>5, <1>6, <1>7, <1>8, <1>9, <1>10 DEF u

\* A box that switches nothing off leaves what is switched off as it should be, and one
\* that hides nothing what is hidden.
LEMMA OffKept ==
  ASSUME FormSound(form), NEW x, NEW v, x \notin {"useAuth", "sshOn", "sshAsk", "sslOn", "pemAsk"},
         NEW g, g.off = form.off, g.w = [form.w EXCEPT ![x] = v]
  PROVE  OffFollows(g)
<1>1. DOMAIN form.w = Widget
  BY DEF FormSound, WidgetsTyped
<1>2. AuthOff(g.w) = AuthOff(form.w) /\ SshOff(g.w) = SshOff(form.w) /\ SslOff(g.w) = SslOff(form.w)
  BY <1>1, SwitchedBy
<1>3. form.off = AuthOff(form.w) \cup SshOff(form.w) \cup SslOff(form.w)
  BY DEF FormSound, OffFollows
<1> QED BY <1>2, <1>3, Zenon DEF OffFollows

LEMMA HiddenKept ==
  ASSUME FormSound(form), NEW x, NEW v, x \notin {"type", "method", "certificate", "usePem", "advanced"},
         NEW g, g.hidden = form.hidden, g.w = [form.w EXCEPT ![x] = v]
  PROVE  HiddenFollows(g)
<1>1. DOMAIN form.w = Widget
  BY DEF FormSound, WidgetsTyped
<1>2. /\ TypeHidden(g.w) = TypeHidden(form.w) /\ MethodHidden(g.w) = MethodHidden(form.w)
      /\ CertificateHidden(g.w) = CertificateHidden(form.w) /\ PemHidden(g.w) = PemHidden(form.w)
      /\ AdvancedHidden(g.w) = AdvancedHidden(form.w)
  BY <1>1, SwitchedBy
<1>3. form.hidden = TypeHidden(form.w) \cup MethodHidden(form.w) \cup CertificateHidden(form.w)
                    \cup PemHidden(form.w) \cup AdvancedHidden(form.w)
  BY DEF FormSound, HiddenFollows
<1> QED BY <1>2, <1>3, Zenon DEF HiddenFollows

\* What is typed is only about the five widgets of secrets.
LEMMA StillNothingTyped ==
  ASSUME NEW w, DOMAIN w = Widget, NothingTyped(w), NEW x, NEW v,
         x \notin {"sshAsk", "sshPassword", "passphrase", "pemAsk", "pemPass"}
  PROVE  NothingTyped([w EXCEPT ![x] = v])
<1>1. {"sshAsk", "sshPassword", "passphrase", "pemAsk", "pemPass"} \subseteq Widget
  BY WidgetNames
<1> QED BY <1>1 DEF NothingTyped

\* One widget is given a value that no box depends on.
LEMMA PlainEdit ==
  ASSUME ConnectionSound, NEW x, NEW v, Edit("connection", With(x, v)), Fits(x, v),
         x \notin Boxes \cup {"type", "method", "certificate"}, NothingTyped([form.w EXCEPT ![x] = v])
  PROVE  ConnectionSound'
<1> DEFINE g == With(x, v)
<1>1. /\ IsOpen("connection") /\ FormSound(form) /\ DOMAIN form.w = Widget
      /\ form' = g /\ connection' = connection /\ shown' = shown
  BY Edited
<1>2. Rest(g, form) /\ g.off = form.off /\ g.hidden = form.hidden /\ g.w = [form.w EXCEPT ![x] = v]
  BY <1>1, WithKeeps
<1> HIDE DEF g
<1>3. WidgetsTyped(g.w)
  BY <1>1, <1>2, WidgetSet DEF FormSound
<1>4. OffFollows(g)
  BY <1>1, <1>2, OffKept DEF Boxes
<1>5. HiddenFollows(g)
  BY <1>1, <1>2, HiddenKept DEF Boxes
<1> QED BY <1>1, <1>2, <1>3, <1>4, <1>5, EditSound

LEMMA ShowTabSound == ASSUME ConnectionSound, NEW tab, ShowTab(tab) PROVE ConnectionSound'
<1>1. /\ IsOpen("connection") /\ FormSound(form) /\ form' = [form EXCEPT !.front = tab]
      /\ connection' = connection /\ shown' = shown
  BY DEF ShowTab, ConnectionSound
<1>2. /\ DOMAIN form' = FormFields /\ form'.dialog = form.dialog /\ form'.copy = form.copy
      /\ form'.off = form.off /\ form'.hidden = form.hidden /\ form'.w = form.w
  BY <1>1 DEF FormSound, FormFields
<1>3. FormSound(form')
  BY <1>1, <1>2 DEF FormSound, OffFollows, HiddenFollows
<1>4. form'.dialog = "connection"
  BY <1>1, <1>2 DEF IsOpen
<1> QED BY <1>1, <1>3, <1>4, StaysOpen

LEMMA EnterSound == ASSUME ConnectionSound, NEW x \in DOMAIN TypedText, Enter(x) PROVE ConnectionSound'
<1>1. PICK v \in TypedText[x] : Edit("connection", With(x, v))
  BY DEF Enter
<1>2. FormSound(form) /\ DOMAIN form.w = Widget
  BY <1>1, Edited
<1>3. x \notin Boxes \cup {"type", "method", "certificate", "members"}
  BY ConnectionFormAssumption DEF Boxes
<1>4. Fits(x, v)
  <2>1. CASE x = "key"
    BY <2>1, ConnectionFormAssumption DEF Fits, Boxes
  <2>2. CASE x = "host"
    BY <2>2, ConnectionFormAssumption DEF Fits, Boxes, Host
  <2>3. CASE x \in {"port", "sshPort"}
    BY <2>3, ConnectionFormAssumption DEF Fits, Boxes
  <2>4. CASE x \notin {"key", "host", "port", "sshPort"}
    BY <1>3, <2>4, TextFits
  <2> QED BY <2>1, <2>2, <2>3, <2>4
<1>5. NothingTyped([form.w EXCEPT ![x] = v])
  <2>1. x \notin form.off
    BY DEF Enter, Usable, IsEnabled
  <2>2. CASE x \in {"sshPassword", "passphrase"}
    <3>1. x \notin SshOff(form.w)
      BY <1>2, <2>1 DEF FormSound, OffFollows
    <3>2. ~ form.w.sshAsk
      BY <2>2, <3>1 DEF SshOff, SshTab
    <3> QED BY <1>2, <2>2, <3>2, WidgetNames DEF NothingTyped, FormSound
  <2>3. CASE x = "pemPass"
    <3>1. x \notin SslOff(form.w)
      BY <1>2, <2>1 DEF FormSound, OffFollows
    <3>2. ~ form.w.pemAsk
      BY <2>3, <3>1 DEF SslOff, SslTab
    <3> QED BY <1>2, <2>3, <3>2, WidgetNames DEF NothingTyped, FormSound
  <2>4. CASE x \notin {"sshPassword", "passphrase", "pemPass"}
    <3>1. x \notin {"sshAsk", "sshPassword", "passphrase", "pemAsk", "pemPass"}
      BY <1>3, <2>4 DEF Boxes
    <3> QED BY <1>2, <3>1, StillNothingTyped DEF FormSound
  <2> QED BY <2>2, <2>3, <2>4
<1> QED BY <1>1, <1>3, <1>4, <1>5, PlainEdit

LEMMA ChooseFileSound ==
  ASSUME ConnectionSound, setPrivateFile \/ openFileBrowseDialog
  PROVE  ConnectionSound'
<1>1. PICK x \in {"key", "caFile", "pemFile", "crlFile"}, p \in Present : Edit("connection", With(x, p))
  BY DEF setPrivateFile, openFileBrowseDialog
<1>2. FormSound(form) /\ DOMAIN form.w = Widget
  BY <1>1, Edited
<1>3. Fits(x, p) /\ x \notin Boxes \cup {"type", "method", "certificate"}
  BY ConnectionFormAssumption DEF Fits, Boxes
<1>4. NothingTyped([form.w EXCEPT ![x] = p])
  BY <1>2, StillNothingTyped DEF FormSound
<1> QED BY <1>1, <1>3, <1>4, PlainEdit

LEMMA HostnamesSound == ASSUME ConnectionSound, ChooseHostnames PROVE ConnectionSound'
<1>1. PICK v : Edit("connection", With("hostnames", v))
  BY DEF ChooseHostnames, Toggled
<1>2. FormSound(form) /\ DOMAIN form.w = Widget
  BY <1>1, Edited
<1>3. Fits("hostnames", v) /\ "hostnames" \notin Boxes \cup {"type", "method", "certificate"}
  BY DEF Fits, Boxes
<1>4. NothingTyped([form.w EXCEPT !["hostnames"] = v])
  BY <1>2, StillNothingTyped DEF FormSound
<1> QED BY <1>1, <1>3, <1>4, PlainEdit

\* The list of members stays one of hosts with a port each.
LEMMA MembersEdit ==
  ASSUME ConnectionSound, NEW m \in Seq(Member), Edit("connection", With("members", m))
  PROVE  ConnectionSound'
<1>1. FormSound(form) /\ DOMAIN form.w = Widget
  BY Edited
<1>2. Fits("members", m) /\ "members" \notin Boxes \cup {"type", "method", "certificate"}
  BY DEF Fits, Boxes
<1>3. NothingTyped([form.w EXCEPT !["members"] = m])
  BY <1>1, StillNothingTyped DEF FormSound
<1> QED BY <1>2, <1>3, PlainEdit

LEMMA RemoveAtType ==
  ASSUME NEW S, NEW s \in Seq(S), NEW k \in DOMAIN s
  PROVE  RemoveAt(s, k) \in Seq(S)
<1>1. k \in 1 .. Len(s) /\ Len(s) \in Nat
  OBVIOUS
<1>2. SubSeq(s, 1, k - 1) \in Seq(S)
  BY <1>1
<1>3. SubSeq(s, k + 1, Len(s)) \in Seq(S)
  BY <1>1
<1> QED BY <1>2, <1>3 DEF RemoveAt

\* A text becomes a host with a port.
LEMMA NormalType == ASSUME NEW t \in TypedMember PROVE Normal(Normal(t)) \in Member
<1>1. t.host \in Host /\ t.port \in Nat \cup {NoPort, Junk}
  BY ConnectionFormAssumption DEF Host
<1>2. Normal(t) \in Member
  <2>1. toInt(t.port) \in Nat
    BY <1>1, toIntType, Zenon
  <2>2. DefaultPort \in Nat
    BY DEF DefaultPort
  <2> QED BY <1>1, <2>1, <2>2 DEF Normal, Address, Member
<1>3. \A m \in Member : Normal(m) \in Member
  BY toIntType DEF Normal, Address, DefaultPort, Member
<1> QED BY <1>2, <1>3

LEMMA MembersSound ==
  ASSUME ConnectionSound, EditMember \/ on_addButton_clicked \/ on_removeButton_clicked
  PROVE  ConnectionSound'
<1>1. IsOpen("connection") /\ FormSound(form)
  BY DEF EditMember, on_addButton_clicked, on_removeButton_clicked, Edit, ConnectionSound
<1> DEFINE m == form.w.members
<1>2. m \in Seq(Member)
  BY <1>1, WidgetNames DEF FormSound, WidgetsTyped, Fits
<1>3. CASE EditMember
  <2>1. PICK k \in DOMAIN m, t \in TypedMember : Edit("connection", on_replicaMemberItemEdit(k, t))
    BY <1>3 DEF EditMember
  <2>2. [m EXCEPT ![k] = Normal(Normal(t))] \in Seq(Member) /\ RemoveAt(m, k) \in Seq(Member)
    BY <1>2, NormalType, RemoveAtType
  <2>3. PICK n \in Seq(Member) : on_replicaMemberItemEdit(k, t) = With("members", n)
    BY <2>2 DEF on_replicaMemberItemEdit
  <2> QED BY <2>1, <2>3, MembersEdit
<1>4. CASE on_addButton_clicked
  <2>1. NextMember(m) \in Member
    <3>1. CASE m = << >>
      BY <3>1, LocalhostIsMember DEF NextMember
    <3>2. CASE m # << >>
      <4>1. Last(m) \in Member
        BY <1>2, <3>2 DEF Last
      <4>2. Last(m).port \in Nat /\ Last(m).host \in Host /\ Last(m).port # NoPort
        BY <4>1 DEF Member, NoPort
      <4>3. toInt(Last(m).port) + 1 \in Nat
        BY <4>2, toIntType
      <4>4. NextMember(m) = Address(Last(m).host, toInt(Last(m).port) + 1)
        BY <3>2, <4>2 DEF NextMember
      <4> QED BY <4>2, <4>3, <4>4 DEF Address, Member
    <3> QED BY <3>1, <3>2
  <2>2. Append(m, NextMember(m)) \in Seq(Member)
    BY <1>2, <2>1
  <2> QED BY <1>4, <2>2, MembersEdit DEF on_addButton_clicked
<1>5. CASE on_removeButton_clicked
  <2>1. PICK k \in DOMAIN m : Edit("connection", With("members", RemoveAt(m, k)))
    BY <1>5 DEF on_removeButton_clicked
  <2> QED BY <1>2, <2>1, RemoveAtType, MembersEdit
<1> QED BY <1>3, <1>4, <1>5

-----------------------------------------------------------------------------
(* The boxes and choices.                                                     *)

\* A handler of a box or choice that hides: w stays as it was set.
LEMMA HidingEdit ==
  ASSUME ConnectionSound, NEW x \in {"type", "method", "certificate", "usePem", "advanced"}, NEW v, Fits(x, v),
         NEW g, Edit("connection", g), Rest(g, With(x, v)), g.w = With(x, v).w, g.off = With(x, v).off,
         HiddenFollows(g)
  PROVE  ConnectionSound'
<1> DEFINE f == With(x, v)
<1>1. /\ IsOpen("connection") /\ FormSound(form) /\ DOMAIN form.w = Widget
      /\ form' = g /\ connection' = connection /\ shown' = shown
  BY Edited
<1>2. Rest(f, form) /\ f.off = form.off /\ f.hidden = form.hidden /\ f.w = [form.w EXCEPT ![x] = v]
  BY <1>1, WithKeeps
<1> HIDE DEF f
<1>3. WidgetsTyped(g.w)
  BY <1>1, <1>2, WidgetSet DEF FormSound, f
<1>4. NothingTyped(g.w)
  BY <1>1, <1>2, StillNothingTyped DEF FormSound, f
<1>5. OffFollows(g)
  BY <1>1, <1>2, OffKept DEF f
<1>6. Rest(g, form)
  BY <1>2 DEF Rest, f
<1> QED BY <1>1, <1>3, <1>4, <1>5, <1>6, EditSound

LEMMA ChooseTypeSound == ASSUME ConnectionSound, ChooseType PROVE ConnectionSound'
<1> DEFINE v == IF form.w.type = "set" THEN "direct" ELSE "set"
           f == With("type", v)
           g == on_ConnectionTypeChange(f)
<1>1. Edit("connection", g)
  BY DEF ChooseType
<1>2. FormSound(form) /\ DOMAIN form.w = Widget
  BY <1>1, Edited
<1>3. Rest(f, form) /\ f.hidden = form.hidden /\ f.w = [form.w EXCEPT !["type"] = v]
  BY <1>2, WithKeeps
<1>4. Fits("type", v)
  BY DEF Fits, Boxes
<1> HIDE DEF f, v
<1>5. /\ Rest(g, f) /\ g.w = f.w /\ g.off = f.off
      /\ g.hidden = TypeHidden(f.w) \cup (f.hidden \ {"host", "port", "members", "setName"})
  BY <1>3, TypeHandler DEF Rest
<1> HIDE DEF g
<1>6. HiddenFollows(g)
  <2>1. /\ MethodHidden(f.w) = MethodHidden(form.w) /\ CertificateHidden(f.w) = CertificateHidden(form.w)
        /\ PemHidden(f.w) = PemHidden(form.w) /\ AdvancedHidden(f.w) = AdvancedHidden(form.w)
    BY <1>2, <1>3, SwitchedBy
  <2>2. form.hidden = TypeHidden(form.w) \cup MethodHidden(f.w) \cup CertificateHidden(f.w) \cup PemHidden(f.w)
                      \cup AdvancedHidden(f.w)
    BY <1>2, <2>1 DEF FormSound, HiddenFollows
  <2>3. g.hidden = TypeHidden(f.w) \cup MethodHidden(f.w) \cup CertificateHidden(f.w) \cup PemHidden(f.w)
                   \cup AdvancedHidden(f.w)
    BY <1>3, <1>5, <2>2, HiddenWithin
  <2> QED BY <1>5, <2>3 DEF HiddenFollows
<1> QED BY <1>1, <1>4, <1>5, <1>6, HidingEdit DEF f

LEMMA ChooseMethodSound == ASSUME ConnectionSound, ChooseMethod PROVE ConnectionSound'
<1> DEFINE v == IF form.w.method = "publickey" THEN "password" ELSE "publickey"
           f == With("method", v)
           g == securityChange(f)
<1>1. Edit("connection", g)
  BY DEF ChooseMethod
<1>2. FormSound(form) /\ DOMAIN form.w = Widget
  BY <1>1, Edited
<1>3. Rest(f, form) /\ f.hidden = form.hidden /\ f.w = [form.w EXCEPT !["method"] = v]
  BY <1>2, WithKeeps
<1>4. Fits("method", v)
  BY DEF Fits, Boxes
<1> HIDE DEF f, v
<1>5. /\ Rest(g, f) /\ g.w = f.w /\ g.off = f.off
      /\ g.hidden = MethodHidden(f.w) \cup (f.hidden \ {"sshPassword", "key", "passphrase"})
  BY <1>3, MethodHandler DEF Rest
<1> HIDE DEF g
<1>6. HiddenFollows(g)
  <2>1. /\ TypeHidden(f.w) = TypeHidden(form.w) /\ CertificateHidden(f.w) = CertificateHidden(form.w)
        /\ PemHidden(f.w) = PemHidden(form.w) /\ AdvancedHidden(f.w) = AdvancedHidden(form.w)
    BY <1>2, <1>3, SwitchedBy
  <2>2. form.hidden = MethodHidden(form.w) \cup TypeHidden(f.w) \cup CertificateHidden(f.w)
                      \cup PemHidden(f.w) \cup AdvancedHidden(f.w)
    BY <1>2, <2>1 DEF FormSound, HiddenFollows
  <2>3. g.hidden = MethodHidden(f.w) \cup TypeHidden(f.w) \cup CertificateHidden(f.w)
                   \cup PemHidden(f.w) \cup AdvancedHidden(f.w)
    BY <1>3, <1>5, <2>2, HiddenWithin
  <2> QED BY <1>5, <2>3 DEF HiddenFollows
<1> QED BY <1>1, <1>4, <1>5, <1>6, HidingEdit DEF f

LEMMA ChooseCertificateSound == ASSUME ConnectionSound, ChooseCertificate PROVE ConnectionSound'
<1> DEFINE v == IF form.w.certificate = "ca" THEN "selfSigned" ELSE "ca"
           f == With("certificate", v)
           g == on_authModeComboBox_change(f)
<1>1. Edit("connection", g)
  BY DEF ChooseCertificate
<1>2. FormSound(form) /\ DOMAIN form.w = Widget
  BY <1>1, Edited
<1>3. Rest(f, form) /\ f.hidden = form.hidden /\ f.w = [form.w EXCEPT !["certificate"] = v]
  BY <1>2, WithKeeps
<1>4. Fits("certificate", v)
  BY DEF Fits, Boxes
<1> HIDE DEF f, v
<1>5. /\ Rest(g, f) /\ g.w = f.w /\ g.off = f.off
      /\ g.hidden = CertificateHidden(f.w) \cup (f.hidden \ {"caFile"})
  BY <1>3, CertificateHandler DEF Rest
<1> HIDE DEF g
<1>6. HiddenFollows(g)
  <2>1. /\ TypeHidden(f.w) = TypeHidden(form.w) /\ MethodHidden(f.w) = MethodHidden(form.w)
        /\ PemHidden(f.w) = PemHidden(form.w) /\ AdvancedHidden(f.w) = AdvancedHidden(form.w)
    BY <1>2, <1>3, SwitchedBy
  <2>2. form.hidden = CertificateHidden(form.w) \cup TypeHidden(f.w) \cup MethodHidden(f.w)
                      \cup PemHidden(f.w) \cup AdvancedHidden(f.w)
    BY <1>2, <2>1 DEF FormSound, HiddenFollows
  <2>3. g.hidden = CertificateHidden(f.w) \cup TypeHidden(f.w) \cup MethodHidden(f.w)
                   \cup PemHidden(f.w) \cup AdvancedHidden(f.w)
    BY <1>3, <1>5, <2>2, HiddenWithin
  <2> QED BY <1>5, <2>3 DEF HiddenFollows
<1> QED BY <1>1, <1>4, <1>5, <1>6, HidingEdit DEF f

LEMMA TogglePemSound == ASSUME ConnectionSound, TogglePem PROVE ConnectionSound'
<1> DEFINE v == ~ form.w["usePem"]
           f == With("usePem", v)
           g == on_usePemFileCheckBox_toggle(f)
<1>1. Edit("connection", g)
  BY DEF TogglePem, Toggled
<1>2. FormSound(form) /\ DOMAIN form.w = Widget
  BY <1>1, Edited
<1>3. Rest(f, form) /\ f.hidden = form.hidden /\ f.w = [form.w EXCEPT !["usePem"] = v]
  BY <1>2, WithKeeps
<1>4. Fits("usePem", v)
  BY DEF Fits, Boxes
<1> HIDE DEF f, v
<1>5. /\ Rest(g, f) /\ g.w = f.w /\ g.off = f.off
      /\ g.hidden = PemHidden(f.w) \cup (f.hidden \ {"pemFile", "pemPass", "pemAsk"})
  BY <1>3, PemHandler DEF Rest
<1> HIDE DEF g
<1>6. HiddenFollows(g)
  <2>1. /\ TypeHidden(f.w) = TypeHidden(form.w) /\ MethodHidden(f.w) = MethodHidden(form.w)
        /\ CertificateHidden(f.w) = CertificateHidden(form.w) /\ AdvancedHidden(f.w) = AdvancedHidden(form.w)
    BY <1>2, <1>3, SwitchedBy
  <2>2. form.hidden = PemHidden(form.w) \cup TypeHidden(f.w) \cup MethodHidden(f.w)
                      \cup CertificateHidden(f.w) \cup AdvancedHidden(f.w)
    BY <1>2, <2>1 DEF FormSound, HiddenFollows
  <2>3. g.hidden = PemHidden(f.w) \cup TypeHidden(f.w) \cup MethodHidden(f.w)
                   \cup CertificateHidden(f.w) \cup AdvancedHidden(f.w)
    BY <1>3, <1>5, <2>2, HiddenWithin
  <2> QED BY <1>5, <2>3 DEF HiddenFollows
<1> QED BY <1>1, <1>4, <1>5, <1>6, HidingEdit DEF f

LEMMA ToggleAdvancedSound == ASSUME ConnectionSound, ToggleAdvanced PROVE ConnectionSound'
<1> DEFINE v == ~ form.w["advanced"]
           f == With("advanced", v)
           g == on_useAdvancedOptionsCheckBox_toggle(f)
<1>1. Edit("connection", g)
  BY DEF ToggleAdvanced, Toggled
<1>2. FormSound(form) /\ DOMAIN form.w = Widget
  BY <1>1, Edited
<1>3. Rest(f, form) /\ f.hidden = form.hidden /\ f.w = [form.w EXCEPT !["advanced"] = v]
  BY <1>2, WithKeeps
<1>4. Fits("advanced", v)
  BY DEF Fits, Boxes
<1> HIDE DEF f, v
<1>5. /\ Rest(g, f) /\ g.w = f.w /\ g.off = f.off
      /\ g.hidden = AdvancedHidden(f.w) \cup (f.hidden \ {"crlFile", "hostnames"})
  BY <1>3, AdvancedHandler DEF Rest
<1> HIDE DEF g
<1>6. HiddenFollows(g)
  <2>1. /\ TypeHidden(f.w) = TypeHidden(form.w) /\ MethodHidden(f.w) = MethodHidden(form.w)
        /\ CertificateHidden(f.w) = CertificateHidden(form.w) /\ PemHidden(f.w) = PemHidden(form.w)
    BY <1>2, <1>3, SwitchedBy
  <2>2. form.hidden = AdvancedHidden(form.w) \cup TypeHidden(f.w) \cup MethodHidden(f.w)
                      \cup CertificateHidden(f.w) \cup PemHidden(f.w)
    BY <1>2, <2>1 DEF FormSound, HiddenFollows
  <2>3. g.hidden = AdvancedHidden(f.w) \cup TypeHidden(f.w) \cup MethodHidden(f.w)
                   \cup CertificateHidden(f.w) \cup PemHidden(f.w)
    BY <1>3, <1>5, <2>2, HiddenWithin
  <2> QED BY <1>5, <2>3 DEF HiddenFollows
<1> QED BY <1>1, <1>4, <1>5, <1>6, HidingEdit DEF f

LEMMA ToggleAuthSound == ASSUME ConnectionSound, ToggleAuth PROVE ConnectionSound'
<1> DEFINE v == ~ form.w["useAuth"]
           f == With("useAuth", v)
           g == authChecked(f)
<1>1. Edit("connection", g)
  BY DEF ToggleAuth, Toggled
<1>2. /\ IsOpen("connection") /\ FormSound(form) /\ DOMAIN form.w = Widget
      /\ form' = g /\ connection' = connection /\ shown' = shown
  BY <1>1, Edited
<1>3. Rest(f, form) /\ f.off = form.off /\ f.hidden = form.hidden /\ f.w = [form.w EXCEPT !["useAuth"] = v]
  BY <1>2, WithKeeps
<1>4. Fits("useAuth", v)
  BY DEF Fits, Boxes
<1> HIDE DEF f, v
<1>5. /\ Rest(g, f) /\ g.w = f.w /\ g.hidden = f.hidden
      /\ g.off = AuthOff(f.w) \cup (f.off \ (AuthTab \ {"useAuth"}))
  BY <1>3, AuthHandler DEF Rest
<1> HIDE DEF g
<1>6. WidgetsTyped(g.w) /\ NothingTyped(g.w)
  BY <1>2, <1>3, <1>4, <1>5, WidgetSet, StillNothingTyped DEF FormSound
<1>7. HiddenFollows(g)
  BY <1>2, <1>3, <1>5, HiddenKept
<1>8. OffFollows(g)
  <2>1. SshOff(f.w) = SshOff(form.w) /\ SslOff(f.w) = SslOff(form.w)
    BY <1>2, <1>3, SwitchedBy
  <2>2. form.off = AuthOff(form.w) \cup SshOff(f.w) \cup SslOff(f.w)
    BY <1>2, <2>1 DEF FormSound, OffFollows
  <2>3. g.off = AuthOff(f.w) \cup SshOff(f.w) \cup SslOff(f.w)
    BY <1>3, <1>5, <2>2, OffApart
  <2> QED BY <1>5, <2>3 DEF OffFollows
<1>9. Rest(g, form)
  BY <1>3, <1>5 DEF Rest
<1> QED BY <1>2, <1>6, <1>7, <1>8, <1>9, EditSound

LEMMA ToggleSshSound == ASSUME ConnectionSound, ToggleSsh PROVE ConnectionSound'
<1> DEFINE v == ~ form.w["sshOn"]
           f == With("sshOn", v)
           g == sshSupportStateChange(f)
<1>1. Edit("connection", g)
  BY DEF ToggleSsh, Toggled
<1>2. /\ IsOpen("connection") /\ FormSound(form) /\ DOMAIN form.w = Widget
      /\ form' = g /\ connection' = connection /\ shown' = shown
  BY <1>1, Edited
<1>3. Rest(f, form) /\ f.off = form.off /\ f.hidden = form.hidden /\ f.w = [form.w EXCEPT !["sshOn"] = v]
  BY <1>2, WithKeeps
<1>4. Fits("sshOn", v)
  BY DEF Fits, Boxes
<1> HIDE DEF f, v
<1>5. WidgetsTyped(f.w) /\ NothingTyped(f.w)
  BY <1>2, <1>3, <1>4, WidgetSet, StillNothingTyped DEF FormSound
<1>6. f.w = [x \in Widget |-> f.w[x]]
  BY <1>2, <1>3
<1>7. /\ Rest(g, f) /\ g.w = f.w /\ g.hidden = f.hidden
      /\ g.off = SshOff(f.w) \cup (f.off \ (SshTab \ {"sshOn"}))
  BY <1>3, <1>5, <1>6, SshHandler, NothingToClear DEF Rest
<1> HIDE DEF g
<1>8. HiddenFollows(g)
  BY <1>2, <1>3, <1>7, HiddenKept
<1>9. OffFollows(g)
  <2>1. AuthOff(f.w) = AuthOff(form.w) /\ SslOff(f.w) = SslOff(form.w)
    BY <1>2, <1>3, SwitchedBy
  <2>2. form.off = AuthOff(f.w) \cup SshOff(form.w) \cup SslOff(f.w)
    BY <1>2, <2>1 DEF FormSound, OffFollows
  <2>3. g.off = AuthOff(f.w) \cup SshOff(f.w) \cup SslOff(f.w)
    BY <1>3, <1>7, <2>2, OffApart
  <2> QED BY <1>7, <2>3 DEF OffFollows
<1>10. Rest(g, form)
  BY <1>3, <1>7 DEF Rest
<1> QED BY <1>2, <1>5, <1>7, <1>8, <1>9, <1>10, EditSound

LEMMA ToggleSslSound == ASSUME ConnectionSound, ToggleSsl PROVE ConnectionSound'
<1> DEFINE v == ~ form.w["sslOn"]
           f == With("sslOn", v)
           g == useSslCheckBoxStateChange(f)
<1>1. Edit("connection", g)
  BY DEF ToggleSsl, Toggled
<1>2. /\ IsOpen("connection") /\ FormSound(form) /\ DOMAIN form.w = Widget
      /\ form' = g /\ connection' = connection /\ shown' = shown
  BY <1>1, Edited
<1>3. Rest(f, form) /\ f.off = form.off /\ f.hidden = form.hidden /\ f.w = [form.w EXCEPT !["sslOn"] = v]
  BY <1>2, WithKeeps
<1>4. Fits("sslOn", v)
  BY DEF Fits, Boxes
<1> HIDE DEF f, v
<1>5. WidgetsTyped(f.w) /\ NothingTyped(f.w)
  BY <1>2, <1>3, <1>4, WidgetSet, StillNothingTyped DEF FormSound
<1>6. f.w = [x \in Widget |-> f.w[x]]
  BY <1>2, <1>3
<1>7. /\ Rest(g, f) /\ g.w = f.w /\ g.off = SslOff(f.w) \cup (f.off \ (SslTab \ {"sslOn"}))
      /\ g.hidden = f.hidden \/ g.hidden = PemHidden(f.w) \cup (f.hidden \ {"pemFile", "pemPass", "pemAsk"})
  BY <1>3, <1>5, <1>6, SslHandler, NothingToClear DEF Rest
<1> HIDE DEF g
<1>8. HiddenFollows(g)
  <2>1. HiddenFollows(f)
    BY <1>2, <1>3, HiddenKept
  <2>2. PemHidden(f.w) \cup (f.hidden \ {"pemFile", "pemPass", "pemAsk"}) = f.hidden
    BY <2>1, HiddenWithin DEF HiddenFollows
  <2> QED BY <1>7, <2>1, <2>2 DEF HiddenFollows
<1>9. OffFollows(g)
  <2>1. AuthOff(f.w) = AuthOff(form.w) /\ SshOff(f.w) = SshOff(form.w)
    BY <1>2, <1>3, SwitchedBy
  <2>2. form.off = AuthOff(f.w) \cup SshOff(f.w) \cup SslOff(form.w)
    BY <1>2, <2>1 DEF FormSound, OffFollows
  <2>3. g.off = AuthOff(f.w) \cup SshOff(f.w) \cup SslOff(f.w)
    BY <1>3, <1>7, <2>2, OffApart
  <2> QED BY <1>7, <2>3 DEF OffFollows
<1>10. Rest(g, form)
  BY <1>3, <1>7 DEF Rest
<1> QED BY <1>2, <1>5, <1>7, <1>8, <1>9, <1>10, EditSound

\* Fields are emptied: what the boxes switch stays, and nothing is typed.
LEMMA Emptied ==
  ASSUME NEW w, WidgetsTyped(w)
  PROVE  /\ WidgetsTyped(SshCleared(w)) /\ WidgetsTyped(PemCleared(w))
         /\ \A u \in {SshCleared(w), PemCleared(w)} :
              /\ AuthOff(u) = AuthOff(w) /\ SshOff(u) = SshOff(w) /\ SslOff(u) = SslOff(w)
              /\ TypeHidden(u) = TypeHidden(w) /\ MethodHidden(u) = MethodHidden(w)
              /\ CertificateHidden(u) = CertificateHidden(w) /\ PemHidden(u) = PemHidden(w)
              /\ AdvancedHidden(u) = AdvancedHidden(w)
         /\ (w.pemAsk => w.pemPass = "") => NothingTyped(SshCleared(w))
         /\ (w.sshAsk => w.sshPassword = "" /\ w.passphrase = "") => NothingTyped(PemCleared(w))
<1> DEFINE one == [w EXCEPT !["passphrase"] = ""]
           two == [one EXCEPT !["sshPassword"] = ""]
           three == [w EXCEPT !["pemPass"] = ""]
           Same(u) ==
              /\ AuthOff(u) = AuthOff(w) /\ SshOff(u) = SshOff(w) /\ SslOff(u) = SslOff(w)
              /\ TypeHidden(u) = TypeHidden(w) /\ MethodHidden(u) = MethodHidden(w)
              /\ CertificateHidden(u) = CertificateHidden(w) /\ PemHidden(u) = PemHidden(w)
              /\ AdvancedHidden(u) = AdvancedHidden(w)
<1>1. DOMAIN w = Widget
  BY DEF WidgetsTyped
<1>2. {"sshAsk", "sshPassword", "passphrase", "pemAsk", "pemPass"} \subseteq Widget
  BY WidgetNames
<1>3. SshCleared(w) = IF w.sshAsk THEN two ELSE w
  BY DEF SshCleared
<1>4. PemCleared(w) = IF w.pemAsk THEN three ELSE w
  BY DEF PemCleared
<1>5. Fits("passphrase", "") /\ Fits("sshPassword", "") /\ Fits("pemPass", "")
  BY DEF Fits, Boxes
<1>6. WidgetsTyped(one) /\ Same(one)
  BY <1>1, <1>5, WidgetSet, SwitchedBy
<1>7. /\ two["sshAsk"] = w["sshAsk"] /\ two["sshPassword"] = "" /\ two["passphrase"] = ""
      /\ two["pemAsk"] = w["pemAsk"] /\ two["pemPass"] = w["pemPass"]
  BY <1>1, <1>2
<1>8. /\ three["sshAsk"] = w["sshAsk"] /\ three["sshPassword"] = w["sshPassword"]
      /\ three["passphrase"] = w["passphrase"] /\ three["pemPass"] = ""
  BY <1>1, <1>2
<1> HIDE DEF one
<1>9. WidgetsTyped(two) /\ Same(two)
  BY <1>5, <1>6, WidgetSet, SwitchedBy DEF WidgetsTyped
<1>10. WidgetsTyped(three) /\ Same(three)
  BY <1>1, <1>5, WidgetSet, SwitchedBy
<1> HIDE DEF two, three
<1>11. (w.pemAsk => w.pemPass = "") => NothingTyped(SshCleared(w))
  BY <1>3, <1>7 DEF NothingTyped
<1>12. (w.sshAsk => w.sshPassword = "" /\ w.passphrase = "") => NothingTyped(PemCleared(w))
  BY <1>4, <1>8 DEF NothingTyped
<1> QED BY <1>3, <1>4, <1>9, <1>10, <1>11, <1>12

LEMMA ToggleSshAskSound == ASSUME ConnectionSound, ToggleSshAsk PROVE ConnectionSound'
<1> DEFINE v == ~ form.w["sshAsk"]
           f == With("sshAsk", v)
           g == askForPasswordStateChanged(f)
<1>1. Edit("connection", g) /\ "sshAsk" \notin form.off
  BY DEF ToggleSshAsk, Toggled, Usable, IsEnabled
<1>2. /\ IsOpen("connection") /\ FormSound(form) /\ DOMAIN form.w = Widget
      /\ form' = g /\ connection' = connection /\ shown' = shown
  BY <1>1, Edited
<1>3. Rest(f, form) /\ f.off = form.off /\ f.hidden = form.hidden /\ f.w = [form.w EXCEPT !["sshAsk"] = v]
  BY <1>2, WithKeeps
<1>4. Fits("sshAsk", v)
  BY DEF Fits, Boxes
<1> HIDE DEF f, v
<1>5. /\ WidgetsTyped(f.w) /\ f.w.sshOn = form.w.sshOn /\ f.w.pemAsk = form.w.pemAsk
      /\ f.w.pemPass = form.w.pemPass
  BY <1>2, <1>3, <1>4, WidgetSet, WidgetNames DEF FormSound
<1>6. /\ Rest(g, f) /\ g.w = SshCleared(f.w) /\ g.hidden = f.hidden
      /\ g.off = AskOff(f.w) \cup (f.off \ {"sshPassword", "passphrase"})
  BY <1>3, AskHandler DEF Rest
<1> HIDE DEF g
<1>7. WidgetsTyped(g.w) /\ NothingTyped(g.w)
  <2>1. f.w.pemAsk => f.w.pemPass = ""
    BY <1>2, <1>5 DEF FormSound, NothingTyped
  <2> QED BY <1>5, <1>6, <2>1, Emptied
<1>8. HiddenFollows(g)
  <2>1. HiddenFollows(f)
    BY <1>2, <1>3, HiddenKept
  <2> QED BY <1>5, <1>6, <2>1, Emptied DEF HiddenFollows
<1>9. form.w.sshOn
  BY <1>1, <1>2 DEF FormSound, OffFollows, SshOff, SshTab
<1>10. OffFollows(g)
  <2>1. AuthOff(f.w) = AuthOff(form.w) /\ SslOff(f.w) = SslOff(form.w)
    BY <1>2, <1>3, SwitchedBy
  <2>2. form.off = AuthOff(f.w) \cup SshOff(form.w) \cup SslOff(f.w)
    BY <1>2, <2>1 DEF FormSound, OffFollows
  <2>3. AskOff(f.w) = SshOff(f.w) /\ SshOff(form.w) \subseteq {"sshPassword", "passphrase"}
    BY <1>5, <1>9 DEF AskOff, SshOff
  <2>4. {"sshPassword", "passphrase"} \subseteq SshTab
    BY DEF SshTab
  <2>5. g.off = AuthOff(f.w) \cup SshOff(f.w) \cup SslOff(f.w)
    BY <1>3, <1>6, <2>2, <2>3, <2>4, OffApart
  <2> QED BY <1>5, <1>6, <2>5, Emptied DEF OffFollows
<1>11. Rest(g, form)
  BY <1>3, <1>6 DEF Rest
<1> QED BY <1>2, <1>7, <1>8, <1>10, <1>11, EditSound

LEMMA TogglePemAskSound == ASSUME ConnectionSound, TogglePemAsk PROVE ConnectionSound'
<1> DEFINE v == ~ form.w["pemAsk"]
           f == With("pemAsk", v)
           g == on_askPemPassCheckBox_toggle(f)
<1>1. Edit("connection", g) /\ "pemAsk" \notin form.off
  BY DEF TogglePemAsk, Toggled, Usable, IsEnabled
<1>2. /\ IsOpen("connection") /\ FormSound(form) /\ DOMAIN form.w = Widget
      /\ form' = g /\ connection' = connection /\ shown' = shown
  BY <1>1, Edited
<1>3. Rest(f, form) /\ f.off = form.off /\ f.hidden = form.hidden /\ f.w = [form.w EXCEPT !["pemAsk"] = v]
  BY <1>2, WithKeeps
<1>4. Fits("pemAsk", v)
  BY DEF Fits, Boxes
<1> HIDE DEF f, v
<1>5. /\ WidgetsTyped(f.w) /\ f.w.sslOn = form.w.sslOn /\ f.w.sshAsk = form.w.sshAsk
      /\ f.w.sshPassword = form.w.sshPassword /\ f.w.passphrase = form.w.passphrase
  BY <1>2, <1>3, <1>4, WidgetSet, WidgetNames DEF FormSound
<1>6. /\ Rest(g, f) /\ g.w = PemCleared(f.w) /\ g.hidden = f.hidden
      /\ g.off = (IF f.w.pemAsk THEN {"pemPass"} ELSE {}) \cup (f.off \ {"pemPass"})
  BY <1>3, PemAskHandler DEF Rest
<1> HIDE DEF g
<1>7. WidgetsTyped(g.w) /\ NothingTyped(g.w)
  <2>1. f.w.sshAsk => f.w.sshPassword = "" /\ f.w.passphrase = ""
    BY <1>2, <1>5 DEF FormSound, NothingTyped
  <2> QED BY <1>5, <1>6, <2>1, Emptied
<1>8. HiddenFollows(g)
  <2>1. HiddenFollows(f)
    BY <1>2, <1>3, HiddenKept
  <2> QED BY <1>5, <1>6, <2>1, Emptied DEF HiddenFollows
<1>9. form.w.sslOn
  BY <1>1, <1>2 DEF FormSound, OffFollows, SslOff, SslTab
<1>10. OffFollows(g)
  <2>1. AuthOff(f.w) = AuthOff(form.w) /\ SshOff(f.w) = SshOff(form.w)
    BY <1>2, <1>3, SwitchedBy
  <2>2. form.off = AuthOff(f.w) \cup SshOff(f.w) \cup SslOff(form.w)
    BY <1>2, <2>1 DEF FormSound, OffFollows
  <2>3. SslOff(f.w) = (IF f.w.pemAsk THEN {"pemPass"} ELSE {}) /\ SslOff(form.w) \subseteq {"pemPass"}
    BY <1>5, <1>9 DEF SslOff
  <2>4. "pemPass" \in SslTab
    BY DEF SslTab
  <2>5. g.off = AuthOff(f.w) \cup SshOff(f.w) \cup SslOff(f.w)
    BY <1>3, <1>6, <2>2, <2>3, <2>4, OffApart
  <2> QED BY <1>5, <1>6, <2>5, Emptied DEF OffFollows
<1>11. Rest(g, form)
  BY <1>3, <1>6 DEF Rest
<1> QED BY <1>2, <1>7, <1>8, <1>10, <1>11, EditSound

-----------------------------------------------------------------------------
(* What is taken over, and written to the file and read again.                *)

LEMMA KeyFileThere ==
  ASSUME NEW w, WidgetsTyped(w)
  PROVE  KeyFile(w) \in DOMAIN AtHome /\ AtHome[KeyFile(w)] = AtHome[w.key]
<1>1. w.key \in DOMAIN AtHome
  BY WidgetNames DEF WidgetsTyped, Fits
<1> QED BY <1>1, ConnectionFormAssumption DEF KeyFile

\* A connection that agrees with the widgets can be shown.
LEMMA AgreesSaved ==
  ASSUME NEW c, NEW w, DOMAIN c = ConnectionFields, DOMAIN c.ssl = SslFields, WidgetsTyped(w), NothingTyped(w),
         Agrees(c, w), AddressOfSet(c), c.address.host \in Host, c.address.port \in Nat,
         w.pemAsk => c.ssl.pemPassPhrase = ""
  PROVE  SavedSound(c)
<1>1. /\ w.sshOn \in BOOLEAN /\ w.sshAsk \in BOOLEAN /\ w.sslOn \in BOOLEAN /\ w.usePem \in BOOLEAN
      /\ w.pemAsk \in BOOLEAN /\ w.advanced \in BOOLEAN /\ w.members \in Seq(Member)
  BY WidgetNames DEF WidgetsTyped, Fits, Boxes
<1>2. c.isReplicaSet \in BOOLEAN /\ (c.isReplicaSet => w.type = "set")
  BY DEF Agrees
<1>3. c.isReplicaSet => c.replicaSet.members \in Seq(Member)
  BY <1>1, <1>2 DEF Agrees
<1>4. /\ c.ssh.enabled \in BOOLEAN /\ c.ssh.ask \in BOOLEAN /\ c.ssh.key \in DOMAIN AtHome
      /\ c.ssl.enabled \in BOOLEAN /\ c.ssl.usePemFile \in BOOLEAN /\ c.ssl.ask \in BOOLEAN
      /\ c.ssl.advanced \in BOOLEAN
  BY <1>1, KeyFileThere DEF Agrees
<1>5. OnlyPromptedKept(c)
  BY DEF Agrees, NothingTyped, OnlyPromptedKept, NoSshSecret
<1>6. c.ssh.port \in Nat
  <2>1. w.sshPort \in PortText
    BY WidgetNames DEF WidgetsTyped, Fits
  <2> QED BY <2>1, toIntType DEF Agrees, PortText
<1> QED BY <1>2, <1>3, <1>4, <1>5, <1>6 DEF SavedSound

LEMMA AppliedAuth ==
  ASSUME NEW c, DOMAIN c = ConnectionFields, NEW w
  PROVE  LET a == acceptAdvanced(acceptAuth(c, w), w)
         IN /\ DOMAIN a = ConnectionFields /\ a.defaultDb = w.defaultDb
            /\ a.credentials = IF w.user = "" /\ w.password = "" /\ w.db = "" THEN << >>
                               ELSE <<[enabled |-> w.useAuth, user |-> w.user, password |-> w.password, db |-> w.db,
                                       mechanism |-> w.mechanism]>>
  BY DEF acceptAdvanced, acceptAuth, ConnectionFields

LEMMA AppliedBasic ==
  ASSUME NEW c, DOMAIN c = ConnectionFields, NEW w, WidgetsTyped(w)
  PROVE  LET b == acceptBasic(c, w)
         IN /\ DOMAIN b = ConnectionFields /\ b.defaultDb = c.defaultDb /\ b.credentials = c.credentials
            /\ ~ MembersRefused(w) =>
                 /\ b.isReplicaSet = (w.type = "set") /\ b.name = w.name
                 /\ b.address.host \in Host /\ b.address.port \in Nat
                 /\ w.type = "direct" => b.address.host = w.host /\ b.address.port = toInt(w.port.digits)
                 /\ w.type = "set" =>
                      /\ b.replicaSet.members = w.members /\ b.replicaSet.setName = w.setName
                      /\ w.members # << >> /\ IsInjective(w.members)
                      /\ b.address.host = w.members[1].host /\ b.address.port = toInt(w.members[1].port)
<1> DEFINE t == [c EXCEPT !.isReplicaSet = w.type = "set", !.name = w.name]
           h == Address(w.host, toInt(w.port.digits))
           d == [t EXCEPT !.address = h]
           a == Address(w.members[1].host, toInt(w.members[1].port))
           s == [t EXCEPT !.address = a, !.replicaSet = [members |-> w.members, setName |-> w.setName]]
           b == acceptBasic(c, w)
<1>1. b = IF MembersRefused(w) THEN t ELSE IF w.type = "direct" THEN d ELSE s
  BY DEF acceptBasic
<1>2. w.type \in {"set", "direct"} /\ w.members \in Seq(Member) /\ w.host \in Host /\ w.port \in PortText
  BY WidgetNames DEF WidgetsTyped, Fits
<1>9. h.host = w.host /\ h.port = toInt(w.port.digits) /\ h.port \in Nat
  BY <1>2, toIntType DEF Address, PortText
<1>10. a.host = w.members[1].host /\ a.port = toInt(w.members[1].port)
  BY DEF Address
<1> HIDE DEF a, h
<1>3. /\ DOMAIN t = ConnectionFields /\ t.defaultDb = c.defaultDb /\ t.credentials = c.credentials
      /\ t.isReplicaSet = (w.type = "set") /\ t.name = w.name
  BY DEF ConnectionFields
<1> HIDE DEF t
<1>4. /\ DOMAIN d = ConnectionFields /\ d.defaultDb = c.defaultDb /\ d.credentials = c.credentials
      /\ d.isReplicaSet = t.isReplicaSet /\ d.name = w.name /\ d.address = h
  BY <1>3 DEF ConnectionFields
<1>5. /\ DOMAIN s = ConnectionFields /\ s.defaultDb = c.defaultDb /\ s.credentials = c.credentials
      /\ s.isReplicaSet = t.isReplicaSet /\ s.name = w.name /\ s.address = a
      /\ s.replicaSet.members = w.members /\ s.replicaSet.setName = w.setName
  BY <1>3 DEF ConnectionFields
<1> HIDE DEF d, s, b
<1>6. CASE MembersRefused(w)
  BY <1>1, <1>3, <1>6 DEF b
<1>7. CASE ~ MembersRefused(w) /\ w.type = "direct"
  <2>1. w.type # "set"
    BY <1>7
  <2> QED BY <1>1, <1>2, <1>3, <1>4, <1>7, <1>9, <2>1 DEF b
<1>8. CASE ~ MembersRefused(w) /\ w.type = "set"
  <2>1. w.members # << >> /\ IsInjective(w.members)
    BY <1>8 DEF MembersRefused
  <2>2. w.members[1] \in Member
    BY <1>2, <2>1
  <2>3. a.host \in Host /\ a.port \in Nat
    BY <1>10, <2>2, toIntType DEF Member
  <2>4. w.type # "direct"
    BY <1>8
  <2> QED BY <1>1, <1>3, <1>5, <1>8, <1>10, <2>1, <2>3, <2>4 DEF b
<1> QED BY <1>2, <1>6, <1>7, <1>8

LEMMA AppliedSsh ==
  ASSUME NEW c, DOMAIN c = ConnectionFields, NEW w
  PROVE  LET b == acceptSsh(c, w)
         IN /\ DOMAIN b = ConnectionFields /\ b.defaultDb = c.defaultDb /\ b.credentials = c.credentials
            /\ b.isReplicaSet = c.isReplicaSet /\ b.name = c.name /\ b.address = c.address
            /\ b.replicaSet = c.replicaSet
            /\ ~ KeyRefused(w) =>
                 /\ b.ssh.enabled = w.sshOn /\ b.ssh.host = w.sshHost /\ b.ssh.method = w.method
                 /\ b.ssh.password = w.sshPassword /\ b.ssh.key = KeyFile(w) /\ b.ssh.passphrase = w.passphrase
                 /\ b.ssh.ask = w.sshAsk /\ b.ssh.port = toInt(w.sshPort.digits) /\ b.ssh.userName = w.sshUser
  BY DEF acceptSsh, ConnectionFields

LEMMA AppliedSsl ==
  ASSUME NEW c, DOMAIN c = ConnectionFields, NEW w, NothingTyped(w)
  PROVE  LET b == saveSslSettings(c, w)
         IN /\ DOMAIN b = ConnectionFields /\ b.defaultDb = c.defaultDb /\ b.credentials = c.credentials
            /\ b.isReplicaSet = c.isReplicaSet /\ b.name = c.name /\ b.address = c.address
            /\ b.replicaSet = c.replicaSet /\ b.ssh = c.ssh
            /\ b.ssl.enabled = w.sslOn /\ b.ssl.allowInvalidCertificates = (w.certificate # "ca")
            /\ b.ssl.caFile = w.caFile /\ b.ssl.usePemFile = w.usePem /\ b.ssl.pemKeyFile = w.pemFile
            /\ b.ssl.pemPassPhrase = w.pemPass /\ b.ssl.ask = w.pemAsk /\ b.ssl.advanced = w.advanced
            /\ b.ssl.crlFile = w.crlFile /\ b.ssl.allowInvalidHostnames = w.hostnames
            /\ DOMAIN b.ssl = SslFields
<1>1. (IF w.pemAsk THEN "" ELSE w.pemPass) = w.pemPass
  BY DEF NothingTyped
<1> QED BY <1>1 DEF saveSslSettings, ConnectionFields, SslFields

\* The tabs in turn: a copy of the right shape, and one that agrees with the widgets if
\* no tab refuses.
LEMMA Applied ==
  ASSUME NEW f, FormSound(f)
  PROVE  LET r == validateAndApply(f)
         IN /\ DOMAIN r.copy = ConnectionFields
            /\ r.ok => /\ Agrees(r.copy, f.w) /\ SavedSound(r.copy)
                       /\ r.copy.ssl.ask => r.copy.ssl.pemPassPhrase = ""
<1> DEFINE w == f.w
           a == acceptAdvanced(acceptAuth(f.copy, w), w)
           b == acceptBasic(a, w)
           s == acceptSsh(b, w)
           l == saveSslSettings(s, w)
           r == validateAndApply(f)
<1>1. DOMAIN f.copy = ConnectionFields /\ WidgetsTyped(w) /\ NothingTyped(w)
  BY DEF FormSound
<1>2. /\ r.copy = IF MembersRefused(w) THEN b ELSE IF KeyRefused(w) THEN s ELSE l
      /\ r.ok => ~ MembersRefused(w) /\ ~ KeyRefused(w)
  BY DEF validateAndApply
<1>3. /\ DOMAIN a = ConnectionFields /\ a.defaultDb = w.defaultDb
      /\ a.credentials = IF w.user = "" /\ w.password = "" /\ w.db = "" THEN << >>
                         ELSE <<[enabled |-> w.useAuth, user |-> w.user, password |-> w.password, db |-> w.db,
                                 mechanism |-> w.mechanism]>>
  BY <1>1, AppliedAuth
<1> HIDE DEF w, a, r
<1>4. /\ DOMAIN b = ConnectionFields /\ b.defaultDb = a.defaultDb /\ b.credentials = a.credentials
      /\ ~ MembersRefused(w) =>
           /\ b.isReplicaSet = (w.type = "set") /\ b.name = w.name
           /\ b.address.host \in Host /\ b.address.port \in Nat
           /\ w.type = "direct" => b.address.host = w.host /\ b.address.port = toInt(w.port.digits)
           /\ w.type = "set" =>
                /\ b.replicaSet.members = w.members /\ b.replicaSet.setName = w.setName
                /\ w.members # << >> /\ IsInjective(w.members)
                /\ b.address.host = w.members[1].host /\ b.address.port = toInt(w.members[1].port)
  <2>1. DOMAIN a = ConnectionFields /\ WidgetsTyped(w)
    BY <1>1, <1>3
  <2> QED BY <2>1, AppliedBasic
<1> HIDE DEF b
<1>5. /\ DOMAIN s = ConnectionFields /\ s.defaultDb = b.defaultDb /\ s.credentials = b.credentials
      /\ s.isReplicaSet = b.isReplicaSet /\ s.name = b.name /\ s.address = b.address /\ s.replicaSet = b.replicaSet
      /\ ~ KeyRefused(w) =>
           /\ s.ssh.enabled = w.sshOn /\ s.ssh.host = w.sshHost /\ s.ssh.method = w.method
           /\ s.ssh.password = w.sshPassword /\ s.ssh.key = KeyFile(w) /\ s.ssh.passphrase = w.passphrase
           /\ s.ssh.ask = w.sshAsk /\ s.ssh.port = toInt(w.sshPort.digits) /\ s.ssh.userName = w.sshUser
  <2>1. DOMAIN b = ConnectionFields
    BY <1>4
  <2> QED BY <2>1, AppliedSsh
<1> HIDE DEF s
<1>6. /\ DOMAIN l = ConnectionFields /\ l.defaultDb = s.defaultDb /\ l.credentials = s.credentials
      /\ l.isReplicaSet = s.isReplicaSet /\ l.name = s.name /\ l.address = s.address
      /\ l.replicaSet = s.replicaSet /\ l.ssh = s.ssh
      /\ l.ssl.enabled = w.sslOn /\ l.ssl.allowInvalidCertificates = (w.certificate # "ca")
      /\ l.ssl.caFile = w.caFile /\ l.ssl.usePemFile = w.usePem /\ l.ssl.pemKeyFile = w.pemFile
      /\ l.ssl.pemPassPhrase = w.pemPass /\ l.ssl.ask = w.pemAsk /\ l.ssl.advanced = w.advanced
      /\ l.ssl.crlFile = w.crlFile /\ l.ssl.allowInvalidHostnames = w.hostnames
      /\ DOMAIN l.ssl = SslFields
  BY <1>1, <1>5, AppliedSsl
<1> HIDE DEF l
<1>7. DOMAIN r.copy = ConnectionFields
  BY <1>2, <1>4, <1>5, <1>6
<1>8. ASSUME r.ok
      PROVE  Agrees(r.copy, w) /\ SavedSound(r.copy) /\ (r.copy.ssl.ask => r.copy.ssl.pemPassPhrase = "")
  <2>1. r.copy = l /\ ~ MembersRefused(w) /\ ~ KeyRefused(w)
    BY <1>2, <1>8
  <2>2. Agrees(l, w)
    <3>1. /\ l.isReplicaSet = (w.type = "set") /\ l.name = w.name /\ l.defaultDb = w.defaultDb
          /\ w.type = "direct" => Left[l.address.host] = Left[w.host] /\ l.address.port = toInt(w.port.digits)
          /\ w.type = "set" =>
               l.replicaSet.members = w.members /\ l.replicaSet.setName = w.setName /\ w.members # << >>
      BY <1>3, <1>4, <1>5, <1>6, <2>1
    <3>2. l.credentials = IF w.user = "" /\ w.password = "" /\ w.db = "" THEN << >>
                          ELSE <<[enabled |-> w.useAuth, user |-> w.user, password |-> w.password, db |-> w.db,
                                  mechanism |-> w.mechanism]>>
      BY <1>3, <1>4, <1>5, <1>6, Zenon
    <3>3. /\ l.ssh.enabled = w.sshOn /\ l.ssh.host = w.sshHost /\ l.ssh.method = w.method
          /\ l.ssh.password = w.sshPassword /\ l.ssh.key = KeyFile(w) /\ l.ssh.passphrase = w.passphrase
          /\ l.ssh.ask = w.sshAsk /\ l.ssh.port = toInt(w.sshPort.digits) /\ l.ssh.userName = w.sshUser
      BY <1>5, <1>6, <2>1
    <3> QED BY <1>6, <3>1, <3>2, <3>3, Zenon DEF Agrees
  <2>3. AddressOfSet(l)
    <3>1. l.isReplicaSet => w.type = "set"
      BY <1>4, <1>5, <1>6, <2>1
    <3>2. w.type = "set" =>
            /\ l.replicaSet.members = w.members /\ w.members # << >> /\ IsInjective(w.members)
            /\ l.address.host = w.members[1].host /\ l.address.port = toInt(w.members[1].port)
      BY <1>4, <1>5, <1>6, <2>1
    <3> QED BY <3>1, <3>2, Zenon DEF AddressOfSet
  <2>4. w.pemAsk => l.ssl.pemPassPhrase = ""
    BY <1>1, <1>6 DEF NothingTyped
  <2>5. l.address.host \in Host /\ l.address.port \in Nat
    BY <1>4, <1>5, <1>6, <2>1
  <2>6. SavedSound(l)
    BY <1>1, <1>6, <2>2, <2>3, <2>4, <2>5, AgreesSaved
  <2> QED BY <1>6, <2>1, <2>2, <2>4, <2>6
<1> QED BY <1>7, <1>8 DEF w, r

CredentialsRead(list) == FoldLeft(addCredential, << >>, list)

\* Credentials added to an empty list: none, or the one there is.
LEMMA NoCredentialRead == CredentialsRead(<< >>) = << >>
<1> DEFINE F(iter) == [s \in SUBSET {} |-> IF s = {} THEN << >> ELSE addCredential(iter[s \ {Max(s)}], << >>[Max(s)])]
           fix == CHOOSE iter : iter = F(iter)
           only == [s \in SUBSET {} |-> << >>]
<1>1. CredentialsRead(<< >>) = fix[{}]
  BY DEF CredentialsRead, FoldLeft, MapThenFoldSet
<1>2. only = F(only)
  OBVIOUS
<1>3. fix = F(fix)
  BY <1>2
<1> QED BY <1>1, <1>3

LEMMA OneCredentialRead == ASSUME NEW x PROVE CredentialsRead(<<x>>) = <<x>>
<1> DEFINE F(iter) ==
             [s \in SUBSET {1} |-> IF s = {} THEN << >> ELSE addCredential(iter[s \ {Max(s)}], <<x>>[Max(s)])]
           fix == CHOOSE iter : iter = F(iter)
           both == [s \in SUBSET {1} |-> IF s = {} THEN << >> ELSE <<x>>]
<1>1. CredentialsRead(<<x>>) = fix[{1}]
  BY DEF CredentialsRead, FoldLeft, MapThenFoldSet
<1>2. Max({1}) = 1
  BY DEF Max
<1>3. addCredential(<< >>, x) = <<x>>
  BY DEF addCredential
<1>4. both = F(both)
  <2>1. ASSUME NEW s \in SUBSET {1}
        PROVE  both[s] = IF s = {} THEN << >> ELSE addCredential(both[s \ {Max(s)}], <<x>>[Max(s)])
    <3>1. CASE s = {}
      BY <3>1
    <3>2. CASE s = {1}
      <4>1. s \ {Max(s)} = {} /\ both[{}] = << >> /\ <<x>>[Max(s)] = x /\ both[s] = <<x>>
        BY <1>2, <3>2
      <4> QED BY <1>3, <3>2, <4>1
    <3> QED BY <3>1, <3>2
  <2> QED BY <2>1
<1>5. fix = F(fix)
  BY <1>4
<1> HIDE DEF fix
<1>6. fix[{}] = << >>
  BY <1>5
<1>7. fix[{1}] = addCredential(fix[{1} \ {1}], <<x>>[1])
  BY <1>2, <1>5
<1>8. {1} \ {1} = {} /\ <<x>>[1] = x
  OBVIOUS
<1> QED BY <1>1, <1>3, <1>6, <1>7, <1>8

\* The members under their numbers are the members in their order.
LEMMA MembersRead ==
  ASSUME NEW m, m.members \in Seq(Member)
  PROVE  LET n == replicaSetFromVariant(replicaSetToVariant(m))
         IN n.members = m.members /\ n.setName = m.setName
<1> DEFINE N == Len(m.members)
           v == replicaSetToVariant(m)
           D == DOMAIN v.numbered
           P(k) == k \notin D /\ 0 .. k - 1 \subseteq D
           n == CHOOSE k \in 0 .. Cardinality(D) : P(k)
<1>1. N \in Nat
  OBVIOUS
<1>2. D = 0 .. N - 1 /\ \A k \in D : v.numbered[k] = m.members[k + 1]
  BY DEF replicaSetToVariant
<1>3. v.setNameUserEntered = m.setName
  BY DEF replicaSetToVariant
<1>4. Cardinality(D) = N
  <2>1. Cardinality(0 .. N - 1) = IF 0 > N - 1 THEN 0 ELSE (N - 1) - 0 + 1
    <3>1. \A i \in Int : Cardinality(0 .. i) = IF 0 > i THEN 0 ELSE i - 0 + 1
      BY FS_Interval
    <3>2. N - 1 \in Int
      BY <1>1
    <3> HIDE DEF N
    <3> QED BY <3>1, <3>2
  <2> QED BY <1>1, <1>2, <2>1
<1>5. P(N)
  BY <1>1, <1>2
<1>6. \A k \in 0 .. N : P(k) => k = N
  BY <1>1, <1>2
<1>7. n = N
  <2>1. N \in 0 .. Cardinality(D)
    BY <1>1, <1>4
  <2>2. n \in 0 .. Cardinality(D) /\ P(n)
    BY <1>5, <2>1
  <2> QED BY <1>4, <1>6, <2>2
<1>8. replicaSetFromVariant(v) = [members |-> [k \in 1 .. n |-> v.numbered[k - 1]], setName |-> v.setNameUserEntered]
  BY DEF replicaSetFromVariant
<1> HIDE DEF n, v
<1>9. \A k \in 1 .. N : v.numbered[k - 1] = m.members[k]
  <2>1. SUFFICES ASSUME NEW k \in 1 .. N PROVE v.numbered[k - 1] = m.members[k]
    OBVIOUS
  <2>2. k - 1 \in D /\ (k - 1) + 1 = k
    BY <1>1, <1>2
  <2> QED BY <1>2, <2>2
<1>10. [k \in 1 .. n |-> v.numbered[k - 1]] = m.members
  BY <1>7, <1>9
<1> QED BY <1>3, <1>8, <1>10 DEF v

\* What the file keeps of a connection.
LEMMA ReadAgain ==
  ASSUME NEW c, SavedSound(c), NEW d, d = fromVariant(toVariant(c))
  PROVE  /\ DOMAIN d = ConnectionFields /\ d.name = c.name /\ d.defaultDb = c.defaultDb
         /\ d.address.host = Left[c.address.host] /\ d.address.port = c.address.port
         /\ d.isReplicaSet = c.isReplicaSet
         /\ c.isReplicaSet => d.replicaSet.members = c.replicaSet.members /\ d.replicaSet.setName = c.replicaSet.setName
         /\ d.credentials = CredentialsRead(c.credentials)
         /\ d.ssh.enabled = c.ssh.enabled /\ d.ssh.host = c.ssh.host /\ d.ssh.method = c.ssh.method
         /\ d.ssh.password = c.ssh.password /\ d.ssh.key = c.ssh.key /\ d.ssh.passphrase = c.ssh.passphrase
         /\ d.ssh.ask = c.ssh.ask /\ d.ssh.port = c.ssh.port /\ d.ssh.userName = c.ssh.userName
         /\ DOMAIN d.ssl = SslFields
         /\ d.ssl.enabled = c.ssl.enabled /\ d.ssl.allowInvalidCertificates = c.ssl.allowInvalidCertificates
         /\ d.ssl.caFile = c.ssl.caFile /\ d.ssl.usePemFile = c.ssl.usePemFile /\ d.ssl.pemKeyFile = c.ssl.pemKeyFile
         /\ d.ssl.pemPassPhrase = c.ssl.pemPassPhrase /\ d.ssl.ask = c.ssl.ask /\ d.ssl.advanced = c.ssl.advanced
         /\ d.ssl.crlFile = c.ssl.crlFile /\ d.ssl.allowInvalidHostnames = c.ssl.allowInvalidHostnames
<1> DEFINE m == toVariant(c)
<1>1. /\ m.connectionName = c.name /\ m.server = c.address /\ m.defaultDatabase = c.defaultDb
      /\ m.isReplicaSet = c.isReplicaSet /\ m.credentials = c.credentials
      /\ m.replicaSet = IF c.isReplicaSet THEN replicaSetToVariant(c.replicaSet) ELSE NULL
      /\ m.ssh = sshToVariant(c.ssh) /\ m.ssl = sslToVariant(c.ssl)
  BY DEF toVariant
<1> HIDE DEF m
<1>2. /\ DOMAIN d = ConnectionFields /\ d.name = m.connectionName
      /\ d.address.host = Left[m.server.host] /\ d.address.port = m.server.port
      /\ d.defaultDb = m.defaultDatabase /\ d.isReplicaSet = m.isReplicaSet
      /\ d.replicaSet = IF m.isReplicaSet THEN replicaSetFromVariant(m.replicaSet) ELSE DefaultReplicaSet
      /\ d.ssh = sshFromVariant(m.ssh) /\ d.ssl = sslFromVariant(m.ssl)
  BY DEF fromVariant, Address, ConnectionFields, m
<1>3. d.credentials = CredentialsRead(m.credentials)
  BY DEF fromVariant, CredentialsRead, m
<1>4. c.isReplicaSet => d.replicaSet.members = c.replicaSet.members /\ d.replicaSet.setName = c.replicaSet.setName
  BY <1>1, <1>2, MembersRead DEF SavedSound
<1>5. /\ d.ssh.enabled = c.ssh.enabled /\ d.ssh.host = c.ssh.host /\ d.ssh.method = c.ssh.method
      /\ d.ssh.password = c.ssh.password /\ d.ssh.key = c.ssh.key /\ d.ssh.passphrase = c.ssh.passphrase
      /\ d.ssh.ask = c.ssh.ask /\ d.ssh.port = c.ssh.port /\ d.ssh.userName = c.ssh.userName
  BY <1>1, <1>2 DEF sshToVariant, sshFromVariant
<1>6. /\ d.ssl.enabled = c.ssl.enabled /\ d.ssl.allowInvalidCertificates = c.ssl.allowInvalidCertificates
      /\ d.ssl.caFile = c.ssl.caFile /\ d.ssl.usePemFile = c.ssl.usePemFile /\ d.ssl.pemKeyFile = c.ssl.pemKeyFile
      /\ d.ssl.pemPassPhrase = c.ssl.pemPassPhrase /\ d.ssl.ask = c.ssl.ask /\ d.ssl.advanced = c.ssl.advanced
      /\ d.ssl.crlFile = c.ssl.crlFile /\ d.ssl.allowInvalidHostnames = c.ssl.allowInvalidHostnames
      /\ DOMAIN d.ssl = SslFields
  BY <1>1, <1>2 DEF sslToVariant, sslFromVariant, SslFields
<1>7. d.credentials = CredentialsRead(c.credentials)
  BY <1>1, <1>3, Zenon
<1> QED BY <1>1, <1>2, <1>4, <1>5, <1>6, <1>7

\* The list can still show the connection, and what agreed with it does.
LEMMA RestartKeeps ==
  ASSUME NEW c, SavedSound(c), NEW d, d = fromVariant(toVariant(c))
  PROVE  SavedSound(d) /\ \A w : Agrees(c, w) => Agrees(d, w)
<1>1. /\ DOMAIN d = ConnectionFields /\ d.name = c.name /\ d.defaultDb = c.defaultDb
      /\ d.isReplicaSet = c.isReplicaSet
      /\ c.isReplicaSet => d.replicaSet.members = c.replicaSet.members /\ d.replicaSet.setName = c.replicaSet.setName
      /\ d.credentials = CredentialsRead(c.credentials)
  BY ReadAgain
<1>2. /\ d.ssh.enabled = c.ssh.enabled /\ d.ssh.host = c.ssh.host /\ d.ssh.method = c.ssh.method
      /\ d.ssh.password = c.ssh.password /\ d.ssh.key = c.ssh.key /\ d.ssh.passphrase = c.ssh.passphrase
      /\ d.ssh.ask = c.ssh.ask /\ d.ssh.port = c.ssh.port /\ d.ssh.userName = c.ssh.userName
  BY ReadAgain
<1>6. d.address.host = Left[c.address.host] /\ d.address.port = c.address.port /\ DOMAIN d.ssl = SslFields
  BY ReadAgain
<1>7. c.address.host \in Host /\ d.address.host \in Host /\ Left[d.address.host] = Left[c.address.host]
  BY <1>6, ConnectionFormAssumption DEF SavedSound, Host
<1>3. /\ d.ssl.enabled = c.ssl.enabled /\ d.ssl.allowInvalidCertificates = c.ssl.allowInvalidCertificates
      /\ d.ssl.caFile = c.ssl.caFile /\ d.ssl.usePemFile = c.ssl.usePemFile /\ d.ssl.pemKeyFile = c.ssl.pemKeyFile
      /\ d.ssl.pemPassPhrase = c.ssl.pemPassPhrase /\ d.ssl.ask = c.ssl.ask /\ d.ssl.advanced = c.ssl.advanced
      /\ d.ssl.crlFile = c.ssl.crlFile /\ d.ssl.allowInvalidHostnames = c.ssl.allowInvalidHostnames
  BY ReadAgain
<1>4. SavedSound(d)
  <2>1. OnlyPromptedKept(d)
    BY <1>2, <1>3 DEF SavedSound, OnlyPromptedKept, NoSshSecret
  <2>2. AddressOfSet(d)
    <3>1. SUFFICES ASSUME c.isReplicaSet PROVE AddressOfSet(d)
      BY <1>1 DEF AddressOfSet
    <3> DEFINE h == c.replicaSet.members[1].host
    <3>2. /\ c.replicaSet.members # << >> /\ IsInjective(c.replicaSet.members)
          /\ c.address.port = toInt(c.replicaSet.members[1].port) /\ c.address.host \in {h, Left[h]}
      BY <3>1 DEF SavedSound, AddressOfSet
    <3>3. h \in Host
      <4>1. c.replicaSet.members \in Seq(Member)
        BY <3>1 DEF SavedSound
      <4>2. c.replicaSet.members[1] \in Member
        BY <3>2, <4>1
      <4> QED BY <4>2 DEF Member
    <3>4. d.address.host = Left[h]
      BY <1>6, <3>2, <3>3, ConnectionFormAssumption DEF Host
    <3>5. d.replicaSet.members = c.replicaSet.members
      BY <1>1, <3>1
    <3> QED BY <1>6, <3>2, <3>4, <3>5 DEF AddressOfSet
  <2>5. d.address.port \in Nat /\ d.ssh.port \in Nat
    BY <1>2, <1>6 DEF SavedSound
  <2>3. d.isReplicaSet \in BOOLEAN /\ (d.isReplicaSet => d.replicaSet.members \in Seq(Member))
    BY <1>1 DEF SavedSound
  <2>4. /\ d.ssh.enabled \in BOOLEAN /\ d.ssh.ask \in BOOLEAN /\ d.ssh.key \in DOMAIN AtHome
        /\ d.ssl.enabled \in BOOLEAN /\ d.ssl.usePemFile \in BOOLEAN /\ d.ssl.ask \in BOOLEAN
        /\ d.ssl.advanced \in BOOLEAN
    BY <1>2, <1>3 DEF SavedSound
  <2> QED BY <1>1, <1>6, <1>7, <2>1, <2>2, <2>3, <2>4, <2>5, Zenon DEF SavedSound
<1>5. ASSUME NEW w, Agrees(c, w) PROVE Agrees(d, w)
  <2>1. d.credentials = c.credentials
    <3>1. CASE w.user = "" /\ w.password = "" /\ w.db = ""
      <4>1. c.credentials = << >>
        BY <1>5, <3>1 DEF Agrees
      <4> QED BY <1>1, <4>1, NoCredentialRead
    <3>2. CASE ~ (w.user = "" /\ w.password = "" /\ w.db = "")
      <4>1. PICK x : c.credentials = <<x>>
        BY <1>5, <3>2 DEF Agrees
      <4> QED BY <1>1, <4>1, OneCredentialRead
    <3> QED BY <3>1, <3>2
  <2>2. c.isReplicaSet = (w.type = "set")
    BY <1>5 DEF Agrees
  <2>3. /\ w.type = "direct" => Left[d.address.host] = Left[w.host] /\ d.address.port = toInt(w.port.digits)
        /\ w.type = "set" => d.replicaSet.members = w.members /\ d.replicaSet.setName = w.setName /\ w.members # << >>
    BY <1>1, <1>5, <1>6, <1>7, <2>2 DEF Agrees
  <2>4. d.isReplicaSet = (w.type = "set") /\ d.name = w.name /\ d.defaultDb = w.defaultDb
    BY <1>1, <1>5 DEF Agrees
  <2> QED BY <1>2, <1>3, <1>5, <2>1, <2>3, <2>4, Zenon DEF Agrees
<1> QED BY <1>4, <1>5

-----------------------------------------------------------------------------
(* Opened again.                                                              *)

NoAuth(w) == w.user = "" /\ w.password = "" /\ w.db \in {"", "admin"}

LEMMA InUseParts ==
  ASSUME NEW w, DOMAIN w = Widget
  PROVE  LET u == InUse(w)
         IN /\ u = [x \in Widget |-> u[x]]
            /\ u.host = (IF w.type = "set" THEN "localhost" ELSE Left[w.host])
            /\ u.port = (IF w.type = "set" THEN DefaultPort ELSE toInt(w.port.digits))
            /\ u.sshPort = toInt(w.sshPort.digits)
            /\ u.members = (IF w.type = "set" THEN w.members ELSE << >>)
            /\ u.setName = (IF w.type = "set" THEN w.setName ELSE "")
            /\ u.key = AtHome[w.key]
            /\ u.useAuth = (w.useAuth /\ ~ NoAuth(w))
            /\ u.db = (IF NoAuth(w) THEN "" ELSE w.db)
            /\ u.mechanism = (IF NoAuth(w) THEN "SCRAM-SHA-1" ELSE w.mechanism)
            /\ \A x \in Widget \ {"host", "port", "sshPort", "members", "setName", "key", "useAuth", "db", "mechanism"} : u[x] = w[x]
<1> DEFINE set == w.type = "set"
           a == [w EXCEPT !["host"] = IF set THEN "localhost" ELSE Left[w.host],
                          !["port"] = IF set THEN DefaultPort ELSE toInt(w.port.digits),
                          !["sshPort"] = toInt(w.sshPort.digits)]
           b == [a EXCEPT !["members"] = IF set THEN w.members ELSE << >>,
                          !["setName"] = IF set THEN w.setName ELSE ""]
           e == [b EXCEPT !["key"] = AtHome[w.key], !["useAuth"] = w.useAuth /\ ~ NoAuth(w),
                          !["db"] = IF NoAuth(w) THEN "" ELSE w.db,
                          !["mechanism"] = IF NoAuth(w) THEN "SCRAM-SHA-1" ELSE w.mechanism]
<1>1. a = [x \in Widget |-> a[x]]
      /\ a.host = (IF set THEN "localhost" ELSE Left[w.host])
      /\ a.port = (IF set THEN DefaultPort ELSE toInt(w.port.digits))
      /\ a.sshPort = toInt(w.sshPort.digits)
      /\ \A x \in Widget \ {"host", "port", "sshPort"} : a[x] = w[x]
  BY WidgetNames
<1> HIDE DEF a
<1>2. b = [x \in Widget |-> b[x]]
      /\ b.members = (IF set THEN w.members ELSE << >>) /\ b.setName = (IF set THEN w.setName ELSE "")
      /\ \A x \in Widget \ {"members", "setName"} : b[x] = a[x]
  BY <1>1, WidgetNames
<1> HIDE DEF b
<1>3. e = [x \in Widget |-> e[x]]
      /\ e.key = AtHome[w.key] /\ e.useAuth = (w.useAuth /\ ~ NoAuth(w))
      /\ e.db = (IF NoAuth(w) THEN "" ELSE w.db) /\ e.mechanism = (IF NoAuth(w) THEN "SCRAM-SHA-1" ELSE w.mechanism)
      /\ \A x \in Widget \ {"key", "useAuth", "db", "mechanism"} : e[x] = b[x]
  BY <1>2, WidgetNames
<1>4. InUse(w) = e
  BY WidgetNames DEF InUse, NoAuth, e, b, a
<1> HIDE DEF e
<1>5. /\ e.host = a.host /\ e.port = a.port /\ e.sshPort = a.sshPort
      /\ e.members = b.members /\ e.setName = b.setName
  BY <1>2, <1>3, WidgetNames
<1>6. \A x \in Widget \ {"host", "port", "sshPort", "members", "setName", "key", "useAuth", "db", "mechanism"} :
        e[x] = w[x]
  BY <1>1, <1>2, <1>3
<1> QED BY <1>1, <1>2, <1>3, <1>4, <1>5, <1>6

\* A connection that agrees with the widgets shows them again, as far as they are used.
LEMMA SameShown ==
  ASSUME NEW c, NEW w, SavedSound(c), WidgetsTyped(w), NothingTyped(w), Agrees(c, w)
  PROVE  InUse(Widgets(c)) = InUse(w)
<1> DEFINE v == Widgets(c)
           Special == {"host", "port", "sshPort", "members", "setName", "key", "useAuth", "db", "mechanism"}
<1>0. v = Widgets(c)
  OBVIOUS
<1> HIDE DEF v
<1>1. DOMAIN v = Widget /\ DOMAIN w = Widget
  BY <1>0, WidgetsOf DEF WidgetsTyped
<1>2. /\ v.type = w.type /\ v.name = w.name /\ v.defaultDb = w.defaultDb
      /\ w.type # "set" => Left[v.host] = Left[w.host] /\ toInt(v.port.digits) = toInt(w.port.digits)
      /\ w.type = "set" => v.members = w.members /\ v.setName = w.setName
  <2>1. w.type \in {"set", "direct"}
    BY WidgetNames DEF WidgetsTyped, Fits
  <2>2. /\ v.type = (IF c.isReplicaSet THEN "set" ELSE "direct") /\ v.name = c.name /\ v.host = c.address.host
        /\ v.setName = c.replicaSet.setName /\ v.defaultDb = c.defaultDb
    BY <1>0, BasicShown
  <2>7. v.port = NumberText(c.address.port)
    BY <1>0, BasicShown
  <2>6. c.isReplicaSet /\ c.replicaSet.members # << >> => v.members = c.replicaSet.members
    BY <1>0, MembersShown
  <2>3. /\ c.isReplicaSet = (w.type = "set") /\ c.name = w.name /\ c.defaultDb = w.defaultDb
        /\ w.type = "direct" => Left[c.address.host] = Left[w.host] /\ c.address.port = toInt(w.port.digits)
        /\ w.type = "set" => c.replicaSet.members = w.members /\ c.replicaSet.setName = w.setName /\ w.members # << >>
    BY DEF Agrees
  <2>4. CASE w.type = "set"
    BY <2>2, <2>3, <2>4, <2>6
  <2>5. CASE w.type = "direct"
    <3>1. w.port.digits \in Nat \cup {NoPort, Junk}
      BY WidgetNames DEF WidgetsTyped, Fits, PortText
    <3>2. v.port.digits = toInt(w.port.digits)
      BY <2>7, <2>3, <2>5, <3>1, NumberTextType, toIntType
    <3>3. toInt(v.port.digits) = toInt(w.port.digits)
      BY <3>1, <3>2, toIntType
    <3> QED BY <2>2, <2>3, <2>5, <3>3
  <2> QED BY <2>1, <2>4, <2>5
<1>18. v.sshUser = w.sshUser /\ toInt(v.sshPort.digits) = toInt(w.sshPort.digits)
  <2>1. v.sshUser = c.ssh.userName /\ v.sshPort = NumberText(c.ssh.port)
    BY <1>0, SshShown
  <2>2. w.sshPort.digits \in Nat \cup {NoPort, Junk}
    BY WidgetNames DEF WidgetsTyped, Fits, PortText
  <2>5. c.ssh.userName = w.sshUser /\ c.ssh.port = toInt(w.sshPort.digits)
    BY DEF Agrees
  <2>3. v.sshPort.digits = toInt(w.sshPort.digits)
    BY <2>1, <2>2, <2>5, NumberTextType, toIntType
  <2>4. toInt(v.sshPort.digits) = toInt(w.sshPort.digits)
    BY <2>2, <2>3, toIntType
  <2> QED BY <2>1, <2>4, <2>5
<1>3. /\ v.sshOn = w.sshOn /\ v.sshHost = w.sshHost /\ v.method = w.method /\ v.sshPassword = w.sshPassword
      /\ v.passphrase = w.passphrase /\ v.sshAsk = w.sshAsk /\ v.key = KeyFile(w)
  <2>1. /\ v.sshOn = c.ssh.enabled /\ v.sshHost = c.ssh.host /\ v.method = c.ssh.method
        /\ v.sshPassword = c.ssh.password /\ v.key = c.ssh.key /\ v.passphrase = c.ssh.passphrase
        /\ v.sshAsk = c.ssh.ask
    BY <1>0, SshShown
  <2> QED BY <2>1, Zenon DEF Agrees
<1>4. /\ v.sslOn = w.sslOn /\ v.caFile = w.caFile /\ v.usePem = w.usePem /\ v.pemFile = w.pemFile
      /\ v.pemAsk = w.pemAsk /\ v.advanced = w.advanced /\ v.crlFile = w.crlFile /\ v.hostnames = w.hostnames
      /\ v.pemPass = (IF w.pemAsk THEN "" ELSE w.pemPass)
      /\ v.certificate = (IF w.certificate # "ca" THEN "selfSigned" ELSE "ca")
  <2>1. /\ v.sslOn = c.ssl.enabled /\ v.certificate = (IF c.ssl.allowInvalidCertificates THEN "selfSigned" ELSE "ca")
        /\ v.caFile = c.ssl.caFile /\ v.usePem = c.ssl.usePemFile /\ v.pemFile = c.ssl.pemKeyFile
        /\ v.pemPass = (IF c.ssl.ask THEN "" ELSE c.ssl.pemPassPhrase) /\ v.pemAsk = c.ssl.ask
        /\ v.advanced = c.ssl.advanced /\ v.crlFile = c.ssl.crlFile /\ v.hostnames = c.ssl.allowInvalidHostnames
    BY <1>0, SslShown
  <2>2. /\ c.ssl.enabled = w.sslOn /\ c.ssl.allowInvalidCertificates = (w.certificate # "ca")
        /\ c.ssl.caFile = w.caFile /\ c.ssl.usePemFile = w.usePem /\ c.ssl.pemKeyFile = w.pemFile
        /\ ~ w.pemAsk => c.ssl.pemPassPhrase = w.pemPass
        /\ c.ssl.ask = w.pemAsk /\ c.ssl.advanced = w.advanced
        /\ c.ssl.crlFile = w.crlFile /\ c.ssl.allowInvalidHostnames = w.hostnames
    BY DEF Agrees
  <2> QED BY <2>1, <2>2
<1>5. v.pemPass = w.pemPass /\ v.certificate = w.certificate
  BY <1>4, WidgetNames DEF NothingTyped, WidgetsTyped, Fits
<1>6. w.user = "" /\ w.password = "" /\ w.db = "" => v.user = "" /\ v.password = "" /\ v.db = "admin"
  <2>1. w.user = "" /\ w.password = "" /\ w.db = "" => c.credentials = << >>
    BY DEF Agrees
  <2> QED BY <2>1, <1>0, AuthShown
<1>7. ~ (w.user = "" /\ w.password = "" /\ w.db = "") =>
        /\ v.user = w.user /\ v.password = w.password /\ v.db = w.db /\ v.mechanism = w.mechanism
        /\ c.credentials # << >> /\ c.credentials[1].enabled = w.useAuth
  <2>1. SUFFICES ASSUME ~ (w.user = "" /\ w.password = "" /\ w.db = "")
                 PROVE  /\ v.user = w.user /\ v.password = w.password /\ v.db = w.db /\ v.mechanism = w.mechanism
                        /\ c.credentials # << >> /\ c.credentials[1].enabled = w.useAuth
    OBVIOUS
  <2>2. c.credentials = <<[enabled |-> w.useAuth, user |-> w.user, password |-> w.password, db |-> w.db,
                           mechanism |-> w.mechanism]>>
    BY <2>1 DEF Agrees
  <2>3. /\ c.credentials # << >> /\ c.credentials[1].enabled = w.useAuth /\ c.credentials[1].user = w.user
        /\ c.credentials[1].password = w.password /\ c.credentials[1].db = w.db
        /\ c.credentials[1].mechanism = w.mechanism
    BY <2>2
  <2> QED BY <2>3, <1>0, AuthShown
<1>8. v.user = w.user /\ v.password = w.password
  BY <1>6, <1>7
<1>9. (NoAuth(v) <=> NoAuth(w)) /\ (~ NoAuth(w) => v.db = w.db /\ v.mechanism = w.mechanism)
  BY <1>6, <1>7 DEF NoAuth
<1>10. ~ NoAuth(w) => v.useAuth = w.useAuth
  <2>1. SUFFICES ASSUME ~ NoAuth(w) PROVE v.useAuth = w.useAuth
    OBVIOUS
  <2>2. ~ (w.user = "" /\ w.password = "" /\ w.db = "")
    BY <2>1 DEF NoAuth
  <2>3. c.credentials # << >> /\ c.credentials[1].enabled = w.useAuth
    BY <1>7, <2>2
  <2>4. w.useAuth \in BOOLEAN
    BY WidgetNames DEF WidgetsTyped, Fits, Boxes
  <2>5. v.useAuth \in BOOLEAN /\ (v.useAuth <=> c.credentials[1].enabled)
    BY <2>3, <1>0, AuthShown
  <2> QED BY <2>3, <2>4, <2>5
<1>11. AtHome[v.key] = AtHome[w.key]
  BY <1>3, KeyFileThere
<1> HIDE DEF v
<1>12. \A x \in Widget \ Special : v[x] = w[x]
  BY <1>2, <1>3, <1>4, <1>5, <1>8, <1>18, WidgetNames
<1>13. \A x \in Widget \ Special : InUse(v)[x] = InUse(w)[x]
  BY <1>1, <1>12, InUseParts
<1>14. /\ InUse(v).host = InUse(w).host /\ InUse(v).members = InUse(w).members
       /\ InUse(v).setName = InUse(w).setName /\ InUse(v).key = InUse(w).key
       /\ InUse(v).port = InUse(w).port /\ InUse(v).sshPort = InUse(w).sshPort
  <2>1. ASSUME NEW u, DOMAIN u = Widget
        PROVE  /\ InUse(u).host = (IF u.type = "set" THEN "localhost" ELSE Left[u.host])
               /\ InUse(u).port = (IF u.type = "set" THEN DefaultPort ELSE toInt(u.port.digits))
               /\ InUse(u).sshPort = toInt(u.sshPort.digits)
               /\ InUse(u).members = (IF u.type = "set" THEN u.members ELSE << >>)
               /\ InUse(u).setName = (IF u.type = "set" THEN u.setName ELSE "")
               /\ InUse(u).key = AtHome[u.key]
    BY <2>1, InUseParts
  <2> QED BY <1>1, <1>2, <1>11, <1>18, <2>1
<1>15. /\ InUse(v).db = InUse(w).db /\ InUse(v).mechanism = InUse(w).mechanism
       /\ InUse(v).useAuth = InUse(w).useAuth
  BY <1>1, <1>9, <1>10, InUseParts
<1>16. \A x \in Widget : InUse(v)[x] = InUse(w)[x]
  BY <1>13, <1>14, <1>15
<1>17. InUse(v) = [x \in Widget |-> InUse(v)[x]] /\ InUse(w) = [x \in Widget |-> InUse(w)[x]]
  BY <1>1, InUseParts
<1> QED BY <1>16, <1>17 DEF v

-----------------------------------------------------------------------------
(* The steps that open and close the dialog, and the whole.                   *)

LEMMA OpenSound == ASSUME ConnectionSound, connection # NULL, edit PROVE ConnectionSound'
<1>1. SavedSound(connection)
  BY DEF ConnectionSound
<1>2. FormSound(ConnectionDialog(connection)) /\ ConnectionDialog(connection).dialog = "connection"
  BY <1>1, DialogOpened
<1>3. form' = ConnectionDialog(connection) /\ connection' = connection /\ shown' = NULL
  BY DEF edit
<1> QED BY <1>2, <1>3, StaysOpen

\* No dialog is open after the step, and the list has a sound connection.
LEMMA ClosedSound ==
  ASSUME form' = NULL, NEW c, NEW w, connection' = c, shown' = w, SavedSound(c),
         w # NULL => WidgetsTyped(w) /\ NothingTyped(w) /\ Agrees(c, w)
  PROVE  ConnectionSound'
<1>1. SavedSound(connection)'
  BY DEF SavedSound, OnlyPromptedKept, NoSshSecret, AddressOfSet
<1>2. (shown # NULL => WidgetsTyped(shown) /\ NothingTyped(shown) /\ Agrees(connection, shown))'
  BY DEF WidgetsTyped, NothingTyped, Agrees, Fits, KeyFile
<1> QED BY <1>1, <1>2 DEF ConnectionSound, IsOpen

\* The copy was changed by a test or an attempt to accept.
LEMMA CopyChanged ==
  ASSUME ConnectionSound, IsOpen("connection"), NEW copy, DOMAIN copy = ConnectionFields,
         form' = [form EXCEPT !.copy = copy], connection' = connection, shown' = shown
  PROVE  ConnectionSound'
<1> DEFINE g == [form EXCEPT !.copy = copy]
<1>1. FormSound(form)
  BY DEF ConnectionSound
<1>3. /\ DOMAIN g = FormFields /\ g.copy = copy /\ g.w = form.w /\ g.off = form.off /\ g.hidden = form.hidden
      /\ g.dialog = form.dialog
  BY <1>1 DEF FormSound, FormFields
<1>4. form' = g
  OBVIOUS
<1> HIDE DEF g
<1>5. FormSound(g)
  <2>1. OffFollows(g) /\ HiddenFollows(g)
    BY <1>1, <1>3 DEF FormSound, OffFollows, HiddenFollows
  <2> QED BY <1>1, <1>3, <2>1 DEF FormSound
<1>6. g.dialog = "connection"
  BY <1>3 DEF IsOpen
<1> QED BY <1>4, <1>5, <1>6, StaysOpen

LEMMA AcceptConnectionSound == ASSUME ConnectionSound, acceptConnection PROVE ConnectionSound'
<1> DEFINE r == validateAndApply(form)
<1>1. IsOpen("connection") /\ FormSound(form)
  BY DEF acceptConnection, ConnectionSound
<1>2. CASE r.ok /\ connection' = r.copy /\ shown' = form.w /\ Close
  <2>1. Agrees(r.copy, form.w) /\ SavedSound(r.copy)
    BY <1>1, <1>2, Applied
  <2>2. WidgetsTyped(form.w) /\ NothingTyped(form.w)
    BY <1>1 DEF FormSound
  <2>3. form' = NULL
    BY <1>2 DEF Close
  <2> HIDE DEF r
  <2> QED BY <1>2, <2>1, <2>2, <2>3, ClosedSound
<1>3. CASE form' = [form EXCEPT !.copy = r.copy] /\ UNCHANGED <<connection, shown, edits>>
  <2>1. DOMAIN r.copy = ConnectionFields
    BY <1>1, Applied
  <2> HIDE DEF r
  <2> QED BY <1>1, <1>3, <2>1, CopyChanged
<1> QED BY <1>2, <1>3 DEF acceptConnection

\* Connected to: but for a passphrase that is asked for, the connection is as it was.
LEMMA Prompts ==
  ASSUME NEW c, SavedSound(c), NEW d \in askSslPassphrase(c)
  PROVE  SavedSound(d) /\ \A w : Agrees(c, w) => Agrees(d, w)
<1>1. CASE d = c
  BY <1>1
<1>2. CASE d # c
  <2>1. PICK p \in Prompted : c.ssl.ask /\ d = [c EXCEPT !.ssl.pemPassPhrase = p]
    BY <1>2 DEF askSslPassphrase
  <2>2. DOMAIN c = ConnectionFields /\ DOMAIN c.ssl = SslFields
    BY DEF SavedSound
  <2>3. /\ DOMAIN d = ConnectionFields /\ d.name = c.name /\ d.address = c.address /\ d.defaultDb = c.defaultDb
        /\ d.isReplicaSet = c.isReplicaSet /\ d.replicaSet = c.replicaSet /\ d.credentials = c.credentials
        /\ d.ssh = c.ssh /\ d.ssl = [c.ssl EXCEPT !.pemPassPhrase = p]
    BY <2>1, <2>2 DEF ConnectionFields
  <2>4. /\ DOMAIN d.ssl = SslFields /\ d.ssl.enabled = c.ssl.enabled
        /\ d.ssl.allowInvalidCertificates = c.ssl.allowInvalidCertificates
        /\ d.ssl.caFile = c.ssl.caFile /\ d.ssl.usePemFile = c.ssl.usePemFile /\ d.ssl.pemKeyFile = c.ssl.pemKeyFile
        /\ d.ssl.pemPassPhrase = p /\ d.ssl.ask = c.ssl.ask /\ d.ssl.advanced = c.ssl.advanced
        /\ d.ssl.crlFile = c.ssl.crlFile /\ d.ssl.allowInvalidHostnames = c.ssl.allowInvalidHostnames
    BY <2>2, <2>3 DEF SslFields
  <2>5. SavedSound(d)
    <3>1. OnlyPromptedKept(d)
      BY <2>3, <2>4 DEF SavedSound, OnlyPromptedKept, NoSshSecret
    <3>2. AddressOfSet(d)
      BY <2>3, Zenon DEF SavedSound, AddressOfSet
    <3> QED BY <2>3, <2>4, <3>1, <3>2, Zenon DEF SavedSound
  <2>6. ASSUME NEW w, Agrees(c, w) PROVE Agrees(d, w)
    <3>1. c.ssl.ask = w.pemAsk
      BY <2>6 DEF Agrees
    <3>2. ~ w.pemAsk => d.ssl.pemPassPhrase = w.pemPass
      BY <2>1, <3>1, Zenon
    <3> QED BY <2>3, <2>4, <2>6, <3>2, Zenon DEF Agrees
  <2> QED BY <2>5, <2>6
<1> QED BY <1>1, <1>2

LEMMA TestConnectionSound == ASSUME ConnectionSound, testConnection PROVE ConnectionSound'
<1> DEFINE r == validateAndApply(form)
<1>1. IsOpen("connection") /\ FormSound(form) /\ connection' = connection /\ shown' = shown
  BY DEF testConnection, ConnectionSound
<1>2. PICK c \in IF r.ok THEN askSslPassphrase(r.copy) ELSE {r.copy} : form' = [form EXCEPT !.copy = c]
  BY DEF testConnection
<1>3. DOMAIN r.copy = ConnectionFields /\ (r.ok => SavedSound(r.copy))
  BY <1>1, Applied
<1> HIDE DEF r
<1>4. DOMAIN c = ConnectionFields
  <2>1. CASE r.ok
    BY <1>2, <1>3, <2>1, Prompts DEF SavedSound
  <2>2. CASE ~ r.ok
    BY <1>2, <1>3, <2>2
  <2> QED BY <2>1, <2>2
<1> QED BY <1>1, <1>2, <1>4, CopyChanged

LEMMA ConnectListedSound == ASSUME ConnectionSound, connection # NULL, connectListed PROVE ConnectionSound'
<1>1. form' = NULL /\ shown' = shown
  BY DEF connectListed
<1>2. PICK d \in askSslPassphrase(connection) : connection' = d
  BY DEF connectListed
<1>3. SavedSound(connection) /\ (shown # NULL => WidgetsTyped(shown) /\ NothingTyped(shown) /\ Agrees(connection, shown))
  BY DEF ConnectionSound
<1>4. SavedSound(d) /\ \A w : Agrees(connection, w) => Agrees(d, w)
  BY <1>3, Prompts
<1> QED BY <1>1, <1>2, <1>3, <1>4, ClosedSound

LEMMA RejectConnectionSound ==
  ASSUME ConnectionSound, connection # NULL, rejectConnection
  PROVE  ConnectionSound'
<1>1. form' = NULL /\ connection' = connection /\ shown' = shown
  BY DEF rejectConnection, Close
<1>2. SavedSound(connection) /\ (shown # NULL => WidgetsTyped(shown) /\ NothingTyped(shown) /\ Agrees(connection, shown))
  BY DEF ConnectionSound
<1> QED BY <1>1, <1>2, ClosedSound

LEMMA RestartSound == ASSUME ConnectionSound, connection # NULL, Restart PROVE ConnectionSound'
<1> DEFINE d == fromVariant(toVariant(connection))
<1>1. form' = NULL /\ connection' = d /\ shown' = shown
  BY DEF Restart
<1>2. SavedSound(connection) /\ (shown # NULL => WidgetsTyped(shown) /\ NothingTyped(shown) /\ Agrees(connection, shown))
  BY DEF ConnectionSound
<1>3. SavedSound(d) /\ \A w : Agrees(connection, w) => Agrees(d, w)
  BY <1>2, RestartKeeps
<1> HIDE DEF d
<1> QED BY <1>1, <1>2, <1>3, ClosedSound

LEMMA ConnectionStep ==
  ASSUME ConnectionSound, connection # NULL, ConnectionNext
  PROVE  ConnectionSound'
<1>1. CASE edit
  BY <1>1, OpenSound
<1>2. CASE \E tab \in {"basic", "auth", "ssh", "ssl", "advanced"} : ShowTab(tab)
  BY <1>2, ShowTabSound
<1>3. CASE \E x \in DOMAIN TypedText : Enter(x)
  BY <1>3, EnterSound
<1>4. CASE ChooseType \/ ToggleAuth \/ ToggleSsh \/ ToggleSshAsk \/ ChooseMethod
  BY <1>4, ChooseTypeSound, ToggleAuthSound, ToggleSshSound, ToggleSshAskSound, ChooseMethodSound
<1>5. CASE ToggleSsl \/ ChooseCertificate \/ TogglePem \/ TogglePemAsk \/ ToggleAdvanced \/ ChooseHostnames
  BY <1>5, ToggleSslSound, ChooseCertificateSound, TogglePemSound, TogglePemAskSound, ToggleAdvancedSound,
     HostnamesSound
<1>6. CASE setPrivateFile \/ openFileBrowseDialog
  BY <1>6, ChooseFileSound
<1>7. CASE EditMember \/ on_addButton_clicked \/ on_removeButton_clicked
  BY <1>7, MembersSound
<1>8. CASE acceptConnection \/ testConnection \/ rejectConnection \/ connectListed \/ Restart
  BY <1>8, AcceptConnectionSound, TestConnectionSound, RejectConnectionSound, ConnectListedSound, RestartSound
<1> QED BY <1>1, <1>2, <1>3, <1>4, <1>5, <1>6, <1>7, <1>8, Zenon DEF ConnectionNext

\* The dialog sends nothing, and the connection changes only when no dialog is left.
LEMMA ConnectionKeeps ==
  ASSUME ConnectionNext
  PROVE  (sent' = sent \/ sent' = NULL) /\ (connection' = connection \/ form' = NULL)
<1>1. CASE edit \/ \E tab \in {"basic", "auth", "ssh", "ssl", "advanced"} : ShowTab(tab)
  BY <1>1 DEF edit, ShowTab
<1>2. CASE \E x \in DOMAIN TypedText : Enter(x)
  BY <1>2 DEF Enter, Edit
<1>3. CASE ChooseType \/ ToggleAuth \/ ToggleSsh \/ ToggleSshAsk \/ ChooseMethod
  BY <1>3 DEF ChooseType, ToggleAuth, ToggleSsh, ToggleSshAsk, ChooseMethod, Edit
<1>4. CASE ToggleSsl \/ ChooseCertificate \/ TogglePem \/ TogglePemAsk \/ ToggleAdvanced \/ ChooseHostnames
  BY <1>4 DEF ToggleSsl, ChooseCertificate, TogglePem, TogglePemAsk, ToggleAdvanced, ChooseHostnames, Edit
<1>5. CASE setPrivateFile \/ openFileBrowseDialog
  BY <1>5 DEF setPrivateFile, openFileBrowseDialog, Edit
<1>6. CASE EditMember \/ on_addButton_clicked \/ on_removeButton_clicked
  BY <1>6 DEF EditMember, on_addButton_clicked, on_removeButton_clicked, Edit
<1>7. CASE acceptConnection \/ testConnection \/ rejectConnection \/ connectListed \/ Restart
  BY <1>7 DEF acceptConnection, testConnection, rejectConnection, connectListed, Restart, Close
<1> QED BY <1>1, <1>2, <1>3, <1>4, <1>5, <1>6, <1>7, Zenon DEF ConnectionNext

\* The dialogs of the explorer leave the connection alone.
LEMMA ExplorerKeeps ==
  ASSUME ExplorerNext
  PROVE  connection' = connection /\ (shown' = shown \/ shown' = NULL)
<1>1. CASE CollectionNext
  BY <1>1 DEF CollectionNext, ui_createCollection, onAdvancedButtonToggled, onTabChanged, TypeCollectionName,
     ToggleOption, TypeNumber, ChooseLevel, ChooseAction, onFrameTextChanged, onValidateButtonClicked,
     acceptCollection, Cancel, Opens, Edit, Send
<1>2. CASE UserDialogNext
  BY <1>2 DEF UserDialogNext, ui_addUser, ui_editUser, TypeUser, ToggleReadOnly, ToggleRole, ChooseSource,
     acceptUser, Cancel, Opens, Edit, Send
<1>3. CASE NameNext
  BY <1>3 DEF NameNext, ui_addFunction, ui_editFunction, TypeFunction, acceptFunction, ui_createDatabase,
     ui_duplicateCollection, ui_renameCollection, TypeName, acceptName, Cancel, Opens, Edit, Send
<1>4. CASE EulaNext
  BY <1>4 DEF EulaNext, ShowEula, on_agreeButton_clicked, on_notAgreeButton_clicked, on_next_clicked,
     on_back_clicked, TypeEmail, on_finish_clicked, rejectEula, Cancel, Opens, Edit, Send
<1> QED BY <1>1, <1>2, <1>3, <1>4 DEF ExplorerNext

\* The inductive invariant of all dialogs.
DialogsInv == ExplorerSound /\ ConnectionSound

LEMMA DialogsInitially == ASSUME DialogsInit PROVE DialogsInv
<1>1. form = NULL /\ shown = NULL /\ sent = NULL /\ connection \in Saved \cup {NULL}
  BY DEF DialogsInit
<1>2. ExplorerSound
  BY <1>1 DEF ExplorerSound, IsOpen, SentConsistent, CommandFitsServer, OneWayToAuthenticate, AgreedBeforeUse, Sent
<1>3. ASSUME connection # NULL PROVE SavedSound(connection)
  <2> DEFINE c == connection
  <2>1. c \in Saved
    BY <1>1, <1>3
  <2>2. OnlyPromptedKept(c) /\ AddressOfSet(c)
    BY <2>1, DialogsAssumption, Zenon
  <2>3. c \in [name : STRING, address : [host : DOMAIN Left, port : Nat], defaultDb : STRING, isReplicaSet : BOOLEAN,
        replicaSet : [members : Seq([host : DOMAIN Left, port : Nat]), setName : STRING],
        credentials : Seq([enabled : BOOLEAN, user : STRING, password : STRING, db : STRING, mechanism : STRING]),
        ssh : [enabled : BOOLEAN, host : STRING, port : Nat, userName : STRING,
               method : {"publickey", "password"}, password : STRING,
               key : DOMAIN AtHome, passphrase : STRING, ask : BOOLEAN],
        ssl : [enabled : BOOLEAN, allowInvalidCertificates : BOOLEAN, caFile : STRING, usePemFile : BOOLEAN,
               pemKeyFile : STRING, pemPassPhrase : STRING, ask : BOOLEAN, advanced : BOOLEAN,
               crlFile : STRING, allowInvalidHostnames : BOOLEAN]]
    BY <2>1, DialogsAssumption
  <2> HIDE DEF c
  <2>4. DOMAIN c = ConnectionFields /\ c.isReplicaSet \in BOOLEAN
    BY <2>3 DEF ConnectionFields
  <2>5. DOMAIN c.ssl = SslFields /\ c.ssh.port \in Nat /\ c.address.host \in Host /\ c.address.port \in Nat
    BY <2>3 DEF SslFields, Host
  <2>6. c.replicaSet.members \in Seq(Member)
    BY <2>3 DEF Member, Host
  <2>7. /\ c.ssh.enabled \in BOOLEAN /\ c.ssh.ask \in BOOLEAN /\ c.ssh.key \in DOMAIN AtHome
        /\ c.ssl.enabled \in BOOLEAN /\ c.ssl.usePemFile \in BOOLEAN /\ c.ssl.ask \in BOOLEAN
        /\ c.ssl.advanced \in BOOLEAN
    BY <2>3
  <2> QED BY <2>2, <2>4, <2>5, <2>6, <2>7 DEF SavedSound, c
<1>4. ConnectionSound
  BY <1>1, <1>3 DEF ConnectionSound, IsOpen
<1> QED BY <1>2, <1>4 DEF DialogsInv

\* A step in the dialog for a connection.
LEMMA InConnectionDialog ==
  ASSUME DialogsInv, connection # NULL, ConnectionNext
  PROVE  DialogsInv'
<1>1. ConnectionSound'
  BY ConnectionStep DEF DialogsInv
<1>2. (sent' = sent \/ sent' = NULL) /\ (connection' = connection \/ form' = NULL)
  BY ConnectionKeeps
<1>3. connection' = NULL => form' = NULL
  BY <1>2
<1>4. form' = NULL \/ (form' # NULL /\ form'.dialog = "connection")
  BY <1>1, <1>3 DEF ConnectionSound
<1>5. ExplorerSound
  BY DEF DialogsInv
<1>6. ExplorerSound'
  BY <1>2, <1>3, <1>4, <1>5, NothingOpened
<1> QED BY <1>1, <1>6 DEF DialogsInv

\* A step in a dialog of the explorer.
LEMMA InExplorerDialog ==
  ASSUME DialogsInv, connection = NULL, ExplorerNext
  PROVE  DialogsInv'
<1>1. ExplorerSound'
  BY ExplorerStep DEF DialogsInv
<1>2. connection' = connection /\ (shown' = shown \/ shown' = NULL)
  BY ExplorerKeeps
<1>3. ~ IsOpen("connection")'
  BY <1>1, <1>2 DEF ExplorerSound
<1>4. (shown # NULL)' => shown' = shown /\ SavedSound(connection) /\ WidgetsTyped(shown) /\ NothingTyped(shown) /\ Agrees(connection, shown)
  BY <1>2 DEF DialogsInv, ConnectionSound
<1>5. (shown # NULL => SavedSound(connection))'
  BY <1>2, <1>4 DEF SavedSound, OnlyPromptedKept, NoSshSecret, AddressOfSet
<1>6. (shown # NULL => WidgetsTyped(shown) /\ NothingTyped(shown) /\ Agrees(connection, shown))'
  <2>1. CASE shown' = NULL
    BY <2>1
  <2>2. CASE shown' = shown /\ shown # NULL
    BY <1>2, <1>4, <2>2 DEF WidgetsTyped, NothingTyped, Agrees, Fits, KeyFile
  <2> QED BY <1>2, <2>1, <2>2
<1>7. ConnectionSound'
  BY <1>2, <1>3, <1>5, <1>6 DEF ConnectionSound
<1> QED BY <1>1, <1>7 DEF DialogsInv

LEMMA NoDialogStep == ASSUME DialogsInv, UNCHANGED formVars PROVE DialogsInv'
<1>1. form' = form /\ connection' = connection /\ shown' = shown /\ sent' = sent
  BY DEF formVars
<1>2. SentConsistent'
  BY <1>1, NothingSent DEF DialogsInv
<1>3. ExplorerSound'
  BY <1>1, <1>2 DEF DialogsInv, ExplorerSound, IsOpen, CollectionSound, UserSound, EulaSound, PlainSound
<1>4. (connection # NULL \/ shown # NULL => SavedSound(connection))'
  BY <1>1 DEF DialogsInv, ConnectionSound, SavedSound, OnlyPromptedKept, NoSshSecret, AddressOfSet
<1>5. (IsOpen("connection") => FormSound(form))' /\ (connection # NULL /\ form # NULL => form.dialog = "connection")'
  BY <1>1 DEF DialogsInv, ConnectionSound, IsOpen, FormSound, WidgetsTyped, Fits, NothingTyped, OffFollows,
     HiddenFollows, AuthOff, SshOff, SslOff, TypeHidden, MethodHidden, CertificateHidden, PemHidden, AdvancedHidden
<1>6. (shown # NULL => WidgetsTyped(shown) /\ NothingTyped(shown) /\ Agrees(connection, shown))'
  BY <1>1 DEF DialogsInv, ConnectionSound, WidgetsTyped, NothingTyped, Agrees, Fits, KeyFile
<1>7. ConnectionSound'
  BY <1>4, <1>5, <1>6 DEF ConnectionSound
<1> QED BY <1>3, <1>7 DEF DialogsInv

\* The invariant holds in every state, whatever is clicked and typed in the dialogs.
THEOREM DialogsInvariance == DialogsSpec => []DialogsInv
<1>1. DialogsInit => DialogsInv
  BY DialogsInitially
<1>2. DialogsInv /\ [DialogsNext]_formVars => DialogsInv'
  BY InConnectionDialog, InExplorerDialog, NoDialogStep DEF DialogsNext
<1> QED BY <1>1, <1>2, PTL DEF DialogsSpec

\* What the dialogs of the explorer and the licence hand over fits the server, but for
\* flags sent to an engine that is neither MMAPv1 nor wiredTiger, gives a user one way to
\* authenticate, and never passes the licence without consent: for any servers, users,
\* numbers and texts.
THEOREM AlwaysConsistent == DialogsSpec => []SentConsistent
<1>1. DialogsInv => SentConsistent
  BY DEF DialogsInv, ExplorerSound
<1> QED BY <1>1, DialogsInvariance, PTL

\* The widgets the user can reach are those the check boxes ask for, after any clicks on
\* the tabs of ConnectionDialog, what the dialog accepts has no secret that is to be asked
\* for, and the list has none but the passphrase App::openServer stores when it is typed.
THEOREM BoxesFollowed == DialogsSpec => []FormFollowsBoxes
<1>1. ASSUME DialogsInv, IsOpen("connection") PROVE OffFollows(form) /\ HiddenFollows(form)
  BY <1>1 DEF DialogsInv, ConnectionSound, FormSound
<1>2. DialogsInv => FieldsFollowBoxes
  BY <1>1 DEF FieldsFollowBoxes, OffFollows, HiddenFollows, AuthOff, SshOff, SslOff, TypeHidden, MethodHidden,
     CertificateHidden, PemHidden, AdvancedHidden
<1>3. DialogsInv => (connection # NULL => OnlyPromptedKept(connection))
  BY DEF DialogsInv, ConnectionSound, SavedSound
<1>5. DialogsInv => AcceptsNoSecret
  <2>1. ASSUME DialogsInv, IsOpen("connection"), validateAndApply(form).ok
        PROVE  LET c == validateAndApply(form).copy IN NoSshSecret(c) /\ (c.ssl.ask => c.ssl.pemPassPhrase = "")
    <3> DEFINE c == validateAndApply(form).copy
    <3>1. FormSound(form)
      BY <2>1 DEF DialogsInv, ConnectionSound
    <3>2. SavedSound(c) /\ (c.ssl.ask => c.ssl.pemPassPhrase = "")
      BY <2>1, <3>1, Applied
    <3> HIDE DEF c
    <3>3. NoSshSecret(c)
      BY <3>2 DEF SavedSound, OnlyPromptedKept
    <3> QED BY <3>2, <3>3 DEF c
  <2> QED BY <2>1 DEF AcceptsNoSecret
<1>4. DialogsInv => FormFollowsBoxes
  BY <1>2, <1>3, <1>5 DEF FormFollowsBoxes
<1> QED BY <1>4, DialogsInvariance, PTL

\* A replica set of the list always has the address of its first member, and no member
\* in the dialog is without a port, however ConnectionBasicTab's items are edited.
THEOREM MembersAlwaysUsable == DialogsSpec => []MembersUsable
<1>1. DialogsInv => (connection # NULL => AddressOfSet(connection))
  BY DEF DialogsInv, ConnectionSound, SavedSound
<1>2. ASSUME DialogsInv, IsOpen("connection"), NEW k \in DOMAIN form.w.members
      PROVE  form.w.members[k].port # NoPort
  <2>1. form.w.members \in Seq(Member)
    BY <1>2, WidgetNames DEF DialogsInv, ConnectionSound, FormSound, WidgetsTyped, Fits
  <2>2. form.w.members[k] \in Member
    BY <1>2, <2>1
  <2> QED BY <2>2 DEF Member, NoPort
<1>3. DialogsInv => MembersUsable
  BY <1>1, <1>2 DEF MembersUsable
<1> QED BY <1>3, DialogsInvariance, PTL

\* The dialog opened again shows what it showed when it was accepted, as far as InUse says,
\* with any number of restarts and connections between: accept() of the tabs, toVariant,
\* fromVariant and the constructors agree on every setting.
THEOREM ShownAgain == DialogsSpec => []ReopenShowsSame
<1>1. ASSUME DialogsInv, shown # NULL PROVE InUse(ConnectionDialog(connection).w) = InUse(shown)
  <2>1. SavedSound(connection) /\ WidgetsTyped(shown) /\ NothingTyped(shown) /\ Agrees(connection, shown)
    BY <1>1 DEF DialogsInv, ConnectionSound
  <2>2. ConnectionDialog(connection).w = Widgets(connection)
    BY <2>1, DialogOpened
  <2>3. InUse(Widgets(connection)) = InUse(shown)
    BY <2>1, SameShown
  <2> QED BY <2>2, <2>3
<1>2. DialogsInv => ReopenShowsSame
  BY <1>1 DEF ReopenShowsSame
<1> QED BY <1>2, DialogsInvariance, PTL
=============================================================================
