-------------------------- MODULE SshTunnelProofs --------------------------
(* The safety invariants of SshTunnel for any set of descriptors and any      *)
(* error bound.                                                               *)
EXTENDS SshTunnel, TLAPS

-----------------------------------------------------------------------------
(* The inductive invariant.  The checked invariants are not inductive alone:  *)
(* that nothing is lost when a session field is overwritten needs the exact   *)
(* balance of descriptors and what is empty at which control point, and that  *)
(* the error counter stays in range needs that the ssh socket is visited once *)
(* per scan.                                                                  *)

Accounted == owned = leaked \cup Holders

Quiescent ==
  /\ pc \in {"start", "tunnel_closed", "stopped"} =>
       /\ localsocket = rbm_socket_invalid
       /\ sshsocket = rbm_socket_invalid
       /\ channels = <<>>
       /\ session # "live"
  /\ pc = "reconnect" => sshsocket = rbm_socket_invalid /\ channels = <<>>
  /\ pc = "ready" => channels = <<>>

ErrorsBounded == pc = "scan" /\ sshsocket \in readset => errors < MaxErrors

IndInv ==
  /\ TypeOK /\ Ownership /\ ClientsHaveChannels /\ AllWatched /\ NoUseAfterFree
  /\ Accounted /\ Quiescent /\ ErrorsBounded

-----------------------------------------------------------------------------
(* array.c.                                                                   *)

\* rbm_array_add appends: the array holds one socket more.
LEMMA ArrayAdd ==
  ASSUME NEW S, NEW a \in Seq(S), NEW x \in S
  PROVE  /\ rbm_array_add(a, x) \in Seq(S)
         /\ Sockets(rbm_array_add(a, x)) = Sockets(a) \cup {x}
         /\ Len(rbm_array_add(a, x)) = Len(a) + 1
         /\ \A i \in 1 .. Len(a) : rbm_array_add(a, x)[i] = a[i]
         /\ rbm_array_add(a, x)[Len(a) + 1] = x
  BY DEF rbm_array_add, Sockets

\* rbm_array_remove drops exactly the chosen element of an array without
\* repetitions, and keeps the others distinct.
LEMMA ArrayRemove ==
  ASSUME NEW S, NEW a \in Seq(S), NEW c \in DOMAIN a,
         \A i, j \in DOMAIN a : a[i] = a[j] => i = j
  PROVE  LET r == rbm_array_remove(a, c)
         IN /\ r \in Seq(S)
            /\ Len(r) = Len(a) - 1
            /\ Sockets(r) = Sockets(a) \ {a[c]}
            /\ \A i, j \in DOMAIN r : r[i] = r[j] => i = j
<1> DEFINE r == rbm_array_remove(a, c)
<1>1. Len(a) \in Nat /\ DOMAIN a = 1 .. Len(a) /\ Len(a) >= 1
  OBVIOUS
<1>2. r \in Seq(S) /\ Len(r) = Len(a) - 1 /\ DOMAIN r = 1 .. Len(a) - 1
  BY <1>1 DEF rbm_array_remove
<1>3. \A j \in 1 .. Len(a) - 1 : r[j] = IF j < c THEN a[j] ELSE a[j + 1]
  BY <1>1 DEF rbm_array_remove
<1>4. Sockets(r) \subseteq Sockets(a) \ {a[c]}
  <2> SUFFICES ASSUME NEW j \in 1 .. Len(a) - 1
               PROVE  r[j] \in Sockets(a) \ {a[c]}
    BY <1>2 DEF Sockets
  <2>1. CASE j < c
    BY <2>1, <1>1, <1>3 DEF Sockets
  <2>2. CASE ~(j < c)
    <3>1. j + 1 \in DOMAIN a /\ j + 1 # c /\ r[j] = a[j + 1]
      BY <2>2, <1>1, <1>3
    <3> QED BY <3>1 DEF Sockets
  <2> QED BY <2>1, <2>2
<1>5. Sockets(a) \ {a[c]} \subseteq Sockets(r)
  <2> SUFFICES ASSUME NEW i \in DOMAIN a, i # c
               PROVE  a[i] \in Sockets(r)
    BY DEF Sockets
  <2>1. CASE i < c
    <3>1. i \in 1 .. Len(a) - 1 /\ r[i] = a[i]
      BY <2>1, <1>1, <1>3
    <3> QED BY <3>1, <1>2 DEF Sockets
  <2>2. CASE i > c
    <3>1. i - 1 \in 1 .. Len(a) - 1 /\ r[i - 1] = a[i]
      BY <2>2, <1>1, <1>3
    <3> QED BY <3>1, <1>2 DEF Sockets
  <2> QED BY <2>1, <2>2, <1>1
<1>6. ASSUME NEW i \in DOMAIN r, NEW j \in DOMAIN r, r[i] = r[j]
      PROVE  i = j
  <2> DEFINE up(k) == IF k < c THEN k ELSE k + 1
  <2>1. up(i) \in DOMAIN a /\ up(j) \in DOMAIN a
    BY <1>1, <1>2
  <2>2. a[up(i)] = a[up(j)]
    BY <1>6, <1>2, <1>3
  <2>3. up(i) = up(j)
    BY <2>1, <2>2
  <2> QED BY <2>3, <1>1, <1>2
<1> QED BY <1>2, <1>4, <1>5, <1>6

-----------------------------------------------------------------------------
(* Facts about the helpers.                                                   *)

\* The empty array holds no socket.
LEMMA EmptyArray ==
  Sockets(<<>>) = {} /\ DOMAIN <<>> = {} /\ <<>> \in Seq(Fd)
  BY DEF Sockets

\* What rbm_ssh_setup stores and forgets was free, and what it stores on success
\* is a descriptor.
LEMMA SetupOutcome ==
  ASSUME NEW s \in rbm_ssh_setup
  PROVE  /\ s.leak \subseteq Free
         /\ s.sock \in Free \cup {rbm_socket_invalid}
         /\ s.sock \notin s.leak
         /\ s.rc = RBM_SUCCESS => s.sock \in Free /\ s.ssh = TRUE
         /\ s.ssh \in BOOLEAN
<1>1. PICK c \in socket_connect, ok \in BOOLEAN :
        s = [rc |-> IF c.sock # rbm_socket_invalid /\ ok THEN RBM_SUCCESS ELSE RBM_ERROR,
             sock |-> c.sock, ssh |-> c.sock # rbm_socket_invalid /\ ok, leak |-> c.leak]
  BY DEF rbm_ssh_setup, ssh_connect
<1>2. /\ c.leak \subseteq Free
      /\ c.sock \in Free \cup {rbm_socket_invalid}
      /\ c.sock \notin c.leak
  <2>1. CASE c = [sock |-> rbm_socket_invalid, leak |-> {}]
    BY <2>1
  <2>2. CASE \E f \in Free : c = [sock |-> rbm_socket_invalid, leak |-> {f}]
    BY <2>2, FdAssumption DEF rbm_socket_invalid, Free
  <2>3. CASE \E f \in Free : c = [sock |-> f, leak |-> {}]
    BY <2>3
  <2> QED BY <2>1, <2>2, <2>3 DEF socket_connect
<1> QED BY <1>1, <1>2 DEF RBM_ERROR, RBM_SUCCESS

\* What socket_listen stores or forgets was free.
LEMMA ListenOutcome ==
  ASSUME NEW used, NEW l \in socket_listen(used)
  PROVE  /\ l.leak \subseteq Free
         /\ l.rc = RBM_SUCCESS => l.sock \in Free \ used
<1>1. CASE l = [rc |-> RBM_ERROR, sock |-> rbm_socket_invalid, leak |-> {}]
  BY <1>1 DEF RBM_ERROR, RBM_SUCCESS
<1>2. CASE \E f \in Free \ used :
             l = [rc |-> RBM_ERROR, sock |-> rbm_socket_invalid, leak |-> {f}]
  BY <1>2 DEF RBM_ERROR, RBM_SUCCESS
<1>3. CASE \E f \in Free \ used : l = [rc |-> RBM_SUCCESS, sock |-> f, leak |-> {}]
  BY <1>3 DEF RBM_ERROR, RBM_SUCCESS
<1> QED BY <1>1, <1>2, <1>3 DEF socket_listen

\* A reply keeps the responses well typed.
LEMMA ReplyType ==
  ASSUME replies \in Seq([type : {"Establish", "Listen"}, error : BOOLEAN]),
         NEW t \in {"Establish", "Listen"}, NEW e \in BOOLEAN, Reply(t, e)
  PROVE  (replies \in Seq([type : {"Establish", "Listen"}, error : BOOLEAN]))'
  BY DEF Reply

\* After a handler the loop variables are those it computed, or reset.
LEMMA HandlerLoop ==
  ASSUME NEW rc, NEW i, NEW master \in SUBSET Fd, NEW max \in Nat,
         LoopType, pc = "scan", rc = AGAIN => errors < MaxErrors,
         \A f \in master : f <= max,
         HandlerReturns(rc, i, master, max)
  PROVE  /\ LoopType'
         /\ AllWatched'
         /\ InLoop' => /\ pc' = "scan"
                       /\ masterset' = master
                       /\ readset' = readset \ {i}
<1> USE MaxErrorsAssumption
    DEF HandlerReturns, LeaveLoop, LoopType, AllWatched, InLoop, RBM_ERROR, RBM_CHANNEL_CREATION_ERROR, AGAIN
<1>1. CASE rc \in {RBM_ERROR, RBM_CHANNEL_CREATION_ERROR}
  BY <1>1
<1>2. CASE rc \notin {RBM_ERROR, RBM_CHANNEL_CREATION_ERROR}
  BY <1>2
<1> QED BY <1>1, <1>2

-----------------------------------------------------------------------------
(* The initial state and each action.                                         *)

\* A new worker satisfies the invariant.
LEMMA InitInv ==
  ASSUME Init
  PROVE  IndInv
<1> USE FdAssumption, MaxErrorsAssumption, EmptyArray DEF Init, Held, Holders, rbm_socket_invalid
<1>1. TypeOK
  <2>1. SessionType
    BY DEF SessionType
  <2>2. LoopType
    BY DEF LoopType
  <2>3. DescriptorType
    BY DEF DescriptorType
  <2>4. WorkerType
    BY DEF WorkerType
  <2>5. FlagType
    BY DEF FlagType
  <2> QED BY <2>1, <2>2, <2>3, <2>4, <2>5 DEF TypeOK
<1>2. Ownership
  BY DEF Ownership
<1>3. ClientsHaveChannels /\ AllWatched /\ NoUseAfterFree /\ ErrorsBounded
  BY DEF ClientsHaveChannels, AllWatched, NoUseAfterFree, ErrorsBounded, InLoop
<1>4. Accounted
  BY DEF Accounted
<1>5. Quiescent
  BY DEF Quiescent
<1> QED BY <1>1, <1>2, <1>3, <1>4, <1>5 DEF IndInv

\* handle(EstablishSshConnectionRequest), on each of its ways out, keeps it.
LEMMA EstablishInv ==
  ASSUME IndInv, EstablishSshConnection
  PROVE  IndInv'
<1>1. ASSUME NEW leak \in SUBSET Free, EstablishFailed(leak), session' \in {"none", "freed"}
      PROVE  IndInv'
  <2> USE FdAssumption, MaxErrorsAssumption, EmptyArray, <1>1, ReplyType
         DEF IndInv, TypeOK, Held, rbm_socket_invalid, EstablishSshConnection,
             EstablishFailed, Free, session_vars, loop_vars, env_vars
  <2>1. SessionType' BY DEF SessionType
  <2>2. LoopType' BY DEF LoopType
  <2>3. DescriptorType' BY DEF DescriptorType
  <2>4. WorkerType' BY DEF WorkerType
  <2>5. FlagType' BY DEF FlagType
  <2>6. Ownership' BY DEF Ownership, Holders
  <2>7. ClientsHaveChannels' BY DEF ClientsHaveChannels, InLoop
  <2>8. AllWatched' BY DEF AllWatched, InLoop
  <2>9. NoUseAfterFree' BY DEF NoUseAfterFree
  <2>10. Accounted' BY DEF Accounted, Holders
  <2>11. Quiescent' BY DEF Quiescent
  <2>12. ErrorsBounded' BY DEF ErrorsBounded
  <2> QED BY <2>1, <2>2, <2>3, <2>4, <2>5, <2>6, <2>7, <2>8, <2>9, <2>10, <2>11, <2>12
<1>2. ASSUME NEW s \in rbm_ssh_setup, s.rc = RBM_SUCCESS,
             NEW l \in socket_listen({s.sock}), l.rc = RBM_SUCCESS,
             session' = "live",
             sshsocket' = s.sock,
             sshsession' = s.ssh,
             localsocket' = l.sock,
             owned' = owned \cup {s.sock, l.sock},
             Reply("Establish", FALSE),
             pc' = "ready",
             UNCHANGED <<channels, loop_vars, leaked, env_vars>>
      PROVE  IndInv'
  <2>a. s.sock \in Free /\ s.ssh = TRUE
    BY <1>2, SetupOutcome
  <2>b. l.sock \in Free /\ l.sock # s.sock
    BY <1>2, ListenOutcome
  <2> USE FdAssumption, MaxErrorsAssumption, EmptyArray, <1>2, <2>a, <2>b, ReplyType
         DEF IndInv, TypeOK, Held, rbm_socket_invalid,
             EstablishSshConnection, Free, session_vars, loop_vars, env_vars
  <2>1. SessionType' BY DEF SessionType
  <2>2. LoopType' BY DEF LoopType
  <2>3. DescriptorType' BY DEF DescriptorType
  <2>4. WorkerType' BY DEF WorkerType
  <2>5. FlagType' BY DEF FlagType
  <2>6. Ownership' BY DEF Ownership, Holders, Accounted
  <2>7. ClientsHaveChannels' BY DEF ClientsHaveChannels, InLoop
  <2>8. AllWatched' BY DEF AllWatched, InLoop
  <2>9. NoUseAfterFree' BY DEF NoUseAfterFree
  <2>10. Accounted' BY DEF Accounted, Holders, Quiescent
  <2>11. Quiescent' BY DEF Quiescent
  <2>12. ErrorsBounded' BY DEF ErrorsBounded
  <2> QED BY <2>1, <2>2, <2>3, <2>4, <2>5, <2>6, <2>7, <2>8, <2>9, <2>10, <2>11, <2>12
<1>3. pc = "start" /\ session \in {"none", "freed"}
  BY DEF IndInv, TypeOK, SessionType, Quiescent, EstablishSshConnection
<1>4. CASE EstablishFailed({}) /\ UNCHANGED session
  BY <1>1, <1>3, <1>4
<1>5. ASSUME NEW s \in rbm_ssh_setup, EstablishFailed(s.leak), session' = "freed"
      PROVE  IndInv'
  BY <1>1, <1>5, SetupOutcome
<1>6. ASSUME NEW used, NEW l \in socket_listen(used), EstablishFailed(l.leak), session' = "freed"
      PROVE  IndInv'
  BY <1>1, <1>6, ListenOutcome
<1> QED BY <1>2, <1>4, <1>5, <1>6 DEF EstablishSshConnection

\* Entering rbm_open_tunnel keeps it.
LEMMA ListenInv ==
  ASSUME IndInv, ListenSshConnection
  PROVE  IndInv'
<1> USE FdAssumption, MaxErrorsAssumption, EmptyArray DEF IndInv, TypeOK, Held,
        rbm_socket_invalid, ListenSshConnection, EnterLoop, session_vars,
        loop_vars, env_vars
<1>1. SessionType' BY DEF SessionType
<1>2. LoopType' BY DEF SessionType, LoopType, DescriptorType, NoUseAfterFree
<1>3. DescriptorType' BY DEF DescriptorType
<1>4. WorkerType' BY DEF WorkerType
<1>5. FlagType' BY DEF FlagType
<1>6. Ownership' BY DEF Ownership, Holders
<1>7. ClientsHaveChannels' BY DEF ClientsHaveChannels, Quiescent
<1>8. AllWatched' BY DEF SessionType, AllWatched
<1>9. NoUseAfterFree' BY DEF NoUseAfterFree
<1>10. Accounted' BY DEF Accounted, Holders
<1>11. Quiescent' BY DEF Quiescent
<1>12. ErrorsBounded' BY DEF ErrorsBounded
<1> QED BY <1>1, <1>2, <1>3, <1>4, <1>5, <1>6, <1>7, <1>8, <1>9, <1>10, <1>11, <1>12

\* Leaving the second handler after a normal end keeps it.
LEMMA ListenSucceededInv ==
  ASSUME IndInv, ListenSucceeded
  PROVE  IndInv'
<1> USE FdAssumption, MaxErrorsAssumption, EmptyArray DEF IndInv, TypeOK, Held,
        rbm_socket_invalid, ListenSucceeded, session_vars, loop_vars, env_vars
<1>1. SessionType' BY DEF SessionType
<1>2. LoopType' BY DEF LoopType
<1>3. DescriptorType' BY DEF DescriptorType
<1>4. WorkerType' BY DEF WorkerType
<1>5. FlagType' BY DEF FlagType
<1>6. Ownership' BY DEF Ownership, Holders
<1>7. ClientsHaveChannels' BY DEF ClientsHaveChannels, InLoop
<1>8. AllWatched' BY DEF AllWatched, InLoop
<1>9. NoUseAfterFree' BY DEF NoUseAfterFree
<1>10. Accounted' BY DEF Accounted, Holders
<1>11. Quiescent' BY DEF Quiescent
<1>12. ErrorsBounded' BY DEF ErrorsBounded
<1> QED BY <1>1, <1>2, <1>3, <1>4, <1>5, <1>6, <1>7, <1>8, <1>9, <1>10, <1>11, <1>12

\* ... and so does leaving it after an error, which closes the session.
LEMMA ListenFailedInv ==
  ASSUME IndInv, ListenFailed
  PROVE  IndInv'
<1> USE FdAssumption, MaxErrorsAssumption, EmptyArray DEF IndInv, TypeOK, Held,
        rbm_socket_invalid, ListenFailed, Reply, rbm_ssh_session_close,
        rbm_session_cleanup, session_vars, loop_vars, env_vars
<1>1. SessionType' BY DEF SessionType
<1>2. LoopType' BY DEF LoopType
<1>3. DescriptorType' BY DEF DescriptorType
<1>4. WorkerType' BY DEF WorkerType
<1>5. FlagType' BY DEF FlagType
<1>6. Ownership' BY DEF Ownership, Holders
<1>7. ClientsHaveChannels' BY DEF ClientsHaveChannels, InLoop
<1>8. AllWatched' BY DEF AllWatched, InLoop
<1>9. NoUseAfterFree' BY DEF NoUseAfterFree
<1>10. Accounted' BY DEF Accounted, Ownership, Holders
<1>11. Quiescent' BY DEF Quiescent
<1>12. ErrorsBounded' BY DEF ErrorsBounded
<1> QED BY <1>1, <1>2, <1>3, <1>4, <1>5, <1>6, <1>7, <1>8, <1>9, <1>10, <1>11, <1>12

\* rbm_session_cleanup before a reconnect keeps it.
LEMMA CleanupInv ==
  ASSUME IndInv, Cleanup
  PROVE  IndInv'
<1> USE FdAssumption, MaxErrorsAssumption, EmptyArray DEF IndInv, TypeOK, Held,
        rbm_socket_invalid, Cleanup, rbm_session_cleanup, session_vars,
        loop_vars, env_vars
<1>1. SessionType' BY DEF SessionType
<1>2. LoopType' BY DEF LoopType
<1>3. DescriptorType' BY DEF DescriptorType
<1>4. WorkerType' BY DEF WorkerType
<1>5. FlagType' BY DEF FlagType
<1>6. Ownership' BY DEF Ownership, Holders
<1>7. ClientsHaveChannels' BY DEF ClientsHaveChannels, InLoop
<1>8. AllWatched' BY DEF AllWatched, InLoop
<1>9. NoUseAfterFree' BY DEF NoUseAfterFree, Ownership
<1>10. Accounted' BY DEF Accounted, Ownership, Holders
<1>11. Quiescent' BY DEF Quiescent
<1>12. ErrorsBounded' BY DEF ErrorsBounded
<1> QED BY <1>1, <1>2, <1>3, <1>4, <1>5, <1>6, <1>7, <1>8, <1>9, <1>10, <1>11, <1>12

\* Reconnecting, successfully or not, keeps it.
LEMMA ReconnectInv ==
  ASSUME IndInv, Reconnect
  PROVE  IndInv'
<1>1. PICK s \in rbm_ssh_setup :
        /\ sshsocket' = s.sock
        /\ sshsession' = s.ssh
        /\ owned' = owned \cup Held(s.sock) \cup s.leak
        /\ leaked' = leaked \cup s.leak
        /\ IF s.rc = RBM_SUCCESS
             THEN EnterLoop(s.sock)
             ELSE pc' = "tunnel_failed" /\ UNCHANGED loop_vars
  BY DEF Reconnect
<1>2. /\ pc = "reconnect"
      /\ UNCHANGED <<session, localsocket, channels, env_vars, replies>>
  BY DEF Reconnect
<1>a. /\ localsocket \in Fd /\ localsocket \in Nat
      /\ s.rc = RBM_SUCCESS => s.sock \in Fd /\ s.sock \in Nat
  BY <1>1, SetupOutcome, FdAssumption, <1>2
  DEF Reconnect, IndInv, TypeOK, NoUseAfterFree, DescriptorType, Free
<1>3. /\ s.leak \subseteq Free
      /\ s.sock \in Free \cup {rbm_socket_invalid}
      /\ s.sock \notin s.leak
      /\ s.rc = RBM_SUCCESS => s.sock \in Free /\ s.ssh = TRUE
      /\ s.ssh \in BOOLEAN
  BY SetupOutcome
<1> USE FdAssumption, MaxErrorsAssumption, EmptyArray, <1>1, <1>2, <1>3
      DEF IndInv, TypeOK, Held, rbm_socket_invalid, EnterLoop, Free, session_vars, loop_vars, env_vars
<1>4. SessionType' BY DEF SessionType
<1>5. LoopType'
  <2>1. CASE s.rc = RBM_SUCCESS
    <3>1. masterset' \subseteq Fd /\ readset' \subseteq Fd
      BY <2>1, <1>a
    <3>2. fdmax' \in Nat /\ errors' \in 0 .. MaxErrors
      BY <2>1, <1>a
    <3> QED BY <3>1, <3>2 DEF LoopType
  <2>2. CASE s.rc # RBM_SUCCESS
    BY <2>2 DEF LoopType
  <2> QED BY <2>1, <2>2
<1>6. DescriptorType' BY DEF DescriptorType
<1>7. WorkerType' BY DEF WorkerType
<1>8. FlagType' BY DEF FlagType
<1>9. Ownership' BY DEF DescriptorType, Ownership, Holders, Accounted
<1>10. ClientsHaveChannels' BY DEF ClientsHaveChannels, InLoop, Quiescent
<1>11. AllWatched'
  BY <1>a DEF AllWatched, InLoop, SessionType, DescriptorType
<1>12. NoUseAfterFree' BY DEF NoUseAfterFree
<1>13. Accounted' BY DEF Accounted, Holders, Quiescent
<1>14. Quiescent' BY DEF Quiescent
<1>15. ErrorsBounded' BY DEF ErrorsBounded
<1> QED BY <1>4, <1>5, <1>6, <1>7, <1>8, <1>9, <1>10, <1>11, <1>12, <1>13, <1>14, <1>15

\* Giving up after maxerrors EAGAINs keeps it.
LEMMA TooManyErrorsInv ==
  ASSUME IndInv, TooManyErrors
  PROVE  IndInv'
<1> USE FdAssumption, MaxErrorsAssumption, EmptyArray DEF IndInv, TypeOK, Held,
        rbm_socket_invalid, TooManyErrors, LeaveLoop, session_vars, loop_vars,
        env_vars
<1>1. SessionType' BY DEF SessionType
<1>2. LoopType' BY DEF LoopType
<1>3. DescriptorType' BY DEF DescriptorType
<1>4. WorkerType' BY DEF WorkerType
<1>5. FlagType' BY DEF FlagType
<1>6. Ownership' BY DEF Ownership, Holders
<1>7. ClientsHaveChannels' BY DEF ClientsHaveChannels, InLoop
<1>8. AllWatched' BY DEF AllWatched
<1>9. NoUseAfterFree' BY DEF NoUseAfterFree
<1>10. Accounted' BY DEF Accounted, Holders
<1>11. Quiescent' BY DEF Quiescent
<1>12. ErrorsBounded' BY DEF ErrorsBounded
<1> QED BY <1>1, <1>2, <1>3, <1>4, <1>5, <1>6, <1>7, <1>8, <1>9, <1>10, <1>11, <1>12

\* The normal end of the loop keeps it.
LEMMA CloseTunnelInv ==
  ASSUME IndInv, CloseTunnel
  PROVE  IndInv'
<1> USE FdAssumption, MaxErrorsAssumption, EmptyArray DEF IndInv, TypeOK, Held,
        rbm_socket_invalid, CloseTunnel, LeaveLoop, rbm_ssh_session_close,
        rbm_session_cleanup, session_vars, loop_vars, env_vars
<1>1. SessionType' BY DEF SessionType
<1>2. LoopType' BY DEF LoopType
<1>3. DescriptorType' BY DEF DescriptorType
<1>4. WorkerType' BY DEF WorkerType
<1>5. FlagType' BY DEF FlagType
<1>6. Ownership' BY DEF Ownership, Holders
<1>7. ClientsHaveChannels' BY DEF ClientsHaveChannels
<1>8. AllWatched' BY DEF AllWatched
<1>9. NoUseAfterFree' BY DEF NoUseAfterFree
<1>10. Accounted' BY DEF Accounted, Ownership, Holders
<1>11. Quiescent' BY DEF Quiescent
<1>12. ErrorsBounded' BY DEF ErrorsBounded
<1> QED BY <1>1, <1>2, <1>3, <1>4, <1>5, <1>6, <1>7, <1>8, <1>9, <1>10, <1>11, <1>12

\* select() keeps it.
LEMMA SelectInv ==
  ASSUME IndInv, Select
  PROVE  IndInv'
<1> USE FdAssumption, MaxErrorsAssumption, EmptyArray DEF IndInv, TypeOK, Held,
        rbm_socket_invalid, Select, session_vars, loop_vars, env_vars
<1>1. SessionType' BY DEF SessionType
<1>2. LoopType' BY DEF LoopType
<1>3. DescriptorType' BY DEF DescriptorType
<1>4. WorkerType' BY DEF WorkerType
<1>5. FlagType' BY DEF FlagType
<1>6. Ownership' BY DEF Ownership, Holders
<1>7. ClientsHaveChannels' BY DEF ClientsHaveChannels, InLoop
<1>8. AllWatched' BY DEF AllWatched, InLoop
<1>9. NoUseAfterFree' BY DEF NoUseAfterFree
<1>10. Accounted' BY DEF Accounted, Holders
<1>11. Quiescent' BY DEF Quiescent
<1>12. ErrorsBounded' BY DEF ErrorsBounded
<1> QED BY <1>1, <1>2, <1>3, <1>4, <1>5, <1>6, <1>7, <1>8, <1>9, <1>10, <1>11, <1>12

\* The end of the for loop keeps it.
LEMMA ScanDoneInv ==
  ASSUME IndInv, ScanDone
  PROVE  IndInv'
<1> USE FdAssumption, MaxErrorsAssumption, EmptyArray DEF IndInv, TypeOK, Held,
        rbm_socket_invalid, ScanDone, session_vars, loop_vars, env_vars
<1>1. SessionType' BY DEF SessionType
<1>2. LoopType' BY DEF LoopType
<1>3. DescriptorType' BY DEF DescriptorType
<1>4. WorkerType' BY DEF WorkerType
<1>5. FlagType' BY DEF FlagType
<1>6. Ownership' BY DEF Ownership, Holders
<1>7. ClientsHaveChannels' BY DEF ClientsHaveChannels, InLoop
<1>8. AllWatched' BY DEF AllWatched, InLoop
<1>9. NoUseAfterFree' BY DEF NoUseAfterFree
<1>10. Accounted' BY DEF Accounted, Holders
<1>11. Quiescent' BY DEF Quiescent
<1>12. ErrorsBounded' BY DEF ErrorsBounded
<1> QED BY <1>1, <1>2, <1>3, <1>4, <1>5, <1>6, <1>7, <1>8, <1>9, <1>10, <1>11, <1>12

\* handle_new_client_connections keeps it.
LEMMA NewClientInv ==
  ASSUME IndInv, NEW i \in Fd, handle_new_client_connections(i)
  PROVE  IndInv'
<1>1. /\ Visit(i) /\ i = localsocket
      /\ UNCHANGED <<session, localsocket, sshsocket, sshsession, env_vars, replies>>
  BY DEF handle_new_client_connections
<1>2. ASSUME HandlerReturns(RBM_ERROR, i, masterset, fdmax),
             UNCHANGED <<channels, owned, leaked>>
      PROVE  IndInv'
  <2> USE FdAssumption, MaxErrorsAssumption, EmptyArray, <1>1, <1>2
         DEF IndInv, TypeOK, Held, rbm_socket_invalid, RBM_ERROR, RBM_SUCCESS, RBM_CHANNEL_CREATION_ERROR, AGAIN,
             Visit, HandlerReturns, LeaveLoop, Pending, session_vars, loop_vars, env_vars
  <2>1. SessionType' BY DEF SessionType
  <2>2. LoopType' BY DEF LoopType
  <2>3. DescriptorType' BY DEF DescriptorType
  <2>4. WorkerType' BY DEF WorkerType
  <2>5. FlagType' BY DEF FlagType
  <2>6. Ownership' BY DEF Ownership, Holders
  <2>7. ClientsHaveChannels' BY DEF ClientsHaveChannels, InLoop
  <2>8. AllWatched' BY DEF AllWatched
  <2>9. NoUseAfterFree' BY DEF NoUseAfterFree
  <2>10. Accounted' BY DEF Accounted, Holders
  <2>11. Quiescent' BY DEF Quiescent
  <2>12. ErrorsBounded' BY DEF ErrorsBounded
  <2> QED BY <2>1, <2>2, <2>3, <2>4, <2>5, <2>6, <2>7, <2>8, <2>9, <2>10, <2>11, <2>12
<1>3. ASSUME NEW newfd \in Free,
             owned' = owned \cup {newfd},
             channels' = rbm_array_add(channels, newfd),
             HandlerReturns(RBM_SUCCESS, i, masterset \cup {newfd}, TrackMax(newfd)),
             UNCHANGED leaked
      PROVE  IndInv'
  <2>a. /\ channels' \in Seq(Fd)
        /\ Sockets(channels') = Sockets(channels) \cup {newfd}
        /\ Len(channels') = Len(channels) + 1
        /\ \A k \in 1 .. Len(channels) : channels'[k] = channels[k]
        /\ channels'[Len(channels) + 1] = newfd
    <3>1. channels \in Seq(Fd) /\ newfd \in Fd
      BY DEF IndInv, TypeOK, SessionType, Free
    <3>2. /\ rbm_array_add(channels, newfd) \in Seq(Fd)
          /\ Sockets(rbm_array_add(channels, newfd)) = Sockets(channels) \cup {newfd}
          /\ Len(rbm_array_add(channels, newfd)) = Len(channels) + 1
          /\ \A k \in 1 .. Len(channels) : rbm_array_add(channels, newfd)[k] = channels[k]
          /\ rbm_array_add(channels, newfd)[Len(channels) + 1] = newfd
      BY <3>1, ArrayAdd
    <3> QED BY <3>2, <1>3
  <2>b. newfd \notin Sockets(channels) /\ newfd \notin {localsocket, sshsocket, rbm_socket_invalid}
    BY FdAssumption DEF IndInv, Ownership, Holders, Held, Free, rbm_socket_invalid
  <2>c. \A j, k \in DOMAIN channels' : channels'[j] = channels'[k] => j = k
    <3>1. \A k \in 1 .. Len(channels) : channels'[k] # newfd
      BY <2>a, <2>b DEF IndInv, TypeOK, SessionType, Sockets
    <3>2. Len(channels) \in Nat /\ DOMAIN channels' = 1 .. Len(channels) + 1
          /\ DOMAIN channels = 1 .. Len(channels)
      BY <2>a DEF IndInv, TypeOK, SessionType
    <3> QED BY <3>1, <3>2, <2>a DEF IndInv, Ownership
  <2>d. /\ masterset' = masterset \cup {newfd}
        /\ fdmax' = IF newfd > fdmax THEN newfd ELSE fdmax
        /\ readset' = readset \ {i} /\ errors' = 0 /\ pc' = "scan" /\ pc = "scan"
        /\ i = localsocket
    BY <1>1, <1>3 DEF HandlerReturns, Visit, TrackMax, RBM_ERROR, RBM_SUCCESS, RBM_CHANNEL_CREATION_ERROR, AGAIN
  <2> USE FdAssumption, MaxErrorsAssumption, <1>1, <1>3, <2>a, <2>b, <2>c, <2>d
         DEF IndInv, TypeOK, Held, rbm_socket_invalid, Free, session_vars, loop_vars, env_vars
  <2>1. SessionType' BY DEF SessionType
  <2>2. LoopType' BY DEF LoopType
  <2>3. DescriptorType' BY DEF DescriptorType
  <2>4. WorkerType' BY DEF WorkerType
  <2>5. FlagType' BY DEF FlagType
  <2>6. Ownership' BY DEF Ownership, Holders, Accounted
  <2>7. ClientsHaveChannels' BY DEF ClientsHaveChannels, InLoop
  <2>8. AllWatched' BY DEF LoopType, AllWatched, InLoop
  <2>9. NoUseAfterFree' BY DEF NoUseAfterFree
  <2>10. Accounted' BY DEF Accounted, Holders
  <2>11. Quiescent' BY DEF Quiescent
  <2>12. ErrorsBounded' BY DEF ErrorsBounded
  <2> QED BY <2>1, <2>2, <2>3, <2>4, <2>5, <2>6, <2>7, <2>8, <2>9, <2>10, <2>11, <2>12
<1>4. ASSUME NEW newfd \in Free,
             NEW rc \in {RBM_CHANNEL_CREATION_ERROR, RBM_ERROR},
             owned' = owned \cup {newfd},
             leaked' = leaked \cup {newfd},
             HandlerReturns(rc, i, masterset \cup {newfd}, TrackMax(newfd)),
             UNCHANGED channels
      PROVE  IndInv'
  <2> USE FdAssumption, MaxErrorsAssumption, EmptyArray, <1>1, <1>4
         DEF IndInv, TypeOK, Held, rbm_socket_invalid, Free, RBM_ERROR, RBM_SUCCESS, RBM_CHANNEL_CREATION_ERROR, AGAIN,
             Visit, HandlerReturns, LeaveLoop, Pending, session_vars, loop_vars, env_vars
  <2>1. SessionType' BY DEF SessionType
  <2>2. LoopType' BY DEF LoopType
  <2>3. DescriptorType' BY DEF DescriptorType
  <2>4. WorkerType' BY DEF WorkerType
  <2>5. FlagType' BY DEF FlagType
  <2>6. Ownership' BY DEF Ownership, Holders
  <2>7. ClientsHaveChannels' BY DEF ClientsHaveChannels, InLoop
  <2>8. AllWatched' BY DEF AllWatched
  <2>9. NoUseAfterFree' BY DEF NoUseAfterFree
  <2>10. Accounted' BY DEF Accounted, Holders
  <2>11. Quiescent' BY DEF Quiescent
  <2>12. ErrorsBounded' BY DEF ErrorsBounded
  <2> QED BY <2>1, <2>2, <2>3, <2>4, <2>5, <2>6, <2>7, <2>8, <2>9, <2>10, <2>11, <2>12
<1> QED BY <1>2, <1>3, <1>4 DEF handle_new_client_connections

\* handle_ssh_connections keeps it.
LEMMA SshDataInv ==
  ASSUME IndInv, NEW i \in Fd, handle_ssh_connections(i)
  PROVE  IndInv'
<1>1. /\ Visit(i) /\ i = sshsocket
      /\ UNCHANGED <<session_vars, owned, leaked, env_vars, replies>>
  BY DEF handle_ssh_connections
<1>2. PICK rc, master :
        /\ HandlerReturns(rc, i, master, fdmax)
        /\ master = masterset \/ master = masterset \ {localsocket, sshsocket}
  BY DEF handle_ssh_connections
<1>h. LoopType' /\ AllWatched'
  BY <1>1, <1>2, HandlerLoop
  DEF IndInv, TypeOK, LoopType, AllWatched, InLoop, ErrorsBounded, Visit, Pending
<1> USE FdAssumption, MaxErrorsAssumption, <1>1, <1>2
      DEF IndInv, TypeOK, Held, rbm_socket_invalid, RBM_ERROR, RBM_SUCCESS, RBM_CHANNEL_CREATION_ERROR, AGAIN,
           Visit, HandlerReturns, LeaveLoop, Pending, session_vars, loop_vars, env_vars
<1>3. SessionType' BY DEF SessionType
<1>4. LoopType'
  BY <1>h
<1>5. DescriptorType' BY DEF DescriptorType
<1>6. WorkerType' BY DEF WorkerType
<1>7. FlagType' BY DEF FlagType
<1>8. Ownership' BY DEF Ownership, Holders
<1>9. ClientsHaveChannels' BY DEF ClientsHaveChannels, InLoop
<1>10. AllWatched'
  BY <1>h
<1>11. NoUseAfterFree' BY DEF NoUseAfterFree
<1>12. Accounted' BY DEF Accounted, Holders
<1>13. Quiescent' BY DEF Quiescent
<1>14. ErrorsBounded' BY DEF ErrorsBounded
<1> QED BY <1>3, <1>4, <1>5, <1>6, <1>7, <1>8, <1>9, <1>10, <1>11, <1>12, <1>13, <1>14

\* handle_client_connections keeps it.
LEMMA ClientDataInv ==
  ASSUME IndInv, NEW i \in Fd, handle_client_connections(i)
  PROVE  IndInv'
<1>1. /\ Visit(i) /\ i \notin {localsocket, sshsocket} /\ pc = "scan"
      /\ UNCHANGED <<session, localsocket, sshsocket, sshsession, leaked, others, replies>>
  BY DEF handle_client_connections, Visit
<1>2. i \in Sockets(channels) /\ i \in owned \ leaked
  BY <1>1 DEF IndInv, ClientsHaveChannels, InLoop, Visit, Pending, Ownership, Holders
<1>3. PICK c \in DOMAIN channels : channels[c] = i /\ c = rbm_channel_find_by_socket(i)
  BY <1>2 DEF rbm_channel_find_by_socket, Sockets
<1>4. c # 0
  BY <1>3 DEF IndInv, TypeOK, SessionType
<1>5. ASSUME NEW rc \in {RBM_SUCCESS, RBM_ERROR}, ClientGone(i, rc)
      PROVE  IndInv'
  <2>a. /\ channels' = rbm_array_remove(channels, c)
        /\ owned' = owned \ {i}
        /\ hangup' = hangup \ {i}
    BY <1>3, <1>5 DEF ClientGone, rbm_channel_close
  <2>b. /\ channels' \in Seq(Fd)
        /\ Sockets(channels') = Sockets(channels) \ {i}
        /\ \A j, k \in DOMAIN channels' : channels'[j] = channels'[k] => j = k
    BY <2>a, <1>3, ArrayRemove DEF IndInv, TypeOK, SessionType, Ownership
  <2>c. PICK master :
          /\ HandlerReturns(rc, i, master, fdmax)
          /\ \/ master = masterset \ {i}
             \/ master = masterset \ {i, localsocket, sshsocket}
    BY <1>5 DEF ClientGone, rbm_channel_close
  <2>h. /\ LoopType' /\ AllWatched'
        /\ InLoop' => /\ pc' = "scan"
                      /\ masterset' = master
                      /\ readset' = readset \ {i}
    <3>1. /\ LoopType /\ master \in SUBSET Fd /\ fdmax \in Nat
          /\ \A f \in master : f <= fdmax
      BY <1>1, <2>c DEF IndInv, TypeOK, LoopType, AllWatched, InLoop
    <3>2. rc # AGAIN
      BY <1>5 DEF AGAIN, RBM_SUCCESS, RBM_ERROR
    <3> QED BY <3>1, <3>2, <1>1, <2>c, HandlerLoop
  <2> USE FdAssumption, MaxErrorsAssumption, <1>1, <1>2, <2>a, <2>b, <2>c
         DEF IndInv, TypeOK, Held, rbm_socket_invalid, RBM_ERROR, RBM_SUCCESS, RBM_CHANNEL_CREATION_ERROR, AGAIN,
             Visit, HandlerReturns, LeaveLoop, Pending, session_vars, loop_vars, env_vars
  <2>1. SessionType' BY DEF SessionType
  <2>2. LoopType'
    BY <2>h
  <2>3. DescriptorType' BY DEF DescriptorType
  <2>4. WorkerType' BY DEF WorkerType
  <2>5. FlagType' BY DEF FlagType
  <2>6. Ownership' BY DEF Ownership, Holders
  <2>7. ClientsHaveChannels'
    BY <1>1, <2>b, <2>h DEF IndInv, ClientsHaveChannels, InLoop
  <2>8. AllWatched'
    BY <2>h
  <2>9. NoUseAfterFree' BY DEF NoUseAfterFree
  <2>10. Accounted' BY DEF Accounted, Holders
  <2>11. Quiescent' BY DEF Quiescent
  <2>12. ErrorsBounded' BY DEF ErrorsBounded
  <2> QED BY <2>1, <2>2, <2>3, <2>4, <2>5, <2>6, <2>7, <2>8, <2>9, <2>10, <2>11, <2>12
<1>6. ASSUME NEW rc \in {RBM_SUCCESS, RBM_ERROR},
             HandlerReturns(rc, i, masterset, fdmax),
             UNCHANGED <<channels, owned, hangup>>
      PROVE  IndInv'
  <2>h. LoopType' /\ AllWatched'
    <3>1. /\ LoopType /\ masterset \in SUBSET Fd /\ fdmax \in Nat
          /\ \A f \in masterset : f <= fdmax
      BY <1>1 DEF IndInv, TypeOK, LoopType, AllWatched, InLoop
    <3>2. rc # AGAIN
      BY <1>6 DEF AGAIN, RBM_SUCCESS, RBM_ERROR
    <3> QED BY <3>1, <3>2, <1>1, <1>6, HandlerLoop
  <2> USE FdAssumption, MaxErrorsAssumption, <1>1, <1>6
         DEF IndInv, TypeOK, Held, rbm_socket_invalid, RBM_ERROR, RBM_SUCCESS, RBM_CHANNEL_CREATION_ERROR, AGAIN,
             Visit, HandlerReturns, LeaveLoop, Pending, session_vars, loop_vars, env_vars
  <2>1. SessionType' BY DEF SessionType
  <2>2. LoopType'
    BY <2>h
  <2>3. DescriptorType' BY DEF DescriptorType
  <2>4. WorkerType' BY DEF WorkerType
  <2>5. FlagType' BY DEF FlagType
  <2>6. Ownership' BY DEF Ownership, Holders
  <2>7. ClientsHaveChannels' BY DEF ClientsHaveChannels, InLoop
  <2>8. AllWatched'
    BY <2>h
  <2>9. NoUseAfterFree' BY DEF NoUseAfterFree
  <2>10. Accounted' BY DEF Accounted, Holders
  <2>11. Quiescent' BY DEF Quiescent
  <2>12. ErrorsBounded' BY DEF ErrorsBounded
  <2> QED BY <2>1, <2>2, <2>3, <2>4, <2>5, <2>6, <2>7, <2>8, <2>9, <2>10, <2>11, <2>12
<1> QED BY <1>3, <1>4, <1>5, <1>6 DEF handle_client_connections

\* What clients and other threads do keeps it.
LEMMA EnvironmentInv ==
  ASSUME IndInv, Environment \/ UNCHANGED vars
  PROVE  IndInv'
<1> USE FdAssumption, MaxErrorsAssumption, EmptyArray DEF IndInv, TypeOK, Held,
        rbm_socket_invalid, Environment, ClientHangup, OtherThread, Free,
        vars, session_vars, loop_vars, env_vars
<1>1. SessionType' BY DEF SessionType
<1>2. LoopType' BY DEF LoopType
<1>3. DescriptorType' BY DEF DescriptorType
<1>4. WorkerType' BY DEF WorkerType
<1>5. FlagType' BY DEF FlagType
<1>6. Ownership' BY DEF Ownership, Holders
<1>7. ClientsHaveChannels' BY DEF ClientsHaveChannels, InLoop
<1>8. AllWatched' BY DEF AllWatched, InLoop
<1>9. NoUseAfterFree' BY DEF NoUseAfterFree
<1>10. Accounted' BY DEF Accounted, Holders
<1>11. Quiescent' BY DEF Quiescent
<1>12. ErrorsBounded' BY DEF ErrorsBounded
<1> QED BY <1>1, <1>2, <1>3, <1>4, <1>5, <1>6, <1>7, <1>8, <1>9, <1>10, <1>11, <1>12

-----------------------------------------------------------------------------
(* The theorems.                                                              *)

\* Every step of the tunnel keeps the invariant.
LEMMA NextInv ==
  ASSUME IndInv, [Next]_vars
  PROVE  IndInv'
  BY EstablishInv, ListenInv, ListenSucceededInv, ListenFailedInv, CleanupInv, ReconnectInv,
     TooManyErrorsInv, CloseTunnelInv, SelectInv, ScanDoneInv, NewClientInv, SshDataInv,
     ClientDataInv, EnvironmentInv
  DEF Next, Tunnel

\* The inductive invariant holds in every state of ssh.c's tunnel.
THEOREM IndInvHolds == Spec => []IndInv
<1>1. Init => IndInv
  BY InitInv
<1>2. IndInv /\ [Next]_vars => IndInv'
  BY NextInv
<1> QED BY <1>1, <1>2, PTL DEF Spec

\* The session, the loop variables and the responses keep their types; in
\* particular the EAGAIN counter stays within maxerrors.
THEOREM TypeCorrect == Spec => []TypeOK
<1>1. IndInv => TypeOK
  BY DEF IndInv
<1> QED BY <1>1, IndInvHolds, PTL

\* rbm_socket_close is only ever applied to a descriptor the tunnel has open and
\* holds in one place.
THEOREM OwnershipHolds == Spec => []Ownership
<1>1. IndInv => Ownership
  BY DEF IndInv
<1> QED BY <1>1, IndInvHolds, PTL

\* A readable client socket always has its channel, also in the stale read set.
THEOREM ClientsHaveChannelsHolds == Spec => []ClientsHaveChannels
<1>1. IndInv => ClientsHaveChannels
  BY DEF IndInv
<1> QED BY <1>1, IndInvHolds, PTL

\* select() and the for loop see every watched socket.
THEOREM AllWatchedHolds == Spec => []AllWatched
<1>1. IndInv => AllWatched
  BY DEF IndInv
<1> QED BY <1>1, IndInvHolds, PTL

\* The freed rbm_session is never used again.
THEOREM NoUseAfterFreeHolds == Spec => []NoUseAfterFree
<1>1. IndInv => NoUseAfterFree
  BY DEF IndInv
<1> QED BY <1>1, IndInvHolds, PTL

\* A stopped worker keeps no descriptor but those an error path forgot.
THEOREM ReleasedOnStopHolds == Spec => []ReleasedOnStop
<1>1. IndInv => ReleasedOnStop
  BY EmptyArray
  DEF IndInv, ReleasedOnStop, Accounted, Quiescent, Holders, Held
<1> QED BY <1>1, IndInvHolds, PTL

\* Every step of the tunnel is a step of its contract with App or invisible to it.
THEOREM Refinement == Spec => KeepsContract
<1> USE DEF Contract!Next, Contract!Established, Contract!NotEstablished, Contract!Serve,
            Contract!EndNormally, Contract!Break, Contract!Response, Phase
<1>1. Init => Contract!Init
  BY DEF Init, Contract!Init
<1>2. ASSUME IndInv, [Next]_vars
      PROVE  [Contract!Next]_<<Phase, localsocket, replies>>
  <2> USE <1>2
  <2>0. NoUseAfterFree /\ Quiescent /\ owned \subseteq Fd
    BY DEF IndInv, TypeOK, DescriptorType
  <2>1. CASE EstablishSshConnection
    <3>1. ASSUME NEW leak, EstablishFailed(leak)
          PROVE  Contract!NotEstablished
      BY <3>1, <2>1 DEF EstablishSshConnection, EstablishFailed, Reply
    <3>2. ASSUME NEW s \in rbm_ssh_setup, NEW l \in socket_listen({s.sock}), l.rc = RBM_SUCCESS,
                 localsocket' = l.sock, Reply("Establish", FALSE), pc' = "ready"
          PROVE  Contract!Established
      <4>1. l.sock \in Fd
        BY <3>2, ListenOutcome DEF Free
      <4> QED BY <4>1, <3>2, <2>1 DEF EstablishSshConnection, Reply
    <3> QED BY <3>1, <3>2, <2>1 DEF EstablishSshConnection
  <2>2. CASE ListenSshConnection
    BY <2>2 DEF ListenSshConnection, EnterLoop, session_vars
  <2>3. CASE ListenSucceeded
    BY <2>3 DEF ListenSucceeded, session_vars
  <2>4. CASE ListenFailed
    BY <2>4 DEF ListenFailed, Reply, rbm_ssh_session_close, rbm_session_cleanup
  <2>5. CASE CloseTunnel
    BY <2>5 DEF CloseTunnel, rbm_ssh_session_close
  <2>6. CASE Cleanup \/ Reconnect \/ TooManyErrors \/ Select \/ ScanDone
    BY <2>6 DEF Cleanup, Reconnect, EnterLoop, TooManyErrors, Select, ScanDone, session_vars
  <2>7. ASSUME NEW i \in Fd, handle_new_client_connections(i)
        PROVE  UNCHANGED <<Phase, localsocket, replies>>
    BY <2>7 DEF handle_new_client_connections, Visit, HandlerReturns
  <2>8. ASSUME NEW i \in Fd, handle_ssh_connections(i)
        PROVE  UNCHANGED <<Phase, localsocket, replies>>
    BY <2>8 DEF handle_ssh_connections, Visit, HandlerReturns, session_vars
  <2>9. ASSUME NEW i \in Fd, handle_client_connections(i)
        PROVE  UNCHANGED <<Phase, localsocket, replies>>
    BY <2>9 DEF handle_client_connections, ClientGone, rbm_channel_close, Visit, HandlerReturns
  <2>10. CASE Environment \/ UNCHANGED vars
    BY <2>10 DEF Environment, ClientHangup, OtherThread, session_vars, vars
  <2> QED BY <2>1, <2>2, <2>3, <2>4, <2>5, <2>6, <2>7, <2>8, <2>9, <2>10 DEF Next, Tunnel
<1> QED BY <1>1, <1>2, IndInvHolds, PTL DEF Spec, KeepsContract, Contract!Spec

=============================================================================
