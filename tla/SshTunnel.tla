----------------------------- MODULE SshTunnel -----------------------------
(* The SSH tunnel of one connection: the two handlers of SshTunnelWorker      *)
(* (core/mongodb/SshTunnelWorker.cpp) and the select() loop of ssh/ssh.c that *)
(* the second one runs.  Everything here happens on the worker's own thread;  *)
(* descriptors are a resource of the whole process, so other threads open and *)
(* close theirs between any two steps and a number the tunnel gives back may  *)
(* be another thread's a moment later.                                        *)
EXTENDS Integers, Sequences, FiniteSets

CONSTANTS Fd,             \* descriptors the process can be handed
          MaxErrors,      \* maxerrors of rbm_open_tunnel (25 in the code)
          SelectMayFail,  \* may select() return -1
          AllocMayFail    \* may malloc() return NULL in rbm_channel_create

ASSUME FdAssumption == Fd \subseteq Nat \ {0}
ASSUME MaxErrorsAssumption == MaxErrors \in Nat \ {0}
ASSUME FailureAssumption == {SelectMayFail, AllocMayFail} \subseteq BOOLEAN

VARIABLES
  pc,           \* where the worker thread is
  session,      \* the rbm_session struct: "none", "live" or "freed"
  localsocket, sshsocket,   \* fields of rbm_session
  sshsession,   \* rbm_session.sshsession # NULL
  channels,     \* rbm_session.channels: the client socket of each channel
  masterset, readset, fdmax, errors,    \* locals of rbm_open_tunnel
  owned,        \* descriptors the tunnel has opened and not closed
  others,       \* descriptors of the other threads of the process
  leaked,       \* descriptors an error path forgot (history variable)
  hangup,       \* client sockets whose peer has closed its end
  replies       \* responses sent to App, in order

session_vars == <<session, localsocket, sshsocket, sshsession, channels>>
loop_vars == <<masterset, readset, fdmax, errors>>
env_vars == <<others, hangup>>
vars == <<pc, session_vars, loop_vars, owned, leaked, env_vars, replies>>

rbm_socket_invalid == -1
RBM_SUCCESS == 0
RBM_ERROR == -1
AGAIN == -2
RBM_CHANNEL_CREATION_ERROR == -10

Free == Fd \ (owned \cup others)
Sockets(a) == {a[i] : i \in DOMAIN a}
Held(s) == {s} \ {rbm_socket_invalid}
Holders == Held(localsocket) \cup Held(sshsocket) \cup Sockets(channels)

-----------------------------------------------------------------------------
(* array.c: append a pointer; copy the two halves around the removed one.     *)
rbm_array_add(array, data) == Append(array, data)

rbm_array_remove(array, i) ==
  [j \in 1 .. Len(array) - 1 |-> IF j < i THEN array[j] ELSE array[j + 1]]

\* rbm_channel_find_by_socket: the first channel of that socket, 0 if none.
rbm_channel_find_by_socket(socket) ==
  IF socket \in Sockets(channels)
    THEN CHOOSE i \in DOMAIN channels : channels[i] = socket
    ELSE 0

-----------------------------------------------------------------------------
(* Results of the calls that reach the network.  Each is the set of outcomes  *)
(* the call can have: the descriptor it stores in the session, and the one it *)
(* opens and forgets on the way out.                                          *)

\* socket_connect: no address or socket, connect() refused, or connected.
socket_connect ==
     {[sock |-> rbm_socket_invalid, leak |-> {}]}
  \cup {[sock |-> rbm_socket_invalid, leak |-> {f}] : f \in Free}
  \cup {[sock |-> f, leak |-> {}] : f \in Free}

\* ssh_connect: handshake and authentication succeed or fail.
ssh_connect == BOOLEAN

\* rbm_ssh_setup: socket_connect, then ssh_connect on the connected socket.
rbm_ssh_setup ==
  {[rc |-> IF c.sock # rbm_socket_invalid /\ ok THEN RBM_SUCCESS ELSE RBM_ERROR,
    sock |-> c.sock,
    ssh |-> c.sock # rbm_socket_invalid /\ ok,
    leak |-> c.leak] : c \in socket_connect, ok \in ssh_connect}

\* socket_listen, when the descriptors in used have been taken meanwhile.
socket_listen(used) ==
     {[rc |-> RBM_ERROR, sock |-> rbm_socket_invalid, leak |-> {}]}
  \cup {[rc |-> RBM_ERROR, sock |-> rbm_socket_invalid, leak |-> {f}] : f \in Free \ used}
  \cup {[rc |-> RBM_SUCCESS, sock |-> f, leak |-> {}] : f \in Free \ used}

-----------------------------------------------------------------------------
(* Session teardown.                                                          *)

\* Mutant: the closed ssh socket stays in the session.
CleanupKeepsSshSocket ==
  /\ channels' = <<>>
  /\ hangup' = {}
  /\ sshsession' = FALSE
  /\ UNCHANGED sshsocket

\* rbm_session_cleanup: the channels with their sockets, the libssh2 session,
\* the ssh socket.
rbm_session_cleanup ==
  /\ channels' = <<>>
  /\ hangup' = {}
  /\ sshsession' = FALSE
  /\ sshsocket' = rbm_socket_invalid

\* rbm_ssh_session_close: the accept socket, the cleanup above, free().
rbm_ssh_session_close ==
  /\ rbm_session_cleanup
  /\ localsocket' = rbm_socket_invalid
  /\ session' = "freed"
  /\ owned' = owned \ Holders

LeaveLoop == masterset' = {} /\ readset' = {} /\ fdmax' = 0 /\ errors' = 0

-----------------------------------------------------------------------------
(* SshTunnelWorker.                                                           *)

\* reply(): _isQuiting, which would keep the answer back, is set by stopAndDelete,
\* the last thing a handler does.
Reply(type, error) == replies' = Append(replies, [type |-> type, error |-> error])

\* The catch clause of the first handler: reply, then stopAndDelete.
EstablishFailed(leak) ==
  /\ Reply("Establish", TRUE)
  /\ pc' = "stopped"
  /\ owned' = owned \cup leak
  /\ leaked' = leaked \cup leak
  /\ UNCHANGED <<localsocket, sshsocket, sshsession, channels, loop_vars, env_vars>>

\* handle(EstablishSshConnectionRequest)
EstablishSshConnection ==
  /\ pc = "start"
  /\ \/ EstablishFailed({}) /\ UNCHANGED session      \* rbm_ssh_session_create: NULL
     \/ \E s \in rbm_ssh_setup :
          \/ /\ s.rc = RBM_ERROR
             /\ EstablishFailed(s.leak)
             /\ session' = "freed"
          \/ /\ s.rc = RBM_SUCCESS
             /\ \E l \in socket_listen({s.sock}) :
                  \/ /\ l.rc = RBM_ERROR
                     /\ EstablishFailed(l.leak)
                     /\ session' = "freed"
                  \/ /\ l.rc = RBM_SUCCESS
                     /\ session' = "live"
                     /\ sshsocket' = s.sock
                     /\ sshsession' = s.ssh
                     /\ localsocket' = l.sock
                     /\ owned' = owned \cup {s.sock, l.sock}
                     /\ Reply("Establish", FALSE)
                     /\ pc' = "ready"
                     /\ UNCHANGED <<channels, loop_vars, leaked, env_vars>>

\* The entry of rbm_open_tunnel, for the given ssh socket.
EnterLoop(ssh) ==
  /\ masterset' = {localsocket, ssh}
  /\ readset' = {}
  /\ fdmax' = IF localsocket > ssh THEN localsocket ELSE ssh
  /\ errors' = 0
  /\ pc' = "select"

\* handle(ListenSshConnectionRequest) up to the call of rbm_ssh_open_tunnel
ListenSshConnection ==
  /\ pc = "ready"
  /\ EnterLoop(sshsocket)
  /\ UNCHANGED <<session_vars, owned, leaked, env_vars, replies>>

\* ... and after it: on success the session has been closed by the loop,
ListenSucceeded ==
  /\ pc = "tunnel_closed"
  /\ pc' = "stopped"
  /\ UNCHANGED <<session_vars, loop_vars, owned, leaked, env_vars, replies>>

\* on error the handler copies lasterror, closes the session and replies.
ListenFailed ==
  /\ pc = "tunnel_failed"
  /\ rbm_ssh_session_close
  /\ Reply("Listen", TRUE)
  /\ pc' = "stopped"
  /\ UNCHANGED <<loop_vars, leaked, others>>

-----------------------------------------------------------------------------
(* rbm_ssh_open_tunnel: reconnect and re-enter the loop until it succeeds.    *)

\* Mutant: the cleanup before a reconnect closes the accept socket too.
CleanupClosesListener ==
  /\ pc = "tunnel_error"
  /\ rbm_session_cleanup
  /\ owned' = owned \ Holders
  /\ localsocket' = rbm_socket_invalid
  /\ pc' = "reconnect"
  /\ UNCHANGED <<session, loop_vars, leaked, others, replies>>

Cleanup ==
  /\ pc = "tunnel_error"
  /\ rbm_session_cleanup
  /\ owned' = owned \ (Held(sshsocket) \cup Sockets(channels))
  /\ pc' = "reconnect"
  /\ UNCHANGED <<session, localsocket, loop_vars, leaked, others, replies>>

Reconnect ==
  /\ pc = "reconnect"
  /\ \E s \in rbm_ssh_setup :
       /\ sshsocket' = s.sock
       /\ sshsession' = s.ssh
       /\ owned' = owned \cup Held(s.sock) \cup s.leak
       /\ leaked' = leaked \cup s.leak
       /\ IF s.rc = RBM_SUCCESS
            THEN EnterLoop(s.sock)
            ELSE pc' = "tunnel_failed" /\ UNCHANGED loop_vars
  /\ UNCHANGED <<session, localsocket, channels, env_vars, replies>>

-----------------------------------------------------------------------------
(* rbm_open_tunnel: the head of the while loop.                               *)

\* errors >= maxerrors: leave with RBM_ERROR.
TooManyErrors ==
  /\ pc = "select" /\ errors >= MaxErrors
  /\ LeaveLoop
  /\ pc' = "tunnel_error"
  /\ UNCHANGED <<session_vars, owned, leaked, env_vars, replies>>

\* The accept socket has left the master set, or select() failed: close the
\* session and leave with RBM_SUCCESS.
CloseTunnel ==
  /\ pc = "select" /\ errors < MaxErrors
  /\ localsocket \notin masterset \/ SelectMayFail
  /\ rbm_ssh_session_close
  /\ LeaveLoop
  /\ pc' = "tunnel_closed"
  /\ UNCHANGED <<leaked, others, replies>>

\* select() returns the readable descriptors: every one whose peer has hung up,
\* and any others (a new client, data of a client, data or noise of the server).
Select ==
  /\ pc = "select" /\ errors < MaxErrors
  /\ localsocket \in masterset
  /\ \E ready \in SUBSET masterset :
       /\ hangup \cap masterset \subseteq ready
       /\ ready # {}
       /\ readset' = ready
  /\ pc' = "scan"
  /\ UNCHANGED <<session_vars, masterset, fdmax, errors, owned, leaked, env_vars, replies>>

\* Mutant: the for loop stops one short of fdmax.
PendingBelowMax == {f \in readset : f < fdmax}

\* The descriptors the for loop has not visited yet.
Pending == {f \in readset : f <= fdmax}

ScanDone ==
  /\ pc = "scan" /\ Pending = {}
  /\ readset' = {}
  /\ pc' = "select"
  /\ UNCHANGED <<session_vars, masterset, fdmax, errors, owned, leaked, env_vars, replies>>

\* Label next, after the handler of socket i returned rc with this master set
\* and maximum: count serial EAGAINs, leave the loop on an error.
HandlerReturns(rc, i, master, max) ==
  IF rc \in {RBM_ERROR, RBM_CHANNEL_CREATION_ERROR}
    THEN /\ LeaveLoop
         /\ pc' = IF rc = RBM_ERROR THEN "tunnel_error" ELSE "tunnel_failed"
    ELSE /\ masterset' = master
         /\ fdmax' = max
         /\ readset' = readset \ {i}
         /\ errors' = IF rc = AGAIN THEN errors + 1 ELSE 0
         /\ UNCHANGED pc

\* The for loop reaches socket i, the smallest one pending.
Visit(i) ==
  /\ pc = "scan"
  /\ i \in Pending
  /\ \A f \in Pending : i <= f

-----------------------------------------------------------------------------
(* The three handlers.                                                        *)

\* "keep track of the maximum"
TrackMax(newfd) == IF newfd > fdmax THEN newfd ELSE fdmax

\* accept() a client and open its channel.  When there is no channel to be had
\* the new descriptor stays open with nobody to close it.
handle_new_client_connections(i) ==
  /\ Visit(i) /\ i = localsocket
  /\ \/ /\ HandlerReturns(RBM_ERROR, i, masterset, fdmax)      \* accept failed
        /\ UNCHANGED <<channels, owned, leaked>>
     \/ \E newfd \in Free :
          /\ owned' = owned \cup {newfd}
          /\ LET master == masterset \cup {newfd}
                 max == TrackMax(newfd)
             IN \/ /\ channels' = rbm_array_add(channels, newfd)
                   /\ HandlerReturns(RBM_SUCCESS, i, master, max)
                   /\ UNCHANGED leaked
                \/ /\ HandlerReturns(RBM_CHANNEL_CREATION_ERROR, i, master, max)
                   /\ leaked' = leaked \cup {newfd}
                   /\ UNCHANGED channels
                \/ /\ AllocMayFail                         \* rbm_channel_create
                   /\ HandlerReturns(RBM_ERROR, i, master, max)
                   /\ leaked' = leaked \cup {newfd}
                   /\ UNCHANGED channels
  /\ UNCHANGED <<session, localsocket, sshsocket, sshsession, env_vars, replies>>

\* What draining one channel can come to: no data yet, some data, the last data,
\* data the client did not take, an error of libssh2_channel_read.
ChannelRead == {"again", "data", "eof", "send_failed", "read_failed"}

\* The result of draining the channels in array order: a read error returns at
\* once, else the last channel that set the result decides.
DrainResult(reads) ==
  LET deciding == {i \in DOMAIN reads : reads[i] \in {"eof", "send_failed"}}
  IN CASE \E i \in DOMAIN reads : reads[i] = "read_failed" -> RBM_ERROR
       [] \A i \in DOMAIN reads : reads[i] = "again" -> AGAIN
       [] \E i \in deciding : /\ \A j \in deciding : j <= i
                              /\ reads[i] = "send_failed" -> RBM_ERROR
       [] OTHER -> RBM_SUCCESS

handle_ssh_connections(i) ==
  /\ Visit(i) /\ i = sshsocket
  /\ \/ /\ channels = <<>>
        /\ HandlerReturns(RBM_SUCCESS, i, masterset \ {localsocket, sshsocket}, fdmax)
     \/ /\ channels # <<>>
        /\ \E reads \in [DOMAIN channels -> ChannelRead] :
             HandlerReturns(DrainResult(reads), i, masterset, fdmax)
  /\ UNCHANGED <<session_vars, owned, leaked, env_vars, replies>>

\* rbm_channel_close: out of the array, its socket closed.  (rbm_array_remove
\* allocates the shorter array; that this fails, and everything then stays as it
\* is, is left out.)
rbm_channel_close(i) ==
  /\ channels' = rbm_array_remove(channels, rbm_channel_find_by_socket(i))
  /\ owned' = owned \ {i}
  /\ hangup' = hangup \ {i}

\* Mutant: the client's descriptor stays in the master set.
ClientGoneStillWatched(i, rc) ==
  LET gone == IF Len(channels') = 0 THEN {localsocket, sshsocket} ELSE {}
  IN rbm_channel_close(i) /\ HandlerReturns(rc, i, masterset \ gone, fdmax)

\* recv() of 0 or -1: drop the client; with the last one the tunnel ends.
ClientGone(i, rc) ==
  LET gone == {i} \cup IF Len(channels') = 0 THEN {localsocket, sshsocket} ELSE {}
  IN rbm_channel_close(i) /\ HandlerReturns(rc, i, masterset \ gone, fdmax)

handle_client_connections(i) ==
  /\ Visit(i) /\ i \notin {localsocket, sshsocket}
  /\ IF rbm_channel_find_by_socket(i) = 0
       THEN /\ owned' = owned \ {i}
            /\ HandlerReturns(RBM_ERROR, i, masterset \ {i}, fdmax)
            /\ UNCHANGED <<channels, hangup>>
       ELSE \/ i \in hangup /\ ClientGone(i, RBM_SUCCESS)   \* recv() = 0
            \/ ClientGone(i, RBM_ERROR)                     \* recv() = -1
            \/ /\ i \notin hangup                           \* data for the channel
               /\ \E rc \in {RBM_SUCCESS, RBM_ERROR} :
                    HandlerReturns(rc, i, masterset, fdmax)
               /\ UNCHANGED <<channels, owned, hangup>>
  /\ UNCHANGED <<session, localsocket, sshsocket, sshsession, leaked, others, replies>>

-----------------------------------------------------------------------------
(* The world around the tunnel.                                               *)

\* A client has sent everything and closes its end.
ClientHangup(f) ==
  /\ f \in Sockets(channels) \ hangup
  /\ hangup' = hangup \cup {f}
  /\ UNCHANGED <<pc, session_vars, loop_vars, owned, others, leaked, replies>>

\* Another thread of the process opens or closes a descriptor of its own.
OtherThread(f) ==
  /\ \/ f \in Free /\ others' = others \cup {f}
     \/ f \in others /\ others' = others \ {f}
  /\ UNCHANGED <<pc, session_vars, loop_vars, owned, leaked, hangup, replies>>

Init ==
  /\ pc = "start"
  /\ session = "none" /\ sshsession = FALSE /\ channels = <<>>
  /\ localsocket = rbm_socket_invalid /\ sshsocket = rbm_socket_invalid
  /\ masterset = {} /\ readset = {} /\ fdmax = 0 /\ errors = 0
  /\ owned = {} /\ others = {} /\ leaked = {} /\ hangup = {}
  /\ replies = <<>>

\* A step of the worker's thread.
Tunnel ==
  \/ EstablishSshConnection \/ ListenSshConnection
  \/ ListenSucceeded \/ ListenFailed
  \/ Cleanup \/ Reconnect
  \/ TooManyErrors \/ CloseTunnel \/ Select \/ ScanDone
  \/ \E i \in Fd : \/ handle_new_client_connections(i)
                   \/ handle_ssh_connections(i)
                   \/ handle_client_connections(i)

Environment == \E f \in Fd : ClientHangup(f) \/ OtherThread(f)

Next == Tunnel \/ Environment

Spec == Init /\ [][Next]_vars

\* The worker's thread is scheduled; select() returns when a peer has hung up.
CanRun == pc = "select" /\ errors < MaxErrors => localsocket \notin masterset \/ hangup # {}

FairSpec == Spec /\ WF_vars(CanRun /\ Tunnel)

-----------------------------------------------------------------------------
(* Properties.                                                                *)

InLoop == pc \in {"select", "scan"}

SessionType ==
  /\ session \in {"none", "live", "freed"}
  /\ localsocket \in Fd \cup {rbm_socket_invalid}
  /\ sshsocket \in Fd \cup {rbm_socket_invalid}
  /\ channels \in Seq(Fd)

LoopType ==
  /\ masterset \subseteq Fd /\ readset \subseteq Fd
  /\ fdmax \in Nat /\ errors \in 0 .. MaxErrors

DescriptorType ==
  /\ owned \subseteq Fd /\ others \subseteq Fd
  /\ leaked \subseteq Fd /\ hangup \subseteq Fd

WorkerType ==
  /\ pc \in {"start", "ready", "select", "scan", "tunnel_error", "reconnect",
             "tunnel_closed", "tunnel_failed", "stopped"}
  /\ replies \in Seq([type : {"Establish", "Listen"}, error : BOOLEAN])

FlagType == sshsession \in BOOLEAN

\* The variables have the values the C declarations allow; serial EAGAINs never
\* pass maxerrors although the for loop counts on without looking at the bound.
TypeOK == SessionType /\ LoopType /\ DescriptorType /\ WorkerType /\ FlagType

\* Every descriptor the teardown code of ssh.c is going to close is open, is the
\* tunnel's and is held in exactly one place: rbm_socket_close never hits a
\* number that is closed already or that another thread has been given since.
Ownership ==
  /\ Holders \subseteq owned \ leaked
  /\ localsocket = sshsocket => localsocket = rbm_socket_invalid
  /\ {localsocket, sshsocket} \cap Sockets(channels) = {}
  /\ \A i, j \in DOMAIN channels : channels[i] = channels[j] => i = j
  /\ owned \cap others = {}

\* The master set and the channel array agree whenever the loop looks at them,
\* so a readable client always has its channel (the "bye!" branch of
\* handle_client_connections, which closes an unknown descriptor, is not taken)
\* and the stale copy select() filled in names no descriptor closed since.
ClientsHaveChannels ==
  InLoop => /\ masterset \ {localsocket, sshsocket} = Sockets(channels)
            /\ readset \ {localsocket, sshsocket} \subseteq Sockets(channels)

\* select(fdmax + 1, ...) and the for loop up to fdmax see every watched socket.
AllWatched == InLoop => \A f \in masterset : f <= fdmax

\* The rbm_session struct, freed inside rbm_open_tunnel on the normal way out,
\* is not touched again: at every point where the worker or the loop is about to
\* use it, it is allocated, and while sockets are served libssh2 is up.
NoUseAfterFree ==
  /\ pc \in {"ready", "select", "scan", "tunnel_error", "reconnect", "tunnel_failed"}
       => session = "live" /\ localsocket \in owned
  /\ pc \in {"ready", "select", "scan"} => sshsession /\ sshsocket \in owned

\* When the worker stops, whichever of its five ways out it took, it has given
\* back every descriptor except those an error path is known to forget.
ReleasedOnStop == pc = "stopped" => owned = leaked /\ session # "live"

\* A client that hangs up has its channel closed and its descriptor returned,
\* whatever errors and reconnects happen in between.
HangupReleased == \A f \in Fd : f \in hangup ~> f \notin hangup

\* The phase App can tell from the responses and from its connections.
Phase ==
  CASE pc = "start" -> "start"
    [] pc = "ready" -> "ready"
    [] pc \in {"tunnel_closed", "stopped"} -> "ended"
    [] OTHER -> "up"

Contract == INSTANCE TunnelContract
              WITH Port <- Fd, NoPort <- rbm_socket_invalid, phase <- Phase, port <- localsocket

\* The worker keeps its promise to App: one establish response, at most one
\* listen response and that only for a tunnel that broke, and a local port that
\* survives every reconnect of rbm_ssh_open_tunnel.
KeepsContract == Contract!Spec
=============================================================================
