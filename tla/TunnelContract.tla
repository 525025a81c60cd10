--------------------------- MODULE TunnelContract ---------------------------
(* What SshTunnelWorker promises App.  One answer to the establish request:   *)
(* an error, or a local port that then stays the same, whatever happens to    *)
(* the SSH connection behind it, until the tunnel ends.  One answer at most   *)
(* to the listen request, and only when the tunnel breaks.                    *)
EXTENDS Integers, Sequences

CONSTANTS Port, NoPort

VARIABLES phase, port, replies

Response(type, error) == [type |-> type, error |-> error]

Init == phase = "start" /\ port = NoPort /\ replies = <<>>

Established ==
  /\ phase = "start"
  /\ phase' = "ready"
  /\ port' \in Port
  /\ replies' = Append(replies, Response("Establish", FALSE))

NotEstablished ==
  /\ phase = "start"
  /\ phase' = "ended"
  /\ replies' = Append(replies, Response("Establish", TRUE))
  /\ UNCHANGED port

Serve ==
  /\ phase = "ready"
  /\ phase' = "up"
  /\ UNCHANGED <<port, replies>>

EndNormally ==
  /\ phase = "up"
  /\ phase' = "ended"
  /\ port' = NoPort
  /\ UNCHANGED replies

Break ==
  /\ phase = "up"
  /\ phase' = "ended"
  /\ port' = NoPort
  /\ replies' = Append(replies, Response("Listen", TRUE))

Next == Established \/ NotEstablished \/ Serve \/ EndNormally \/ Break

Spec == Init /\ [][Next]_<<phase, port, replies>>
=============================================================================
