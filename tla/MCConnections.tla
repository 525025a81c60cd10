--------------------------- MODULE MCConnections ---------------------------
(* Connections for TLC: the settings that take different paths.              *)
EXTENDS Connections

Single == [ssh |-> FALSE, rs |-> FALSE, named |-> FALSE]
Tunnelled == [ssh |-> TRUE, rs |-> FALSE, named |-> FALSE]
ReplicaSet == [ssh |-> FALSE, rs |-> TRUE, named |-> FALSE]
NamedReplicaSet == [ssh |-> FALSE, rs |-> TRUE, named |-> TRUE]

AllKinds == {Single, Tunnelled, ReplicaSet, NamedReplicaSet}
TunnelOrSet == {Tunnelled, ReplicaSet}
OneSingle == {Single}
OneReplicaSet == {ReplicaSet}
=============================================================================
