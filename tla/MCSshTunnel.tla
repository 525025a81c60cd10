---------------------------- MODULE MCSshTunnel ----------------------------
(* Instances of SshTunnel for TLC: a handful of descriptors, shared with the  *)
(* other threads, so that numbers are reused in every order.                  *)
EXTENDS SshTunnel

\* Bound: five descriptors, i.e. two sockets of the tunnel and three clients.
MCFd == 1 .. 5
\* Bound: serial EAGAINs before the loop gives up (25 in the code).
MCMaxErrors == 2

\* Bound: four descriptors, for the counterexample.
MCFewFd == 1 .. 4
=============================================================================
