----------------------------- MODULE MCEventBus -----------------------------
(* EventBus for TLC: two workers whose QThreads have the same address, one    *)
(* after the other, and a GUI object that publishes to itself.  The liveness  *)
(* property rules out symmetry.                                               *)
EXTENDS EventBus
=============================================================================
