----------------------------- MODULE MCSettings -----------------------------
(* Settings for TLC.                                                          *)
EXTENDS MainMenus

MCOld == {"none", "0.8.5", "newer"}

MCForm == {"unnamed", "named"}
=============================================================================
