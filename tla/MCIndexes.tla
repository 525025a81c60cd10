------------------------------ MODULE MCIndexes ------------------------------
(* Two names, one of them the generated one, and three options.               *)
EXTENDS Indexes
=============================================================================
