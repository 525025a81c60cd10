----------------------------- MODULE MCWorkArea -----------------------------
(* Three texts, one with a selectable part, and a file with and without suffix. *)
EXTENDS WorkArea

MCText == {"", "a", "ab"}
MCPart == [t \in MCText |-> IF t = "ab" THEN {"a"} ELSE {}]
MCCut == [t \in MCText |-> {""}]
MCFile == {"x", "x.js"}
MCJs == [f \in MCFile |-> "x.js"]
MCFound == [f \in MCFile |-> IF f = "x" THEN "ab" ELSE Absent]
=============================================================================
