--------------------------- MODULE MCQueryResults ---------------------------
(* A query without skip and limit and one with both, over small collections.  *)
EXTENDS QueryResults

CONSTANTS plain, bounded

MCTextSkip == (plain :> 0) @@ (bounded :> 1)
MCTextLimit == (plain :> 0) @@ (bounded :> 2)
MCStored == (plain :> {1}) @@ (bounded :> {1, 2, 3})
=============================================================================
