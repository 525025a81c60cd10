------------------------- MODULE MCDatabaseExplorer -------------------------
(* DatabaseExplorer and ReplicaSetItems for TLC.                              *)
EXTENDS ReplicaSetItems

\* A database that exists has one collection, a.
OneCollection == [c \in Cat |-> IF c = Collections THEN {"a"} ELSE {}]
FewNames == [c \in Cat |-> IF c = Users THEN {"a"} ELSE {"a", "temp"}]
BothKinds == {TRUE, FALSE}

\* Two members: both up, the secondary alone, none.
FewInfos ==
  {[members |-> Member, up |-> Member, primary |-> "m1"],
   [members |-> Member, up |-> {"m2"}, primary |-> NULL],
   [members |-> Member, up |-> {}, primary |-> NULL]}
=============================================================================
