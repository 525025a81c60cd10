---------------------------- MODULE MCWelcomeTab ----------------------------
(* Three tabs, and news of the text and of the picture between them.          *)
EXTENDS WelcomeTab

Versions == [r \in Resource |-> IF r = "rss" THEN 1 ELSE 2]
=============================================================================
