--------------------------- MODULE MCScriptEngine ---------------------------
(* No statement, a query followed by a statement that is none, and a script  *)
(* that does not parse.                                                      *)
EXTENDS ScriptEngine

MCScript == {<<>>, <<"find", "value">>, <<"value", "garbage">>}
=============================================================================
