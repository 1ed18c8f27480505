----------------------------- MODULE MCVarServer -----------------------------
(***************************************************************************)
(* A variable server with two clients, for TLC: one that sends every kind  *)
(* of command, and one that comes and goes.                                *)
(***************************************************************************)
EXTENDS VariableServer, TLC

CONSTANTS listen, s1, s2

MCSession  == {s1, s2}
MCThreads  == {listen, s1, s2}
MCCommands == (s1 :> CommandKind) @@ (s2 :> {})
MCShort    == (s1 :> {"var_add", "var_exit"}) @@ (s2 :> {})
==============================================================================
