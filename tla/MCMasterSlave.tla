---------------------------- MODULE MCMasterSlave ----------------------------
(* Two slaves of a master: it needs the first, and goes on without the second. *)
EXTENDS MasterSlave

MCSlaves == <<"s1", "s2">>
MCBound == [k \in Troubles |-> IF k = "command" THEN 2 ELSE 1]
==============================================================================
