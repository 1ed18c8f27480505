---------------------------- MODULE MCEventManager ----------------------------
(***************************************************************************)
(* Two cyclic events and a read event, two jobs to attach them to.         *)
(***************************************************************************)
EXTENDS EventManager

MCEvent == {"a", "b", "read"}
MCCycle == [a |-> 1, b |-> 2, read |-> 0]
MCTarget == {"x", "y"}
==============================================================================
