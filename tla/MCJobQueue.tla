------------------------------ MODULE MCJobQueue ------------------------------
(***************************************************************************)
(* Four jobs, the last of a system class, for TLC.                         *)
(***************************************************************************)
EXTENDS ScheduledJobQueue

MCList0 == <<1, 3, 4>>
MCKinds == {"class", "scheduled"}
MCCycle == <<1, 2, 3, 1>>
MCStart == <<0, 1, 0, 0>>
MCStop  == <<3, Never, Never, Never>>
==============================================================================
