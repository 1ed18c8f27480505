---------------------------- MODULE MCMonteCarlo ----------------------------
(***************************************************************************)
(* A few runs and two slaves, for TLC.                                     *)
(***************************************************************************)
EXTENDS MonteCarlo

MCOutcomes == {"MC_RUN_COMPLETE", "MC_RUN_DUMPED_CORE"}
MCFaults   == {"die", "silent", "post", "break", "refuse"}
MCPost     == {"post"}
==============================================================================
