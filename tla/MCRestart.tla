------------------------------ MODULE MCRestart ------------------------------
(***************************************************************************)
(* Frames of two tics, and jobs whose calls fall on frames and within.     *)
(***************************************************************************)
EXTENDS CheckPointRestart, TLC

CONSTANTS j1, j2, write_checkpoint, safestore_checkpoint

MCUserJob == {j1, j2}
MCCycle   == j1 :> 2 @@ j2 :> 3

==============================================================================
