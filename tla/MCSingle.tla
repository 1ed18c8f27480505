------------------------------ MODULE MCSingle ------------------------------
(***************************************************************************)
(* A simulation without child threads (loop_single_thread) that begins in  *)
(* freeze, with a job that schedules itself, under freeze and run          *)
(* commands.                                                               *)
(***************************************************************************)
EXTENDS Executive, TLC

CONSTANTS m1, m2, integ, ev, adv, frz, inp

MCJob     == {m1, m2, integ, ev, adv, frz, inp}
MCQueue   == 0 :> <<ev, m1, m2, adv, frz, integ>>
MCNoChild == <<>>
MCCycle   == [j \in MCJob |-> IF j = m2 THEN 3 ELSE 2]
MCStart   == [j \in MCJob |-> IF j = m2 THEN 1 ELSE 0]
MCStop    == [j \in MCJob |-> IF j = m1 THEN 4 ELSE 100]
MCDepends == [j \in MCJob |-> <<>>]
==============================================================================
