------------------------------- MODULE MCAsync -------------------------------
(***************************************************************************)
(* A master with two ASYNC threads: one with a cycle, one free running.    *)
(***************************************************************************)
EXTENDS Executive, TLC

CONSTANTS m1, e1, f1, f2, adv, frz, inp

MCJob       == {m1, e1, f1, f2, adv, frz, inp}
MCQueue     == (0 :> <<m1, adv, frz>>) @@ (1 :> <<e1, f1>>) @@ (2 :> <<f2>>)
MCType      == <<"ASYNC", "ASYNC">>
MCAmfCycle  == <<2, 0>>
MCTrigger   == <<"TT_FLAG", "TT_MUTEX">>
MCAsyncWait == <<TRUE, FALSE>>
MCCycle     == [j \in MCJob |-> IF j = m1 THEN 2 ELSE 1]
MCStart     == [j \in MCJob |-> 0]
MCStop      == [j \in MCJob |-> 100]
MCDepends   == [j \in MCJob |-> <<>>]
==============================================================================
