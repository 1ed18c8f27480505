----------------------------- MODULE MCReconfig -----------------------------
(***************************************************************************)
(* A master with an AMF thread that is turned off and on while the cycles  *)
(* of jobs are changed.                                                    *)
(***************************************************************************)
EXTENDS Executive, TLC

CONSTANTS m1, a1, adv, frz, inp

MCJob       == {m1, a1, adv, frz, inp}
MCQueue     == (0 :> <<m1, adv, frz>>) @@ (1 :> <<a1>>)
MCType      == <<"AMF">>
MCAmfCycle  == <<4>>
MCTrigger   == <<"TT_MUTEX">>
MCAsyncWait == <<FALSE>>
MCCycle     == [j \in MCJob |-> 2]
MCStart     == [j \in MCJob |-> 0]
MCStop      == [j \in MCJob |-> 100]
MCDepends   == [j \in MCJob |-> <<>>]
=============================================================================
