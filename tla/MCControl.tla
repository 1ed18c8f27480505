------------------------------ MODULE MCControl ------------------------------
(***************************************************************************)
(* A master with one scheduled thread, under the commands of the users.    *)
(***************************************************************************)
EXTENDS Executive, TLC

CONSTANTS m1, integ, s1, adv, frz, inp

MCJob       == {m1, integ, s1, adv, frz, inp}
MCQueue     == (0 :> <<m1, adv, frz, integ>>) @@ (1 :> <<s1>>)
MCType      == <<"SCHEDULED">>
MCAmfCycle  == <<0>>
MCTrigger   == <<"TT_FLAG">>
MCAsyncWait == <<FALSE>>
MCCycle     == [j \in MCJob |-> IF j = s1 THEN 3 ELSE 2]
MCStart     == [j \in MCJob |-> 0]
MCStop      == [j \in MCJob |-> 100]
MCDepends   == [j \in MCJob |-> <<>>]
==============================================================================
