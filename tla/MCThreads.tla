------------------------------ MODULE MCThreads ------------------------------
(***************************************************************************)
(* A master with a scheduled thread and an AMF thread.                     *)
(***************************************************************************)
EXTENDS ExecutiveSync, TLC

CONSTANTS m1, m2, integ, s1, s2, a1, adv, frz, inp

MCJob       == {m1, m2, integ, s1, s2, a1, adv, frz, inp}
MCQueue     == (0 :> <<m1, m2, adv, frz, integ>>) @@ (1 :> <<s1, s2>>) @@ (2 :> <<a1>>)
MCType      == <<"SCHEDULED", "AMF">>
MCAmfCycle  == <<0, 5>>
MCTrigger   == <<"TT_MUTEX", "TT_EVENTFD">>
MCAsyncWait == <<FALSE, TRUE>>
MCCycle     == [j \in MCJob |-> CASE j = m1 -> 2 [] j = m2 -> 3 [] j = integ -> 2
                                  [] j = s1 -> 2 [] j = s2 -> 2 [] j = a1 -> 2 [] OTHER -> 1]
MCStart     == [j \in MCJob |-> 0]
MCStop      == [j \in MCJob |-> IF j = m2 THEN 3 ELSE 100]
MCDepends   == [j \in MCJob |-> CASE j = m1 -> <<s1>> [] j = s2 -> <<m1>> [] OTHER -> <<>>]
==============================================================================
