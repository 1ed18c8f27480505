---------------------------- MODULE MCDataRecord ----------------------------
(***************************************************************************)
(* A data record group with a small buffer, for TLC.                       *)
(***************************************************************************)
EXTENDS DataRecord

MCFreqs       == {"DR_Always", "DR_Changes", "DR_Changes_Step"}
MCBufferTypes == {"DR_Buffer", "DR_No_Buffer", "DR_Ring_Buffer"}
MCRates       == {2, 3}
MCAlways      == {"DR_Always"}
MCThread      == {"DR_Buffer"}
==============================================================================
