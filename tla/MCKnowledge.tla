---------------------------- MODULE MCKnowledge ----------------------------
(***************************************************************************)
(* Two tickets in the pipeline and a bad rating about a topic with a known *)
(* gap and no document yet.                                                *)
(***************************************************************************)
EXTENDS Knowledge

CONSTANTS r1, r2, bad, old

Two_Request == {r1, r2}
One_Rating  == {bad}
No_Seed     == {}
One_Gap     == {old}
=============================================================================
