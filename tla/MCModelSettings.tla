-------------------------- MODULE MCModelSettings --------------------------
(***************************************************************************)
(* Two providers, one model with a family and one without, for TLC.        *)
(***************************************************************************)
EXTENDS ModelSettings, TLC

CONSTANTS deepseek, kimi, chat, other, ds, nofamily, nomodel, k1, k2

Two_Provider == {deepseek, kimi}
Two_Model    == {chat, other}
One_Family   == {ds}
MCFamilyOf   == chat :> ds @@ other :> nofamily
MCAdapterOf  == ds :> "openai"
MCRoleModel  == [r \in Role |-> IF r = "classifier" THEN other ELSE nomodel]
Two_Key      == {k1, k2}
Alike        == Permutations({deepseek, kimi}) \cup Permutations({k1, k2})
=============================================================================
