----------------------------- MODULE MCMcpLink -----------------------------
(***************************************************************************)
(* Two coroutines that connect, one that updates a ticket, for TLC.        *)
(***************************************************************************)
EXTENDS McpLink, TLC

CONSTANTS k1, k2, t1, tk

Two_Connects == {k1, k2}
One_Caller   == {t1}
One_Ticket   == {tk}
MCToolOf     == t1 :> [tool |-> "update_ticket", ticket |-> tk, field |-> "assignee"]
Alike        == Permutations({k1, k2})
=============================================================================
