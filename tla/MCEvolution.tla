---------------------------- MODULE MCEvolution ----------------------------
(***************************************************************************)
(* Three bad ratings for two slots, and a MEMORY.md with one old entry.    *)
(***************************************************************************)
EXTENDS Evolution, TLC

CONSTANTS t1, t2, t3, rule

Two_Ticket   == {t1, t2}
Three_Ticket == {t1, t2, t3}
Old_Rule     == {rule}
Alike        == Permutations({t1, t2})
=============================================================================
