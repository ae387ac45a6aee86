--------------------------- MODULE MCVectorIndex ---------------------------
(***************************************************************************)
(* Two documents, a category and the collection without one, two worker    *)
(* tasks (of which the second must never run beside the first), for TLC.   *)
(***************************************************************************)
EXTENDS VectorIndex

CONSTANTS d1, d2, it, general, w1, w2
Two_Doc == {d1, d2}
One_Category == {it}
Two_Worker == {w1, w2}
=============================================================================
