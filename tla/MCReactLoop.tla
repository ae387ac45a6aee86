---------------------------- MODULE MCReactLoop ----------------------------
(***************************************************************************)
(* The classifier's turn of one request and the executor's of another, in  *)
(* one session.                                                            *)
(***************************************************************************)
EXTENDS ReactLoop, TLC

CONSTANTS exec, class, s1, status, search, update

Two_Turn     == {exec, class}
Exec_Only    == {exec}
One_Session  == {s1}
Same_Session == [t \in Turn |-> s1]
Read_Tool    == {status, search}
Write_Tool   == {update}
=============================================================================
