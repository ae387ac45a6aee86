---------------------------- MODULE MCScheduler ----------------------------
(***************************************************************************)
(* Two checking threads, a recurring task and one due at every check.     *)
(***************************************************************************)
EXTENDS Scheduler

CONSTANTS hourly, poll, a, b

Two_Task   == {hourly, poll}
Two_Thread == {a, b}
MCKind     == [t \in Task |-> IF t = hourly THEN "interval" ELSE "cron"]
=============================================================================
