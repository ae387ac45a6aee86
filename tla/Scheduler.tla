----------------------------- MODULE Scheduler -----------------------------
(***************************************************************************)
(* The scheduler: a table of tasks kept in memory and in one JSON file, a  *)
(* thread that looks for due tasks every few seconds, and the event loop   *)
(* that runs them.                                                         *)
(*                                                                         *)
(* The table is guarded by a lock.  The loop thread adds, removes and      *)
(* updates tasks and rewrites the file while it holds the lock; the        *)
(* checking thread takes the lock to collect what is due.  Writing the     *)
(* file truncates it first, so a crash or an error in between leaves a     *)
(* file that does not parse.                                               *)
(***************************************************************************)
EXTENDS Naturals, FiniteSets

CONSTANTS
  Task,          \* task identifiers
  Kind,          \* the type of each task, see Kinds
  Thread,        \* checking threads that can be alive at once
  MaxInFlight    \* bound: executions of one task under way

\* A once task has an instant ("onceAt", ISO time) or a delay ("onceIn", +5m).
Kinds == {"onceAt", "onceIn", "interval", "cron"}

ASSUME SchedulerAssumption ==
  /\ Kind \in [Task -> Kinds]
  /\ MaxInFlight \in Nat \ {0}

\* What next_run says of a task: no task, no time, a time to come, a time past.
NextRun == {"absent", "never", "later", "due"}
Table   == [Task -> NextRun]
Empty   == [t \in Task |-> "absent"]

\* A file that does not parse is read as an empty table.
Torn == [whole |-> FALSE, table |-> Empty]

VARIABLES
  tasks,       \* _tasks
  file,        \* scheduler_tasks.json: a table, or torn
  saving,      \* the save under way and the task it is for
  saveFailed,  \* history: the file does not hold the table, a save has failed
  running,     \* _running
  threads,     \* state of each checking thread
  queued,      \* executions handed to the event loop, not begun
  executing    \* executions that await the callback

schedulerVars == <<tasks, file, saving, saveFailed, running, threads, queued, executing>>

\* "store" is the save of add or remove; "update" the one after an execution;
\* "failed" is such an update whose save has raised; "handler" the update made by
\* the handler of an execution that raised.
Save == {"none", "store", "update", "failed", "handler"}
Idle == [why |-> "none"]

SchedulerTypeOK ==
  /\ tasks \in Table
  /\ file \in [whole : BOOLEAN, table : Table]
  /\ saving \in {Idle} \cup [why : Save \ {"none"}, task : Task]
  /\ saveFailed \in BOOLEAN
  /\ running \in BOOLEAN
  /\ threads \in [Thread -> {"dead", "checking", "asleep"}]
  /\ queued \in [Task -> 0 .. MaxInFlight]
  /\ executing \in [Task -> 0 .. MaxInFlight]

SchedulerInit ==
  /\ tasks = Empty
  /\ file = [whole |-> TRUE, table |-> Empty]
  /\ saving = Idle
  /\ saveFailed = FALSE
  /\ running = FALSE
  /\ threads = [th \in Thread |-> "dead"]
  /\ queued = [t \in Task |-> 0]
  /\ executing = [t \in Task |-> 0]

\* The loop thread is inside the store, holding its lock.
LoopBusy == saving # Idle

-----------------------------------------------------------------------------
(***************************************************************************)
(* TaskStore.                                                              *)
(***************************************************************************)

\* compute_next_run for a task that is added.  A task handed to the store
\* directly, as in the service's usage example, has no time at all.
FirstRun(t) ==
  {"never"} \cup CASE Kind[t] = "onceAt" -> {"later", "due"}
                   [] Kind[t] = "cron"   -> {}
                   [] OTHER              -> {"later"}

\* compute_next_run after an execution: the instant of a once task stays what it
\* was, a delay and an interval start again from now.
RunAgain(t, next) ==
  CASE Kind[t] = "onceAt" -> {next}
    [] Kind[t] = "cron"   -> {"never"}
    [] OTHER              -> {"later"}

\* The table becomes T in memory and the file is opened for writing, which empties
\* it; or it cannot be opened, which raises.
Rewrite(T, why, t) ==
  /\ tasks' = T
  /\ \/ /\ file' = Torn
        /\ saving' = [why |-> why, task |-> t]
        /\ UNCHANGED saveFailed
     \/ /\ saving' = IF why = "update" THEN [why |-> "failed", task |-> t] ELSE Idle
        /\ saveFailed' = TRUE
        /\ UNCHANGED file

AddTask(t) ==
  /\ ~LoopBusy
  /\ tasks[t] = "absent"
  /\ \E next \in FirstRun(t) : Rewrite([tasks EXCEPT ![t] = next], "store", t)
  /\ UNCHANGED <<running, threads, queued, executing>>

\* Planted fault: the task is removed from memory only.
RemoveTask_Unsaved(t) ==
  /\ ~LoopBusy
  /\ tasks[t] # "absent"
  /\ tasks' = [tasks EXCEPT ![t] = "absent"]
  /\ UNCHANGED <<file, saving, saveFailed, running, threads, queued, executing>>

RemoveTask(t) ==
  /\ ~LoopBusy
  /\ tasks[t] # "absent"
  /\ Rewrite([tasks EXCEPT ![t] = "absent"], "store", t)
  /\ UNCHANGED <<running, threads, queued, executing>>

\* Planted fault: the task that was executed is stored, not the one in the table.
UpdateAfterRun_Reinserts(t, why) ==
  \E next \in RunAgain(t, "due") : Rewrite([tasks EXCEPT ![t] = next], why, t)

\* update_after_run: nothing is left of a task removed meanwhile.
UpdateAfterRun(t, why) ==
  IF tasks[t] = "absent"
    THEN saving' = Idle /\ UNCHANGED <<tasks, file, saveFailed>>
    ELSE \E next \in RunAgain(t, tasks[t]) : Rewrite([tasks EXCEPT ![t] = next], why, t)

\* The file is written to its end and the lock released.
SaveEnds ==
  /\ saving.why \in {"store", "update", "handler"}
  /\ file' = [whole |-> TRUE, table |-> tasks]
  /\ saving' = Idle
  /\ saveFailed' = FALSE
  /\ UNCHANGED <<tasks, running, threads, queued, executing>>

\* Writing raises half way.  The exception of add and remove goes to their
\* caller; the one of an update is caught by the execution.
SaveBreaks ==
  /\ saving.why \in {"store", "update", "handler"}
  /\ saving' = IF saving.why = "update" THEN [saving EXCEPT !.why = "failed"] ELSE Idle
  /\ saveFailed' = TRUE
  /\ UNCHANGED <<tasks, file, running, threads, queued, executing>>

\* Time passes: the next run of a task has come.  The file holds the same time or,
\* when it could not be written, an earlier one.
Elapse(t) ==
  /\ tasks[t] = "later"
  /\ tasks' = [tasks EXCEPT ![t] = "due"]
  /\ file' = [file EXCEPT !.table[t] = IF @ = "later" THEN "due" ELSE @]
  /\ UNCHANGED <<saving, saveFailed, running, threads, queued, executing>>

-----------------------------------------------------------------------------
(***************************************************************************)
(* SchedulerService.                                                       *)
(***************************************************************************)

\* A second start of a running service is refused.
Start ==
  /\ ~LoopBusy
  /\ ~running
  /\ running' = TRUE
  /\ \E th \in Thread :
       /\ threads[th] = "dead"
       /\ threads' = [threads EXCEPT ![th] = "checking"]
  /\ UNCHANGED <<tasks, file, saving, saveFailed, queued, executing>>

\* The flag is cleared and the thread is waited for, but not beyond five seconds:
\* it may still be alive afterwards.
Stop ==
  /\ ~LoopBusy
  /\ running
  /\ running' = FALSE
  /\ UNCHANGED <<tasks, file, saving, saveFailed, threads, queued, executing>>

\* get_due passes over a task that is not enabled; nothing disables one.
Due == {t \in Task : tasks[t] = "due" \/ (tasks[t] # "absent" /\ Kind[t] = "cron")}

\* Every due task is handed to the event loop, whether or not an execution of it
\* is under way.
Check(th) ==
  /\ threads[th] = "checking"
  /\ ~LoopBusy
  /\ \A t \in Due : queued[t] + executing[t] < MaxInFlight
  /\ queued' = [t \in Task |-> queued[t] + IF t \in Due THEN 1 ELSE 0]
  /\ threads' = [threads EXCEPT ![th] = "asleep"]
  /\ UNCHANGED <<tasks, file, saving, saveFailed, running, executing>>

\* Planted fault: the flag is not looked at again.
Wake_Unchecked(th) ==
  /\ threads[th] = "asleep"
  /\ threads' = [threads EXCEPT ![th] = "checking"]
  /\ UNCHANGED <<tasks, file, saving, saveFailed, running, queued, executing>>

Wake(th) ==
  /\ threads[th] = "asleep"
  /\ threads' = [threads EXCEPT ![th] = IF running THEN "checking" ELSE "dead"]
  /\ UNCHANGED <<tasks, file, saving, saveFailed, running, queued, executing>>

\* The event loop begins an execution, which awaits the callback.
Begin(t) ==
  /\ ~LoopBusy
  /\ queued[t] > 0
  /\ queued' = [queued EXCEPT ![t] = @ - 1]
  /\ executing' = [executing EXCEPT ![t] = @ + 1]
  /\ UNCHANGED <<tasks, file, saving, saveFailed, running, threads>>

\* Planted fault: a callback that raises leaves the task as it was.
Complete_OnSuccess(t) ==
  /\ ~LoopBusy
  /\ executing[t] > 0
  /\ executing' = [executing EXCEPT ![t] = @ - 1]
  /\ \/ UpdateAfterRun(t, "update")
     \/ UNCHANGED <<tasks, file, saving, saveFailed>>
  /\ UNCHANGED <<running, threads, queued>>

\* The callback returns or raises: the task is updated in both cases.
Complete(t) ==
  /\ ~LoopBusy
  /\ executing[t] > 0
  /\ executing' = [executing EXCEPT ![t] = @ - 1]
  /\ \E why \in {"update", "handler"} : UpdateAfterRun(t, why)
  /\ UNCHANGED <<running, threads, queued>>

\* The save of the update raised inside the execution, whose handler updates the
\* task a second time.
Retry ==
  /\ saving.why = "failed"
  /\ UpdateAfterRun(saving.task, "handler")
  /\ UNCHANGED <<running, threads, queued, executing>>

\* The process dies at any moment and a new one loads the file.  A file that does
\* not parse is an empty table.
Restart ==
  /\ tasks' = file.table
  /\ saving' = Idle
  /\ saveFailed' = ~file.whole
  /\ running' = FALSE
  /\ threads' = [th \in Thread |-> "dead"]
  /\ queued' = [t \in Task |-> 0]
  /\ executing' = [t \in Task |-> 0]
  /\ UNCHANGED file

SchedulerNext ==
  \/ \E t \in Task : AddTask(t) \/ RemoveTask(t) \/ Elapse(t) \/ Begin(t) \/ Complete(t)
  \/ \E th \in Thread : Check(th) \/ Wake(th)
  \/ SaveEnds \/ SaveBreaks \/ Retry
  \/ Start \/ Stop \/ Restart

SchedulerSpec == SchedulerInit /\ [][SchedulerNext]_schedulerVars

\* The threads and the event loop run, files are written to an end or an error,
\* and callbacks return or raise (the application gives the service none).
Fairness ==
  /\ \A th \in Thread : SF_schedulerVars(Check(th)) /\ WF_schedulerVars(Wake(th))
  /\ \A t \in Task : SF_schedulerVars(Begin(t)) /\ SF_schedulerVars(Complete(t))
  /\ WF_schedulerVars(SaveEnds \/ SaveBreaks) /\ WF_schedulerVars(Retry)

FairSchedulerSpec == SchedulerSpec /\ Fairness

-----------------------------------------------------------------------------
(***************************************************************************)
(* Properties.                                                             *)
(***************************************************************************)

\* Between two operations the file holds exactly the table in memory, unless a save
\* has failed: no add, removal or execution changes one without the other.
FileFollows == ~LoopBusy /\ ~saveFailed => file = [whole |-> TRUE, table |-> tasks]

\* A task that was removed comes back only when it is added again: not by an
\* execution that was under way, nor by a restart, unless a save failed.
RemovedStaysRemoved ==
  [][ \A t \in Task :
        tasks[t] = "absent" /\ tasks'[t] # "absent" => AddTask(t) \/ saveFailed ]_schedulerVars

\* Tasks whose time starts again after each execution.
Recurring == {t \in Task : Kind[t] \in {"interval", "onceIn"}}

\* A recurring task that is due is executed, or the service stops.
DueIsRun ==
  \A t \in Recurring : tasks[t] = "due" /\ running ~> tasks[t] # "due" \/ ~running

\* The checking threads of a stopped service end, unless it is started again.
StopEndsThreads ==
  ~running ~> running \/ \A th \in Thread : threads[th] = "dead"

=============================================================================
