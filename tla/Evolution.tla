----------------------------- MODULE Evolution -----------------------------
(***************************************************************************)
(* Self-evolution: a bad rating starts a thread that lets a review agent   *)
(* look at the ticket and adds what it learns to MEMORY.md.                *)
(*                                                                         *)
(* Every bad rating has a thread with an event loop of its own, so the     *)
(* threads interleave at every file operation.  The content of a file is   *)
(* the set of entries in it; the review of ticket t, when it decides to    *)
(* learn something, contributes the entry t.  A file is read, copied or    *)
(* written in one step; the rename and the write of one save are two.      *)
(***************************************************************************)
EXTENDS Naturals, FiniteSets, Sequences

CONSTANTS Tickets,        \* the finished tickets users may rate
          MaxConcurrent,  \* evolutions allowed at once
          OldMemory,      \* entries of MEMORY.md at the start, or NoFile
          NoFile,         \* stands for a MEMORY.md that does not exist
          MaxErrors,      \* bound: file operations that fail
          MaxCrashes      \* bound: crashes of the process

\* load_memory: a file that is not there reads as an empty memory.
Content(file) == IF file = NoFile THEN {} ELSE file

Entries == Tickets \cup Content(OldMemory)
Contents == (SUBSET Entries) \cup {NoFile}

ASSUME EvolutionAssumption ==
  /\ IsFiniteSet(Tickets)
  /\ \A known \in SUBSET Entries : known # NoFile
  /\ MaxConcurrent \in Nat \ {0}
  /\ MaxErrors \in Nat
  /\ MaxCrashes \in Nat

VARIABLES memory,    \* MEMORY.md
          baks,      \* the MEMORY.md.bak.<second> files, oldest first
          snapshot,  \* per ticket, MEMORY.md in the snapshot its evolution took
          logged,    \* tickets whose update evolution.jsonl records
          active,    \* _active_count
          step,      \* per ticket, where the thread of its rating is
          base,      \* per ticket, what load_memory returned to its thread
          met,       \* history: tickets whose evolution overlapped another one
          errors, crashes

vars == <<memory, baks, snapshot, logged, active, step, base, met, errors, crashes>>
files == <<memory, baks, snapshot, logged>>

\* Steps at which a thread holds a slot, and those from its read of MEMORY.md on.
Holding == {"reviewing", "snapshotting", "saving", "writing", "logging", "failing"}
Evolving == Holding \cup {"loaded"}

Holders == {t \in Tickets : step[t] \in Holding}

Init ==
  /\ memory = OldMemory
  /\ baks = <<>>
  /\ snapshot = [t \in Tickets |-> NoFile]
  /\ logged = {}
  /\ active = 0
  /\ step = [t \in Tickets |-> "unrated"]
  /\ base = [t \in Tickets |-> {}]
  /\ met = {}
  /\ errors = 0
  /\ crashes = 0

\* _release_slot, in the finally clause of try_evolve.
End(t, how) ==
  /\ active' = IF active = 0 THEN 0 ELSE active - 1
  /\ step' = [step EXCEPT ![t] = how]

Goto(t, s) == step' = [step EXCEPT ![t] = s] /\ UNCHANGED active

-----------------------------------------------------------------------------
(* Faults the runs must be able to see. *)

\* The limit is compared with one slot too many.
Acquire_OffByOne(t) ==
  /\ step[t] = "loaded"
  /\ IF active <= MaxConcurrent
       THEN active' = active + 1 /\ step' = [step EXCEPT ![t] = "reviewing"]
       ELSE UNCHANGED active /\ step' = [step EXCEPT ![t] = "settled"]
  /\ UNCHANGED <<files, base, met, errors, crashes>>

\* The handler of a failure returns without releasing the slot.
Rollback_Leaks(t) ==
  /\ step[t] = "failing"
  /\ memory' = IF snapshot[t] = NoFile THEN memory ELSE snapshot[t]
  /\ Goto(t, "settled")
  /\ UNCHANGED <<baks, snapshot, logged, base, met, errors, crashes>>

\* The handler of a failure only logs it.
Rollback_None(t) ==
  /\ step[t] = "failing"
  /\ End(t, "settled")
  /\ UNCHANGED <<files, base, met, errors, crashes>>

\* A backup that exists for this second is kept and the old file dropped.
Rename_FirstBackup(t) ==
  /\ step[t] = "saving"
  /\ memory' = NoFile
  /\ IF memory = NoFile
       THEN UNCHANGED baks
       ELSE baks' = Append(baks, memory) \/ (baks # <<>> /\ UNCHANGED baks)
  /\ Goto(t, "writing")
  /\ UNCHANGED <<snapshot, logged, base, met, errors, crashes>>

-----------------------------------------------------------------------------
\* submit_feedback: a second rating of a ticket is refused; only a low one
\* starts the thread.
Rate(t) ==
  /\ step[t] = "unrated"
  /\ \E low \in BOOLEAN : step' = [step EXCEPT ![t] = IF low THEN "rated" ELSE "settled"]
  /\ UNCHANGED <<files, active, base, met, errors, crashes>>

\* The thread reads MEMORY.md before it asks for a slot.
Load(t) ==
  /\ step[t] = "rated"
  /\ step' = [step EXCEPT ![t] = "loaded"]
  /\ base' = [base EXCEPT ![t] = Content(memory)]
  /\ LET others == {u \in Tickets : step[u] \in Evolving} IN
       met' = IF others = {} THEN met ELSE met \cup others \cup {t}
  /\ UNCHANGED <<files, active, errors, crashes>>

\* _acquire_slot: over the limit the evolution is given up for good.
Acquire(t) ==
  /\ step[t] = "loaded"
  /\ IF active < MaxConcurrent
       THEN active' = active + 1 /\ step' = [step EXCEPT ![t] = "reviewing"]
       ELSE UNCHANGED active /\ step' = [step EXCEPT ![t] = "settled"]
  /\ UNCHANGED <<files, base, met, errors, crashes>>

\* The review agent answers: it has learnt something, or it is silent, or the
\* call failed, which ends the evolution like silence (no snapshot yet).
Review(t) ==
  /\ step[t] = "reviewing"
  /\ Goto(t, "snapshotting") \/ End(t, "settled")
  /\ UNCHANGED <<files, base, met, errors, crashes>>

\* create_snapshot; a review without new entries ends after it.
Snapshot(t) ==
  /\ step[t] = "snapshotting"
  /\ snapshot' = [snapshot EXCEPT ![t] = memory]
  /\ Goto(t, "saving") \/ End(t, "settled")
  /\ UNCHANGED <<memory, baks, logged, base, met, errors, crashes>>

\* save_memory renames the file to a backup named after the current second:
\* in the same second as the last backup it replaces that one.
Rename(t) ==
  /\ step[t] = "saving"
  /\ memory' = NoFile
  /\ IF memory = NoFile
       THEN UNCHANGED baks
       ELSE \/ baks' = Append(baks, memory)
            \/ baks # <<>> /\ baks' = [baks EXCEPT ![Len(baks)] = memory]
  /\ Goto(t, "writing")
  /\ UNCHANGED <<snapshot, logged, base, met, errors, crashes>>

\* ... and writes what the thread read, with the new entries.
Write(t) ==
  /\ step[t] = "writing"
  /\ memory' = base[t] \cup {t}
  /\ Goto(t, "logging")
  /\ UNCHANGED <<baks, snapshot, logged, base, met, errors, crashes>>

Log(t) ==
  /\ step[t] = "logging"
  /\ logged' = logged \cup {t}
  /\ End(t, "settled")
  /\ UNCHANGED <<memory, baks, snapshot, base, met, errors, crashes>>

\* A file operation raises.  Before create_snapshot has returned there is
\* nothing to roll back to; a write that fails leaves an empty file.
Raise(t) ==
  /\ step[t] \in {"snapshotting", "saving", "writing", "logging"}
  /\ errors < MaxErrors
  /\ errors' = errors + 1
  /\ memory' = IF step[t] = "writing" THEN {} ELSE memory
  /\ IF step[t] = "snapshotting" THEN End(t, "settled") ELSE Goto(t, "failing")
  /\ UNCHANGED <<baks, snapshot, logged, base, met, crashes>>

\* The exception handler copies the snapshot back, if it holds a MEMORY.md.
Rollback(t) ==
  /\ step[t] = "failing"
  /\ memory' = IF snapshot[t] = NoFile THEN memory ELSE snapshot[t]
  /\ End(t, "settled")
  /\ UNCHANGED <<baks, snapshot, logged, base, met, errors, crashes>>

\* ... unless that copy fails too: the file is left alone or emptied.
RollbackFails(t) ==
  /\ step[t] = "failing"
  /\ errors < MaxErrors
  /\ errors' = errors + 1
  /\ memory' \in {memory, {}}
  /\ End(t, "unrestored")
  /\ UNCHANGED <<baks, snapshot, logged, base, met, crashes>>

\* A crash ends every thread; the ratings are in the database, and nothing
\* starts their evolutions again.
Crash ==
  /\ crashes < MaxCrashes
  /\ crashes' = crashes + 1
  /\ active' = 0
  /\ step' = [t \in Tickets |->
                IF step[t] \in Evolving \cup {"rated"} THEN "killed" ELSE step[t]]
  /\ UNCHANGED <<files, base, met, errors>>

Advance(t) ==
  \/ Load(t) \/ Acquire(t) \/ Review(t) \/ Snapshot(t) \/ Rename(t)
  \/ Write(t) \/ Log(t) \/ Rollback(t)

Next ==
  \/ \E t \in Tickets : Rate(t) \/ Advance(t) \/ Raise(t) \/ RollbackFails(t)
  \/ Crash

Spec == Init /\ [][Next]_vars

\* Every call a thread makes returns: file operations do, and the review's
\* request has a timeout.  Nobody has to rate a ticket.
FairSpec == Spec /\ \A t \in Tickets : WF_vars(Advance(t))

-----------------------------------------------------------------------------
Steps == {"unrated", "rated", "loaded", "settled", "unrestored", "killed"} \cup Holding

TypeOK ==
  /\ memory \in Contents
  /\ baks \in Seq(SUBSET Entries)
  /\ snapshot \in [Tickets -> Contents]
  /\ logged \subseteq Tickets
  /\ active \in Nat
  /\ step \in [Tickets -> Steps]
  /\ base \in [Tickets -> SUBSET Entries]
  /\ met \subseteq Tickets
  /\ errors \in 0..MaxErrors
  /\ crashes \in 0..MaxCrashes

\* The slots in use are exactly the evolutions in progress, through silence,
\* failures, failed rollbacks and crashes, and there are never more than
\* allowed: a slot that leaks would end self-evolution for good.
SlotsAccounted ==
  /\ active = Cardinality(Holders)
  /\ active <= MaxConcurrent

\* Nobody is between the rename of MEMORY.md and the end of its evolution.
Quiet == \A t \in Tickets : step[t] \notin {"writing", "logging", "failing"}

Undisturbed ==
  /\ OldMemory # NoFile
  /\ met = {}
  /\ crashes = 0
  /\ \A t \in Tickets : step[t] # "unrestored"

\* As long as no two evolutions overlap, no rollback fails and the process does
\* not crash, MEMORY.md is what it was at the start plus exactly the updates in
\* the audit log: successful evolutions build on each other and failed ones
\* leave nothing behind.
MemoryFollowsLog == Undisturbed /\ Quiet => memory = OldMemory \cup logged

\* Under the same conditions, at every step of a save, a failed one included:
\* MEMORY.md or the newest backup has all of it, so that a crash there loses
\* nothing a person could not put back.
BackupAtHand ==
  Undisturbed =>
    \/ OldMemory \cup logged \subseteq Content(memory)
    \/ baks # <<>> /\ OldMemory \cup logged \subseteq baks[Len(baks)]

\* When all slots are taken one becomes free: the limit skips evolutions for a
\* while, never for good.
FullIsTemporary == active = MaxConcurrent ~> active < MaxConcurrent

\* What the class says of itself, "thread safe": once no save is in progress,
\* MEMORY.md has every entry the audit log says was added to it.
UpdatesKept == Quiet /\ crashes = 0 => logged \subseteq Content(memory)

=============================================================================
