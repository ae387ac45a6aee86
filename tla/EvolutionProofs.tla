-------------------------- MODULE EvolutionProofs --------------------------
(***************************************************************************)
(* The work behind the requests: the slots of self-evolution and the       *)
(* memory of undisturbed evolutions, for any finite set of rated tickets,  *)
(* any limit and any old memory, and the task file of the scheduler, for   *)
(* any tasks, threads and executions.                                      *)
(*                                                                         *)
(* SlotInv counts: every step enters, keeps or leaves a slot.  MemoryInv   *)
(* says, while nothing disturbs, that at most one thread is between its    *)
(* read of MEMORY.md and its end, and what the files hold where it stands. *)
(* FileFollows speaks of the moments between two saves; FileInv says what  *)
(* a save of the tasks under way means for their file: it is torn, or the  *)
(* save has failed and the failure is on record.                           *)
(***************************************************************************)
EXTENDS Evolution, Scheduler, FiniteSetTheorems, TLAPS

-----------------------------------------------------------------------------
(***************************************************************************)
(* Slots.                                                                  *)
(***************************************************************************)

SlotInv ==
  /\ step \in [Tickets -> Steps]
  /\ active \in Nat
  /\ SlotsAccounted

LEMMA HoldersFinite ==
  /\ IsFiniteSet(Holders)
  /\ Cardinality(Holders) \in Nat
<1>1. IsFiniteSet(Holders)
  BY EvolutionAssumption, FS_Subset DEF Holders
<1> QED
  BY <1>1, FS_CardinalityType

LEMMA SlotTaken ==
  ASSUME SlotInv, NEW t \in Tickets, step[t] \notin Holding, NEW s \in Holding,
         step' = [step EXCEPT ![t] = s],
         active < MaxConcurrent, active' = active + 1
  PROVE  SlotInv'
<1>1. step' \in [Tickets -> Steps]
  BY DEF SlotInv, Steps
<1>2. Holders' = Holders \cup {t} /\ t \notin Holders
  BY DEF SlotInv, Holders
<1>3. Cardinality(Holders') = Cardinality(Holders) + 1
  BY <1>2, HoldersFinite, FS_AddElement
<1> QED
  BY <1>1, <1>3, EvolutionAssumption DEF SlotInv, SlotsAccounted

LEMMA SlotKept ==
  ASSUME SlotInv, NEW t \in Tickets, NEW s \in Steps,
         (step[t] \in Holding) <=> (s \in Holding),
         step' = [step EXCEPT ![t] = s], active' = active
  PROVE  SlotInv'
<1>1. step' \in [Tickets -> Steps]
  BY DEF SlotInv
<1>2. Holders' = Holders
  BY DEF SlotInv, Holders
<1> QED
  BY <1>1, <1>2 DEF SlotInv, SlotsAccounted

LEMMA SlotReleased ==
  ASSUME SlotInv, NEW t \in Tickets, step[t] \in Holding,
         NEW how \in {"settled", "unrestored"}, End(t, how)
  PROVE  SlotInv'
<1>1. step' \in [Tickets -> Steps]
  BY DEF SlotInv, Steps, End
<1>2. Holders' = Holders \ {t} /\ t \in Holders
  BY DEF SlotInv, Holders, End, Holding
<1>3. Cardinality(Holders') = Cardinality(Holders) - 1
  BY <1>2, HoldersFinite, FS_RemoveElement
<1>4. active # 0
  BY <1>2, HoldersFinite, FS_EmptySet DEF SlotInv, SlotsAccounted
<1> QED
  BY <1>1, <1>3, <1>4, EvolutionAssumption DEF SlotInv, SlotsAccounted, End

LEMMA SlotInit == Init => SlotInv
<1> SUFFICES ASSUME Init PROVE SlotInv
  OBVIOUS
<1>1. Holders = {} /\ step \in [Tickets -> Steps]
  BY DEF Init, Holders, Holding, Steps
<1> QED
  BY <1>1, FS_EmptySet, EvolutionAssumption DEF Init, SlotInv, SlotsAccounted

LEMMA SlotStep == SlotInv /\ [Next]_vars => SlotInv'
<1> SUFFICES ASSUME SlotInv, [Next]_vars PROVE SlotInv'
  OBVIOUS
<1>1. CASE UNCHANGED vars
  BY <1>1 DEF vars, SlotInv, SlotsAccounted, Holders
<1>2. ASSUME NEW t \in Tickets, Rate(t) \/ Load(t) PROVE SlotInv'
  BY <1>2, SlotKept DEF Rate, Load, Holding, Steps
<1>3. ASSUME NEW t \in Tickets, Acquire(t) PROVE SlotInv'
  <2>1. CASE active < MaxConcurrent
    BY <1>3, <2>1, SlotTaken DEF Acquire, Holding
  <2>2. CASE ~(active < MaxConcurrent)
    BY <1>3, <2>2, SlotKept DEF Acquire, Holding, Steps
  <2> QED
    BY <2>1, <2>2
<1>4. ASSUME NEW t \in Tickets, Review(t) \/ Snapshot(t) PROVE SlotInv'
  BY <1>4, SlotKept, SlotReleased DEF Review, Snapshot, Goto, Holding, Steps
<1>5. ASSUME NEW t \in Tickets, Rename(t) \/ Write(t) PROVE SlotInv'
  BY <1>5, SlotKept DEF Rename, Write, Goto, Holding, Steps
<1>6. ASSUME NEW t \in Tickets, Log(t) \/ Rollback(t) \/ RollbackFails(t) PROVE SlotInv'
  BY <1>6, SlotReleased DEF Log, Rollback, RollbackFails, Holding
<1>7. ASSUME NEW t \in Tickets, Raise(t) PROVE SlotInv'
  BY <1>7, SlotKept, SlotReleased DEF Raise, Goto, Holding, Steps
<1>8. CASE Crash
  <2>1. step' \in [Tickets -> Steps] /\ Holders' = {}
    BY <1>8 DEF Crash, SlotInv, Holders, Evolving, Holding, Steps
  <2> QED
    BY <1>8, <2>1, FS_EmptySet, EvolutionAssumption DEF Crash, SlotInv, SlotsAccounted
<1> QED
  BY <1>1, <1>2, <1>3, <1>4, <1>5, <1>6, <1>7, <1>8 DEF Next, Advance

\* On every path of every thread, failures, failed rollbacks and crashes included,
\* the slots in use are the evolutions in progress: none leaks, and the limit holds.
THEOREM NoSlotLeaks == Spec => []SlotsAccounted
  BY SlotInit, SlotStep, PTL DEF Spec, SlotInv

-----------------------------------------------------------------------------
(***************************************************************************)
(* The memory.                                                             *)
(***************************************************************************)

\* What MEMORY.md should hold.
Learnt == OldMemory \cup logged

NewestBackup == baks # <<>> /\ baks[Len(baks)] = Learnt

\* What the files hold where the thread of t stands.
FilesAt(t) ==
  /\ step[t] \in {"loaded", "reviewing", "snapshotting", "saving", "writing"} =>
       base[t] = Learnt
  /\ step[t] \in {"saving", "writing", "logging", "failing"} => snapshot[t] = Learnt
  /\ step[t] = "writing" => NewestBackup
  /\ step[t] = "logging" => memory = Learnt \cup {t} /\ NewestBackup
  /\ step[t] = "failing" => (memory # NoFile /\ Learnt \subseteq memory) \/ NewestBackup

FileTypes ==
  /\ memory \in Contents
  /\ baks \in Seq(SUBSET Entries)
  /\ snapshot \in [Tickets -> Contents]
  /\ base \in [Tickets -> SUBSET Entries]
  /\ logged \in SUBSET Tickets
  /\ step \in [Tickets -> Steps]
  /\ met \in SUBSET Tickets
  /\ crashes \in Nat

MemoryInv ==
  /\ FileTypes
  /\ Undisturbed =>
       /\ \A t, u \in Tickets : step[t] \in Evolving /\ step[u] \in Evolving => t = u
       /\ \A t \in Tickets : FilesAt(t)
       /\ Quiet => memory = Learnt

LEMMA LearntIsContent ==
  ASSUME OldMemory # NoFile, FileTypes
  PROVE  Learnt \in SUBSET Entries /\ Learnt # NoFile /\ Learnt \in Contents
  BY EvolutionAssumption DEF Learnt, Entries, Content, Contents, FileTypes

LEMMA MemoryInit == Init => MemoryInv
<1> SUFFICES ASSUME Init PROVE MemoryInv
  OBVIOUS
<1>1. memory \in Contents
  BY DEF Init, Contents, Entries, Content
<1>2. snapshot \in [Tickets -> Contents] /\ base \in [Tickets -> SUBSET Entries]
  BY DEF Init, Contents
<1>3. baks \in Seq(SUBSET Entries) /\ step \in [Tickets -> Steps]
  BY DEF Init, Steps
<1> QED
  BY <1>1, <1>2, <1>3 DEF Init, MemoryInv, FileTypes, FilesAt, Evolving, Holding, Quiet, Learnt

\* One thread moves while no other is in the middle of its evolution.
LEMMA AloneKeeps ==
  ASSUME MemoryInv, NEW t \in Tickets, NEW s \in Steps, FileTypes',
         step' = [step EXCEPT ![t] = s],
         Undisturbed' => /\ \A u \in Tickets \ {t} : step[u] \notin Evolving
                         /\ FilesAt(t)'
                         /\ s \notin {"writing", "logging", "failing"} => memory' = Learnt'
  PROVE  MemoryInv'
<1> SUFFICES ASSUME Undisturbed'
             PROVE  /\ \A u, v \in Tickets : step'[u] \in Evolving /\ step'[v] \in Evolving => u = v
                    /\ \A u \in Tickets : FilesAt(u)'
                    /\ Quiet' => memory' = Learnt'
  BY DEF MemoryInv
<1>1. \A u \in Tickets \ {t} : step'[u] = step[u] /\ step'[u] \notin Evolving
  BY DEF MemoryInv, FileTypes
<1>2. step'[t] = s
  BY DEF MemoryInv, FileTypes
<1>3. ASSUME NEW u \in Tickets PROVE FilesAt(u)'
  <2>1. CASE u = t
    BY <2>1
  <2>2. CASE u # t
    BY <1>1, <2>2 DEF FilesAt, Evolving, Holding
  <2> QED
    BY <2>1, <2>2
<1>4. Quiet' => memory' = Learnt'
  BY <1>2 DEF Quiet
<1> QED
  BY <1>1, <1>3, <1>4

\* Disturbances stay.
LEMMA StillUndisturbed ==
  ASSUME FileTypes, NEW t \in Tickets, NEW s, step[t] # "unrestored",
         step' = [step EXCEPT ![t] = s],
         met \subseteq met', crashes' = crashes, Undisturbed'
  PROVE  Undisturbed
<1>1. \A u \in Tickets \ {t} : step'[u] = step[u]
  BY DEF FileTypes
<1> QED
  BY <1>1 DEF Undisturbed

\* A thread in the middle of an undisturbed evolution is the only one.
LEMMA Alone ==
  ASSUME MemoryInv, NEW t \in Tickets, step[t] \in Evolving, Undisturbed
  PROVE  /\ \A u \in Tickets \ {t} : step[u] \notin Evolving
         /\ FilesAt(t)
         /\ step[t] \notin {"writing", "logging", "failing"} => memory = Learnt
  BY DEF MemoryInv, Quiet, Evolving, Holding

LEMMA MemoryStep == MemoryInv /\ [Next]_vars => MemoryInv'
<1> SUFFICES ASSUME MemoryInv, [Next]_vars PROVE MemoryInv'
  OBVIOUS
<1>0. FileTypes
  BY DEF MemoryInv
<1> USE DEF files
<1>1. CASE UNCHANGED vars
  BY <1>1 DEF vars, MemoryInv, FileTypes, Undisturbed, FilesAt, Quiet, Learnt, NewestBackup
<1>2. ASSUME NEW t \in Tickets, Rate(t) PROVE MemoryInv'
  <2>1. PICK s \in {"rated", "settled"} : step' = [step EXCEPT ![t] = s]
    BY <1>2 DEF Rate
  <2>2. FileTypes'
    BY <1>0, <1>2, <2>1 DEF Rate, FileTypes, Steps
  <2>3. \A u \in Tickets : step'[u] = step[u] \/ (step[u] = "unrated" /\ step'[u] = s)
    BY <1>0, <1>2, <2>1 DEF Rate, FileTypes
  <2>4. Undisturbed' => Undisturbed
    BY <1>0, <1>2, <2>1, StillUndisturbed DEF Rate
  <2>5. Quiet' => Quiet
    BY <2>3 DEF Quiet
  <2>6. ASSUME NEW u \in Tickets PROVE FilesAt(u) => FilesAt(u)'
    BY <1>2, <2>1, <2>3 DEF Rate, FilesAt, Learnt, NewestBackup
  <2>7. \A u \in Tickets : step'[u] \in Evolving => step[u] \in Evolving
    BY <2>1, <2>3 DEF Evolving, Holding
  <2>8. memory' = memory /\ Learnt' = Learnt
    BY <1>2 DEF Rate, Learnt
  <2> QED
    BY <2>2, <2>4, <2>5, <2>6, <2>7, <2>8 DEF MemoryInv
<1>3. ASSUME NEW t \in Tickets, Load(t) PROVE MemoryInv'
  <2>1. FileTypes'
    <3>1. Content(memory) \in SUBSET Entries
      BY <1>0 DEF FileTypes, Content, Contents
    <3>2. met' \in SUBSET Tickets
      BY <1>0, <1>3 DEF Load, FileTypes
    <3> QED
      BY <1>0, <1>3, <3>1, <3>2 DEF Load, FileTypes, Steps, Evolving, Holding
  <2>2. step' = [step EXCEPT ![t] = "loaded"] /\ step[t] = "rated" /\ UNCHANGED files
    BY <1>3 DEF Load
  <2>3. ASSUME Undisturbed' PROVE Undisturbed /\ \A u \in Tickets : step[u] \notin Evolving
    <3>1. {u \in Tickets : step[u] \in Evolving} = {}
      BY <1>3, <2>3 DEF Load, Undisturbed
    <3>2. Undisturbed
      BY <1>0, <1>3, <2>2, <2>3, StillUndisturbed DEF Load
    <3> QED
      BY <3>1, <3>2
  <2>4. ASSUME Undisturbed' PROVE memory = Learnt /\ FilesAt(t)'
    <3>1. Quiet
      BY <2>3, <2>4 DEF Quiet, Evolving, Holding
    <3>2. memory = Learnt
      BY <2>3, <2>4, <3>1 DEF MemoryInv
    <3>3. Content(memory) = Learnt
      BY <1>0, <2>4, <3>2, LearntIsContent DEF Content, Undisturbed
    <3>4. base'[t] = Learnt' /\ step'[t] = "loaded"
      BY <1>0, <1>3, <3>3 DEF Load, FileTypes, Learnt
    <3> QED
      BY <3>2, <3>4 DEF FilesAt
  <2> QED
    BY <2>1, <2>2, <2>3, <2>4, AloneKeeps DEF Steps, Learnt
<1>4. ASSUME NEW t \in Tickets, Acquire(t) PROVE MemoryInv'
  <2>1. PICK s \in {"reviewing", "settled"} : step' = [step EXCEPT ![t] = s]
    BY <1>4 DEF Acquire
  <2>2. step[t] = "loaded" /\ UNCHANGED <<files, base, met, crashes>>
    BY <1>4 DEF Acquire
  <2>3. FileTypes' /\ step'[t] = s
    BY <1>0, <2>1, <2>2 DEF FileTypes, Steps, Holding
  <2>4. ASSUME Undisturbed'
        PROVE  /\ \A u \in Tickets \ {t} : step[u] \notin Evolving
               /\ memory = Learnt /\ FilesAt(t)'
    <3>1. Undisturbed
      BY <1>0, <2>1, <2>2, <2>4, StillUndisturbed
    <3> QED
      BY <2>1, <2>2, <2>3, <3>1, Alone DEF Evolving, FilesAt, Learnt
  <2> QED
    BY <2>1, <2>2, <2>3, <2>4, AloneKeeps DEF Steps, Holding, Learnt
<1>5. ASSUME NEW t \in Tickets, Review(t) PROVE MemoryInv'
  <2>1. PICK s \in {"snapshotting", "settled"} : step' = [step EXCEPT ![t] = s]
    BY <1>5 DEF Review, Goto, End
  <2>2. step[t] = "reviewing" /\ UNCHANGED <<files, base, met, crashes>>
    BY <1>5 DEF Review
  <2>3. FileTypes' /\ step'[t] = s
    BY <1>0, <2>1, <2>2 DEF FileTypes, Steps, Holding
  <2>4. ASSUME Undisturbed'
        PROVE  /\ \A u \in Tickets \ {t} : step[u] \notin Evolving
               /\ memory = Learnt /\ FilesAt(t)'
    <3>1. Undisturbed
      BY <1>0, <2>1, <2>2, <2>4, StillUndisturbed
    <3> QED
      BY <2>1, <2>2, <2>3, <3>1, Alone DEF Evolving, Holding, FilesAt, Learnt
  <2> QED
    BY <2>1, <2>2, <2>3, <2>4, AloneKeeps DEF Steps, Holding, Learnt
<1>6. ASSUME NEW t \in Tickets, Snapshot(t) PROVE MemoryInv'
  <2>1. PICK s \in {"saving", "settled"} : step' = [step EXCEPT ![t] = s]
    BY <1>6 DEF Snapshot, Goto, End
  <2>2. /\ step[t] = "snapshotting" /\ snapshot' = [snapshot EXCEPT ![t] = memory]
        /\ UNCHANGED <<memory, baks, logged, base, met, crashes>>
    BY <1>6 DEF Snapshot
  <2>3. FileTypes' /\ step'[t] = s /\ snapshot'[t] = memory
    BY <1>0, <2>1, <2>2 DEF FileTypes, Steps, Holding
  <2>4. ASSUME Undisturbed'
        PROVE  /\ \A u \in Tickets \ {t} : step[u] \notin Evolving
               /\ memory = Learnt /\ FilesAt(t)'
    <3>1. Undisturbed
      BY <1>0, <2>1, <2>2, <2>4, StillUndisturbed
    <3> QED
      BY <2>1, <2>2, <2>3, <3>1, Alone DEF Evolving, Holding, FilesAt, Learnt
  <2> QED
    BY <2>1, <2>2, <2>3, <2>4, AloneKeeps DEF Steps, Holding, Learnt
<1>7. ASSUME NEW t \in Tickets, Rename(t) PROVE MemoryInv'
  <2>1. step' = [step EXCEPT ![t] = "writing"] /\ step[t] = "saving"
    BY <1>7 DEF Rename, Goto
  <2>2. memory' = NoFile /\ UNCHANGED <<snapshot, logged, base, met, crashes>>
    BY <1>7 DEF Rename
  <2>3. memory = NoFile \/ memory \in SUBSET Entries
    BY <1>0 DEF FileTypes, Contents
  <2>4. /\ baks' \in Seq(SUBSET Entries)
        /\ memory # NoFile => baks' # <<>> /\ baks'[Len(baks')] = memory
    <3>1. CASE memory = NoFile
      BY <1>0, <1>7, <3>1 DEF Rename, FileTypes
    <3>2. CASE memory # NoFile /\ baks' = Append(baks, memory)
      BY <1>0, <2>3, <3>2 DEF FileTypes
    <3>3. CASE memory # NoFile /\ baks # <<>> /\ baks' = [baks EXCEPT ![Len(baks)] = memory]
      BY <1>0, <2>3, <3>3 DEF FileTypes
    <3> QED
      BY <1>7, <3>1, <3>2, <3>3 DEF Rename
  <2>5. FileTypes' /\ step'[t] = "writing"
    BY <1>0, <2>1, <2>2, <2>4 DEF FileTypes, Steps, Holding, Contents
  <2>6. ASSUME Undisturbed'
        PROVE  /\ \A u \in Tickets \ {t} : step[u] \notin Evolving
               /\ FilesAt(t)'
    <3>1. Undisturbed
      BY <1>0, <2>1, <2>2, <2>6, StillUndisturbed
    <3>2. /\ \A u \in Tickets \ {t} : step[u] \notin Evolving
          /\ FilesAt(t) /\ memory = Learnt
      BY <2>1, <3>1, Alone DEF Evolving, Holding
    <3>3. memory # NoFile
      BY <1>0, <3>1, <3>2, LearntIsContent DEF Undisturbed
    <3> QED
      BY <2>1, <2>2, <2>4, <2>5, <3>2, <3>3 DEF FilesAt, Learnt, NewestBackup
  <2> QED
    BY <2>1, <2>5, <2>6, AloneKeeps DEF Steps, Holding
<1>8. ASSUME NEW t \in Tickets, Write(t) PROVE MemoryInv'
  <2>1. step' = [step EXCEPT ![t] = "logging"] /\ step[t] = "writing"
    BY <1>8 DEF Write, Goto
  <2>2. memory' = base[t] \cup {t} /\ UNCHANGED <<baks, snapshot, logged, base, met, crashes>>
    BY <1>8 DEF Write
  <2>3. FileTypes' /\ step'[t] = "logging"
    <3>1. memory' \in SUBSET Entries
      BY <1>0, <2>2 DEF FileTypes, Entries
    <3> QED
      BY <1>0, <2>1, <2>2, <3>1 DEF FileTypes, Steps, Holding, Contents
  <2>4. ASSUME Undisturbed'
        PROVE  /\ \A u \in Tickets \ {t} : step[u] \notin Evolving
               /\ FilesAt(t)'
    <3>1. Undisturbed
      BY <1>0, <2>1, <2>2, <2>4, StillUndisturbed
    <3>2. \A u \in Tickets \ {t} : step[u] \notin Evolving /\ FilesAt(t)
      BY <2>1, <3>1, Alone DEF Evolving, Holding
    <3> QED
      BY <2>1, <2>2, <2>3, <3>1, <3>2, Alone DEF FilesAt, Learnt, NewestBackup, Evolving, Holding
  <2> QED
    BY <2>1, <2>3, <2>4, AloneKeeps DEF Steps, Holding
<1>9. ASSUME NEW t \in Tickets, Log(t) PROVE MemoryInv'
  <2>1. step' = [step EXCEPT ![t] = "settled"] /\ step[t] = "logging"
    BY <1>9 DEF Log, End
  <2>2. logged' = logged \cup {t} /\ UNCHANGED <<memory, baks, snapshot, base, met, crashes>>
    BY <1>9 DEF Log
  <2>3. FileTypes' /\ step'[t] = "settled"
    BY <1>0, <2>1, <2>2 DEF FileTypes, Steps, Holding
  <2>4. ASSUME Undisturbed'
        PROVE  /\ \A u \in Tickets \ {t} : step[u] \notin Evolving
               /\ FilesAt(t)' /\ memory' = Learnt'
    <3>1. Undisturbed
      BY <1>0, <2>1, <2>2, <2>4, StillUndisturbed
    <3> QED
      BY <2>1, <2>2, <2>3, <3>1, Alone DEF FilesAt, Learnt, Evolving, Holding
  <2> QED
    BY <2>1, <2>3, <2>4, AloneKeeps DEF Steps
<1>10. ASSUME NEW t \in Tickets, Rollback(t) PROVE MemoryInv'
  <2>1. step' = [step EXCEPT ![t] = "settled"] /\ step[t] = "failing"
    BY <1>10 DEF Rollback, End
  <2>2. /\ memory' = IF snapshot[t] = NoFile THEN memory ELSE snapshot[t]
        /\ UNCHANGED <<baks, snapshot, logged, base, met, crashes>>
    BY <1>10 DEF Rollback
  <2>3. FileTypes' /\ step'[t] = "settled"
    BY <1>0, <2>1, <2>2 DEF FileTypes, Steps, Holding
  <2>4. ASSUME Undisturbed'
        PROVE  /\ \A u \in Tickets \ {t} : step[u] \notin Evolving
               /\ FilesAt(t)' /\ memory' = Learnt'
    <3>1. Undisturbed
      BY <1>0, <2>1, <2>2, <2>4, StillUndisturbed
    <3>2. Learnt # NoFile
      BY <1>0, <3>1, LearntIsContent DEF Undisturbed
    <3> QED
      BY <2>1, <2>2, <2>3, <3>1, <3>2, Alone DEF FilesAt, Learnt, Evolving, Holding
  <2> QED
    BY <2>1, <2>3, <2>4, AloneKeeps DEF Steps
<1>11. ASSUME NEW t \in Tickets, Raise(t) PROVE MemoryInv'
  <2>1. /\ step[t] \in {"snapshotting", "saving", "writing", "logging"}
        /\ memory' = IF step[t] = "writing" THEN {} ELSE memory
        /\ UNCHANGED <<baks, snapshot, logged, base, met, crashes>>
    BY <1>11 DEF Raise
  <2> DEFINE s == IF step[t] = "snapshotting" THEN "settled" ELSE "failing"
  <2>2. step' = [step EXCEPT ![t] = s]
    BY <1>11 DEF Raise, Goto, End
  <2>3. FileTypes' /\ step'[t] = s
    BY <1>0, <2>1, <2>2 DEF FileTypes, Steps, Holding, Contents
  <2>4. ASSUME Undisturbed'
        PROVE  /\ \A u \in Tickets \ {t} : step[u] \notin Evolving
               /\ FilesAt(t)'
               /\ s = "settled" => memory' = Learnt'
    <3>1. Undisturbed
      BY <1>0, <2>1, <2>2, <2>4, StillUndisturbed
    <3>2. Learnt # NoFile /\ Learnt \cup {t} # NoFile
      BY <1>0, <3>1, LearntIsContent, EvolutionAssumption DEF Undisturbed, Entries
    <3>3. /\ \A u \in Tickets \ {t} : step[u] \notin Evolving
          /\ FilesAt(t)
          /\ step[t] \in {"snapshotting", "saving"} => memory = Learnt
      BY <2>1, <3>1, Alone DEF Evolving, Holding
    <3>4. Learnt' = Learnt /\ NewestBackup' = NewestBackup
      BY <2>1 DEF Learnt, NewestBackup
    <3>5. CASE step[t] \in {"snapshotting", "saving"}
      BY <2>1, <2>3, <3>2, <3>3, <3>4, <3>5 DEF FilesAt
    <3>6. CASE step[t] \in {"writing", "logging"}
      BY <2>1, <2>3, <3>2, <3>3, <3>4, <3>6 DEF FilesAt
    <3> QED
      BY <2>1, <3>3, <3>5, <3>6
  <2> QED
    BY <2>2, <2>3, <2>4, AloneKeeps DEF Steps, Holding
<1>12. ASSUME NEW t \in Tickets, RollbackFails(t) PROVE MemoryInv'
  <2>1. step' = [step EXCEPT ![t] = "unrestored"]
    BY <1>12 DEF RollbackFails, End
  <2>2. FileTypes' /\ step'[t] = "unrestored"
    BY <1>0, <1>12, <2>1 DEF RollbackFails, FileTypes, Steps, Contents
  <2> QED
    BY <2>2 DEF MemoryInv, Undisturbed
<1>13. CASE Crash
  <2>1. FileTypes' /\ crashes' # 0
    BY <1>0, <1>13 DEF Crash, FileTypes, Steps
  <2> QED
    BY <2>1 DEF MemoryInv, Undisturbed
<1> QED
  BY <1>1, <1>2, <1>3, <1>4, <1>5, <1>6, <1>7, <1>8, <1>9, <1>10, <1>11, <1>12, <1>13
     DEF Next, Advance

LEMMA MemoryInvariant == Spec => []MemoryInv
  BY MemoryInit, MemoryStep, PTL DEF Spec

\* As long as evolutions do not overlap, MEMORY.md is the old memory and exactly
\* what the audit log says was learnt, through every failure that is rolled back.
THEOREM MemoryIsTheLog == Spec => []MemoryFollowsLog
<1>1. MemoryInv => MemoryFollowsLog
  BY DEF MemoryInv, MemoryFollowsLog, Learnt
<1> QED
  BY <1>1, MemoryInvariant, PTL

\* ... and at every step of a save MEMORY.md or the newest backup has all of it.
THEOREM NothingLostInASave == Spec => []BackupAtHand
<1>1. MemoryInv => BackupAtHand
  <2> SUFFICES ASSUME MemoryInv, Undisturbed
               PROVE  Learnt \subseteq Content(memory) \/ NewestBackup
    BY DEF BackupAtHand, Learnt, NewestBackup
  <2>1. CASE Quiet
    BY <2>1, LearntIsContent DEF MemoryInv, Content, Undisturbed
  <2>2. CASE ~Quiet
    <3>1. PICK t \in Tickets : step[t] \in {"writing", "logging", "failing"}
      BY <2>2 DEF Quiet
    <3>2. FilesAt(t)
      BY DEF MemoryInv
    <3> QED
      BY <3>1, <3>2 DEF FilesAt, Content
  <2> QED
    BY <2>1, <2>2
<1> QED
  BY <1>1, MemoryInvariant, PTL

-----------------------------------------------------------------------------
(***************************************************************************)
(* The task file.                                                          *)
(***************************************************************************)

FileInv ==
  /\ tasks \in Table
  /\ file \in [whole : BOOLEAN, table : Table]
  /\ saving \in {Idle} \cup [why : Save \ {"none"}, task : Task]
  /\ ~file.whole => file = Torn
  /\ saving.why = "failed" => saveFailed
  /\ saving.why \in {"store", "update", "handler"} => file = Torn
  /\ saving = Idle /\ ~saveFailed => file = [whole |-> TRUE, table |-> tasks]

\* A save under way is not the absence of one.
LEMMA SavingFacts ==
  /\ Idle.why = "none"
  /\ \A why \in Save \ {"none"}, t \in Task :
       [why |-> why, task |-> t] # Idle
  BY DEF Idle, Save

\* A file with another table in it is a file.
LEMMA TableReplaced ==
  ASSUME NEW f \in [whole : BOOLEAN, table : Table], NEW T \in Table
  PROVE  [f EXCEPT !.table = T] \in [whole : BOOLEAN, table : Table]
         /\ [f EXCEPT !.table = T].whole = f.whole
<1>1. [f EXCEPT !.table = T] = [whole |-> f.whole, table |-> T]
  OBVIOUS
<1>2. f.whole \in BOOLEAN
  OBVIOUS
<1> QED
  BY <1>1, <1>2

LEMMA FileInit == SchedulerInit => FileInv
  BY DEF SchedulerInit, FileInv, Empty, Table, NextRun, Torn, Idle

\* The one way the table changes and is saved.
LEMMA WriteKeeps ==
  ASSUME FileInv, NEW T \in Table, NEW why \in {"store", "update", "handler"}, NEW t \in Task,
         Rewrite(T, why, t)
  PROVE  FileInv'
<1>1. CASE /\ file' = Torn
           /\ saving' = [why |-> why, task |-> t]
           /\ UNCHANGED saveFailed
  <2>1. saving' # Idle /\ saving'.why # "failed"
    BY <1>1, SavingFacts DEF Save
  <2>2. file' \in [whole : BOOLEAN, table : Table]
    BY <1>1 DEF Torn, Empty, Table, NextRun
  <2> QED
    BY <1>1, <2>1, <2>2 DEF Rewrite, FileInv, Save
<1>2. CASE /\ saving' = IF why = "update" THEN [why |-> "failed", task |-> t] ELSE Idle
           /\ saveFailed' = TRUE
           /\ UNCHANGED file
  BY <1>2 DEF Rewrite, FileInv, Save, Idle
<1> QED
  BY <1>1, <1>2 DEF Rewrite

\* What an execution makes of a task's next run is a next run.
LEMMA UpdateKeeps ==
  ASSUME FileInv, NEW t \in Task, NEW why \in {"update", "handler"},
         saving = Idle \/ saving.why = "failed",
         UpdateAfterRun(t, why)
  PROVE  FileInv'
<1>1. CASE tasks[t] = "absent"
  BY <1>1 DEF UpdateAfterRun, FileInv, Idle
<1>2. CASE tasks[t] # "absent"
  <2>1. PICK next \in RunAgain(t, tasks[t]) : Rewrite([tasks EXCEPT ![t] = next], why, t)
    BY <1>2 DEF UpdateAfterRun
  <2>2. next \in NextRun
    BY <2>1 DEF RunAgain, FileInv, Table, NextRun
  <2>3. [tasks EXCEPT ![t] = next] \in Table
    BY <2>2 DEF FileInv, Table
  <2> QED
    BY <2>1, <2>3, WriteKeeps
<1> QED
  BY <1>1, <1>2

LEMMA FileStep == FileInv /\ [SchedulerNext]_schedulerVars => FileInv'
<1> SUFFICES ASSUME FileInv, [SchedulerNext]_schedulerVars PROVE FileInv'
  OBVIOUS
<1> USE SavingFacts DEF LoopBusy
<1>1. CASE UNCHANGED schedulerVars
  BY <1>1 DEF schedulerVars, FileInv
<1>2. ASSUME NEW t \in Task, AddTask(t) PROVE FileInv'
  <2>1. PICK next \in FirstRun(t) : Rewrite([tasks EXCEPT ![t] = next], "store", t)
    BY <1>2 DEF AddTask
  <2>2. [tasks EXCEPT ![t] = next] \in Table
    BY <2>1 DEF FirstRun, FileInv, Table, NextRun
  <2> QED
    BY <2>1, <2>2, WriteKeeps
<1>3. ASSUME NEW t \in Task, RemoveTask(t) PROVE FileInv'
  <2>1. [tasks EXCEPT ![t] = "absent"] \in Table
    BY DEF FileInv, Table, NextRun
  <2> QED
    BY <1>3, <2>1, WriteKeeps DEF RemoveTask
<1>4. ASSUME NEW t \in Task, Elapse(t) PROVE FileInv'
  <2>1. tasks' \in Table /\ file' \in [whole : BOOLEAN, table : Table] /\ file'.whole = file.whole
    <3>1. tasks' \in Table
      BY <1>4 DEF Elapse, FileInv, Table, NextRun
    <3>2. [file.table EXCEPT ![t] = IF @ = "later" THEN "due" ELSE @] \in Table
      BY DEF FileInv, Table, NextRun
    <3>3. file' = [file EXCEPT !.table = [file.table EXCEPT ![t] = IF @ = "later" THEN "due" ELSE @]]
      BY <1>4 DEF Elapse
    <3> QED
      BY <3>1, <3>2, <3>3, TableReplaced DEF FileInv
  <2>2. file = Torn => file' = Torn
    BY <1>4 DEF Elapse, FileInv, Torn, Empty, Table
  <2>3. file = [whole |-> TRUE, table |-> tasks] => file' = [whole |-> TRUE, table |-> tasks']
    <3> SUFFICES ASSUME file = [whole |-> TRUE, table |-> tasks]
                 PROVE  file' = [whole |-> TRUE, table |-> tasks']
      OBVIOUS
    <3>1. file' = [whole |-> TRUE,
                   table |-> [tasks EXCEPT ![t] = IF @ = "later" THEN "due" ELSE @]]
      BY <1>4 DEF Elapse
    <3>2. tasks[t] = "later" /\ tasks' = [tasks EXCEPT ![t] = "due"]
      BY <1>4 DEF Elapse
    <3> QED
      BY <3>1, <3>2
  <2> QED
    BY <1>4, <2>1, <2>2, <2>3 DEF Elapse, FileInv
<1>5. ASSUME NEW t \in Task, Begin(t) PROVE FileInv'
  BY <1>5 DEF Begin, FileInv
<1>6. ASSUME NEW t \in Task, Complete(t) PROVE FileInv'
  BY <1>6, UpdateKeeps DEF Complete
<1>7. ASSUME NEW th \in Thread, Check(th) \/ Wake(th) PROVE FileInv'
  BY <1>7 DEF Check, Wake, FileInv
<1>8. CASE SaveEnds
  BY <1>8 DEF SaveEnds, FileInv, Torn
<1>9. CASE SaveBreaks
  BY <1>9 DEF SaveBreaks, FileInv, Save, Idle
<1>10. CASE Retry
  <2>1. saving.task \in Task
    BY <1>10 DEF Retry, FileInv, Idle
  <2> QED
    BY <1>10, <2>1, UpdateKeeps DEF Retry
<1>11. CASE Start \/ Stop
  BY <1>11 DEF Start, Stop, FileInv
<1>12. CASE Restart
  BY <1>12 DEF Restart, FileInv, Idle
<1> QED
  BY <1>1, <1>2, <1>3, <1>4, <1>5, <1>6, <1>7, <1>8, <1>9, <1>10, <1>11, <1>12 DEF SchedulerNext

LEMMA FileInvariant == SchedulerSpec => []FileInv
  BY FileInit, FileStep, PTL DEF SchedulerSpec

\* Whatever is added, removed and executed in whichever order, and however often
\* the process dies, the file holds the table between two saves, unless a save
\* has failed.
THEOREM FileFollowsTable == SchedulerSpec => []FileFollows
<1>1. FileInv => FileFollows
  BY DEF FileInv, FileFollows, LoopBusy
<1> QED
  BY <1>1, FileInvariant, PTL

\* Neither a late execution nor a restart brings a removed task back.
THEOREM RemovedTasksStayRemoved == SchedulerSpec => RemovedStaysRemoved
<1> DEFINE Back == \A t \in Task :
             tasks[t] = "absent" /\ tasks'[t] # "absent" => AddTask(t) \/ saveFailed
<1>1. FileInv /\ [SchedulerNext]_schedulerVars => [Back]_schedulerVars
  <2> SUFFICES ASSUME FileInv, SchedulerNext, NEW t \in Task,
                      tasks[t] = "absent", tasks'[t] # "absent", ~saveFailed
               PROVE  AddTask(t)
    OBVIOUS
  <2>1. ASSUME NEW u \in Task, AddTask(u) PROVE AddTask(t)
    <3>1. PICK next \in FirstRun(u) : tasks' = [tasks EXCEPT ![u] = next]
      BY <2>1 DEF AddTask, Rewrite
    <3> QED
      BY <2>1, <3>1 DEF FileInv, Table
  <2>2. ASSUME NEW u \in Task, RemoveTask(u) \/ Elapse(u) PROVE FALSE
    BY <2>2 DEF RemoveTask, Rewrite, Elapse, FileInv, Table
  <2>3. ASSUME NEW u \in Task, NEW why, UpdateAfterRun(u, why) PROVE FALSE
    BY <2>3 DEF UpdateAfterRun, Rewrite, FileInv, Table
  <2>4. ~Restart
    <3>1. file.table[t] = "absent"
      BY SavingFacts DEF FileInv, Save, Torn, Empty
    <3> QED
      BY <3>1 DEF Restart
  <2>5. ASSUME NEW u \in Task, Begin(u) \/ Complete(u) PROVE FALSE
    BY <2>3, <2>5 DEF Begin, Complete
  <2>6. ASSUME NEW th \in Thread, Check(th) \/ Wake(th) PROVE FALSE
    BY <2>6 DEF Check, Wake
  <2>7. ~(SaveEnds \/ SaveBreaks \/ Start \/ Stop)
    BY DEF SaveEnds, SaveBreaks, Start, Stop
  <2>8. ~Retry
    BY DEF Retry, FileInv
  <2> QED
    BY <2>1, <2>2, <2>4, <2>5, <2>6, <2>7, <2>8 DEF SchedulerNext
<1> QED
  BY <1>1, FileInvariant, PTL DEF SchedulerSpec, RemovedStaysRemoved

=============================================================================
