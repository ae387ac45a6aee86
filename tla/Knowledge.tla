----------------------------- MODULE Knowledge -----------------------------
(***************************************************************************)
(* The knowledge base of one category, the retriever the pipeline caches   *)
(* for it, the knowledge gaps, and the documents the system writes itself. *)
(*                                                                         *)
(* A request is a ticket going through the pipeline on the event loop:     *)
(* when retrieval finds nothing a gap is recorded and a document generated *)
(* to fill it.  A rating is a bad rating's thread, which generates a       *)
(* document of its own.  All of them are about one topic, so that any two  *)
(* gaps match; whether a document is found by a search, resembles another  *)
(* or mentions a gap is left open.  A document is the job that wrote it    *)
(* (or a seed) and whether a manager has edited it.                        *)
(***************************************************************************)
EXTENDS Integers, FiniteSets

CONSTANTS Requests,   \* tickets in the pipeline, on the event loop
          Ratings,    \* bad ratings, each in a thread of its own
          Seeds,      \* documents of the topic at the start
          OldGaps,    \* gaps recorded before, not resolved
          Nobody,     \* holds no lock, owns no loop
          Manager,    \* a request of the knowledge routes, on the event loop
          Missing,    \* a file not written in full, a retriever not built
          MaxFaults   \* bound: writes of the file that fail, and restarts

Jobs == Requests \cup Ratings

Docs == (Jobs \cup Seeds) \X {"written", "edited"}

ASSUME KnowledgeAssumption ==
  /\ Requests \cap (Ratings \cup Seeds \cup OldGaps) = {}
  /\ Ratings \cap Seeds = {}
  /\ {Nobody, Manager} \cap (Jobs \cup OldGaps) = {}
  /\ Nobody # Manager
  /\ \A known \in SUBSET Docs : known # Missing
  /\ MaxFaults \in Nat

VARIABLES docs,      \* KnowledgeStore._docs, or Missing when they cannot be loaded
          file,      \* the documents in the file, or Missing while it is written
          version,   \* KnowledgeStore._version
          lock,      \* who holds KnowledgeStore._lock between two steps
          cached,    \* LinearCoordinator._cached_kb_version
          retriever, \* the documents the cached retriever searches, or Missing
          gaps,      \* per id, the gap record; a request's gap has its id
          found,     \* per request, the record _find_similar returned, until saved
          loop,      \* who runs on the event loop between two awaits
          step,      \* per job, where it is
          saved,     \* history: jobs whose document reached the file
          faults

vars == <<docs, file, version, lock, cached, retriever, gaps, found, loop, step, saved, faults>>
store == <<docs, file, version, lock>>
cache == <<cached, retriever>>
records == <<gaps, found>>

\* No gap, and the initial value of found.
NoGap == [id |-> Nobody, open |-> FALSE, sources |-> {}]
Unread == [id |-> Nobody, open |-> TRUE, sources |-> {}]
GapIds == Requests \cup OldGaps
Open == {g \in GapIds : gaps[g].open}

Init ==
  /\ docs = Seeds \X {"written"}
  /\ file = docs
  /\ version = 0
  /\ lock = Nobody
  /\ cached = -1
  /\ retriever = Missing
  /\ gaps = [g \in GapIds |-> IF g \in OldGaps THEN [id |-> g, open |-> TRUE, sources |-> {}]
                                 ELSE NoGap]
  /\ found = [r \in Requests |-> Unread]
  /\ loop = Nobody
  /\ step = [j \in Jobs |-> "new"]
  /\ saved = {}
  /\ faults = 0

\* A thread runs when it likes, a request when nobody else is on the loop.
CanRun(j) == j \in Ratings \/ loop \in {Nobody, j}

\* j goes to step s, keeping the loop or, at an await or its end, leaving it.
Goto(j, s) ==
  /\ step' = [step EXCEPT ![j] = s]
  /\ loop' = IF j \in Ratings THEN loop ELSE j
Await(j, s) ==
  /\ step' = [step EXCEPT ![j] = s]
  /\ loop' = IF j \in Ratings THEN loop ELSE Nobody

-----------------------------------------------------------------------------
(* Faults the runs must be able to see. *)

\* The retrievers built for the old version are kept.
Check_KeepsRetriever(r) ==
  /\ step[r] = "new"
  /\ docs # Missing
  /\ CanRun(r)
  /\ cached' = version
  /\ Goto(r, "building")
  /\ UNCHANGED <<store, retriever, records, saved, faults>>

\* The similar gap is looked up before the model is asked for a draft.
Find_Yields(r) ==
  /\ step[r] = "asking"
  /\ CanRun(r)
  /\ found' = [found EXCEPT ![r] = IF Open = {} THEN NoGap ELSE gaps[CHOOSE g \in Open : TRUE]]
  /\ Await(r, "saving")
  /\ UNCHANGED <<store, cache, gaps, saved, faults>>

\* The lock is not released when the write raises.
FlushFails_KeepsLock(j) ==
  /\ step[j] = "flushing"
  /\ faults < MaxFaults
  /\ faults' = faults + 1
  /\ Await(j, "served")
  /\ UNCHANGED <<store, cache, records, saved>>

\* The gaps are marked although the document was not written.
FlushFails_Marks(j) ==
  /\ step[j] = "flushing"
  /\ faults < MaxFaults
  /\ faults' = faults + 1
  /\ lock' = Nobody
  /\ Goto(j, "marking")
  /\ UNCHANGED <<docs, file, version, cache, records, saved>>

-----------------------------------------------------------------------------
(* The pipeline's retrieval. *)

\* _get_retriever: a new version of the knowledge base empties the cache.
Check(r) ==
  /\ step[r] = "new"
  /\ docs # Missing
  /\ CanRun(r)
  /\ cached' = version
  /\ retriever' = IF cached = version THEN retriever ELSE Missing
  /\ Goto(r, "building")
  /\ UNCHANGED <<store, records, saved, faults>>

\* ... and a missing retriever is built from the documents, under their lock.
\* The search follows without a suspension; without a hit a draft is asked for.
Retrieve(r) ==
  /\ step[r] = "building"
  /\ retriever = Missing => lock = Nobody
  /\ retriever' = IF retriever = Missing THEN docs ELSE retriever
  /\ Await(r, "asking") \/ (retriever' # {} /\ Await(r, "served"))
  /\ UNCHANGED <<store, cached, records, saved, faults>>

\* detect_gap after its await: read the unresolved gaps, take a similar one.
Find(r) ==
  /\ step[r] = "asking"
  /\ CanRun(r)
  /\ \/ Open = {} /\ found' = [found EXCEPT ![r] = NoGap]
     \/ \E g \in Open : found' = [found EXCEPT ![r] = gaps[g]]
  /\ Goto(r, "saving")
  /\ UNCHANGED <<store, cache, gaps, saved, faults>>

\* GapStore.save writes the whole record back, the resolved flag included, or
\* creates one.  A draft that is long enough is used as it is.
Save(r) ==
  /\ step[r] = "saving"
  /\ CanRun(r)
  /\ LET g == IF found[r] = NoGap THEN r ELSE found[r].id IN
       gaps' = [gaps EXCEPT ![g] =
                  [id |-> g, open |-> TRUE, sources |-> found[r].sources \cup {r}]]
  /\ found' = [found EXCEPT ![r] = NoGap]
  /\ Goto(r, "adding") \/ Await(r, "generating")
  /\ UNCHANGED <<store, cache, saved, faults>>

-----------------------------------------------------------------------------
(* Documents the system writes. *)

\* A bad rating's thread reaches the generation of its document.
Rate(j) ==
  /\ j \in Ratings /\ step[j] = "new"
  /\ docs # Missing
  /\ Await(j, "generating")
  /\ UNCHANGED <<store, cache, records, saved, faults>>

\* The model answers, or gives nothing that can be used.
Generate(j) ==
  /\ step[j] = "generating"
  /\ CanRun(j)
  /\ \/ Goto(j, IF j \in Ratings THEN "comparing" ELSE "adding")
     \/ Await(j, "served")
  /\ UNCHANGED <<store, cache, records, saved, faults>>

\* Only a rating's document is compared with those there are, and given up
\* when one of them resembles it.
Compare(j) ==
  /\ step[j] = "comparing"
  /\ lock = Nobody
  /\ Goto(j, "adding") \/ (docs # {} /\ Await(j, "served"))
  /\ UNCHANGED <<store, cache, records, saved, faults>>

\* add_doc: the list changes, then the file is opened, which empties it.
Add(j) ==
  /\ step[j] = "adding"
  /\ docs # Missing
  /\ CanRun(j)
  /\ lock = Nobody
  /\ lock' = j
  /\ docs' = docs \cup {<<j, "written">>}
  /\ file' = Missing
  /\ Goto(j, "flushing")
  /\ UNCHANGED <<version, cache, records, saved, faults>>

Flushed == file' = docs /\ version' = version + 1 /\ lock' = Nobody

Flush(j) ==
  /\ step[j] = "flushing"
  /\ Flushed
  /\ saved' = saved \cup {j}
  /\ Goto(j, "marking")
  /\ UNCHANGED <<docs, cache, records, faults>>

\* The write fails: the list keeps the document, the version does not change,
\* and the caller's handler ends the job.
FlushFails(j) ==
  /\ step[j] = "flushing"
  /\ faults < MaxFaults
  /\ faults' = faults + 1
  /\ lock' = Nobody
  /\ Await(j, "served")
  /\ UNCHANGED <<docs, file, version, cache, records, saved>>

\* The unresolved gaps the new document mentions are marked resolved.
Mark(j) ==
  /\ step[j] = "marking"
  /\ CanRun(j)
  /\ \E mentioned \in SUBSET Open :
       gaps' = [g \in GapIds |->
                  IF g \in mentioned THEN [gaps[g] EXCEPT !.open = FALSE] ELSE gaps[g]]
  /\ Await(j, "served")
  /\ UNCHANGED <<store, cache, found, saved, faults>>

-----------------------------------------------------------------------------
(* The knowledge routes: update_doc and delete_doc, synchronous on the loop. *)

Change(d) ==
  /\ docs # Missing
  /\ d \in docs
  /\ loop = Nobody /\ lock = Nobody
  /\ loop' = Manager /\ lock' = Manager
  /\ \/ docs' = docs \ {d}
     \/ d[2] = "written" /\ docs' = (docs \ {d}) \cup {<<d[1], "edited">>}
  /\ file' = Missing
  /\ UNCHANGED <<version, cache, records, step, saved, faults>>

ChangeFlushed ==
  /\ lock = Manager
  /\ Flushed
  /\ loop' = Nobody
  /\ UNCHANGED <<docs, cache, records, step, saved, faults>>

ChangeFails ==
  /\ lock = Manager
  /\ faults < MaxFaults
  /\ faults' = faults + 1
  /\ lock' = Nobody /\ loop' = Nobody
  /\ UNCHANGED <<docs, file, version, cache, records, step, saved>>

-----------------------------------------------------------------------------
(***************************************************************************)
(* Stops, crashes and the next start.                                      *)
(***************************************************************************)

\* _load_or_init: a file that is there is read; one that was emptied is filled with
\* the seeds; one that breaks off in the middle cannot be loaded.
Load ==
  \/ /\ file # Missing
     /\ docs' = file
     /\ file' = file
     /\ version' = 0
  \/ /\ file = Missing
     /\ docs' = Seeds \X {"written"}
     /\ file' = docs'
     /\ version' = 1
  \/ /\ file = Missing
     /\ docs' = Missing
     /\ file' = Missing
     /\ version' = 0

\* What was under way is lost; gaps are in the database.
Restart ==
  /\ faults < MaxFaults
  /\ faults' = faults + 1
  /\ Load
  /\ lock' = Nobody /\ loop' = Nobody
  /\ cached' = -1 /\ retriever' = Missing
  /\ step' = [j \in Jobs |-> IF step[j] = "new" THEN "new" ELSE "served"]
  /\ found' = [r \in Requests |-> IF step[r] = "saving" THEN Unread ELSE found[r]]
  /\ UNCHANGED <<gaps, saved>>

\* A store that cannot be loaded raises wherever it is asked for: a request goes on
\* without documents, a rating's thread ends.
StoreRaises(j) ==
  /\ docs = Missing
  /\ step[j] = "new"
  /\ CanRun(j)
  /\ Await(j, "served")
  /\ UNCHANGED <<store, cache, records, saved, faults>>

Retrieval(r) == Check(r) \/ Retrieve(r) \/ Find(r) \/ Save(r)
Writing(j) == Generate(j) \/ Compare(j) \/ Add(j) \/ Flush(j) \/ Mark(j)

Next ==
  \/ \E r \in Requests : Retrieval(r)
  \/ \E j \in Jobs : Writing(j) \/ FlushFails(j)
  \/ \E j \in Ratings : Rate(j)
  \/ \E j \in Jobs : StoreRaises(j)
  \/ \E d \in Docs : Change(d)
  \/ ChangeFlushed
  \/ ChangeFails
  \/ Restart

Spec == Init /\ [][Next]_vars

\* Awaited requests to the model end, in time or by their timeout; the loop and
\* the lock may be taken by others again and again, but they queue their
\* waiters, so whoever waits gets them.
FairSpec ==
  /\ Spec
  /\ \A r \in Requests : SF_vars(Retrieval(r))
  /\ \A j \in Jobs : SF_vars(Writing(j))
  /\ WF_vars(ChangeFlushed)

-----------------------------------------------------------------------------
Steps == {"new", "building", "asking", "saving", "generating", "comparing",
          "adding", "flushing", "marking", "served"}
Gap == [id : GapIds, open : BOOLEAN, sources : SUBSET Requests] \cup {NoGap, Unread}

TypeOK ==
  /\ docs \in (SUBSET Docs) \cup {Missing}
  /\ file \in (SUBSET Docs) \cup {Missing}
  /\ version \in Nat
  /\ lock \in Jobs \cup {Nobody, Manager}
  /\ cached \in Nat \cup {-1}
  /\ retriever \in (SUBSET Docs) \cup {Missing}
  /\ gaps \in [GapIds -> Gap]
  /\ found \in [Requests -> Gap]
  /\ loop \in Requests \cup {Nobody, Manager}
  /\ step \in [Jobs -> Steps]
  /\ saved \subseteq Jobs
  /\ faults \in 0 .. MaxFaults

\* While the file is in order and the cache has the version of the knowledge
\* base, the cached retriever searches exactly the documents there are: no
\* interleaving of a thread's add_doc with the version check and the rebuild
\* leaves a stale one behind.
RetrieverIsCurrent ==
  file = docs /\ cached = version /\ retriever # Missing => retriever = docs

\* A gap is resolved only if some document about it has reached the file.
ResolvedHasDoc ==
  \A g \in GapIds : gaps[g].id = g /\ ~gaps[g].open => saved # {}

\* Every request whose retrieval found nothing is, once its gap has been saved,
\* a source of some gap: two detections of one gap do not lose each other.
MissesRecorded ==
  \A r \in Requests :
    found[r] # Unread /\ step[r] # "saving"
      => \E g \in GapIds : r \in gaps[g].sources

\* A request that found nothing is answered all the same, unless a restart ends
\* it, whatever the writes of the knowledge base, the threads and the managers do.
MissesServed == \A r \in Requests : step[r] = "asking" ~> step[r] = "served"
=============================================================================
