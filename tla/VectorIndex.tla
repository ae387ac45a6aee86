---------------------------- MODULE VectorIndex ----------------------------
(***************************************************************************)
(* The embedding pipeline: changes of the knowledge base are collected and *)
(* every five seconds a worker writes them to the vector database, one     *)
(* collection for each category.                                           *)
(*                                                                         *)
(* A handler that changes the knowledge base and notes the change has no   *)
(* await in between, and neither has the worker between taking the batch   *)
(* and the first request to the database.  A change is represented by the  *)
(* number of the document's version; whether its text is blank matters,    *)
(* because blank texts are left out when the vectors are computed.         *)
(*                                                                         *)
(* Three histories name the versions for which the program makes no        *)
(* promise, each by its cause and never by its effect on the index: no     *)
(* event was noted, the pipeline dropped the event, or the text was sent   *)
(* in one request at or behind a blank one.                                *)
(***************************************************************************)
EXTENDS Naturals, Sequences, FiniteSets, Functions

CONSTANTS Doc,         \* identifiers of documents
          Category,    \* the valid categories
          General,     \* the collection of events without a category
          Worker,      \* worker tasks
          MaxChanges,  \* bound: changes of the knowledge base
          MaxIndexFaults    \* bound: failures, stops and crashes

ASSUME IndexAssumption ==
  /\ General \notin Category
  /\ MaxChanges \in Nat /\ MaxIndexFaults \in Nat

VARIABLES kb,       \* the knowledge base in memory: per document, its newest version
          onDisk,   \* the same as a start would read it from the file
          pending,  \* _pending, in the order of a dict
          running,  \* _running
          worker,   \* per task, where it is and what is left of its batch
          points,   \* the points of all collections
          unnoted,  \* history: versions that came about without an event
          dropped,  \* history: versions whose event the pipeline dropped
          spoiled,  \* history: versions sent at or behind a blank text
          changes, indexFaults

indexVars == <<kb, onDisk, pending, running, worker, points, unnoted, dropped, spoiled,
               changes, indexFaults>>

Collection == Category \cup {General}
Event == [doc : Doc, action : {"add", "update", "delete"}, v : 1 .. MaxChanges,
          coll : Collection, blank : BOOLEAN]
Point == [doc : Doc, v : 1 .. MaxChanges, coll : Collection, vec : Doc]

Off    == [at |-> "off", batch |-> <<>>]
Asleep == [at |-> "asleep", batch |-> <<>>]

IndexInit ==
  /\ kb = [d \in Doc |-> [state |-> "unused", v |-> 0, coll |-> General, blank |-> FALSE]]
  /\ onDisk = kb
  /\ pending = <<>>
  /\ running = FALSE
  /\ worker = [w \in Worker |-> Off]
  /\ points = {}
  /\ unnoted = {} /\ dropped = {} /\ spoiled = {}
  /\ changes = 0 /\ indexFaults = 0

\* The event loop is free: no worker is between two awaits.
LoopFree == \A w \in Worker : worker[w].at # "group"

-----------------------------------------------------------------------------
(* Changes of the knowledge base. *)

Position(d) == {i \in DOMAIN pending : pending[i].doc = d}

Enqueue_KeepsFirst(e) ==
  pending' = IF Position(e.doc) = {} THEN Append(pending, e) ELSE pending

\* An event takes the place of the document's earlier one.
Enqueue(e) ==
  pending' = IF Position(e.doc) = {} THEN Append(pending, e)
             ELSE [i \in DOMAIN pending |-> IF i \in Position(e.doc) THEN e ELSE pending[i]]

\* _flush writes the whole list, which has been changed already.  A write that
\* fails leaves the old file, or a torn one no start can read the documents of.
Torn(base) ==
  [d \in Doc |-> [base[d] EXCEPT !.state = IF @ = "live" THEN "deleted" ELSE @]]

BaseWritten(base) == kb' = base /\ onDisk' = base
BaseWriteFails(base) == kb' = base /\ onDisk' \in {onDisk, Torn(base)}

Changed(d, state, coll, blank) ==
  [kb EXCEPT ![d] = [state |-> state, v |-> @.v + 1, coll |-> coll, blank |-> blank]]

\* A handler changes the document and notes the event, with its number.  When the
\* write fails it raises before it notes anything; the change stays in memory.
ChangeDoc(d, state, action, coll, blank) ==
  /\ LoopFree
  /\ changes < MaxChanges
  /\ changes' = changes + 1
  /\ \/ /\ BaseWritten(Changed(d, state, coll, blank))
        /\ Enqueue([doc |-> d, action |-> action, v |-> kb[d].v + 1,
                    coll |-> IF action = "delete" THEN General ELSE coll, blank |-> blank])
        /\ UNCHANGED unnoted
     \/ /\ BaseWriteFails(Changed(d, state, coll, blank))
        /\ unnoted' = unnoted \cup {<<d, kb[d].v + 1>>}
        /\ UNCHANGED pending
  /\ UNCHANGED <<running, worker, points, dropped, spoiled, indexFaults>>

\* A document generated for a gap, which no event tells the pipeline of.
GenerateDoc(d) ==
  /\ kb[d].state = "unused"
  /\ changes < MaxChanges
  /\ changes' = changes + 1
  /\ \E c \in Category :
       \/ BaseWritten(Changed(d, "live", c, FALSE))
       \/ BaseWriteFails(Changed(d, "live", c, FALSE))
  /\ unnoted' = unnoted \cup {<<d, kb[d].v + 1>>}
  /\ UNCHANGED <<pending, running, worker, points, dropped, spoiled, indexFaults>>

Create(d) ==
  /\ kb[d].state = "unused"
  /\ \E c \in Category, blank \in BOOLEAN : ChangeDoc(d, "live", "add", c, blank)

\* The empty string passes the check of the category.
Update(d) ==
  /\ kb[d].state = "live"
  /\ \E c \in Collection, blank \in BOOLEAN : ChangeDoc(d, "live", "update", c, blank)

\* A deletion is noted without the document's category.
Delete(d) ==
  /\ kb[d].state = "live"
  /\ ChangeDoc(d, "deleted", "delete", kb[d].coll, kb[d].blank)

-----------------------------------------------------------------------------
(* The worker. *)

Start_Unguarded(w) ==
  /\ LoopFree
  /\ worker[w] = Off
  /\ running' = TRUE
  /\ worker' = [worker EXCEPT ![w] = Asleep]
  /\ UNCHANGED <<kb, onDisk, pending, points, unnoted, dropped, spoiled, changes, indexFaults>>

Start(w) ==
  /\ LoopFree
  /\ ~running
  /\ worker[w] = Off
  /\ running' = TRUE
  /\ worker' = [worker EXCEPT ![w] = Asleep]
  /\ UNCHANGED <<kb, onDisk, pending, points, unnoted, dropped, spoiled, changes, indexFaults>>

Versions(events) == {<<e.doc, e.v>> : e \in Range(events)}

Take_ClearsLate == UNCHANGED pending

\* The batch is taken out before anything is written.
Take == pending' = <<>>

\* _flush_batch: without the database the batch is dropped.
FlushBatch(w) ==
  /\ worker[w] = Asleep
  /\ pending # <<>>
  /\ Take
  /\ \/ /\ worker' = [worker EXCEPT ![w] = [at |-> "group", batch |-> pending]]
        /\ UNCHANGED <<dropped, indexFaults>>
     \/ /\ indexFaults < MaxIndexFaults /\ indexFaults' = indexFaults + 1
        /\ dropped' = dropped \cup Versions(pending)
        /\ UNCHANGED worker
  /\ UNCHANGED <<kb, onDisk, running, points, unnoted, spoiled, changes>>

\* A batch keeps the order of the dict: a part of it has the events at some of
\* its positions.  The first category is the one of the first event.
FirstColl(batch) ==
  batch[CHOOSE i \in DOMAIN batch : \A j \in DOMAIN batch : i <= j].coll

Group(batch) == RestrictValues(batch, LAMBDA e : e.coll = FirstColl(batch))
Rest(batch)  == RestrictValues(batch, LAMBDA e : e.coll # FirstColl(batch))
Deletes(group) == RestrictValues(group, LAMBDA e : e.action = "delete")
Upserts(group) == RestrictValues(group, LAMBDA e : e.action # "delete")
HasNone(part) == DOMAIN part = {}

\* The worker when it has done with the first group of its batch.
Advanced(batch) ==
  IF HasNone(Rest(batch)) THEN Asleep ELSE [at |-> "group", batch |-> Rest(batch)]

\* The filter of a deletion asks for a point with the identifiers of all the
\* deleted documents, in the collection of events without a category.
Deleted(group) ==
  {p \in points : \/ HasNone(Deletes(group)) \/ p.coll # FirstColl(group)
                  \/ \E e \in Range(Deletes(group)) : e.doc # p.doc}

\* One category: deletions at once, then the new texts.  A deletion that fails
\* is logged only.
SyncGroup(w) ==
  LET batch == worker[w].batch IN
  /\ worker[w].at = "group"
  /\ worker' = [worker EXCEPT ![w] =
       IF HasNone(Upserts(Group(batch))) THEN Advanced(batch)
       ELSE [at |-> "adding", batch |-> batch]]
  /\ \/ points' = Deleted(Group(batch)) /\ UNCHANGED indexFaults
     \/ /\ ~HasNone(Deletes(Group(batch))) /\ indexFaults < MaxIndexFaults
        /\ indexFaults' = indexFaults + 1 /\ UNCHANGED points
  /\ UNCHANGED <<kb, onDisk, pending, running, unnoted, dropped, spoiled, changes>>

\* embed_documents: the vectors of the texts that are not blank.
Vectors(texts) == RestrictValues(texts, LAMBDA e : ~e.blank)

\* Texts and vectors are paired by place, as far as both go.
Place(part, i) == Cardinality({j \in DOMAIN part : j <= i})
Paired(texts) ==
  LET vectors == Vectors(texts)
      Same(i) == {j \in DOMAIN vectors : Place(vectors, j) = Place(texts, i)}
  IN UNION {{[doc |-> texts[i].doc, v |-> texts[i].v, coll |-> texts[i].coll,
              vec |-> vectors[j].doc] : j \in Same(i)} : i \in DOMAIN texts}

BehindBlank(texts) ==
  {<<texts[i].doc, texts[i].v>> : i \in
     {k \in DOMAIN texts : \E j \in DOMAIN texts : j <= k /\ texts[j].blank}}

\* The texts a worker has sent, and what becomes of those of the workers W:
\* points under new identifiers.
Sent(w) == Upserts(Group(worker[w].batch))

Stores(W) ==
  /\ points' = points \cup UNION {Paired(Sent(w)) : w \in W}
  /\ spoiled' = spoiled \cup UNION {BehindBlank(Sent(w)) : w \in W}

AddTexts(w) ==
  /\ worker[w].at = "adding"
  /\ Stores({w})
  /\ worker' = [worker EXCEPT ![w] = Advanced(worker[w].batch)]
  /\ UNCHANGED <<kb, onDisk, pending, running, unnoted, dropped, changes, indexFaults>>

\* A request fails, before or after the points were written: the exception
\* ends the flush, with the categories that were not yet done.
SyncFails(w) ==
  /\ worker[w].at = "adding"
  /\ indexFaults < MaxIndexFaults /\ indexFaults' = indexFaults + 1
  /\ \E W \in SUBSET {w} : Stores(W)
  /\ dropped' = dropped \cup Versions(worker[w].batch)
  /\ worker' = [worker EXCEPT ![w] = Asleep]
  /\ UNCHANGED <<kb, onDisk, pending, running, unnoted, changes>>

\* The workers end where they are; a request under way may yet be carried out.
Ends ==
  /\ indexFaults < MaxIndexFaults /\ indexFaults' = indexFaults + 1
  /\ running' = FALSE
  /\ \E W \in SUBSET {w \in Worker : worker[w].at = "adding"} : Stores(W)
  /\ worker' = [w \in Worker |-> Off]

InBatches == UNION {Versions(worker[w].batch) : w \in Worker}

\* stop cancels the worker wherever it awaits.
Stop ==
  /\ LoopFree
  /\ running
  /\ Ends
  /\ dropped' = dropped \cup InBatches
  /\ UNCHANGED <<kb, onDisk, pending, unnoted, changes>>

\* A crash loses what is in memory; the next start reads the file, and nothing
\* tells the pipeline of its documents.
Crash ==
  /\ Ends
  /\ kb' = onDisk
  /\ unnoted' = {x \in unnoted : x[2] <= onDisk[x[1]].v}
  /\ dropped' = dropped \cup Versions(pending) \cup InBatches
  /\ pending' = <<>>
  /\ UNCHANGED <<onDisk, changes>>

Work(w) == FlushBatch(w) \/ SyncGroup(w) \/ AddTexts(w)

IndexNext ==
  \/ \E d \in Doc : Create(d) \/ Update(d) \/ Delete(d) \/ GenerateDoc(d)
  \/ \E w \in Worker : Start(w) \/ Work(w) \/ SyncFails(w)
  \/ Stop \/ Crash

IndexSpec == IndexInit /\ [][IndexNext]_indexVars

\* The loop wakes the worker and its requests end, by answer or by timeout.
FairIndexSpec == IndexSpec /\ \A w \in Worker : WF_indexVars(Work(w))

-----------------------------------------------------------------------------
(* Properties. *)

IndexTypeOK ==
  /\ {kb, onDisk} \subseteq [Doc -> [state : {"unused", "live", "deleted"}, v : 0 .. MaxChanges,
                                   coll : Collection, blank : BOOLEAN]]
  /\ pending \in Seq(Event)
  /\ running \in BOOLEAN
  /\ worker \in [Worker -> [at : {"off", "asleep", "group", "adding"},
                            batch : UNION {[S -> Event] : S \in SUBSET (1 .. Cardinality(Doc))}]]
  /\ points \subseteq Point
  /\ unnoted \cup dropped \cup spoiled \subseteq Doc \X (1 .. MaxChanges)
  /\ changes \in 0 .. MaxChanges /\ indexFaults \in 0 .. MaxIndexFaults

InBatch(d) == \E w \in Worker : \E e \in Range(worker[w].batch) : e.doc = d

\* No event slips away: a document that is neither waiting nor being written, and
\* whose newest version was noted, not dropped, and not sent behind a blank text,
\* can be found in its category under its own vector, although changes arrive
\* while the worker awaits the database.  And a blank text in its batch is the
\* only thing that gives a text the vector of another.
IndexedWhenQuiet ==
  /\ \A d \in Doc :
       /\ kb[d].state = "live"
       /\ Position(d) = {} /\ ~InBatch(d)
       /\ <<d, kb[d].v>> \notin unnoted \cup dropped \cup spoiled
       => [doc |-> d, v |-> kb[d].v, coll |-> kb[d].coll, vec |-> d] \in points
  /\ \A p \in points : p.vec # p.doc => <<p.doc, p.v>> \in spoiled

\* The index never goes back: no step adds a version of a document older than
\* one that was added before.
NeverOlder ==
  [][\A p \in points' \ points, q \in points : p.doc = q.doc => q.v <= p.v]_points

\* A change does not wait for ever while the worker runs, whatever fails.
EventsTaken == \A d \in Doc : Position(d) # {} ~> Position(d) = {} \/ ~running
=============================================================================
