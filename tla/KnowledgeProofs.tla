-------------------------- MODULE KnowledgeProofs --------------------------
(***************************************************************************)
(* The cached retriever, the sources of the gaps, the resolution of gaps,  *)
(* and the index of the documents, for any number of requests, ratings,    *)
(* documents, gaps, categories and changes.                                *)
(*                                                                         *)
(* Two arguments about Knowledge, each with an inductive invariant of its  *)
(* own.  CacheInv: the file is in order only if it is the list, and the    *)
(* cache is never ahead of the version.  GapInv: a request that has read a *)
(* gap owns the event loop until it has written it back, so what it writes *)
(* back still has the gap's sources.                                       *)
(*                                                                         *)
(* One about VectorIndex, whose documents are those of the managers'       *)
(* routes.  IndexInv orders what is known of a document: the points, then  *)
(* the event in the worker's batch, then the event that waits, then the    *)
(* document itself, and says where its newest version is.                  *)
(***************************************************************************)
EXTENDS Knowledge, VectorIndex, FiniteSetTheorems, TLAPS

-----------------------------------------------------------------------------
(***************************************************************************)
(* The cache.                                                              *)
(***************************************************************************)

CacheInv ==
  /\ docs \in (SUBSET Docs) \cup {Missing}
  /\ docs = Missing => retriever = Missing
  /\ version \in Nat /\ cached \in Int /\ cached <= version
  /\ file = Missing \/ file = docs
  /\ file # Missing /\ cached = version /\ retriever # Missing => retriever = docs

LEMMA CacheInit == Init => CacheInv
  BY KnowledgeAssumption DEF Init, CacheInv, Docs

LEMMA CacheStep == CacheInv /\ [Next]_vars => CacheInv'
<1> SUFFICES ASSUME CacheInv, [Next]_vars PROVE CacheInv'
  OBVIOUS
<1> USE DEF CacheInv, store, cache, records
<1>1. CASE UNCHANGED vars
  BY <1>1 DEF vars
<1>2. ASSUME NEW r \in Requests, Check(r) PROVE CacheInv'
  BY <1>2 DEF Check
<1>3. ASSUME NEW r \in Requests, Retrieve(r) PROVE CacheInv'
  BY <1>3 DEF Retrieve
<1>4. ASSUME NEW r \in Requests, Find(r) \/ Save(r) PROVE CacheInv'
  BY <1>4 DEF Find, Save
<1>5. ASSUME NEW j \in Jobs, Rate(j) \/ Generate(j) \/ Compare(j) \/ Mark(j) PROVE CacheInv'
  BY <1>5 DEF Rate, Generate, Compare, Mark
<1>6. ASSUME NEW j \in Jobs, Add(j) PROVE CacheInv'
  <2>1. docs' \in SUBSET Docs /\ docs' # Missing
    BY <1>6, KnowledgeAssumption DEF Add, Docs
  <2> QED
    BY <1>6, <2>1, KnowledgeAssumption DEF Add
<1>7. ASSUME NEW j \in Jobs, Flush(j) PROVE CacheInv'
  BY <1>7 DEF Flush, Flushed
<1>8. ASSUME NEW j \in Jobs, FlushFails(j) PROVE CacheInv'
  BY <1>8 DEF FlushFails
<1>9. ASSUME NEW d \in Docs, Change(d) PROVE CacheInv'
  <2>1. <<d[1], "edited">> \in Docs
    BY DEF Docs
  <2>2. docs' \in SUBSET Docs /\ docs' # Missing
    BY <1>9, <2>1, KnowledgeAssumption DEF Change
  <2> QED
    BY <1>9, <2>2 DEF Change
<1>10. CASE ChangeFlushed
  BY <1>10 DEF ChangeFlushed, Flushed
<1>11. CASE ChangeFails
  BY <1>11 DEF ChangeFails
<1>12. ASSUME NEW j \in Jobs, StoreRaises(j) PROVE CacheInv'
  BY <1>12 DEF StoreRaises
<1>13. CASE Restart
  <2>1. cached' = -1 /\ retriever' = Missing /\ Load
    BY <1>13 DEF Restart
  <2>2. Seeds \X {"written"} \in SUBSET Docs
    BY DEF Docs
  <2> QED
    BY <2>1, <2>2 DEF Load
<1> QED
  BY <1>1, <1>2, <1>3, <1>4, <1>5, <1>6, <1>7, <1>8, <1>9, <1>10, <1>11, <1>12, <1>13
     DEF Next, Retrieval, Writing, Jobs

\* However a thread's add_doc, a manager's change and failed writes fall between
\* the version check and the rebuild of _get_retriever, and whatever a restart
\* loads, a retriever that is used for the present version searches the documents
\* there are.
THEOREM RetrieverStaysCurrent == Spec => []RetrieverIsCurrent
<1>1. CacheInv => RetrieverIsCurrent
  BY KnowledgeAssumption DEF CacheInv, RetrieverIsCurrent
<1> QED
  BY CacheInit, CacheStep, <1>1, PTL DEF Spec

-----------------------------------------------------------------------------
(***************************************************************************)
(* The gaps.                                                               *)
(***************************************************************************)

\* Steps at which a request runs on without giving the loop back, and those
\* before it has saved its gap.
OnLoop   == {"building", "saving", "adding", "flushing", "marking"}
Unsaved  == {"new", "building", "asking", "saving"}

RequestInv(r) ==
  /\ step[r] \in OnLoop => loop = r
  /\ step[r] # "comparing"
  /\ step[r] \in Unsaved => gaps[r] = NoGap
  /\ step[r] \in Unsaved \ {"saving"} => found[r] = Unread
  /\ step[r] = "saving" =>
       \/ found[r] = NoGap
       \/ /\ found[r].id \in GapIds
          /\ gaps[found[r].id] # NoGap
          /\ found[r].sources = gaps[found[r].id].sources
  /\ found[r] # Unread /\ step[r] # "saving" => \E g \in GapIds : r \in gaps[g].sources

RecordInv(g) ==
  /\ gaps[g] = NoGap \/ gaps[g].id = g
  /\ gaps[g].id = g /\ ~gaps[g].open => saved # {}

GapInv ==
  /\ step \in [Jobs -> Steps]
  /\ gaps \in [GapIds -> Gap] /\ found \in [Requests -> Gap]
  /\ lock = Manager => loop = Manager
  /\ \A r \in Requests : RequestInv(r)
  /\ \A g \in GapIds : RecordInv(g)
  /\ \A j \in Jobs : step[j] = "marking" => j \in saved

\* No gap, the initial record and a gap on file differ.
LEMMA GapFacts ==
  /\ NoGap = [id |-> Nobody, open |-> FALSE, sources |-> {}]
  /\ Unread = [id |-> Nobody, open |-> TRUE, sources |-> {}]
  /\ NoGap # Unread
  /\ Nobody \notin GapIds /\ Manager \notin Requests
  /\ Requests \subseteq Jobs /\ Ratings \subseteq Jobs /\ Requests \subseteq GapIds
  /\ Requests \cap Ratings = {} /\ Requests \cap OldGaps = {}
  BY KnowledgeAssumption DEF NoGap, Unread, GapIds, Jobs

LEMMA GapInit == Init => GapInv
<1> SUFFICES ASSUME Init PROVE GapInv
  OBVIOUS
<1>1. gaps \in [GapIds -> Gap] /\ found \in [Requests -> Gap]
  BY GapFacts DEF Init, Gap
<1>2. step \in [Jobs -> Steps]
  BY DEF Init, Steps
<1>3. \A g \in GapIds : /\ gaps[g] = NoGap \/ gaps[g].id = g
                        /\ gaps[g].id = g => gaps[g].open
  BY GapFacts DEF Init
<1>4. \A r \in Requests : step[r] = "new" /\ gaps[r] = NoGap /\ found[r] = Unread
  BY GapFacts DEF Init
<1> QED
  BY <1>1, <1>2, <1>3, <1>4, KnowledgeAssumption
     DEF Init, GapInv, RequestInv, RecordInv, OnLoop, Unsaved

\* A job that moves without touching the gaps keeps the invariant, when a
\* request moves on the loop and not over the saving of its gap.
LEMMA MovedKeeps ==
  ASSUME GapInv, NEW j \in Jobs, NEW s \in Steps,
         step' = [step EXCEPT ![j] = s],
         UNCHANGED <<gaps, found>>, saved \subseteq saved',
         lock' = Manager => lock = Manager,
         j \in Ratings => loop' = loop,
         j \in Requests =>
           /\ loop \in {Nobody, j}
           /\ loop' = j \/ (loop' = Nobody /\ s \notin OnLoop)
           /\ s \notin {"saving", "comparing"}
           /\ s \in Unsaved => step[j] \in Unsaved \ {"saving"},
         step[j] # "saving",
         s = "marking" => j \in saved'
  PROVE  GapInv'
<1>1. step' \in [Jobs -> Steps] /\ gaps' \in [GapIds -> Gap] /\ found' \in [Requests -> Gap]
  BY DEF GapInv
<1>2. lock' = Manager => loop' = Manager
  BY GapFacts, KnowledgeAssumption DEF GapInv, Jobs
<1>3. ASSUME NEW r \in Requests PROVE RequestInv(r)'
  <2>1. CASE r = j
    BY <2>1, GapFacts DEF GapInv, RequestInv, Unsaved
  <2>2. CASE r # j /\ j \in Ratings
    BY <2>2, GapFacts DEF GapInv, RequestInv
  <2>3. CASE r # j /\ j \in Requests
    <3>1. step'[r] = step[r] /\ step[r] \notin OnLoop
      BY <2>3, GapFacts DEF GapInv, RequestInv
    <3> QED
      BY <3>1, GapFacts DEF GapInv, RequestInv
  <2> QED
    BY <2>1, <2>2, <2>3 DEF Jobs
<1>4. ASSUME NEW g \in GapIds PROVE RecordInv(g)'
  BY DEF GapInv, RecordInv
<1>5. ASSUME NEW i \in Jobs, step'[i] = "marking" PROVE i \in saved'
  BY <1>5 DEF GapInv
<1> QED
  BY <1>1, <1>2, <1>3, <1>4, <1>5 DEF GapInv

\* A step of the managers, while no request runs on the loop.
LEMMA ManagerKeeps ==
  ASSUME GapInv, UNCHANGED <<gaps, found, step>>, saved \subseteq saved',
         lock' = Manager => loop' = Manager,
         loop \in Requests => loop' = loop
  PROVE  GapInv'
<1>1. ASSUME NEW r \in Requests PROVE RequestInv(r)'
  <2>1. RequestInv(r)
    BY DEF GapInv
  <2>2. step[r] \in OnLoop => loop' = r
    BY <2>1 DEF RequestInv
  <2> QED
    BY <2>1, <2>2 DEF RequestInv
<1>2. ASSUME NEW g \in GapIds PROVE RecordInv(g)'
  BY DEF GapInv, RecordInv
<1> QED
  BY <1>1, <1>2 DEF GapInv

LEMMA FindKeeps == ASSUME GapInv, NEW r \in Requests, Find(r) PROVE GapInv'
<1> USE GapFacts DEF Find, CanRun, Goto
<1>1. step' = [step EXCEPT ![r] = "saving"] /\ step' \in [Jobs -> Steps]
  BY DEF GapInv, Steps
<1>2. found' \in [Requests -> Gap]
  BY DEF GapInv, Open, Gap
<1>3. loop' = r /\ loop \in {Nobody, r} /\ lock # Manager
  BY KnowledgeAssumption DEF GapInv
<1>4. RequestInv(r)'
  <2>1. gaps'[r] = NoGap
    BY DEF GapInv, RequestInv, Unsaved, records
  <2>2. \/ found'[r] = NoGap
        \/ \E g \in Open : found'[r] = gaps[g]
    BY DEF GapInv
  <2>3. ASSUME NEW g \in Open PROVE g \in GapIds /\ gaps[g] # NoGap /\ gaps[g].id = g
    BY DEF GapInv, RecordInv, Open
  <2> QED
    BY <1>1, <1>3, <2>1, <2>2, <2>3 DEF RequestInv, Unsaved, GapInv
<1>5. ASSUME NEW p \in Requests, p # r PROVE RequestInv(p)'
  <2>1. step'[p] = step[p] /\ step[p] \notin OnLoop /\ found'[p] = found[p]
    BY <1>1, <1>3, <1>5 DEF GapInv, RequestInv
  <2> QED
    BY <2>1 DEF GapInv, RequestInv, OnLoop
<1>6. ASSUME NEW g \in GapIds PROVE RecordInv(g)'
  BY DEF GapInv, RecordInv
<1>7. ASSUME NEW i \in Jobs, step'[i] = "marking" PROVE i \in saved'
  BY <1>1, <1>7 DEF GapInv
<1> QED
  BY <1>1, <1>2, <1>3, <1>4, <1>5, <1>6, <1>7 DEF GapInv, store

LEMMA SaveKeeps == ASSUME GapInv, NEW r \in Requests, Save(r) PROVE GapInv'
<1> USE GapFacts
<1> DEFINE g == IF found[r] = NoGap THEN r ELSE found[r].id
<1>1. /\ g \in GapIds
      /\ gaps' = [gaps EXCEPT ![g] = [id |-> g, open |-> TRUE,
                                      sources |-> found[r].sources \cup {r}]]
      /\ found[r].sources = gaps[g].sources
      /\ step[r] = "saving"
      /\ g # r => gaps[g] # NoGap
  BY DEF Save, GapInv, RequestInv, Unsaved
<1> HIDE DEF g
<1>2. PICK s \in {"adding", "generating"} :
        step' = [step EXCEPT ![r] = s] /\ loop' \in {r, Nobody} /\ (s = "adding" => loop' = r)
  BY DEF Save, Goto, Await
<1>3. found' = [found EXCEPT ![r] = NoGap] /\ loop = r /\ saved' = saved /\ lock' = lock
  BY DEF Save, GapInv, RequestInv, OnLoop, store
<1>4. step' \in [Jobs -> Steps] /\ found' \in [Requests -> Gap]
  BY <1>2, <1>3 DEF GapInv, Steps, Gap
<1>5. [id |-> g, open |-> TRUE, sources |-> found[r].sources \cup {r}] \in Gap
  <2>1. found[r].sources \in SUBSET Requests
    BY DEF GapInv, Gap
  <2> QED
    BY <1>1, <2>1 DEF Gap
<1>6. gaps' \in [GapIds -> Gap]
  BY <1>1, <1>5 DEF GapInv
<1>7. \A i \in GapIds : gaps[i].sources \subseteq gaps'[i].sources
  BY <1>1 DEF GapInv
<1>8. r \in gaps'[g].sources /\ gaps'[g].id = g /\ gaps'[g].open
  BY <1>1 DEF GapInv
<1>9. RequestInv(r)'
  BY <1>1, <1>2, <1>3, <1>8 DEF RequestInv, OnLoop, Unsaved, GapInv
<1>10. ASSUME NEW p \in Requests, p # r PROVE RequestInv(p)'
  <2>1. step'[p] = step[p] /\ step[p] \notin OnLoop /\ found'[p] = found[p]
    BY <1>2, <1>3, <1>10 DEF GapInv, RequestInv
  <2>2. step[p] \in Unsaved => gaps'[p] = NoGap
    BY <1>1, <1>10 DEF GapInv, RequestInv
  <2>3. found[p] # Unread /\ step[p] # "saving" => \E i \in GapIds : p \in gaps'[i].sources
    BY <1>7 DEF GapInv, RequestInv
  <2> QED
    BY <2>1, <2>2, <2>3 DEF GapInv, RequestInv, OnLoop
<1>11. ASSUME NEW i \in GapIds PROVE RecordInv(i)'
  BY <1>1, <1>3, <1>8 DEF GapInv, RecordInv
<1>12. ASSUME NEW i \in Jobs, step'[i] = "marking" PROVE i \in saved'
  BY <1>2, <1>3, <1>12 DEF GapInv
<1> QED
  BY <1>2, <1>3, <1>4, <1>6, <1>9, <1>10, <1>11, <1>12, KnowledgeAssumption DEF GapInv

LEMMA MarkKeeps == ASSUME GapInv, NEW j \in Jobs, Mark(j) PROVE GapInv'
<1> USE GapFacts
<1>1. PICK mentioned \in SUBSET Open :
        gaps' = [g \in GapIds |->
                  IF g \in mentioned THEN [gaps[g] EXCEPT !.open = FALSE] ELSE gaps[g]]
  BY DEF Mark
<1>2. /\ step[j] = "marking" /\ step' = [step EXCEPT ![j] = "served"]
      /\ found' = found /\ saved' = saved /\ lock' = lock
      /\ loop' = IF j \in Ratings THEN loop ELSE Nobody
      /\ j \in Ratings \/ loop \in {Nobody, j}
  BY DEF Mark, Await, CanRun, store
<1>3. \A g \in GapIds : /\ gaps'[g].id = gaps[g].id /\ gaps'[g].sources = gaps[g].sources
                        /\ gaps'[g] \in Gap
                        /\ (gaps'[g] = NoGap) <=> (gaps[g] = NoGap)
  <2> SUFFICES ASSUME NEW g \in GapIds
               PROVE  /\ gaps'[g].id = gaps[g].id /\ gaps'[g].sources = gaps[g].sources
                      /\ gaps'[g] \in Gap
                      /\ (gaps'[g] = NoGap) <=> (gaps[g] = NoGap)
    OBVIOUS
  <2>1. CASE g \notin mentioned
    BY <1>1, <2>1 DEF GapInv
  <2>2. CASE g \in mentioned
    <3>1. gaps[g].open /\ gaps[g] \in Gap /\ RecordInv(g)
      BY <1>1, <2>2 DEF Open, GapInv
    <3>2. gaps[g].id = g /\ gaps[g].sources \in SUBSET Requests
      BY <3>1 DEF RecordInv, Gap
    <3>3. gaps[g] \in [id : GapIds, open : BOOLEAN, sources : SUBSET Requests]
      BY <3>1, <3>2 DEF Gap
    <3>4. gaps'[g] = [id |-> g, open |-> FALSE, sources |-> gaps[g].sources]
      BY <1>1, <2>2, <3>2, <3>3
    <3> QED
      BY <3>1, <3>2, <3>4 DEF Gap
  <2> QED
    BY <2>1, <2>2
<1>4. gaps' \in [GapIds -> Gap] /\ step' \in [Jobs -> Steps] /\ j \in saved'
  BY <1>1, <1>2, <1>3 DEF GapInv, Steps
<1>5. ASSUME NEW r \in Requests PROVE RequestInv(r)'
  <2>1. CASE r = j
    BY <1>2, <1>3, <2>1 DEF GapInv, RequestInv, OnLoop, Unsaved
  <2>2. CASE r # j
    <3>1. step'[r] = step[r] /\ (step[r] \in OnLoop => loop' = r)
      BY <1>2, <2>2 DEF GapInv, RequestInv, Jobs
    <3> QED
      BY <1>2, <1>3, <3>1 DEF GapInv, RequestInv
  <2> QED
    BY <2>1, <2>2
<1>6. ASSUME NEW g \in GapIds PROVE RecordInv(g)'
  BY <1>3, <1>4 DEF GapInv, RecordInv
<1>7. ASSUME NEW i \in Jobs, step'[i] = "marking" PROVE i \in saved'
  BY <1>2, <1>7 DEF GapInv
<1> QED
  BY <1>2, <1>4, <1>5, <1>6, <1>7, KnowledgeAssumption DEF GapInv, Jobs

\* A restart loses the requests under way; those that had not saved their gap have
\* left nothing behind.
LEMMA RestartKeeps == ASSUME GapInv, Restart PROVE GapInv'
<1> USE GapFacts
<1>1. /\ step' = [j \in Jobs |-> IF step[j] = "new" THEN "new" ELSE "served"]
      /\ found' = [r \in Requests |-> IF step[r] = "saving" THEN Unread ELSE found[r]]
      /\ lock' = Nobody /\ UNCHANGED <<gaps, saved>>
  BY DEF Restart
<1>2. step' \in [Jobs -> Steps] /\ found' \in [Requests -> Gap] /\ gaps' \in [GapIds -> Gap]
  BY <1>1 DEF GapInv, Steps, Gap
<1>3. ASSUME NEW r \in Requests PROVE RequestInv(r)'
  <2>1. RequestInv(r)
    BY DEF GapInv
  <2>2. CASE step[r] = "new"
    BY <1>1, <2>1, <2>2 DEF RequestInv, OnLoop, Unsaved
  <2>3. CASE step[r] # "new"
    BY <1>1, <2>1, <2>3 DEF RequestInv, OnLoop, Unsaved
  <2> QED
    BY <2>2, <2>3
<1>4. ASSUME NEW g \in GapIds PROVE RecordInv(g)'
  BY <1>1 DEF GapInv, RecordInv
<1>5. \A j \in Jobs : step'[j] # "marking"
  BY <1>1
<1> QED
  BY <1>1, <1>2, <1>3, <1>4, <1>5, KnowledgeAssumption DEF GapInv

LEMMA GapStep == GapInv /\ [Next]_vars => GapInv'
<1> SUFFICES ASSUME GapInv, [Next]_vars PROVE GapInv'
  OBVIOUS
<1> USE DEF store, cache, records, CanRun, Goto, Await
<1>0. \A r \in Requests : step[r] # "comparing" /\ (step[r] \in OnLoop => loop = r)
  BY DEF GapInv, RequestInv
<1>1. CASE UNCHANGED vars
  BY <1>1, ManagerKeeps DEF vars, GapInv
<1>2. ASSUME NEW r \in Requests, Check(r) PROVE GapInv'
  BY <1>2, GapFacts, MovedKeeps DEF Check, OnLoop, Unsaved, Steps
<1>3. ASSUME NEW r \in Requests, Retrieve(r) PROVE GapInv'
  <2>1. step[r] = "building" /\ loop = r /\ loop' = Nobody
    BY <1>0, <1>3, GapFacts DEF Retrieve, OnLoop
  <2>2. PICK s \in {"asking", "served"} : step' = [step EXCEPT ![r] = s]
    BY <1>3 DEF Retrieve
  <2> QED
    BY <1>3, <2>1, <2>2, GapFacts, MovedKeeps DEF Retrieve, OnLoop, Unsaved, Steps
<1>4. ASSUME NEW r \in Requests, Find(r) \/ Save(r) PROVE GapInv'
  BY <1>4, FindKeeps, SaveKeeps
<1>5. ASSUME NEW j \in Ratings, Rate(j) PROVE GapInv'
  BY <1>5, GapFacts, MovedKeeps DEF Rate, Steps
<1>6. ASSUME NEW j \in Jobs, Generate(j) PROVE GapInv'
  BY <1>6, GapFacts, MovedKeeps DEF Generate, OnLoop, Unsaved, Steps
<1>7. ASSUME NEW j \in Jobs, Compare(j) \/ Add(j) PROVE GapInv'
  <2>1. CASE Compare(j)
    BY <1>0, <2>1, GapFacts, MovedKeeps DEF Compare, Steps
  <2>2. CASE Add(j)
    <3>1. /\ step[j] = "adding" /\ step' = [step EXCEPT ![j] = "flushing"]
          /\ lock' # Manager
          /\ UNCHANGED <<gaps, found, saved>>
          /\ j \in Ratings => loop' = loop
          /\ j \in Requests => loop \in {Nobody, j} /\ loop' = j
      BY <2>2, GapFacts, KnowledgeAssumption DEF Add
    <3> QED
      BY <3>1, MovedKeeps DEF Unsaved, Steps
  <2> QED
    BY <1>7, <2>1, <2>2
<1>8. ASSUME NEW j \in Jobs, Flush(j) PROVE GapInv'
  <2>1. /\ step[j] = "flushing" /\ step' = [step EXCEPT ![j] = "marking"]
        /\ lock' = Nobody /\ (j \in Requests => loop = j)
    BY <1>8, <1>0 DEF Flush, Flushed, OnLoop
  <2> QED
    BY <1>8, <2>1, GapFacts, KnowledgeAssumption, MovedKeeps
       DEF Flush, OnLoop, Unsaved, Steps
<1>9. ASSUME NEW j \in Jobs, FlushFails(j) PROVE GapInv'
  <2>1. /\ step[j] = "flushing" /\ step' = [step EXCEPT ![j] = "served"]
        /\ lock' = Nobody /\ (j \in Requests => loop = j)
    BY <1>9, <1>0 DEF FlushFails, OnLoop
  <2> QED
    BY <1>9, <2>1, GapFacts, KnowledgeAssumption, MovedKeeps
       DEF FlushFails, OnLoop, Unsaved, Steps
<1>10. ASSUME NEW j \in Jobs, Mark(j) PROVE GapInv'
  BY <1>10, MarkKeeps
<1>11. ASSUME NEW d \in Docs, Change(d) PROVE GapInv'
  BY <1>11, GapFacts, ManagerKeeps DEF Change
<1>12. CASE ChangeFlushed
  <2>1. loop = Manager /\ lock' = Nobody
    BY <1>12 DEF ChangeFlushed, Flushed, GapInv
  <2> QED
    BY <1>12, <2>1, GapFacts, KnowledgeAssumption, ManagerKeeps DEF ChangeFlushed
<1>13. CASE ChangeFails
  <2>1. loop = Manager /\ lock' = Nobody
    BY <1>13 DEF ChangeFails, GapInv
  <2> QED
    BY <1>13, <2>1, GapFacts, KnowledgeAssumption, ManagerKeeps DEF ChangeFails
<1>14. ASSUME NEW j \in Jobs, StoreRaises(j) PROVE GapInv'
  BY <1>14, GapFacts, MovedKeeps DEF StoreRaises, OnLoop, Unsaved, Steps
<1>15. CASE Restart
  BY <1>15, RestartKeeps
<1> QED
  BY <1>1, <1>2, <1>3, <1>4, <1>5, <1>6, <1>7, <1>8, <1>9, <1>10, <1>11, <1>12, <1>13,
     <1>14, <1>15
     DEF Next, Retrieval, Writing

LEMMA GapsInvariant == Spec => []GapInv
  BY GapInit, GapStep, PTL DEF Spec

\* However detections of one gap overlap each other, ratings and managers, and
\* whenever the process dies, a request whose retrieval found nothing stays a source of some gap: what it
\* read before saving is still what is on file when it writes it back.
THEOREM MissesStayRecorded == Spec => []MissesRecorded
<1>1. GapInv => MissesRecorded
  BY GapFacts DEF GapInv, RequestInv, MissesRecorded, Unsaved, Steps
<1> QED
  BY <1>1, GapsInvariant, PTL

\* A gap is marked resolved only after a document has been written, however many
\* writes fail and whenever the process dies.
THEOREM ResolutionHasDoc == Spec => []ResolvedHasDoc
<1>1. GapInv => ResolvedHasDoc
  BY DEF GapInv, RecordInv, ResolvedHasDoc
<1> QED
  BY <1>1, GapsInvariant, PTL

-----------------------------------------------------------------------------
(***************************************************************************)
(* The index.                                                              *)
(*                                                                         *)
(* Batches and the dict of waiting events are read as the sets of events   *)
(* in them: which category comes first and in which order the texts are    *)
(* sent matters only to the pairing of texts and vectors.                  *)
(*                                                                         *)
(* What the index owes is owed to two records of a document: the one in    *)
(* memory, and the one in the file, which a crash brings back.             *)
(***************************************************************************)

Noted == [doc : Doc, action : {"add", "update", "delete"}, v : Nat,
          coll : Collection, blank : BOOLEAN]
Batches == UNION {[S -> Noted] : S \in SUBSET Nat}

DocRecord == [state : {"unused", "live", "deleted"}, v : Nat, coll : Collection, blank : BOOLEAN]

IndexShape ==
  /\ kb \in [Doc -> DocRecord] /\ onDisk \in [Doc -> DocRecord]
  /\ pending \in Seq(Noted)
  /\ worker \in [Worker -> [at : {"off", "asleep", "group", "adding"}, batch : Batches]]
  /\ points \subseteq [doc : Doc, v : Nat, coll : Collection, vec : Doc]

\* One worker at a time, and a batch only while it writes.
OneWorker ==
  /\ \A w \in Worker :
       /\ worker[w].at \in {"off", "asleep"} => Range(worker[w].batch) = {}
       /\ ~running => worker[w].at = "off"
  /\ \A v, w \in Worker : worker[v].at # "off" /\ worker[w].at # "off" => v = w

\* An event tells of its document, whose record is x, what it was like at that
\* version.
Truthful(e, x) ==
  /\ e.v <= x.v
  /\ e.action = "delete" => x.state = "deleted"
  /\ e.v = x.v /\ x.state = "live" => e.coll = x.coll

TruthfulBoth(e) == Truthful(e, kb[e.doc]) /\ Truthful(e, onDisk[e.doc])

OneEach(events) == \A e, f \in events : e.doc = f.doc => e = f

EventsTrue ==
  /\ \A e \in Range(pending) : TruthfulBoth(e)
  /\ \A w \in Worker : \A e \in Range(worker[w].batch) : TruthfulBoth(e)

\* Points, batch and waiting events of a document are in the order of its versions.
InOrder ==
  /\ OneEach(Range(pending))
  /\ \A w \in Worker : OneEach(Range(worker[w].batch))
  /\ \A q \in points : q.v <= kb[q.doc].v /\ q.v <= onDisk[q.doc].v
  /\ \A q \in points : \A e \in Range(pending) : q.doc = e.doc => q.v <= e.v
  /\ \A q \in points, w \in Worker : \A e \in Range(worker[w].batch) :
          q.doc = e.doc => q.v <= e.v
  /\ \A w \in Worker : \A e \in Range(worker[w].batch), f \in Range(pending) :
        e.doc = f.doc => e.v <= f.v

\* Where the version v of a document is.
Waits(d, v) == \E e \in Range(pending) : e.doc = d /\ e.v = v
IsWritten(d, v) == \E w \in Worker : \E e \in Range(worker[w].batch) : e.doc = d /\ e.v = v
Indexed(d, x) == [doc |-> d, v |-> x.v, coll |-> x.coll, vec |-> d] \in points
Excused == unnoted \cup dropped \cup spoiled

Held(d, x) ==
  x.state = "live" =>
    Waits(d, x.v) \/ IsWritten(d, x.v) \/ <<d, x.v>> \in Excused \/ Indexed(d, x)

NoneLost == \A d \in Doc : Held(d, kb[d]) /\ Held(d, onDisk[d])

\* Only a blank text in its batch gives a text the vector of another.
OwnVectors == \A p \in points : p.vec # p.doc => <<p.doc, p.v>> \in spoiled

IndexInv == IndexShape /\ OneWorker /\ EventsTrue /\ InOrder /\ NoneLost /\ OwnVectors

-----------------------------------------------------------------------------
LEMMA GroupAndRest ==
  ASSUME NEW batch \in Batches
  PROVE  /\ Group(batch) \in Batches /\ Rest(batch) \in Batches
         /\ Range(Group(batch)) =
               {e \in Range(batch) : e.coll = FirstColl(batch)}
         /\ Range(Rest(batch)) =
               {e \in Range(batch) : e.coll # FirstColl(batch)}
<1> DEFINE S == {i \in DOMAIN batch : batch[i].coll = FirstColl(batch)}
           R == {i \in DOMAIN batch : batch[i].coll # FirstColl(batch)}
<1>1. Group(batch) = [i \in S |-> batch[i]]
      /\ Rest(batch) = [i \in R |-> batch[i]]
  BY DEF Group, Rest, RestrictValues, Restrict
<1>2. PICK D \in SUBSET Nat : batch \in [D -> Noted]
  BY DEF Batches
<1>3. DOMAIN batch = D
  BY <1>2
<1>4. S \in SUBSET Nat /\ R \in SUBSET Nat
  BY <1>3
<1>5. [i \in S |-> batch[i]] \in [S -> Noted] /\ [i \in R |-> batch[i]] \in [R -> Noted]
  BY <1>2
<1> HIDE DEF S, R
<1>6. Group(batch) \in Batches /\ Rest(batch) \in Batches
  BY <1>1, <1>4, <1>5 DEF Batches
<1>7. Range(Group(batch)) =
        {e \in Range(batch) : e.coll = FirstColl(batch)}
  BY <1>1 DEF S, Range
<1>8. Range(Rest(batch)) =
        {e \in Range(batch) : e.coll # FirstColl(batch)}
  BY <1>1 DEF R, Range
<1> QED
  BY <1>6, <1>7, <1>8

LEMMA GroupKinds ==
  ASSUME NEW group
  PROVE  /\ Range(Deletes(group)) =
              {e \in Range(group) : e.action = "delete"}
         /\ Range(Upserts(group)) =
               {e \in Range(group) : e.action # "delete"}
         /\ HasNone(Upserts(group)) <=> Range(Upserts(group)) = {}
         /\ HasNone(Deletes(group)) <=> Range(Deletes(group)) = {}
<1>1. /\ Deletes(group) = [i \in {j \in DOMAIN group : group[j].action = "delete"} |->
           group[i]]
      /\ Upserts(group) = [i \in {j \in DOMAIN group : group[j].action # "delete"} |->
            group[i]]
  BY DEF Deletes, Upserts, RestrictValues, Restrict
<1>2. Range(Deletes(group)) = {e \in Range(group) : e.action = "delete"}
  BY <1>1 DEF Range
<1>3. Range(Upserts(group)) = {e \in Range(group) : e.action # "delete"}
  BY <1>1 DEF Range
<1>4. HasNone(Upserts(group)) <=> Range(Upserts(group)) = {}
  BY DEF HasNone, Range
<1>5. HasNone(Deletes(group)) <=> Range(Deletes(group)) = {}
  BY DEF HasNone, Range
<1> QED
  BY <1>2, <1>3, <1>4, <1>5

LEMMA EmptyBatch == Range(<<>>) = {} /\ <<>> \in Batches
<1>1. Range(<<>>) = {}
  BY DEF Range
<1>2. <<>> \in [{} -> Noted]
  OBVIOUS
<1>3. {} \in SUBSET Nat
  OBVIOUS
<1> QED
  BY <1>1, <1>2, <1>3 DEF Batches

LEMMA SeqIsBatch == ASSUME NEW s \in Seq(Noted) PROVE s \in Batches
<1>1. s \in [1 .. Len(s) -> Noted] /\ 1 .. Len(s) \in SUBSET Nat
  OBVIOUS
<1> QED
  BY <1>1 DEF Batches

\* A point that is added has the document, version and collection of a text.
LEMMA PairedFacts ==
  ASSUME NEW group, Range(group) \subseteq Noted, NEW q \in Paired(group)
  PROVE  /\ \E e \in Range(group) : q.doc = e.doc /\ q.v = e.v /\ q.coll = e.coll
         /\ q \in [doc : Doc, v : Nat, coll : Collection, vec : Doc]
<1> DEFINE vectors == Vectors(group)
<1>1. PICK i \in DOMAIN group, j \in DOMAIN vectors :
        q = [doc |-> group[i].doc, v |-> group[i].v, coll |-> group[i].coll,
             vec |-> vectors[j].doc]
  BY DEF Paired
<1>2. vectors = [k \in {l \in DOMAIN group : ~group[l].blank} |-> group[k]]
  BY DEF Vectors, RestrictValues, Restrict
<1>3. j \in DOMAIN group /\ vectors[j] = group[j]
  BY <1>1, <1>2
<1>4. group[i] \in Range(group) /\ group[j] \in Range(group)
  BY <1>1, <1>3 DEF Range
<1> HIDE DEF vectors
<1> QED
  BY <1>1, <1>3, <1>4 DEF Noted

\* Noting an event replaces the one of the same document.
LEMMA Enqueued ==
  ASSUME pending \in Seq(Noted), NEW e \in Noted, Enqueue(e)
  PROVE  /\ pending' \in Seq(Noted)
         /\ Range(pending') = {f \in Range(pending) : f.doc # e.doc} \cup {e}
<1>1. CASE Position(e.doc) = {}
  <2>1. pending' = Append(pending, e)
    BY <1>1 DEF Enqueue
  <2>2. \A i \in 1 .. Len(pending) : pending[i].doc # e.doc
    BY <1>1 DEF Position
  <2>3. /\ DOMAIN pending' = 1 .. Len(pending) + 1 /\ pending'[Len(pending) + 1] = e
        /\ \A i \in 1 .. Len(pending) : pending'[i] = pending[i]
    BY <2>1
  <2>4. \A f \in Range(pending) : f.doc # e.doc
    BY <2>2 DEF Range
  <2>5. Range(pending') \subseteq Range(pending) \cup {e}
    BY <2>3 DEF Range
  <2>6. Range(pending) \cup {e} \subseteq Range(pending')
    BY <2>3 DEF Range
  <2> QED
    BY <2>1, <2>4, <2>5, <2>6
<1>2. CASE Position(e.doc) # {}
  <2>1. pending' = [i \in DOMAIN pending |->
          IF i \in Position(e.doc) THEN e ELSE pending[i]]
    BY <1>2 DEF Enqueue
  <2>2. pending' \in [1 .. Len(pending) -> Noted]
    BY <2>1
  <2>3. pending' \in Seq(Noted)
    BY <2>2
  <2>4. Range(pending') \subseteq {f \in Range(pending) : f.doc # e.doc} \cup {e}
    BY <2>1 DEF Range, Position
  <2>5. {f \in Range(pending) : f.doc # e.doc} \cup {e} \subseteq Range(pending')
    BY <1>2, <2>1 DEF Range, Position
  <2> QED
    BY <2>3, <2>4, <2>5
<1> QED
  BY <1>1, <1>2

-----------------------------------------------------------------------------
(***************************************************************************)
(* Pairing texts and vectors by place.                                     *)
(***************************************************************************)

UpTo(part, i) == {j \in DOMAIN part : j <= i}

\* The places of a part are finitely many up to any of them, and tell them apart.
LEMMA PlacesDiffer ==
  ASSUME NEW part, DOMAIN part \subseteq Nat, NEW i \in DOMAIN part, NEW j \in DOMAIN part,
         Place(part, i) = Place(part, j)
  PROVE  i = j
<1>1. ASSUME NEW k \in DOMAIN part, NEW l \in DOMAIN part, k < l,
             Place(part, k) = Place(part, l)
      PROVE  FALSE
  <2>1. k \in Nat /\ l \in Nat
    OBVIOUS
  <2>2. UpTo(part, l) \in SUBSET Nat
    BY DEF UpTo
  <2>3. \A n \in UpTo(part, l) : n <= l
    BY DEF UpTo
  <2>4. IsFiniteSet(UpTo(part, l))
    BY <2>1, <2>2, <2>3, FS_BoundedSetOfNaturals
  <2>5. UpTo(part, k) \in SUBSET UpTo(part, l)
    BY <1>1, <2>1 DEF UpTo
  <2>6. Cardinality(UpTo(part, k)) = Cardinality(UpTo(part, l))
    BY <1>1 DEF Place, UpTo
  <2>7. UpTo(part, k) = UpTo(part, l)
    BY <2>4, <2>5, <2>6, FS_Subset
  <2>8. l \in UpTo(part, l) /\ l \notin UpTo(part, k)
    BY <1>1, <2>1 DEF UpTo
  <2> QED
    BY <2>7, <2>8
<1>2. i \in Nat /\ j \in Nat
  OBVIOUS
<1> QED
  BY <1>1, <1>2

\* Without a blank text at or before it, a text keeps its place among the vectors.
LEMMA SamePlace ==
  ASSUME NEW texts, DOMAIN texts \subseteq Nat, NEW i \in DOMAIN texts,
         \A j \in DOMAIN texts : j <= i => ~texts[j].blank
  PROVE  /\ i \in DOMAIN Vectors(texts)
         /\ Place(Vectors(texts), i) = Place(texts, i)
         /\ DOMAIN Vectors(texts) \subseteq DOMAIN texts
         /\ \A j \in DOMAIN Vectors(texts) : Vectors(texts)[j] = texts[j]
<1>1. Vectors(texts) = [k \in {l \in DOMAIN texts : ~texts[l].blank} |-> texts[k]]
  BY DEF Vectors, RestrictValues, Restrict
<1>2. DOMAIN Vectors(texts) = {l \in DOMAIN texts : ~texts[l].blank}
  BY <1>1
<1>3. i \in Nat
  OBVIOUS
<1>4. i \in DOMAIN Vectors(texts)
  BY <1>2, <1>3
<1>5. {j \in DOMAIN Vectors(texts) : j <= i} = {j \in DOMAIN texts : j <= i}
  BY <1>2
<1> QED
  BY <1>1, <1>2, <1>4, <1>5 DEF Place

\* A text that is not at or behind a blank one is paired with its own vector, and
\* with no other.
LEMMA PairedOwn ==
  ASSUME NEW texts, DOMAIN texts \subseteq Nat, NEW i \in DOMAIN texts,
         <<texts[i].doc, texts[i].v>> \notin BehindBlank(texts)
  PROVE  [doc |-> texts[i].doc, v |-> texts[i].v, coll |-> texts[i].coll,
          vec |-> texts[i].doc] \in Paired(texts)
<1>1. \A j \in DOMAIN texts : j <= i => ~texts[j].blank
  BY DEF BehindBlank
<1>2. /\ i \in DOMAIN Vectors(texts)
      /\ Place(Vectors(texts), i) = Place(texts, i)
      /\ Vectors(texts)[i] = texts[i]
  BY <1>1, SamePlace
<1> QED
  BY <1>2 DEF Paired

LEMMA PairedForeign ==
  ASSUME NEW texts, DOMAIN texts \subseteq Nat, NEW q \in Paired(texts), q.vec # q.doc
  PROVE  <<q.doc, q.v>> \in BehindBlank(texts)
<1>1. PICK i \in DOMAIN texts, j \in DOMAIN Vectors(texts) :
        /\ Place(Vectors(texts), j) = Place(texts, i)
        /\ q = [doc |-> texts[i].doc, v |-> texts[i].v, coll |-> texts[i].coll,
                vec |-> Vectors(texts)[j].doc]
  BY DEF Paired
<1>2. CASE \A k \in DOMAIN texts : k <= i => ~texts[k].blank
  <2>1. /\ i \in DOMAIN Vectors(texts)
        /\ Place(Vectors(texts), i) = Place(texts, i)
        /\ DOMAIN Vectors(texts) \subseteq Nat
        /\ Vectors(texts)[i] = texts[i]
    BY <1>2, SamePlace
  <2>2. i = j
    BY <1>1, <2>1, PlacesDiffer
  <2> QED
    BY <1>1, <2>1, <2>2
<1>3. CASE \E k \in DOMAIN texts : k <= i /\ texts[k].blank
  BY <1>1, <1>3 DEF BehindBlank
<1> QED
  BY <1>2, <1>3

-----------------------------------------------------------------------------
Task == [at : {"off", "asleep", "group", "adding"}, batch : Batches]

LEMMA EventsNoted ==
  ASSUME IndexShape
  PROVE  /\ \A e \in Range(pending) : e \in Noted
         /\ \A w \in Worker : \A e \in Range(worker[w].batch) : e \in Noted
<1>1. ASSUME NEW e \in Range(pending) PROVE e \in Noted
  <2>1. PICK i \in DOMAIN pending : e = pending[i]
    BY <1>1 DEF Range
  <2>2. pending \in Seq(Noted)
    BY DEF IndexShape
  <2> QED
    BY <2>1, <2>2
<1>2. ASSUME NEW w \in Worker, NEW e \in Range(worker[w].batch) PROVE e \in Noted
  <2>1. worker[w].batch \in Batches
    BY DEF IndexShape
  <2>2. PICK D \in SUBSET Nat : worker[w].batch \in [D -> Noted]
    BY <2>1 DEF Batches
  <2> QED
    BY <1>2, <2>2 DEF Range
<1> QED
  BY <1>1, <1>2

\* A worker's step that writes at most its batch and keeps at most its batch.
LEMMA WorkerStep ==
  ASSUME IndexShape, OneWorker, EventsTrue, InOrder,
         NEW w \in Worker, worker[w].at # "off",
         NEW x \in Task, Range(x.batch) \subseteq Range(worker[w].batch),
         x.at # "off", x.at = "asleep" => Range(x.batch) = {},
         worker' = [worker EXCEPT ![w] = x],
         NEW group, Range(group) \subseteq Range(worker[w].batch),
         points' \subseteq points \cup Paired(group),
         UNCHANGED <<kb, onDisk, pending, running>>
  PROVE  IndexShape' /\ OneWorker' /\ EventsTrue' /\ InOrder'
<1>1. worker'[w] = x /\ \A v \in Worker \ {w} : worker'[v] = worker[v]
  BY DEF IndexShape
<1>2. \A v \in Worker : Range(worker'[v].batch) \subseteq Range(worker[v].batch)
  BY <1>1
<1>3. Range(group) \subseteq Noted
  BY EventsNoted
<1>4. ASSUME NEW q \in points', q \notin points
      PROVE  /\ q \in [doc : Doc, v : Nat, coll : Collection, vec : Doc]
             /\ \E e \in Range(worker[w].batch) : q.doc = e.doc /\ q.v = e.v
  BY <1>3, <1>4, PairedFacts
<1>5. IndexShape'
  <2>1. worker' \in [Worker -> [at : {"off", "asleep", "group", "adding"}, batch : Batches]]
    BY DEF IndexShape, Task
  <2>2. points' \subseteq [doc : Doc, v : Nat, coll : Collection, vec : Doc]
    BY <1>4 DEF IndexShape
  <2> QED
    BY <2>1, <2>2 DEF IndexShape
<1>6. OneWorker'
  BY <1>1, <1>2 DEF OneWorker
<1>7. EventsTrue'
  <2>1. \A e : TruthfulBoth(e)' <=> TruthfulBoth(e)
    BY DEF TruthfulBoth
  <2> QED
    BY <1>2, <2>1 DEF EventsTrue
<1>8. InOrder'
  <2>1. OneEach(Range(pending))'
    BY DEF InOrder, OneEach
  <2>2. \A v \in Worker : OneEach(Range(worker'[v].batch))
    BY <1>2 DEF InOrder, OneEach
  <2>3. \A v \in Worker : \A e \in Range(worker'[v].batch), f \in Range(pending') :
          e.doc = f.doc => e.v <= f.v
    BY <1>2 DEF InOrder
  <2>4. ASSUME NEW q \in points'
        PROVE  /\ q.v <= kb'[q.doc].v /\ q.v <= onDisk'[q.doc].v
               /\ \A e \in Range(pending') : q.doc = e.doc => q.v <= e.v
               /\ \A v \in Worker : \A e \in Range(worker'[v].batch) :
                       q.doc = e.doc => q.v <= e.v
    <3>1. CASE q \in points
      BY <1>2, <3>1 DEF InOrder
    <3>2. CASE q \notin points
      <4>1. PICK e \in Range(worker[w].batch) : q.doc = e.doc /\ q.v = e.v
        BY <1>4, <3>2
      <4>2. q.v <= kb'[q.doc].v /\ q.v <= onDisk'[q.doc].v
        BY <4>1 DEF EventsTrue, TruthfulBoth, Truthful
      <4>3. \A f \in Range(pending') : q.doc = f.doc => q.v <= f.v
        BY <4>1 DEF InOrder
      <4>4. ASSUME NEW v \in Worker, NEW f \in Range(worker'[v].batch), q.doc = f.doc
            PROVE  q.v <= f.v
        <5>1. f \in Range(worker[v].batch)
          BY <1>2
        <5>2. v = w
          BY <5>1, EventsNoted DEF OneWorker, IndexShape
        <5>3. f = e
          BY <4>1, <4>4, <5>1, <5>2 DEF InOrder, OneEach
        <5>4. q.v \in Nat
          BY <1>4, <3>2
        <5> QED
          BY <4>1, <5>3, <5>4
      <4> QED
        BY <4>2, <4>3, <4>4
    <3> QED
      BY <3>1, <3>2
  <2> QED
    BY <2>1, <2>2, <2>3, <2>4 DEF InOrder
<1> QED
  BY <1>5, <1>6, <1>7, <1>8

LEMMA IndexInvInit == IndexInit => IndexInv
<1> SUFFICES ASSUME IndexInit PROVE IndexInv
  OBVIOUS
<1>1. IndexShape
  BY EmptyBatch DEF IndexInit, IndexShape, DocRecord, Off, Collection
<1>2. \A w \in Worker : Range(worker[w].batch) = {}
  BY EmptyBatch DEF IndexInit, Off
<1>3. Range(pending) = {} /\ points = {}
  BY EmptyBatch DEF IndexInit
<1>4. OneWorker
  BY <1>2 DEF IndexInit, OneWorker, Off
<1>5. EventsTrue /\ InOrder
  BY <1>2, <1>3 DEF EventsTrue, InOrder, OneEach
<1>6. NoneLost /\ OwnVectors
  BY DEF IndexInit, NoneLost, Held, OwnVectors
<1> QED
  BY <1>1, <1>4, <1>5, <1>6 DEF IndexInv

\* What a change does to memory and file.
LEMMA RecordsOf ==
  ASSUME IndexShape, NEW d \in Doc, kb[d].state # "deleted",
         NEW state \in {"live", "deleted"}, NEW coll \in Collection, NEW blank \in BOOLEAN,
         BaseWritten(Changed(d, state, coll, blank)) \/ BaseWriteFails(Changed(d, state, coll, blank))
  PROVE  /\ kb' \in [Doc -> DocRecord] /\ onDisk' \in [Doc -> DocRecord]
         /\ kb'[d] = [state |-> state, v |-> kb[d].v + 1, coll |-> coll, blank |-> blank]
         /\ \A c \in Doc \ {d} : kb'[c] = kb[c]
         /\ \/ onDisk' = kb'
            \/ onDisk' = onDisk
            \/ \A c \in Doc : onDisk'[c].v = kb'[c].v /\ onDisk'[c].state # "live"
                              /\ (kb'[c].state = "deleted" => onDisk'[c].state = "deleted")
         /\ BaseWritten(Changed(d, state, coll, blank)) => onDisk' = kb'
<1>1. Changed(d, state, coll, blank) \in [Doc -> DocRecord]
  BY DEF Changed, IndexShape, DocRecord
<1>2. kb' = Changed(d, state, coll, blank)
  BY DEF BaseWritten, BaseWriteFails
<1>3. /\ kb'[d] = [state |-> state, v |-> kb[d].v + 1, coll |-> coll, blank |-> blank]
      /\ \A c \in Doc \ {d} : kb'[c] = kb[c]
  BY <1>2 DEF Changed, IndexShape, DocRecord
<1>4. /\ Torn(kb') \in [Doc -> DocRecord]
      /\ \A c \in Doc : /\ Torn(kb')[c].v = kb'[c].v /\ Torn(kb')[c].state # "live"
                        /\ kb'[c].state = "deleted" => Torn(kb')[c].state = "deleted"
  BY <1>1, <1>2 DEF Torn, DocRecord
<1>5. onDisk' = kb' \/ onDisk' = onDisk \/ onDisk' = Torn(kb')
  BY <1>2 DEF BaseWritten, BaseWriteFails
<1>6. BaseWritten(Changed(d, state, coll, blank)) => onDisk' = kb'
  BY DEF BaseWritten
<1> QED
  BY <1>1, <1>2, <1>3, <1>4, <1>5, <1>6 DEF IndexShape

\* An event stays true of a document that changes: the records only grow, and a
\* deleted document is not changed any more.
LEMMA StaysTrue ==
  ASSUME IndexShape, NEW d \in Doc, kb[d].state # "deleted",
         NEW state \in {"live", "deleted"}, NEW coll \in Collection, NEW blank \in BOOLEAN,
         BaseWritten(Changed(d, state, coll, blank)) \/ BaseWriteFails(Changed(d, state, coll, blank)),
         NEW f \in Noted, TruthfulBoth(f)
  PROVE  TruthfulBoth(f)'
<1>1. /\ kb' \in [Doc -> DocRecord] /\ onDisk' \in [Doc -> DocRecord]
      /\ kb'[d] = [state |-> state, v |-> kb[d].v + 1, coll |-> coll, blank |-> blank]
      /\ \A c \in Doc \ {d} : kb'[c] = kb[c]
      /\ \/ onDisk' = kb'
         \/ onDisk' = onDisk
         \/ \A c \in Doc : onDisk'[c].v = kb'[c].v /\ onDisk'[c].state # "live"
                           /\ (kb'[c].state = "deleted" => onDisk'[c].state = "deleted")
  BY RecordsOf
<1>2. f.doc \in Doc /\ f.v \in Nat /\ kb[f.doc] \in DocRecord /\ kb[d] \in DocRecord
  BY DEF IndexShape, Noted
<1>3. kb[f.doc].v \in Nat /\ kb[d].v \in Nat
  BY <1>2 DEF DocRecord
<1>4. Truthful(f, kb'[f.doc])
  <2>1. CASE f.doc = d
    BY <1>1, <1>2, <1>3, <2>1 DEF TruthfulBoth, Truthful
  <2>2. CASE f.doc # d
    BY <1>1, <1>2, <2>2 DEF TruthfulBoth
  <2> QED
    BY <2>1, <2>2
<1>5. Truthful(f, onDisk'[f.doc])
  BY <1>1, <1>2, <1>4 DEF TruthfulBoth, Truthful
<1> QED
  BY <1>4, <1>5 DEF TruthfulBoth

\* What is known of the points stays true as well.
LEMMA PointsBelow ==
  ASSUME IndexShape, InOrder, NEW d \in Doc, kb[d].state # "deleted",
         NEW state \in {"live", "deleted"}, NEW coll \in Collection, NEW blank \in BOOLEAN,
         BaseWritten(Changed(d, state, coll, blank)) \/ BaseWriteFails(Changed(d, state, coll, blank)),
         NEW q \in points
  PROVE  q.v <= kb'[q.doc].v /\ q.v <= onDisk'[q.doc].v
<1>1. /\ kb'[d] = [state |-> state, v |-> kb[d].v + 1, coll |-> coll, blank |-> blank]
      /\ \A c \in Doc \ {d} : kb'[c] = kb[c]
      /\ \/ onDisk' = kb'
         \/ onDisk' = onDisk
         \/ \A c \in Doc : onDisk'[c].v = kb'[c].v /\ onDisk'[c].state # "live"
  BY RecordsOf
<1>2. /\ q.doc \in Doc /\ q.v \in Nat /\ q.v <= kb[q.doc].v /\ q.v <= onDisk[q.doc].v
      /\ kb[q.doc] \in DocRecord
  BY DEF IndexShape, InOrder
<1>3. kb[q.doc].v \in Nat
  BY <1>2 DEF DocRecord
<1>4. q.v <= kb'[q.doc].v
  <2>1. CASE q.doc = d
    BY <1>1, <1>2, <1>3, <2>1
  <2>2. CASE q.doc # d
    BY <1>1, <1>2, <2>2
  <2> QED
    BY <2>1, <2>2
<1> QED
  BY <1>1, <1>2, <1>4

\* A version that no event was noted of: the pipeline knows nothing of the step.
LEMMA UnnotedStep ==
  ASSUME IndexInv, NEW d \in Doc, kb[d].state # "deleted",
         NEW state \in {"live", "deleted"}, NEW coll \in Collection, NEW blank \in BOOLEAN,
         BaseWritten(Changed(d, state, coll, blank)) \/ BaseWriteFails(Changed(d, state, coll, blank)),
         unnoted' = unnoted \cup {<<d, kb[d].v + 1>>},
         UNCHANGED <<pending, running, worker, points, dropped, spoiled>>
  PROVE  IndexInv'
<1>1. IndexShape /\ OneWorker /\ EventsTrue /\ InOrder /\ NoneLost /\ OwnVectors
  BY DEF IndexInv
<1>2. /\ kb' \in [Doc -> DocRecord] /\ onDisk' \in [Doc -> DocRecord]
      /\ kb'[d] = [state |-> state, v |-> kb[d].v + 1, coll |-> coll, blank |-> blank]
      /\ \A c \in Doc \ {d} : kb'[c] = kb[c]
      /\ \/ onDisk' = kb'
         \/ onDisk' = onDisk
         \/ \A c \in Doc : onDisk'[c].v = kb'[c].v /\ onDisk'[c].state # "live"
  BY <1>1, RecordsOf
<1>3. IndexShape' /\ OneWorker'
  BY <1>1, <1>2 DEF IndexShape, OneWorker
<1>4. EventsTrue'
  BY <1>1, StaysTrue, EventsNoted DEF EventsTrue
<1>5. InOrder'
  <2>1. \A q \in points : q.v <= kb'[q.doc].v /\ q.v <= onDisk'[q.doc].v
    BY <1>1, PointsBelow
  <2> QED
    BY <1>1, <2>1 DEF InOrder, OneEach
<1>6. NoneLost'
  <2>1. ASSUME NEW c \in Doc, NEW x, Held(c, x) PROVE Held(c, x)'
    BY <2>1 DEF Held, Waits, IsWritten, Indexed, Excused
  <2>2. ASSUME NEW c \in Doc, NEW x, x = kb'[c] PROVE Held(c, x)'
    <3>1. CASE c = d
      BY <1>2, <2>2, <3>1 DEF Held, Excused
    <3>2. CASE c # d
      <4>1. x = kb[c] /\ Held(c, kb[c])
        BY <1>1, <1>2, <2>2, <3>2 DEF NoneLost
      <4> QED
        BY <2>1, <4>1
    <3> QED
      BY <3>1, <3>2
  <2>3. ASSUME NEW c \in Doc, NEW x, x = onDisk'[c] PROVE Held(c, x)'
    <3>1. CASE onDisk' = kb'
      BY <2>2, <2>3, <3>1
    <3>2. CASE onDisk' = onDisk
      <4>1. x = onDisk[c] /\ Held(c, onDisk[c])
        BY <1>1, <2>3, <3>2 DEF NoneLost
      <4> QED
        BY <2>1, <4>1
    <3>3. CASE \A b \in Doc : onDisk'[b].v = kb'[b].v /\ onDisk'[b].state # "live"
      BY <2>3, <3>3 DEF Held
    <3> QED
      BY <1>2, <3>1, <3>2, <3>3
  <2> QED
    BY <2>2, <2>3 DEF NoneLost, Held, Waits, IsWritten, Indexed, Excused
<1>7. OwnVectors'
  BY <1>1 DEF OwnVectors
<1> QED
  BY <1>3, <1>4, <1>5, <1>6, <1>7 DEF IndexInv

\* A noted change: everything known of the document is older than its event.
LEMMA NotedStep ==
  ASSUME IndexInv, NEW d \in Doc, kb[d].state # "deleted",
         NEW state \in {"live", "deleted"}, NEW action \in {"add", "update", "delete"},
         NEW coll \in Collection, NEW blank \in BOOLEAN,
         action = "delete" <=> state = "deleted",
         BaseWritten(Changed(d, state, coll, blank)),
         Enqueue([doc |-> d, action |-> action, v |-> kb[d].v + 1,
                  coll |-> IF action = "delete" THEN General ELSE coll, blank |-> blank]),
         UNCHANGED <<unnoted, running, worker, points, dropped, spoiled>>
  PROVE  IndexInv'
<1> PICK e : e = [doc |-> d, action |-> action, v |-> kb[d].v + 1,
                  coll |-> IF action = "delete" THEN General ELSE coll, blank |-> blank]
  OBVIOUS
<1> DEFINE old == {f \in Range(pending) : f.doc # d}
<1>1. IndexShape /\ OneWorker /\ EventsTrue /\ InOrder /\ NoneLost /\ OwnVectors
  BY DEF IndexInv
<1>2. kb[d].v \in Nat /\ e \in Noted /\ Enqueue(e)
  BY <1>1 DEF IndexShape, DocRecord, Noted, Collection
<1>3. pending' \in Seq(Noted) /\ Range(pending') = old \cup {e}
  <2>1. pending \in Seq(Noted) /\ e.doc = d
    BY <1>1 DEF IndexShape
  <2> QED
    BY <1>2, <2>1, Enqueued
<1>4. /\ kb' \in [Doc -> DocRecord] /\ onDisk' = kb'
      /\ kb'[d] = [state |-> state, v |-> kb[d].v + 1, coll |-> coll, blank |-> blank]
      /\ \A c \in Doc \ {d} : kb'[c] = kb[c]
  BY <1>1, RecordsOf
<1>5. /\ e.doc = d /\ e.v = kb[d].v + 1 /\ e.action = action
      /\ action # "delete" => e.coll = coll
  OBVIOUS
<1>6. IndexShape' /\ OneWorker'
  BY <1>1, <1>3, <1>4 DEF IndexShape, OneWorker
<1>7. EventsTrue'
  <2>1. TruthfulBoth(e)'
    BY <1>2, <1>4, <1>5 DEF TruthfulBoth, Truthful
  <2>2. \A f \in Range(pending') : TruthfulBoth(f)'
    BY <1>1, <1>3, <2>1, StaysTrue, EventsNoted DEF EventsTrue
  <2>3. \A w \in Worker : \A f \in Range(worker[w].batch) : TruthfulBoth(f)'
    BY <1>1, StaysTrue, EventsNoted DEF EventsTrue
  <2> QED
    BY <2>2, <2>3 DEF EventsTrue
<1>8. InOrder'
  <2>1. OneEach(Range(pending))'
    BY <1>1, <1>3, <1>5 DEF InOrder, OneEach
  <2>2. \A w \in Worker : OneEach(Range(worker[w].batch))'
    BY <1>1 DEF InOrder, OneEach
  <2>3. ASSUME NEW q \in points'
        PROVE  /\ q.v <= kb'[q.doc].v /\ q.v <= onDisk'[q.doc].v
               /\ \A f \in Range(pending') : q.doc = f.doc => q.v <= f.v
               /\ \A w \in Worker : \A f \in Range(worker'[w].batch) :
                       q.doc = f.doc => q.v <= f.v
    <3>1. q \in points /\ q.doc \in Doc /\ q.v \in Nat /\ q.v <= kb[q.doc].v
      BY <1>1 DEF IndexShape, InOrder
    <3>2. q.v <= kb'[q.doc].v /\ q.v <= onDisk'[q.doc].v
      BY <1>1, <3>1, PointsBelow
    <3>3. \A f \in Range(pending') : q.doc = f.doc => q.v <= f.v
      BY <1>1, <1>2, <1>3, <1>5, <3>1 DEF InOrder
    <3>4. \A w \in Worker : \A f \in Range(worker'[w].batch) :
               q.doc = f.doc => q.v <= f.v
      BY <1>1, <3>1 DEF InOrder
    <3> QED
      BY <3>2, <3>3, <3>4
  <2>4. ASSUME NEW w \in Worker, NEW f \in Range(worker'[w].batch),
               NEW g \in Range(pending'),
               f.doc = g.doc
        PROVE  f.v <= g.v
    <3>1. f \in Range(worker[w].batch) /\ f \in Noted /\ TruthfulBoth(f)
      BY <1>1, EventsNoted DEF EventsTrue
    <3>2. CASE g \in Range(pending)
      BY <1>1, <2>4, <3>1, <3>2 DEF InOrder
    <3>3. CASE g = e
      <4>1. f.v \in Nat /\ f.v <= kb[d].v
        BY <1>5, <2>4, <3>1, <3>3 DEF TruthfulBoth, Truthful, Noted
      <4> QED
        BY <1>2, <1>5, <3>3, <4>1
    <3> QED
      BY <1>3, <3>2, <3>3
  <2> QED
    BY <2>1, <2>2, <2>3, <2>4 DEF InOrder
<1>9. NoneLost'
  <2> SUFFICES ASSUME NEW c \in Doc, NEW x, x = kb'[c] PROVE Held(c, x)'
    BY <1>4 DEF NoneLost, Held, Waits, IsWritten, Indexed, Excused
  <2>1. CASE c = d
    BY <1>3, <1>4, <1>5, <2>1 DEF Held, Waits
  <2>2. CASE c # d
    <3>1. x = kb[c] /\ Held(c, kb[c])
      BY <1>1, <1>4, <2>2 DEF NoneLost
    <3>2. ASSUME NEW v, Waits(c, v) PROVE Waits(c, v)'
      BY <1>3, <2>2, <3>2 DEF Waits
    <3> QED
      BY <3>1, <3>2 DEF Held, IsWritten, Indexed, Excused
  <2> QED
    BY <2>1, <2>2
<1>10. OwnVectors'
  BY <1>1 DEF OwnVectors
<1> QED
  BY <1>6, <1>7, <1>8, <1>9, <1>10 DEF IndexInv

LEMMA ChangeStep ==
  ASSUME IndexInv, NEW d \in Doc, kb[d].state # "deleted",
         NEW state \in {"live", "deleted"}, NEW action \in {"add", "update", "delete"},
         NEW coll \in Collection, NEW blank \in BOOLEAN,
         action = "delete" <=> state = "deleted",
         ChangeDoc(d, state, action, coll, blank)
  PROVE  IndexInv'
BY NotedStep, UnnotedStep DEF ChangeDoc

\* What became of the versions, in a step that changes no document: what was
\* waiting or in a batch may have been dropped, or sent behind a blank text.
LEMMA KeptOrLost ==
  ASSUME NoneLost, UNCHANGED <<kb, onDisk>>,
         unnoted \subseteq unnoted', dropped \subseteq dropped', spoiled \subseteq spoiled',
         \A d \in Doc : \A x \in {kb[d], onDisk[d]} : x.state = "live" =>
           /\ Waits(d, x.v) => Waits(d, x.v)' \/ IsWritten(d, x.v)' \/ <<d, x.v>> \in dropped'
           /\ IsWritten(d, x.v) => \/ IsWritten(d, x.v)' \/ Indexed(d, x)'
                                   \/ <<d, x.v>> \in dropped' \cup spoiled'
           /\ Indexed(d, x) => Indexed(d, x)'
  PROVE  NoneLost'
<1>1. ASSUME NEW d \in Doc, NEW x \in {kb[d], onDisk[d]}, Held(d, x) PROVE Held(d, x)'
  BY <1>1 DEF Held, Excused
<1> QED
  BY <1>1 DEF NoneLost

LEMMA VersionsOf ==
  ASSUME NEW events, NEW e \in Range(events)
  PROVE  <<e.doc, e.v>> \in Versions(events)
BY DEF Versions

LEMMA FlushStep ==
  ASSUME IndexInv, NEW w \in Worker, FlushBatch(w)
  PROVE  IndexInv'
<1>1. IndexShape /\ OneWorker /\ EventsTrue /\ InOrder /\ NoneLost /\ OwnVectors
  BY DEF IndexInv
<1>2. /\ worker[w] = Asleep /\ pending' = <<>> /\ UNCHANGED <<kb, onDisk, running, points, unnoted, spoiled>>
  BY DEF FlushBatch, Take
<1>3. /\ Range(pending') = {} /\ pending' \in Seq(Noted)
      /\ Range(worker[w].batch) = {}
  BY <1>2, EmptyBatch DEF Asleep
<1>4. \A e : TruthfulBoth(e)' <=> TruthfulBoth(e)
  BY <1>2 DEF TruthfulBoth
<1>5. CASE worker' = worker /\ dropped' = dropped \cup Versions(pending)
  <2>1. IndexShape' /\ OneWorker'
    BY <1>1, <1>2, <1>3, <1>5 DEF IndexShape, OneWorker
  <2>2. EventsTrue' /\ InOrder'
    BY <1>1, <1>2, <1>3, <1>4, <1>5 DEF EventsTrue, InOrder, OneEach
  <2>3. NoneLost'
    <3>1. \A d, v : Waits(d, v) => <<d, v>> \in Versions(pending)
      BY VersionsOf DEF Waits
    <3>2. \A d, x : (IsWritten(d, x.v) => IsWritten(d, x.v)') /\ (Indexed(d, x) => Indexed(d, x)')
      BY <1>2, <1>5 DEF IsWritten, Indexed
    <3> QED
      BY <1>1, <1>2, <1>5, <3>1, <3>2, KeptOrLost
  <2> QED
    BY <1>1, <1>2, <2>1, <2>2, <2>3 DEF IndexInv, OwnVectors
<1>6. CASE worker' = [worker EXCEPT ![w] = [at |-> "group", batch |-> pending]]
      /\ dropped' = dropped
  <2>1. /\ worker'[w] = [at |-> "group", batch |-> pending]
        /\ \A v \in Worker \ {w} : worker'[v] = worker[v]
    BY <1>1, <1>6 DEF IndexShape
  <2>2. \A v \in Worker \ {w} : worker[v].at = "off" /\ Range(worker[v].batch) = {}
    <3>1. worker[w].at = "asleep"
      BY <1>2 DEF Asleep
    <3> QED
      BY <1>1, <3>1 DEF OneWorker
  <2>3. IndexShape'
    BY <1>1, <1>2, <1>3, <1>6, SeqIsBatch DEF IndexShape
  <2>4. OneWorker'
    <3>1. running
      <4>1. worker[w].at = "asleep"
        BY <1>2 DEF Asleep
      <4> QED
        BY <1>1, <4>1 DEF OneWorker
    <3>2. running'
      BY <1>2, <3>1
    <3>3. \A v \in Worker : worker'[v].at \in {"off", "asleep"} => v # w
      BY <2>1
    <3>4. \A v \in Worker :
            v # w => worker'[v].at = "off" /\ Range(worker'[v].batch) = {}
      BY <2>1, <2>2
    <3> QED
      BY <3>2, <3>3, <3>4 DEF OneWorker
  <2>5. \A v \in Worker : Range(worker'[v].batch) \subseteq Range(pending)
    BY <2>1, <2>2
  <2>6. EventsTrue'
    BY <1>1, <1>3, <1>4, <2>5 DEF EventsTrue
  <2>7. InOrder'
    BY <1>1, <1>2, <1>3, <2>5 DEF InOrder, OneEach
  <2>8. NoneLost'
    <3>1. \A d, v : Waits(d, v) => IsWritten(d, v)'
      BY <1>2, <2>1 DEF Waits, IsWritten
    <3>2. \A d, v : ~IsWritten(d, v)
      BY <1>3, <2>2 DEF IsWritten
    <3>3. \A d, x : Indexed(d, x) => Indexed(d, x)'
      BY <1>2 DEF Indexed
    <3> QED
      BY <1>1, <1>2, <1>6, <3>1, <3>2, <3>3, KeptOrLost
  <2> QED
    BY <1>1, <1>2, <2>3, <2>4, <2>6, <2>7, <2>8 DEF IndexInv, OwnVectors
<1> QED
  BY <1>5, <1>6 DEF FlushBatch

LEMMA AdvancedFacts ==
  ASSUME NEW batch \in Batches
  PROVE  /\ Advanced(batch) \in Task /\ Advanced(batch).at # "off"
         /\ Range(Advanced(batch).batch) =
               {e \in Range(batch) : e.coll # FirstColl(batch)}
         /\ Advanced(batch).at = "asleep" =>
              Range(Advanced(batch).batch) = {}
<1>1. CASE HasNone(Rest(batch))
  <2>1. Range(Rest(batch)) = {}
    BY <1>1 DEF HasNone, Range
  <2>2. Advanced(batch) = Asleep
    BY <1>1 DEF Advanced
  <2> QED
    BY <2>1, <2>2, GroupAndRest, EmptyBatch DEF Asleep, Task
<1>2. CASE ~HasNone(Rest(batch))
  <2>1. Advanced(batch) = [at |-> "group", batch |-> Rest(batch)]
    BY <1>2 DEF Advanced
  <2> QED
    BY <2>1, GroupAndRest DEF Task
<1> QED
  BY <1>1, <1>2

\* A document that is there, in memory or in the file.
Alive(d) == kb[d].state = "live" \/ onDisk[d].state = "live"

\* Deletions take nothing from a document there is, and nothing else is dropped.
LEMMA GroupStep ==
  ASSUME IndexInv, NEW w \in Worker, SyncGroup(w)
  PROVE  IndexInv'
<1> DEFINE batch == worker[w].batch
           group == Group(batch)
           x == IF HasNone(Upserts(group)) THEN Advanced(batch)
                ELSE [at |-> "adding", batch |-> batch]
<1>1. IndexShape /\ OneWorker /\ EventsTrue /\ InOrder /\ NoneLost /\ OwnVectors
  BY DEF IndexInv
<1>2. /\ worker[w].at = "group" /\ worker' = [worker EXCEPT ![w] = x]
      /\ points' = Deleted(group) \/ points' = points
      /\ UNCHANGED <<kb, onDisk, pending, running, unnoted, dropped, spoiled>>
  BY DEF SyncGroup
<1>3. batch \in Batches
  BY <1>1 DEF IndexShape
<1>4. /\ x \in Task /\ x.at # "off" /\ Range(x.batch) \subseteq Range(batch)
      /\ x.at = "asleep" => Range(x.batch) = {}
  <2>1. CASE HasNone(Upserts(group))
    BY <1>3, <2>1, AdvancedFacts
  <2>2. CASE ~HasNone(Upserts(group))
    BY <1>3, <2>2 DEF Task
  <2> QED
    BY <2>1, <2>2
<1>5. points' \subseteq points
  BY <1>2 DEF Deleted
<1>6. \A e \in Range(batch) : Alive(e.doc) => e.action # "delete"
  BY <1>1 DEF EventsTrue, TruthfulBoth, Truthful, Alive
<1>7. ASSUME NEW e \in Range(batch), Alive(e.doc)
      PROVE  e \in Range(x.batch)
  <2>1. CASE HasNone(Upserts(group))
    <3>1. e \notin Range(group)
      BY <1>6, <1>7, <2>1, GroupKinds
    <3>2. e.coll # FirstColl(batch)
      BY <1>3, <1>7, <3>1, GroupAndRest
    <3> QED
      BY <1>3, <1>7, <2>1, <3>2, AdvancedFacts
  <2>2. CASE ~HasNone(Upserts(group))
    BY <1>7, <2>2
  <2> QED
    BY <2>1, <2>2
<1>8. ASSUME NEW p \in points, Alive(p.doc)
      PROVE  p \in points'
  <2>1. CASE points' = Deleted(group)
    <3>1. \A e \in Range(Deletes(group)) : e.doc # p.doc
      BY <1>3, <1>6, <1>8, GroupKinds, GroupAndRest
    <3>2. HasNone(Deletes(group))
            \/ \E e \in Range(Deletes(group)) : e.doc # p.doc
      BY <3>1, GroupKinds
    <3> QED
      BY <2>1, <3>2 DEF Deleted
  <2> QED
    BY <1>2, <2>1
<1> HIDE DEF x, group
<1>9. IndexShape' /\ OneWorker' /\ EventsTrue' /\ InOrder'
  <2>1. Range(<<>>) \subseteq Range(worker[w].batch)
    BY EmptyBatch
  <2>2. points' \subseteq points \cup Paired(<<>>)
    BY <1>5
  <2> QED
    BY <1>1, <1>2, <1>4, <2>1, <2>2, WorkerStep
<1>10. NoneLost'
  <2>1. worker'[w] = x /\ \A v \in Worker \ {w} : worker'[v] = worker[v]
    BY <1>1, <1>2 DEF IndexShape
  <2>2. \A d, v : Waits(d, v) => Waits(d, v)'
    BY <1>2 DEF Waits
  <2>3. \A d, v : Alive(d) /\ IsWritten(d, v) => IsWritten(d, v)'
    BY <1>2, <1>7, <2>1 DEF IsWritten
  <2>4. \A d, y : Alive(d) /\ Indexed(d, y) => Indexed(d, y)'
    BY <1>2, <1>8 DEF Indexed
  <2>5. \A d : \A y \in {kb[d], onDisk[d]} : y.state = "live" => Alive(d)
    BY DEF Alive
  <2> QED
    BY <1>1, <1>2, <2>2, <2>3, <2>4, <2>5, KeptOrLost
<1>11. OwnVectors'
  BY <1>1, <1>2, <1>5 DEF OwnVectors
<1> QED
  BY <1>9, <1>10, <1>11 DEF IndexInv

\* What the database makes of the texts a worker has sent.
LEMMA SentFacts ==
  ASSUME IndexShape, NEW w \in Worker
  PROVE  /\ DOMAIN Sent(w) \subseteq Nat
         /\ Range(Sent(w)) = {e \in Range(worker[w].batch) :
              e.coll = FirstColl(worker[w].batch) /\ e.action # "delete"}
         /\ Range(Sent(w)) \subseteq Noted
<1>1. worker[w].batch \in Batches
  BY DEF IndexShape
<1>2. Group(worker[w].batch) \in Batches
  BY <1>1, GroupAndRest
<1>3. DOMAIN Group(worker[w].batch) \subseteq Nat
  BY <1>2 DEF Batches
<1>4. DOMAIN Sent(w) \subseteq DOMAIN Group(worker[w].batch)
  BY DEF Sent, Upserts, RestrictValues, Restrict
<1>5. Range(Sent(w)) = {e \in Range(worker[w].batch) :
        e.coll = FirstColl(worker[w].batch) /\ e.action # "delete"}
  BY <1>1, GroupAndRest, GroupKinds DEF Sent
<1> QED
  BY <1>3, <1>4, <1>5, EventsNoted

\* A point that is new belongs to an event of a batch.
LEMMA StoredFacts ==
  ASSUME IndexShape, NEW W \in SUBSET Worker, Stores(W), NEW q \in points', q \notin points
  PROVE  /\ q \in [doc : Doc, v : Nat, coll : Collection, vec : Doc]
         /\ \E w \in W : \E e \in Range(worker[w].batch) : q.doc = e.doc /\ q.v = e.v
<1>1. PICK w \in W : q \in Paired(Sent(w))
  BY DEF Stores
<1>2. Range(Sent(w)) \subseteq Range(worker[w].batch) /\ Range(Sent(w)) \subseteq Noted
  BY SentFacts
<1> QED
  BY <1>1, <1>2, PairedFacts

LEMMA OwnVectorsKept ==
  ASSUME IndexShape, OwnVectors, NEW W \in SUBSET Worker, Stores(W)
  PROVE  OwnVectors' /\ points \subseteq points' /\ spoiled \subseteq spoiled'
<1>1. ASSUME NEW q \in points', q \notin points, q.vec # q.doc
      PROVE  <<q.doc, q.v>> \in spoiled'
  <2>1. PICK w \in W : q \in Paired(Sent(w))
    BY <1>1 DEF Stores
  <2>2. <<q.doc, q.v>> \in BehindBlank(Sent(w))
    BY <1>1, <2>1, SentFacts, PairedForeign
  <2> QED
    BY <2>2 DEF Stores
<1>2. points \subseteq points' /\ spoiled \subseteq spoiled'
  BY DEF Stores
<1> QED
  BY <1>1, <1>2 DEF OwnVectors

\* A text that is sent gets a point of its own, or stands at or behind a blank one.
LEMMA TextStored ==
  ASSUME IndexShape, NEW w \in Worker, Stores({w}), NEW e \in Range(Sent(w))
  PROVE  \/ [doc |-> e.doc, v |-> e.v, coll |-> e.coll, vec |-> e.doc] \in points'
         \/ <<e.doc, e.v>> \in spoiled'
<1>1. PICK i \in DOMAIN Sent(w) : e = Sent(w)[i]
  BY DEF Range
<1>2. CASE <<e.doc, e.v>> \in BehindBlank(Sent(w))
  BY <1>2 DEF Stores
<1>3. CASE <<e.doc, e.v>> \notin BehindBlank(Sent(w))
  <2>1. [doc |-> e.doc, v |-> e.v, coll |-> e.coll, vec |-> e.doc] \in Paired(Sent(w))
    BY <1>1, <1>3, SentFacts, PairedOwn
  <2> QED
    BY <2>1 DEF Stores
<1> QED
  BY <1>2, <1>3

LEMMA AddStep ==
  ASSUME IndexInv, NEW w \in Worker, AddTexts(w)
  PROVE  IndexInv'
<1> DEFINE batch == worker[w].batch
<1>1. IndexShape /\ OneWorker /\ EventsTrue /\ InOrder /\ NoneLost /\ OwnVectors
  BY DEF IndexInv
<1>2. /\ worker[w].at = "adding" /\ worker' = [worker EXCEPT ![w] = Advanced(batch)]
      /\ Stores({w}) /\ points' = points \cup Paired(Sent(w))
      /\ UNCHANGED <<kb, onDisk, pending, running, unnoted, dropped>>
  BY DEF AddTexts, Stores
<1>3. batch \in Batches
  BY <1>1 DEF IndexShape
<1>4. IndexShape' /\ OneWorker' /\ EventsTrue' /\ InOrder'
  <2>1. Range(Advanced(batch).batch) \subseteq Range(batch)
    BY <1>3, AdvancedFacts
  <2>2. Range(Sent(w)) \subseteq Range(batch)
    BY <1>1, SentFacts
  <2>3. Advanced(batch) \in Task /\ Advanced(batch).at # "off"
        /\ (Advanced(batch).at = "asleep" => Range(Advanced(batch).batch) = {})
    BY <1>3, AdvancedFacts
  <2>4. worker[w].at # "off"
    BY <1>2
  <2> QED
    BY <1>1, <1>2, <2>1, <2>2, <2>3, <2>4, WorkerStep
<1>5. OwnVectors' /\ points \subseteq points' /\ spoiled \subseteq spoiled'
  BY <1>1, <1>2, OwnVectorsKept
<1>6. ASSUME NEW d \in Doc, NEW x \in {kb[d], onDisk[d]}, x.state = "live", IsWritten(d, x.v)
      PROVE  IsWritten(d, x.v)' \/ Indexed(d, x)' \/ <<d, x.v>> \in spoiled'
  <2>0. PICK v \in Worker : \E e \in Range(worker[v].batch) : e.doc = d /\ e.v = x.v
    BY <1>6 DEF IsWritten
  <2>1. PICK e \in Range(worker[v].batch) : e.doc = d /\ e.v = x.v
    BY <2>0
  <2>2. worker'[w] = Advanced(batch) /\ \A u \in Worker \ {w} : worker'[u] = worker[u]
    BY <1>1, <1>2 DEF IndexShape
  <2>3. CASE v # w
    BY <2>1, <2>2, <2>3 DEF IsWritten
  <2>4. CASE v = w /\ e.coll # FirstColl(batch)
    BY <1>3, <2>1, <2>2, <2>4, AdvancedFacts DEF IsWritten
  <2>5. CASE v = w /\ e.coll = FirstColl(batch)
    <3>1. Truthful(e, x)
      BY <1>1, <2>1 DEF EventsTrue, TruthfulBoth
    <3>2. e.action # "delete" /\ e.coll = x.coll
      BY <1>6, <2>1, <3>1 DEF Truthful
    <3>3. e \in Range(Sent(w))
      BY <1>1, <2>1, <2>5, <3>2, SentFacts
    <3> QED
      BY <1>1, <1>2, <2>1, <3>2, <3>3, TextStored DEF Indexed
  <2> QED
    BY <2>3, <2>4, <2>5
<1>7. NoneLost'
  <2>1. \A d, x : (Waits(d, x.v) => Waits(d, x.v)') /\ (Indexed(d, x) => Indexed(d, x)')
    BY <1>2 DEF Waits, Indexed
  <2> QED
    BY <1>1, <1>2, <1>5, <1>6, <2>1, KeptOrLost
<1> QED
  BY <1>4, <1>5, <1>7 DEF IndexInv

\* A flush that fails drops the rest of its batch, whatever it had written.
LEMMA FailStep ==
  ASSUME IndexInv, NEW w \in Worker, SyncFails(w)
  PROVE  IndexInv'
<1>1. IndexShape /\ OneWorker /\ EventsTrue /\ InOrder /\ NoneLost /\ OwnVectors
  BY DEF IndexInv
<1>2. /\ worker[w].at = "adding" /\ worker' = [worker EXCEPT ![w] = Asleep]
      /\ dropped' = dropped \cup Versions(worker[w].batch)
      /\ UNCHANGED <<kb, onDisk, pending, running, unnoted>>
  BY DEF SyncFails
<1>3. PICK W \in SUBSET {w} : Stores(W)
  BY DEF SyncFails
<1>4. points' \subseteq points \cup Paired(Sent(w))
  BY <1>3 DEF Stores
<1>5. OwnVectors' /\ points \subseteq points' /\ spoiled \subseteq spoiled'
  BY <1>1, <1>3, OwnVectorsKept
<1>6. /\ Asleep \in Task /\ Asleep.at # "off"
      /\ Range(Asleep.batch) = {}
  BY EmptyBatch DEF Asleep, Task
<1>7. IndexShape' /\ OneWorker' /\ EventsTrue' /\ InOrder'
  <2>1. Range(Sent(w)) \subseteq Range(worker[w].batch)
    BY <1>1, SentFacts
  <2>2. worker[w].at # "off"
    BY <1>2
  <2> QED
    BY <1>1, <1>2, <1>4, <1>6, <2>1, <2>2, WorkerStep
<1>8. NoneLost'
  <2>1. \A v \in Worker \ {w} : worker'[v] = worker[v]
    BY <1>1, <1>2 DEF IndexShape
  <2>2. \A d, v : IsWritten(d, v) => IsWritten(d, v)' \/ <<d, v>> \in dropped'
    BY <1>2, <2>1, VersionsOf DEF IsWritten
  <2>3. \A d, x : (Waits(d, x.v) => Waits(d, x.v)') /\ (Indexed(d, x) => Indexed(d, x)')
    BY <1>2, <1>5 DEF Waits, Indexed
  <2> QED
    BY <1>1, <1>2, <1>5, <2>2, <2>3, KeptOrLost
<1> QED
  BY <1>5, <1>7, <1>8 DEF IndexInv

LEMMA StartStep ==
  ASSUME IndexInv, NEW w \in Worker, Start(w)
  PROVE  IndexInv'
<1>1. IndexShape /\ OneWorker /\ EventsTrue /\ InOrder /\ NoneLost /\ OwnVectors
  BY DEF IndexInv
<1>2. /\ ~running /\ running' = TRUE /\ worker[w] = Off
      /\ worker' = [worker EXCEPT ![w] = Asleep]
      /\ UNCHANGED <<kb, onDisk, pending, points, unnoted, dropped, spoiled>>
  BY DEF Start
<1>3. /\ worker'[w] = Asleep /\ \A v \in Worker \ {w} : worker'[v] = worker[v]
  BY <1>1, <1>2 DEF IndexShape
<1>4. Range(Asleep.batch) =
        {} /\ Asleep \in Task /\ Asleep.at = "asleep"
  BY EmptyBatch DEF Asleep, Task
<1>5. \A v \in Worker : worker[v].at = "off" /\ Range(worker[v].batch) = {}
  BY <1>1, <1>2 DEF OneWorker
<1>6. \A v \in Worker : Range(worker'[v].batch) = {}
  BY <1>3, <1>4, <1>5
<1>7. IndexShape' /\ OneWorker'
  BY <1>1, <1>2, <1>3, <1>4, <1>5, <1>6 DEF IndexShape, OneWorker, Task
<1>8. EventsTrue' /\ InOrder'
  BY <1>1, <1>2, <1>6 DEF EventsTrue, InOrder, TruthfulBoth, OneEach
<1>9. NoneLost'
  <2>1. \A d, v : ~IsWritten(d, v)
    BY <1>5 DEF IsWritten
  <2>2. \A d, x : (Waits(d, x.v) => Waits(d, x.v)') /\ (Indexed(d, x) => Indexed(d, x)')
    BY <1>2 DEF Waits, Indexed
  <2> QED
    BY <1>1, <1>2, <2>1, <2>2, KeptOrLost
<1>10. OwnVectors'
  BY <1>1, <1>2 DEF OwnVectors
<1> QED
  BY <1>7, <1>8, <1>9, <1>10 DEF IndexInv

\* Stopping and crashing end the worker; its batch is dropped, whether or not the
\* request under way is yet carried out.
LEMMA EndShape ==
  ASSUME IndexInv, NEW W \in SUBSET Worker, Stores(W), worker' = [w \in Worker |-> Off],
         running' = FALSE, NEW base \in {kb, onDisk}, kb' = base, onDisk' = onDisk,
         pending' \in {pending, <<>>}, Range(pending') = {} \/ kb' = kb
  PROVE  IndexShape' /\ OneWorker' /\ EventsTrue' /\ InOrder'
<1>1. IndexShape /\ EventsTrue /\ InOrder
  BY DEF IndexInv
<1>2. pending' \in Seq(Noted) /\ Range(pending') \subseteq Range(pending)
  <2>1. CASE pending' = pending
    BY <1>1, <2>1 DEF IndexShape
  <2>2. CASE pending' = <<>>
    BY <2>2, EmptyBatch
  <2> QED
    BY <2>1, <2>2
<1>3. \A w \in Worker : Range(worker'[w].batch) = {} /\ worker'[w].at = "off"
  BY EmptyBatch DEF Off
<1>4. IndexShape' /\ OneWorker'
  <2>1. points' \subseteq [doc : Doc, v : Nat, coll : Collection, vec : Doc]
    BY <1>1, StoredFacts DEF IndexShape
  <2>2. kb' \in [Doc -> DocRecord] /\ onDisk' \in [Doc -> DocRecord]
    BY <1>1 DEF IndexShape
  <2>3. worker' \in [Worker -> [at : {"off", "asleep", "group", "adding"}, batch : Batches]]
    BY EmptyBatch DEF Off
  <2> QED
    BY <1>2, <1>3, <2>1, <2>2, <2>3 DEF IndexShape, OneWorker
<1>5. EventsTrue'
  <2>1. \A e \in Range(pending') : TruthfulBoth(e)'
    BY <1>1, <1>2 DEF EventsTrue, TruthfulBoth
  <2> QED
    BY <1>3, <2>1 DEF EventsTrue
<1>6. InOrder'
  <2>1. ASSUME NEW q \in points'
        PROVE  /\ q.v <= kb'[q.doc].v /\ q.v <= onDisk'[q.doc].v
               /\ \A f \in Range(pending') : q.doc = f.doc => q.v <= f.v
    <3>1. CASE q \in points
      BY <1>1, <1>2, <3>1 DEF InOrder
    <3>2. CASE q \notin points
      <4>0. PICK w \in W : \E e \in Range(worker[w].batch) : q.doc = e.doc /\ q.v = e.v
        BY <1>1, <3>2, StoredFacts
      <4>1. PICK e \in Range(worker[w].batch) : q.doc = e.doc /\ q.v = e.v
        BY <4>0
      <4>2. TruthfulBoth(e)
        BY <1>1, <4>1 DEF EventsTrue
      <4>3. e.v <= kb[e.doc].v /\ e.v <= onDisk[e.doc].v
        BY <4>2 DEF TruthfulBoth, Truthful
      <4>4. \A f \in Range(pending') : q.doc = f.doc => q.v <= f.v
        BY <1>1, <1>2, <4>1 DEF InOrder
      <4> QED
        BY <4>1, <4>3, <4>4
    <3> QED
      BY <3>1, <3>2
  <2>2. OneEach(Range(pending))'
    BY <1>1, <1>2 DEF InOrder, OneEach
  <2> QED
    BY <1>3, <2>1, <2>2 DEF InOrder, OneEach
<1> QED
  BY <1>4, <1>5, <1>6

LEMMA InBatchesOf ==
  ASSUME NEW d, NEW v, IsWritten(d, v)
  PROVE  <<d, v>> \in InBatches
BY VersionsOf DEF IsWritten, InBatches

LEMMA StopStep == ASSUME IndexInv, Stop PROVE IndexInv'
<1>1. IndexShape /\ NoneLost /\ OwnVectors
  BY DEF IndexInv
<1>2. PICK W \in SUBSET Worker : Stores(W)
  BY DEF Stop, Ends
<1>3. /\ worker' = [w \in Worker |-> Off] /\ running' = FALSE
      /\ dropped' = dropped \cup InBatches
      /\ UNCHANGED <<kb, onDisk, pending, unnoted>>
  BY DEF Stop, Ends
<1>4. OwnVectors' /\ points \subseteq points' /\ spoiled \subseteq spoiled'
  BY <1>1, <1>2, OwnVectorsKept
<1>5. IndexShape' /\ OneWorker' /\ EventsTrue' /\ InOrder'
  BY <1>2, <1>3, EndShape
<1>6. NoneLost'
  <2>1. \A d, x : (Waits(d, x.v) => Waits(d, x.v)') /\ (Indexed(d, x) => Indexed(d, x)')
    BY <1>3, <1>4 DEF Waits, Indexed
  <2>2. \A d, v : IsWritten(d, v) => <<d, v>> \in dropped'
    BY <1>3, InBatchesOf
  <2> QED
    BY <1>1, <1>3, <1>4, <2>1, <2>2, KeptOrLost
<1> QED
  BY <1>4, <1>5, <1>6 DEF IndexInv

\* After a crash the file is what the index owes to.
LEMMA CrashStep == ASSUME IndexInv, Crash PROVE IndexInv'
<1>1. IndexShape /\ NoneLost /\ OwnVectors
  BY DEF IndexInv
<1>2. PICK W \in SUBSET Worker : Stores(W)
  BY DEF Crash, Ends
<1>3. /\ worker' = [w \in Worker |-> Off] /\ running' = FALSE
      /\ dropped' = dropped \cup Versions(pending) \cup InBatches
      /\ unnoted' = {x \in unnoted : x[2] <= onDisk[x[1]].v}
      /\ kb' = onDisk /\ onDisk' = onDisk /\ pending' = <<>>
  BY DEF Crash, Ends
<1>4. OwnVectors' /\ points \subseteq points' /\ spoiled \subseteq spoiled'
  BY <1>1, <1>2, OwnVectorsKept
<1>5. IndexShape' /\ OneWorker' /\ EventsTrue' /\ InOrder'
  <2>1. Range(pending') = {}
    BY <1>3, EmptyBatch
  <2> QED
    BY <1>2, <1>3, <2>1, EndShape
<1>6. NoneLost'
  <2> SUFFICES ASSUME NEW d \in Doc, Held(d, onDisk[d]), onDisk[d].state = "live"
               PROVE  <<d, onDisk[d].v>> \in Excused' \/ Indexed(d, onDisk[d])'
    BY <1>1, <1>3 DEF NoneLost, Held, Indexed
  <2>1. CASE Waits(d, onDisk[d].v)
    <3>1. <<d, onDisk[d].v>> \in Versions(pending)
      BY <2>1, VersionsOf DEF Waits
    <3> QED
      BY <1>3, <3>1 DEF Excused
  <2>2. CASE IsWritten(d, onDisk[d].v)
    BY <1>3, <2>2, InBatchesOf DEF Excused
  <2>3. CASE <<d, onDisk[d].v>> \in Excused
    <3>1. onDisk[d].v \in Nat
      BY <1>1 DEF IndexShape, DocRecord
    <3>2. CASE <<d, onDisk[d].v>> \in unnoted
      BY <1>3, <3>1, <3>2 DEF Excused
    <3>3. CASE <<d, onDisk[d].v>> \in dropped \cup spoiled
      BY <1>3, <1>4, <3>3 DEF Excused
    <3> QED
      BY <2>3, <3>2, <3>3 DEF Excused
  <2>4. CASE Indexed(d, onDisk[d])
    BY <1>3, <1>4, <2>4 DEF Indexed
  <2> QED
    BY <2>1, <2>2, <2>3, <2>4 DEF Held
<1> QED
  BY <1>4, <1>5, <1>6 DEF IndexInv

LEMMA GenerateStep == ASSUME IndexInv, NEW d \in Doc, GenerateDoc(d) PROVE IndexInv'
<1>1. PICK c \in Category : \/ BaseWritten(Changed(d, "live", c, FALSE))
                            \/ BaseWriteFails(Changed(d, "live", c, FALSE))
  BY DEF GenerateDoc
<1>2. c \in Collection /\ kb[d].state # "deleted"
  BY DEF GenerateDoc, Collection
<1>3. /\ unnoted' = unnoted \cup {<<d, kb[d].v + 1>>}
      /\ UNCHANGED <<pending, running, worker, points, dropped, spoiled>>
  BY DEF GenerateDoc
<1> QED
  BY <1>1, <1>2, <1>3, UnnotedStep

LEMMA IndexInvNext == IndexInv /\ [IndexNext]_indexVars => IndexInv'
<1> SUFFICES ASSUME IndexInv, [IndexNext]_indexVars PROVE IndexInv'
  OBVIOUS
<1>1. ASSUME NEW d \in Doc, Create(d) PROVE IndexInv'
  <2>1. PICK c \in Category, blank \in BOOLEAN : ChangeDoc(d, "live", "add", c, blank)
    BY <1>1 DEF Create
  <2>2. c \in Collection /\ kb[d].state # "deleted"
    BY <1>1 DEF Create, Collection
  <2> QED
    BY <2>1, <2>2, ChangeStep
<1>2. ASSUME NEW d \in Doc, Update(d) PROVE IndexInv'
  <2>1. PICK c \in Collection, blank \in BOOLEAN :
               ChangeDoc(d, "live", "update", c, blank)
    BY <1>2 DEF Update
  <2>2. kb[d].state # "deleted"
    BY <1>2 DEF Update
  <2> QED
    BY <2>1, <2>2, ChangeStep
<1>3. ASSUME NEW d \in Doc, Delete(d) PROVE IndexInv'
  <2>1. /\ ChangeDoc(d, "deleted", "delete", kb[d].coll, kb[d].blank)
        /\ kb[d].state # "deleted"
    BY <1>3 DEF Delete
  <2>2. kb[d].coll \in Collection /\ kb[d].blank \in BOOLEAN
    BY DEF IndexInv, IndexShape, DocRecord
  <2> QED
    BY <2>1, <2>2, ChangeStep
<1>4. ASSUME NEW w \in Worker, Start(w) \/ Work(w) \/ SyncFails(w)
      PROVE IndexInv'
  BY <1>4, StartStep, FlushStep, GroupStep, AddStep, FailStep DEF Work
<1>5. ASSUME Stop \/ Crash \/ \E d \in Doc : GenerateDoc(d) PROVE IndexInv'
  BY <1>5, StopStep, CrashStep, GenerateStep
<1>6. CASE UNCHANGED indexVars
  <2>1. IndexShape' /\ OneWorker'
    BY <1>6 DEF indexVars, IndexInv, IndexShape, OneWorker
  <2>2. EventsTrue' /\ InOrder'
    BY <1>6 DEF indexVars, IndexInv, EventsTrue, TruthfulBoth, InOrder, OneEach
  <2>3. NoneLost' /\ OwnVectors'
    BY <1>6 DEF indexVars, IndexInv, NoneLost, Held, Waits, IsWritten, Indexed, Excused,
                OwnVectors
  <2> QED
    BY <2>1, <2>2, <2>3 DEF IndexInv
<1> QED
  BY <1>1, <1>2, <1>3, <1>4, <1>5, <1>6 DEF IndexNext

\* No event slips away, whatever arrives while the worker awaits the database and
\* whatever fails: only a version that was not noted, was dropped, or was sent
\* behind a blank text is not found under its own vector.
THEOREM NoEventSlips == IndexSpec => []IndexedWhenQuiet
<1>1. IndexInv => IndexedWhenQuiet
  <2> SUFFICES ASSUME IndexInv PROVE IndexedWhenQuiet
    OBVIOUS
  <2>1. ASSUME NEW d \in Doc, kb[d].state = "live", Position(d) = {}, ~InBatch(d),
               <<d, kb[d].v>> \notin unnoted \cup dropped \cup spoiled
        PROVE  Indexed(d, kb[d])
    <3>1. ~Waits(d, kb[d].v)
      BY <2>1 DEF Waits, Position, Range
    <3>2. ~IsWritten(d, kb[d].v)
      BY <2>1 DEF IsWritten, InBatch
    <3> QED
      BY <2>1, <3>1, <3>2 DEF IndexInv, NoneLost, Held, Excused
  <2>2. OwnVectors
    BY DEF IndexInv
  <2> QED
    BY <2>1, <2>2 DEF IndexedWhenQuiet, Indexed, OwnVectors
<1> QED
  BY IndexInvInit, IndexInvNext, <1>1, PTL DEF IndexSpec

\* A point is added only of a version as new as any that was added before.
THEOREM IndexNeverGoesBack == IndexSpec => NeverOlder
<1> DEFINE Newer == \A p \in points' \ points, q \in points : p.doc = q.doc => q.v <= p.v
<1>1. IndexInv /\ [IndexNext]_indexVars => [Newer]_points
  <2> SUFFICES ASSUME IndexInv, [IndexNext]_indexVars, NEW p \in points', p \notin points,
                      NEW q \in points, p.doc = q.doc
               PROVE  q.v <= p.v
    OBVIOUS
  <2>1. PICK W \in SUBSET Worker : Stores(W)
    BY DEF IndexNext, indexVars, Create, Update, Delete, ChangeDoc, GenerateDoc, Start, Work,
       FlushBatch, SyncGroup, Deleted, AddTexts, SyncFails, Stop, Crash, Ends
  <2>2. PICK w \in W : \E e \in Range(worker[w].batch) : p.doc = e.doc /\ p.v = e.v
    BY <2>1, StoredFacts DEF IndexInv
  <2>3. PICK e \in Range(worker[w].batch) : p.doc = e.doc /\ p.v = e.v
    BY <2>2
  <2> QED
    BY <2>3 DEF IndexInv, InOrder
<1> QED
  BY IndexInvInit, IndexInvNext, <1>1, PTL DEF IndexSpec, NeverOlder
=============================================================================
