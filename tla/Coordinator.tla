---------------------------- MODULE Coordinator ----------------------------
(***************************************************************************)
(* LinearCoordinator.process: classify, ask back or search, execute, file. *)
(*                                                                         *)
(* Every request is a coroutine on the one event loop.  A step of it runs  *)
(* from one await to the next, so the steps of several requests, the       *)
(* handlers of the ticket desk and a restart interleave; the ticket is     *)
(* filed in the request's last step.  Questions put back to the user wait  *)
(* in _clarifications, one slot for each session, in memory only.          *)
(*                                                                         *)
(* The module extends TicketDesk, whose Filing action says what filing may *)
(* do: ImplementsDesk checks that the pipeline does nothing else.          *)
(***************************************************************************)
EXTENDS TicketDesk

CONSTANTS
  Request,            \* calls of process
  Session,            \* session identifiers
  KnowledgeCategory   \* the categories that have a knowledge base

ASSUME PipelineAssumption ==
  KnowledgeCategory \subseteq Category

VARIABLES
  job,     \* the state of each call of process
  asked    \* _clarifications: the descriptions waiting for an answer

pipeline == <<job, asked>>
allvars  == <<vars, pipeline>>

Live     == {"classify", "ask", "retrieve", "gap", "execute"}
Finished == {"answered", "questioned", "lost"}

Unassigned == [dept |-> NoDept, assignee |-> Nobody]

\* text is the set of requests whose descriptions have been merged into it.
Job == [pc       : {"idle"} \cup Live \cup Finished,
        session  : Session,
        by       : Submitter,
        choice   : Category \cup {NoCategory},
        text     : SUBSET Request,
        category : Category \cup {NoCategory},
        assign   : [dept : Department \cup {NoDept}, assignee : User \cup {Nobody}]]

PipelineTypeOK ==
  /\ TypeOK
  /\ job \in [Request -> Job]
  /\ asked \in [Session -> SUBSET Request]

PipelineInit ==
  /\ Init
  /\ \E s \in Session, by \in Submitter :
       job = [r \in Request |->
                [pc |-> "idle", session |-> s, by |-> by, choice |-> NoCategory,
                 text |-> {}, category |-> NoCategory, assign |-> Unassigned]]
  /\ asked = [s \in Session |-> {}]

-----------------------------------------------------------------------------
(***************************************************************************)
(* Automatic assignment, decided right after the classification and kept   *)
(* over all the awaits that follow.                                        *)
(***************************************************************************)

Staff(c) ==
  LET dept == IF c \in Category THEN CategoryDept[c] ELSE NoDept
  IN IF dept = NoDept
       THEN Admins
       ELSE {u \in User : UserDept[u] = dept /\ Role[u] \in {"engineer", "manager"}}

\* The load the assignment compares: assigned tickets in status pending or
\* processing.
Load(u) == Cardinality({t \in TicketId : /\ rows[t].assignee = u
                                         /\ rows[t].status \in {"pending", "processing"}})

\* Planted fault: the default answer keeps the department it found no staff in.
AutoAssign_KeepsDept(c) ==
  LET dept == IF c \in Category THEN CategoryDept[c] ELSE NoDept
  IN [dept : {dept}, assignee : Staff(c) \cup {Nobody}]

\* An administrator (the first one found) for a category without a department,
\* one of the least loaded members of the department otherwise, nobody when
\* there is no staff or the query failed.
AutoAssign(c) ==
  LET dept == IF c \in Category THEN CategoryDept[c] ELSE NoDept
  IN {Unassigned}
       \cup {[dept |-> dept, assignee |-> u] :
               u \in {v \in Staff(c) :
                        dept = NoDept \/ \A w \in Staff(c) : Load(v) <= Load(w)}}

-----------------------------------------------------------------------------
(***************************************************************************)
(* The steps of one request.                                               *)
(***************************************************************************)

\* Planted fault: the question that waits is read but not taken.
Submit_LeavesQuestion(r, s, by, k) ==
  /\ job[r].pc = "idle"
  /\ job' = [job EXCEPT ![r] =
               [pc |-> "classify", session |-> s, by |-> by, choice |-> k,
                text |-> {r} \cup (IF k = NoCategory THEN asked[s] ELSE {}),
                category |-> NoCategory, assign |-> Unassigned]]
  /\ UNCHANGED <<vars, asked>>

\* A new message takes the question that waits in its session, unless the user
\* chose a category: then the slot is left as it is.
Submit(r, s, by, k) ==
  /\ job[r].pc = "idle"
  /\ job' = [job EXCEPT ![r] =
               [pc |-> "classify", session |-> s, by |-> by, choice |-> k,
                text |-> {r} \cup (IF k = NoCategory THEN asked[s] ELSE {}),
                category |-> NoCategory, assign |-> Unassigned]]
  /\ asked' = IF k = NoCategory THEN [asked EXCEPT ![s] = {}] ELSE asked
  /\ UNCHANGED vars

Goes(r, pc) == job' = [job EXCEPT ![r].pc = pc]

\* Where the pipeline goes once it knows the category.
Search(c) == IF c \in KnowledgeCategory THEN "retrieve" ELSE "execute"

\* The classifier's answer replaces any category the user chose.
Classified(r, c, a, pc) ==
  job' = [job EXCEPT ![r].category = c, ![r].assign = a, ![r].pc = pc]

ClassifyGoesOn(r, c, a) ==
  /\ job[r].pc = "classify"
  /\ Classified(r, c, a, Search(c))
  /\ UNCHANGED <<vars, asked>>

\* Planted fault: the question is stored before it has been formulated.
ClassifyUnsure_StoresEarly(r, c, a) ==
  /\ job[r].pc = "classify"
  /\ Classified(r, c, a, "ask")
  /\ asked' = [asked EXCEPT ![job[r].session] = job[r].text]
  /\ UNCHANGED vars

\* Confidence below 0.6: a question is formulated.
ClassifyUnsure(r, c, a) ==
  /\ job[r].pc = "classify"
  /\ Classified(r, c, a, "ask")
  /\ UNCHANGED <<vars, asked>>

\* Planted fault: the escalation does not return, and the pipeline goes on.
ClassifyEscalates_GoesOn(r, t, c, a) ==
  /\ job[r].pc = "classify"
  /\ Classified(r, c, a, Search(c))
  /\ FileEscalation(t, job[r].by, c, a)
  /\ UNCHANGED asked

\* The classifier asked for a human: the ticket is filed at once.
ClassifyEscalates(r, t, c, a) ==
  /\ job[r].pc = "classify"
  /\ Classified(r, c, a, "answered")
  /\ FileEscalation(t, job[r].by, c, a)
  /\ UNCHANGED asked

\* The classifier raised, or its answer could not be used.
ClassifyFails(r, t, c) ==
  /\ job[r].pc = "classify"
  /\ Goes(r, "answered")
  /\ FileFallback(t, job[r].by, c)
  /\ UNCHANGED asked

\* The question replaces whatever waited in the session; no ticket is filed.
AskBack(r) ==
  /\ job[r].pc = "ask"
  /\ Goes(r, "questioned")
  /\ asked' = [asked EXCEPT ![job[r].session] = job[r].text]
  /\ UNCHANGED vars

\* No question could be formulated: the pipeline goes on.
AskNothing(r) ==
  /\ job[r].pc = "ask"
  /\ Goes(r, Search(job[r].category))
  /\ UNCHANGED <<vars, asked>>

\* Documents, or an error, lead to execution; no document to the gap detector.
Retrieve(r, found) ==
  /\ job[r].pc = "retrieve"
  /\ Goes(r, IF found THEN "execute" ELSE "gap")
  /\ UNCHANGED <<vars, asked>>

\* Planted fault: the search is tried again once the gap is filled.
FillGap_SearchesAgain(r) ==
  /\ job[r].pc = "gap"
  /\ Goes(r, "retrieve")
  /\ UNCHANGED <<vars, asked>>

\* The gap is detected and perhaps filled, or the attempt failed: execution.
FillGap(r) ==
  /\ job[r].pc = "gap"
  /\ Goes(r, "execute")
  /\ UNCHANGED <<vars, asked>>

\* The executor's answer is filed with the assignment decided at the start.
ExecuteReplies(r, t) ==
  /\ job[r].pc = "execute"
  /\ Goes(r, "answered")
  /\ FileReply(t, job[r].by, job[r].category, job[r].assign)
  /\ UNCHANGED asked

ExecuteFails(r, t) ==
  /\ job[r].pc = "execute"
  /\ Goes(r, "answered")
  /\ FileFallback(t, job[r].by, job[r].category)
  /\ UNCHANGED asked

\* A restart loses the requests under way and the questions that wait.
Reboot ==
  /\ Restart
  /\ job' = [r \in Request |-> IF job[r].pc \in Live THEN [job[r] EXCEPT !.pc = "lost"]
                                                     ELSE job[r]]
  /\ asked' = [s \in Session |-> {}]

Submits == \E r \in Request, s \in Session, by \in Submitter,
              k \in Category \cup {NoCategory} : Submit(r, s, by, k)

Classifies(r) ==
  \E c \in Category \cup {NoCategory} :
    \/ \E a \in AutoAssign(c) :
         \/ ClassifyGoesOn(r, c, a)
         \/ ClassifyUnsure(r, c, a)
         \/ \E t \in TicketId : ClassifyEscalates(r, t, c, a)
    \/ \E t \in TicketId : ClassifyFails(r, t, c)

\* The step a request takes when the await it stands at has returned.
Resume(r) ==
  \/ Classifies(r)
  \/ AskBack(r)
  \/ AskNothing(r)
  \/ \E found \in BOOLEAN : Retrieve(r, found)
  \/ FillGap(r)
  \/ \E t \in TicketId : ExecuteReplies(r, t) \/ ExecuteFails(r, t)

Handlers == (TicketRoutes \/ OrgRoutes \/ McpTools) /\ UNCHANGED pipeline

PipelineNext ==
  \/ Submits
  \/ \E r \in Request : Resume(r)
  \/ Handlers
  \/ Reboot

PipelineSpec == PipelineInit /\ [][PipelineNext]_allvars

\* Every await of the pipeline returns: the calls of the model are bounded by
\* wait_for or by the client's timeout, the searches are computations.
FairPipeline == PipelineSpec /\ \A r \in Request : WF_allvars(Resume(r))

-----------------------------------------------------------------------------
(***************************************************************************)
(* Properties.                                                             *)
(***************************************************************************)

\* A description is in one place: in one request under way, or in one session's
\* waiting question.  No answer is merged into two requests, whatever requests of
\* one session overlap.
MergedOnce ==
  /\ \A q, r \in Request :
       q # r /\ job[q].pc \in Live /\ job[r].pc \in Live
         => job[q].text \cap job[r].text = {}
  /\ \A r \in Request, s \in Session :
       job[r].pc \in Live => job[r].text \cap asked[s] = {}
  /\ \A s, v \in Session : s # v => asked[s] \cap asked[v] = {}

\* What waits in a session, or was merged into a later request, belongs to
\* requests that did put their question to the user: nothing is stored by a
\* request that is still formulating it.
OnlyAskedQuestionsWait ==
  /\ \A s \in Session : \A q \in asked[s] : job[q].pc = "questioned"
  /\ \A r \in Request : \A q \in job[r].text \ {r} : job[q].pc = "questioned"

\* A request files one ticket, on whichever branch it ends, and a request that
\* ended in a question files none.
OneTicketEach ==
  Cardinality(issued) = Cardinality({r \in Request : job[r].pc = "answered"})

\* Whatever the requests do to the table over all their interleavings is what the
\* ticket desk allows: the assignment carried over the awaits is one the desk
\* would make, and nothing but filing touches the rows.
ImplementsDesk == Spec

\* Every request comes to an end: an answer, a question, or a restart.
EveryRequestAnswered ==
  \A r \in Request : job[r].pc \in Live ~> job[r].pc \in Finished

=============================================================================
