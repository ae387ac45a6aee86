---------------------------- MODULE TicketStream ----------------------------
(***************************************************************************)
(* SSETicketStream.process: a request handled step by step, each step sent *)
(* to the client as an event.                                              *)
(*                                                                         *)
(* The generator runs up to its next yield; the client may leave at any    *)
(* yield or await, which ends the generator without an event.  What the    *)
(* classifier, the vector store and the executor answer is open.           *)
(***************************************************************************)
EXTENDS Retrieval

CONSTANTS
  Query,       \* the questions, as counts of tokens
  KbCategory,  \* categories with a knowledge base: IT, HR, finance, operations
  OtherCategory,
  Enabled,     \* the optional parts that are configured: "vector", "reranker"
  MaxTools     \* bound: tools one reply runs

ASSUME StreamAssumption ==
  /\ Query \subseteq [Term -> Nat]
  /\ OtherCategory \notin KbCategory
  /\ Enabled \subseteq {"vector", "reranker"}
  /\ MaxTools \in Nat

VARIABLES
  ready,     \* the optional parts that came up when the application started
  pc,        \* where the generator stands
  query,
  category,
  lists,     \* what each route found
  fused,     \* their fusion
  docs,      \* the documents in the executor's context
  tools,     \* exec_result.tool_calls still to be sent
  events     \* the events sent

retrieval == <<lists, fused>>
vars == <<ready, pc, query, category, retrieval, docs, tools, events>>

Event(type, step, ok) == [type |-> type, step |-> step, ok |-> ok]
Step(step)            == Event("step", step, TRUE)

Yield(e) == events' = Append(events, e)

Ended == {"refused", "done", "left"}

\* A part that is configured and does not start is done without.
Wirings == SUBSET Enabled

-----------------------------------------------------------------------------
Request ==
  /\ pc = "new"
  /\ Yield(Step("classify"))
  /\ pc' = "classify"
  /\ UNCHANGED <<query, category, retrieval, docs, tools>>

\* rate_limit_middleware: other requests from the client's address have used up
\* the bucket they share.
RateLimit ==
  /\ pc = "new"
  /\ pc' = "refused"
  /\ UNCHANGED <<query, category, retrieval, docs, tools, events>>

Classified(c, needsHuman) ==
  /\ pc = "classify"
  /\ category' = c
  /\ Yield(Step("classified"))
  /\ pc' = IF needsHuman THEN "escalate" ELSE "search"
  /\ UNCHANGED <<query, retrieval, docs, tools>>

\* A request for a person is answered at once: nothing else is done.
Escalate ==
  /\ pc = "escalate"
  /\ Yield(Step("escalate"))
  /\ pc' = "escalated"
  /\ UNCHANGED <<query, category, retrieval, docs, tools>>

Escalated ==
  /\ pc = "escalated"
  /\ Yield(Event("complete", "escalated", TRUE))
  /\ pc' = "done"
  /\ UNCHANGED <<query, category, retrieval, docs, tools>>

SearchStarts ==
  /\ pc = "search"
  /\ Yield(Step("retrieve"))
  /\ pc' = "retrieve"
  /\ UNCHANGED <<query, category, retrieval, docs, tools>>

\* The routes run side by side, and each may fail for itself.
Fetched == FetchK("reranker" \in ready)

Routes(vector) ==
  LET keyword == KeywordRetrieve(query, Fetched)
  IN IF "vector" \in ready THEN <<keyword, vector>> ELSE <<keyword>>

Gather ==
  /\ pc = "retrieve"
  /\ category \in KbCategory
  /\ \E vector \in VectorLists(Fetched) \cup {Failed} : lists' = Routes(vector)
  /\ fused' = Fuse(lists', Fetched)
  /\ pc' = "fused"
  /\ UNCHANGED <<query, category, docs, tools, events>>

\* The documents are graded one after another; when that fails as a whole, or
\* there is no model to do it, the first of the fused ones are taken.
Retrieved(found) ==
  /\ docs' = FormatContext(found)
  /\ Yield(Step(IF found = <<>> THEN "retrieve empty" ELSE "retrieve complete"))
  /\ lists' = <<>> /\ fused' = <<>>
  /\ pc' = "retrieved"
  /\ UNCHANGED <<query, category, tools>>

Reranked(grades) ==
  /\ pc = "fused" /\ "reranker" \in ready
  /\ Retrieved(Rerank(fused, lists, grades))

NotReranked ==
  /\ pc = "fused"
  /\ Retrieved(Best(fused, TopK))

SearchFails ==
  /\ pc = "retrieve" /\ category \in KbCategory
  /\ Yield(Step("retrieve error"))
  /\ pc' = "retrieved"
  /\ UNCHANGED <<query, category, retrieval, docs, tools>>

SearchSkipped ==
  /\ pc = "retrieve" /\ category \notin KbCategory
  /\ Yield(Step("retrieve skipped"))
  /\ pc' = "retrieved"
  /\ UNCHANGED <<query, category, retrieval, docs, tools>>

ExecuteStarts ==
  /\ pc = "retrieved"
  /\ Yield(Step("execute"))
  /\ pc' = "execute"
  /\ UNCHANGED <<query, category, retrieval, docs, tools>>

\* The executor answers, having run some tools, each with success or without.
Executed(calls) ==
  /\ pc = "execute"
  /\ tools' = calls
  /\ pc' = "tools"
  /\ UNCHANGED <<query, category, retrieval, docs, events>>

ToolSent ==
  /\ pc = "tools" /\ tools # <<>>
  /\ Yield(Event("tool", "execute", Head(tools)))
  /\ tools' = Tail(tools)
  /\ UNCHANGED <<pc, query, category, retrieval, docs>>

ToolsSent ==
  /\ pc = "tools" /\ tools = <<>>
  /\ Yield(Step("executed"))
  /\ pc' = "reply"
  /\ UNCHANGED <<query, category, retrieval, docs, tools>>

Reply ==
  /\ pc = "reply"
  /\ Yield(Event("message", "reply", TRUE))
  /\ pc' = "complete"
  /\ UNCHANGED <<query, category, retrieval, docs, tools>>

Complete ==
  /\ pc = "complete"
  /\ Yield(Event("complete", "resolved", TRUE))
  /\ pc' = "done"
  /\ UNCHANGED <<query, category, retrieval, docs, tools>>

\* Planted fault: an exception is reported and nothing after it.
Fails_Silently ==
  /\ pc \in {"classify", "execute"}
  /\ Yield(Event("error", "error", FALSE))
  /\ pc' = "done"
  /\ UNCHANGED <<query, category, retrieval, docs, tools>>

\* The classifier or the executor raises; a search that raises is contained.
Fails ==
  /\ pc \in {"classify", "execute"}
  /\ Yield(Event("error", "error", FALSE))
  /\ pc' = "failed"
  /\ UNCHANGED <<query, category, retrieval, docs, tools>>

CompletesFailed ==
  /\ pc = "failed"
  /\ Yield(Event("complete", "failed", FALSE))
  /\ pc' = "done"
  /\ UNCHANGED <<query, category, retrieval, docs, tools>>

\* The client goes: the task is cancelled, which no except clause catches.
Leave ==
  /\ pc \notin {"new"} \cup Ended
  /\ pc' = "left"
  /\ UNCHANGED <<query, category, retrieval, docs, tools, events>>

-----------------------------------------------------------------------------
Init ==
  /\ ready \in Wirings
  /\ pc = "new"
  /\ query \in Query
  /\ category = OtherCategory
  /\ lists = <<>> /\ fused = <<>>
  /\ docs = <<>>
  /\ tools = <<>>
  /\ events = <<>>

Grades == {Failed, NoNumber, 0, 10}

Search ==
  \/ SearchStarts \/ Gather
  \/ NotReranked
  \/ \E grades \in [Doc -> Grades] : Reranked(grades)
  \/ SearchFails \/ SearchSkipped

Execute ==
  \/ ExecuteStarts
  \/ \E n \in 0 .. MaxTools : \E calls \in [1 .. n -> BOOLEAN] : Executed(calls)
  \/ ToolSent \/ ToolsSent

Process ==
  \/ \E c \in KbCategory \cup {OtherCategory}, h \in BOOLEAN : Classified(c, h)
  \/ Escalate \/ Escalated
  \/ Search \/ Execute
  \/ Reply \/ Complete
  \/ Fails \/ CompletesFailed

Proceed == Process /\ UNCHANGED ready

Next ==
  \/ Proceed
  \/ (Request \/ RateLimit \/ Leave) /\ UNCHANGED ready

\* The generator goes on as soon as its event is taken: the calls it waits for
\* have timeouts of their own.
Spec == Init /\ [][Next]_vars /\ WF_vars(Proceed)

-----------------------------------------------------------------------------
(***************************************************************************)
(* Properties.                                                             *)
(***************************************************************************)

\* The stream of a client that stays ends with one "complete", its last event,
\* which reports success unless an error was reported before: whatever the
\* classifier, the search, the tools and the executor do.
Concluded ==
  LET last == Last(events)
  IN /\ events # <<>>
     /\ last.type = "complete"
     /\ \A i \in 1 .. Len(events) - 1 : events[i].type # "complete"
     /\ last.ok <=> \A i \in DOMAIN events : events[i].type # "error"

StreamConcludes == pc = "classify" ~> (pc = "left" \/ Concluded)

\* e is found by every route that finds d, in each case as often and at least as
\* near the top, and somewhere better.
Beats(ls, e, d) ==
  LET upTo(x, p) == Cardinality({n \in 1 .. p[2] : <<p[1], n>> \in PlacesOf(ls, x)})
      at         == (DOMAIN ls) \X (1 .. MaxRank)
  IN /\ \A p \in at : upTo(e, p) >= upTo(d, p)
     /\ \E p \in at : upTo(e, p) > upTo(d, p)

\* No document stands above one that beats it on the routes' own lists, and none
\* is kept while such a one is cut, with routes that fail or find a document twice.
NoneBeatenAbove ==
  pc = "fused" =>
    \A d, e \in Doc : Beats(lists, e, d) =>
      \A i \in DOMAIN fused : fused[i] = d => \E j \in 1 .. i - 1 : fused[j] = e

=============================================================================
