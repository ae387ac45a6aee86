# A formal model of WorkfloAgent

WorkfloAgent is a ticket desk with an agent pipeline in front of it. A user's
message is classified by a language model, answered with the help of a
knowledge base and tools, filed as a ticket, and then confirmed, escalated,
approved, resolved or closed by people. Around it there are a scheduler, a
feedback loop that edits the system's own memory and knowledge base, and
adapters for chat platforms.

This directory holds TLA+ modules that follow the code, TLC configurations
that check them on small instances, and TLAPS proofs of what matters most for
instances of any size. `PROJECT.json` maps every definition to the source lines
it stands for.

## 1. The system

The application is one process: a uvicorn event loop, a few threads, and
SQLite, JSON and Markdown files. Three facts about it decide the grain of every
model:

- A handler or coroutine that does not `await` is one atomic step with respect
  to everything else on the loop. Two coroutines interleave at awaits only.
- Threads (the scheduler's checking thread, one thread for each bad rating with
  an event loop of its own) interleave with the loop and each other anywhere.
- `session_scope` is a transaction: it commits or rolls back as a whole. A file
  that is rewritten is truncated first, so a crash can leave half of it.

| Component | State | Operations | Talks to | What makes it correct |
|---|---|---|---|---|
| Ticket desk (`repository/`, `api/routes_ticket.py`, `api/routes_org.py`, `models/ticket.py`) | `ticket_records`, `approvals` | file, take, resolve, close, reopen, confirm, reject and escalate, three batches, organisation routes, approval decisions | pipeline files into it, people act on it | status, approval, timestamps and the approvals table agree whatever the order of operations and failures |
| Start-up seeding (`database/seed*.py`, `main.py`) | the same tables | rewrites demo tickets at every start | ticket desk | a restart leaves the tables consistent with each other |
| Coordinator and classifier (`coordinator/linear.py`, `agents/classifier.py`) | one coroutine for each request; `_clarifications` by session | classify, ask back, retrieve, fill gap, execute, file | desk, knowledge, agents | one outcome for each request; a question is answered once, in its session; filing is what the desk allows |
| Scheduler (`scheduler/`) | task table, its JSON file, checking threads, queued and running executions | add, remove, check, execute, update, start, stop, reload | event loop | the file follows the table, removed tasks stay removed, due tasks run |
| Self-evolution (`evolution/executor.py`, `evolution/feedback_loop.py`, `memory/storage.py`, `api/routes_feedback.py`) | `MEMORY.md`, backups, snapshots, audit log, slots | rate, load, review, snapshot, save, log, roll back | language model, knowledge | memory follows the audit log; slots are given back |
| Knowledge (`knowledge/store.py`, `evolution/knowledge_gap.py`, the cache in `coordinator/linear.py`) | documents, file, version, cached retriever, gap records | add, update, delete, retrieve, detect, save and resolve gaps | coordinator, rating threads, managers | the cached retriever is current; gaps keep their sources and are closed by documents only |
| Agents and tools (`agents/`, `tools/`, `security/tool_guard.py`, `memory/local_memory.py`) | message list and call history of one chat; the shared session histories | ReAct rounds, trimming, guard, tool calls, load and save a history | language model, stores | turns end, requests keep their answers, questions their replies, limits hold |
| Chat platforms (`integrations/`) | one cached access token for each platform, running callbacks | verify, decrypt, handle a message, refresh the token, send result, fallback or apology | coordinator, platforms (external) | a token lives as long as the request that carries it; nobody is left without an answer; one run for each message |
| Embedding pipeline (`knowledge/embedding_pipeline.py`, `rag/vector_store.py`, `rag/embeddings.py`) | `_pending`, the worker task | enqueue, take a batch, delete and add points, start, stop | knowledge routes, vector database (external) | what was noted and not given up is found in its place; versions never go back |
| Model configuration (`api/routes_model.py`, `models/config_store.py`, `llm/factory.py`) | the client of each role, `model_config.json` | configure, switch, switch to a stored configuration, start up | agents | what a restart loads is what was chosen last; keys are wrapped once |
| MCP client and server (`mcp/`) | process, reader task, lock, request numbers, pending futures | connect, call a tool, read answers, close; the tools | subprocess pipes, ticket table | an answer reaches the call that asked; nobody waits for what cannot come |
| Retrieval and event stream (`rag/`, `streaming/event_stream.py`) | one generator for each streamed request | classify, search by routes, fuse, rerank, build the context, execute, send events | coordinator's parts, vector database (external) | the fusion keeps to the routes' order; a stream ends with one event that says so |
| Model clients, rate limiting (`llm/`, `utils/token_bucket.py`) | bucket | generate, wait | providers (external) | limits kept |
| Code the application does not call (`memory/redis_memory.py`, the conversation store, the LangGraph workflow, the memory manager, the circuit breaker, parts of `evolution/`) | | | | see `PROJECT.json` |
| The rest (content tools, pure helpers, statistics, authentication, monitoring, web pages) | little or none | | | see `PROJECT.json` |

What is hard in this code, in the order of weight: two transactions where the
feature needs one; failures that are logged and swallowed; a value read before
an await or a lock and written after it; a lock given back before the answer of
its test is acted on; threads beside the event loop; files truncated before they
are rewritten; a start that rewrites one of two related tables; platforms that
deliver a message again; retries and handlers that do a step twice.

## 2. The modules

| Module | Models | Composition |
|---|---|---|
| `TicketDesk` | the ticket table, every handler of the application that writes it, the mounted MCP tools, filing, restart | |
| `ApprovalLedger` | the abstract promise of the approval feature | implemented by `TicketDesk` through a refinement mapping |
| `Coordinator` | the pipeline of overlapping requests | extends `TicketDesk`; its specification implements that of `TicketDesk` |
| `Scheduler` | task store, checking threads, executions | |
| `Evolution` | bad ratings, evolution slots, `MEMORY.md` | |
| `Knowledge` | knowledge base, retriever cache, gaps, generated documents | |
| `ReactLoop` | turns of the agents, tool guard, shared history, token bucket | |
| `ChatPlatforms` | callbacks of Feishu, DingTalk and WeCom, their redelivery, cached tokens | one parameterised module for the three platforms and the two group webhooks |
| `VectorIndex` | the embedding pipeline between the knowledge base and the vector database | |
| `ModelSettings` | the clients of the roles and the stored configurations | |
| `McpLink` | JSON-RPC with a subprocess, and the server's tools | |
| `Retrieval` | keyword route, rank fusion, reranking, context, as operators | |
| `TicketStream` | a streamed request | extends `Retrieval` |
| `CoordinatorProofs` (also of `TicketDesk`), `EvolutionProofs` (also of `Scheduler`), `KnowledgeProofs` (also of `VectorIndex`), `ReactLoopProofs`, `ChatPlatformsProofs`, `ModelSettingsProofs`, `McpLinkProofs`, `TicketStreamProofs` | theorems | extend the modules and TLAPS |
| `MC...` | the values of the constants for TLC | one for each run's module |

Definitions introduced as a planted fault are no part of a specification: each
is a variant of the definition after it, and shows that a property would notice
a plausible mistake there.

### TicketDesk

`rows` is `ticket_records` (creator, category, status, department, assignee,
the two approval fields, whether each timestamp is set, and, as a history, whether the
status is one that `update_ticket` wrote), `decisions` the
`approvals` table, `issued` the identifiers generated so far. One action is one handler, with its role check,
its status check and the writes of the repository function it calls.

Failure is part of each write. `RepoUpdate` swallows a failed commit and hands
back the row it reads again; `BatchUpdate` is all or nothing; `OrgCommit` is
the transaction of `session_scope`, which tells its client when it fails.
`File` has three outcomes, because the coordinator inserts and then updates in
two transactions: no row, the inserted row, the completed row. `Restart` is
what a start does: the ticket table is emptied and the demo tickets are
written; the approvals stay.

Where `MCP_ENABLED` is set, `main.py:254` mounts the MCP tools on the same
process, and two of them write the table. `EscalateTicketTool` writes one status.
`UpdateTicketTool` writes whatever string its caller gives as a status, on any
ticket, without asking for a role and without a timestamp; `ToolStatus` is the set
of strings a run gives it. `byTool` marks a row whose status it wrote, until the
next handler that gives the row a status: the promises about waiting, ended and
returning tickets have it as their one exception, so what is checked and proved
is also that nothing else breaks them and that every later handler mends what it
wrote. Of the other fields it documents, `assignee` is a relationship whose
assignment raises and is swallowed, and priority and description are not in the
model. A caller that names a column the tool does not document, such as
`approval_status`, is outside the model.

The status that the coordinator writes for a ticket waiting for approval is not
a member of `TicketStatus` and is read back as pending; `ViewStatus` does the
same, so the guards see what the code sees.

### Coordinator

A request is a record with a program counter that names the await it stands
at. A step runs from one await to the next. Text is the set of requests whose
descriptions were merged into it: enough to say whether an answer was merged
twice. `AutoAssign` is evaluated with the load at the time of the
classification, kept in the request, and written when the ticket is filed.
`Handlers` lets people work on the tickets in between, `Reboot` composes the
desk's restart with the loss of what is kept in memory only.

Not in the record: the wording of replies, the retrieved documents (see
`Knowledge` for the cache), confidence values (a branch is open to every
request), metrics and traces.

### Scheduler

`tasks` gives each task the state of its `next_run`; `file` is a table or torn;
`saving` names the save in progress, who asked for it, and whether it already
failed, because an exception inside an execution's update is caught by the
execution itself, which then updates the task a second time. `queued` and
`active` count executions handed to the loop and executions in their callback;
the checking thread hands a due task over at every check until an execution
has moved its time, so there can be several.

### Evolution

`step` follows the thread of one rating: load `MEMORY.md`, ask for a slot,
review, snapshot, rename, write, log, or roll back. The content of a file is
the set of entries in it and the review of ticket *t* contributes the entry
*t*. The rename and the write of one save are two steps, and a backup made in
the same second as the last one replaces it. Every file operation from the
snapshot on can fail. `met` is a history variable: which evolutions overlapped.

### Knowledge

A request of the pipeline owns the event loop between two awaits (`loop`), a
rating's thread does not need it. `lock` is held between the change of the list
and the end of the write, with the file torn meanwhile. The retriever cache has
a version of its own; the check of the version and the rebuild are two steps,
between which only threads can come. A gap record is read by `Find` and written
back whole by `Save`, as the code does. All jobs concern one topic; whether a
document is found, resembles another or mentions a gap is left open. A crash
(`Restart`) ends what was under way; `Load` then reads the file back, fills an
emptied one with the seeds, or meets one that breaks off in the middle, which
makes the store raise wherever it is asked for: requests go on without documents
(`StoreRaises`).

### ReactLoop

A turn is one call of `chat`; `Tasks` are those of a `TaskAgent`, the others have
one round and no tools. The classifier and the executor are given the same
`LocalMemory`, so `history` is shared by all turns of a session. `context` holds
the messages that are not the system's, reduced to their kind, their turn and,
for a request, the number of tools it asks for. Whether a context is over the
threshold depends on contents, so `Trimmed` leaves open how far it is cut.
`recorded` is the guard's call history, a set of calls with tool, minute and a
number that tells equal ones apart (only how many there are matters to the
guard), and `executed` counts the tools run in each minute; a tool's call is
checked in one step and recorded when it ends in another. The
bucket is shared with threads that call the model from loops of their own
(`ThreadCall`). A turn that finds it empty is the `sleeper`: it waits with
`time.sleep`, so no other turn moves until a token comes in or the wait ends,
and the error of a wait that ended is saved as a reply like any text.

Not in the model: what the tools do (only two, which read, pass the guard), the
system messages, an empty input (refused at once), and the limit on writing
tools in the guard, which no call reaches because those tools always need a
person's consent.

### ChatPlatforms

A delivery of a message is a coroutine; `at` names the await it stands at (the
pipeline, the request for a token, the request that sends) and `doing` what it
is there for. A token is represented by the moment it dies, so whether a
request that carries it is in time is a comparison with the clock. `cache` is
each client's `_token_cache`: it is read before the request for a token and
written after it, so several coroutines refresh at once and the slowest writes
last. `ack` is what the platform was told; `Delivers` repeats a message whose
callback was answered with an error, too late or not at all. Each channel has its own reaction to a failing
pipeline, a failing request and a refused message, and they differ: Feishu
answers the callback first and works afterwards, DingTalk and WeCom work first;
WeCom's apology is not guarded. Sessions are the platform's user, except in the
group webhook of WeCom.

### VectorIndex

A handler of the knowledge base changes a document and enqueues the change in
one step. `pending` is the dict of the newest event of each document, in the
order of first entry. The worker takes all of it at once, groups it by
collection (a part of a batch is the batch at some of its positions), deletes,
and adds; its awaits are the requests to the database,
during which documents change and new events come in. A version of a document
is a number; the texts are reduced to whether they are blank, because
`embed_documents` leaves blank texts out and the vectors are then assigned by
position. A failed request drops what is left of the batch; one that was cut off
by a failure, a stop or a crash may yet be carried out.

`kb` is the list in memory and `onDisk` what a start would read from the file. A
change whose write fails is in memory all the same, and no event tells the
pipeline of it; the file is then the old one or torn. Three histories record the
versions the program makes no promise about, each by its cause: `unnoted` those
that came about without an event (a failing write, a document generated for a
gap), `dropped` those whose event the pipeline gave up, `spoiled` those sent at or
behind a blank text, whose vectors are another's. None of them says what became
of the points: that everything else is in its place, and that nothing but a blank
text mixes vectors up, is what `IndexedWhenQuiet` says.

### ModelSettings

The handlers have no await, so they do not overlap; what is modelled in steps is
a handler's swap of the clients and the two writes that record it (the new
configuration, then which one is active), with a failing write and a crash at
each. `Restart` is a stop or crash and the start: clients from the environment by role, then the active
stored configuration over all of them. A key is represented by the encryption
keys it is wrapped in; reading a file with another key keeps the wrapped text as
it is, and writing wraps it again. `chosen` is a history variable: the last
recorded choice and what was tried since.

### McpLink

One coroutine for each `connect` with its `close`, and one for each `call_tool`.
The lock covers the test of the connection, the numbering and writing of a
request up to its `drain`, and one assignment of `close`; everything between is
open to others, so two connects can both start a process. `reader` are the
reader tasks, each of which reads from the process of the moment. `Serve` runs a
tool on the ticket table in any order, with `Outcomes` for what each tool may
leave behind and answer. Nothing in the application creates a client; the
module is about the library the package offers.

### Retrieval and TicketStream

`Retrieval` holds the pure algorithms: scores are scaled integers, and a sort
puts each element behind as many as come before it, with the order of ties that
Python's sort keeps. The score of a fused document is the sum over the ranks a
list can have, at most ten: twice the five results of the application's setting.
`TicketStream` runs them in a generator that goes from one `yield` to the next,
for every list of nearest points the vector database may give, duplicates
included; the optional parts may fail to come up, any route, grading or agent
may raise, and the client may leave at any yield.

## 3. The runs

Twelve runs. `expect: pass` except `evolution_lost`.

| Run | Instance | Checks |
|---|---|---|
| `desk` | a demo ticket waiting for approval, one to be filed; an engineer of one department and the administrator; two categories; two decisions on a ticket; `update_ticket` with two statuses | `DecisionOnRecord`, `WaitingIsListed`, `EndIsStamped`, `IntakeLeftForGood`, `ImplementsLedger` |
| `pipeline` | two requests of one session, an engineer who works on the tickets, a category that needs approval and has a knowledge base, one decision | `MergedOnce`, `OnlyAskedQuestionsWait`, `OneTicketEach`, `EveryRequestAnswered`, `ImplementsDesk` |
| `scheduler_loop` | two threads, a recurring task and one due at every check, two executions of a task at once | `FileFollows`, `RemovedStaysRemoved`, `DueIsRun`, `StopEndsThreads` |
| `evolution_slots` | three bad ratings, two slots, two failing file operations, one crash | `SlotsAccounted`, `MemoryFollowsLog`, `BackupAtHand`, `FullIsTemporary` |
| `evolution_lost` (violation) | two ratings, no failure | `UpdatesKept` |
| `knowledge_gap` | two requests, one rating, a gap known before, one failing write or restart | `RetrieverIsCurrent`, `ResolvedHasDoc`, `MissesRecorded`, `MissesServed` |
| `react_turns` | an executor's turn of three rounds with up to two tools in each, a classifier's in the same session, a history limit of two messages, three tokens and one more | `HistoryPaired`, `AnswersComplete`, `RateKept`, `BucketBound`, `TurnsEnd` |
| `chat_two` | two messages on one channel, any of the five, in any form; the first delivered up to twice; two failures, refusals or lost answers | `TokenAliveInUse`, `FeishuRunsOnce`, `DoneIsAnswered`, `OneFailureIsForgiven` |
| `index_sync` | two documents, a category and the collection without one, two worker tasks, three changes, any of whose writes may fail, three failures of the pipeline, stops or crashes | `IndexedWhenQuiet`, `NeverOlder`, `EventsTaken` |
| `settings` | two providers, a model with a family and one without, two encryption keys, one restart with another key, one failing write, any number of crashes | `RestartUsesChoice`, `KeysWrappedOnce` |
| `mcp_overlap` | two connects with their closes, a tool call, one death of a server | `OwnAnswer`, `NoWaiterForgotten` |
| `stream_search` | four documents, two words, one result kept, a vector route and a reranker that may not come up | `NoneBeatenAbove`, `StreamConcludes` |

### What the passing runs show

- A decision shown on a ticket is always the newest entry of the approvals
  table, and what approvers see amounts to the abstract ledger: only asking, deciding and a restart change what an approver
  sees. Waiting tickets are in the approvers' list, closings and resolutions have
  their times except where an approver decided, and nothing but a restart puts a
  ticket back into the intake: all three except for what the MCP tool
  `update_ticket` writes, until the next handler gives the ticket a status.
- Overlapping requests never merge a description twice, store only questions
  that were really put, file one ticket each, come to an end, and do nothing to
  the tickets the desk does not allow.
- The task file follows the table, executions that end late do not bring back a
  removed task, due tasks run, and the threads of a stopped service end.
- Evolution slots are given back on every path. Evolutions that do not overlap
  keep `MEMORY.md` equal to its old content plus the logged updates, with a
  backup at hand at every step.
- No interleaving of a thread's `add_doc` with the version check leaves a stale
  retriever; gaps keep their sources; a failed write closes no gap and blocks
  nobody.
- A session's history stays a sequence of questions with their replies although
  turns overlap, fail and push old messages out. However a context is cut, the
  model never sees a request for tools without its answers. The guard's limit
  holds although it forgets only the checked tool's calls. The bucket is never
  overdrawn, and turns end even when it is empty and the loop asleep.
- The margin of 60 seconds covers the timeout of the request that uses the
  token. Feishu's answer before the work keeps it from delivering a message
  again, unless that answer is lost. A user hears something although one step
  fails, except where Feishu or WeCom refuse the message itself.
- A version that was noted, not dropped, and not sent at or behind a blank text is
  found in its category under its own vector, although changes arrive and writes
  fail while the pipeline awaits the database; only a blank text gives a text the
  vector of another; and the pipeline never adds an older version after a newer
  one.
- A crash between the two writes of a configuration leaves two active ones, of
  which either was chosen; a configuration that was left never comes back. Keys
  gain a layer of encryption only with a new encryption key.
- However connects, closes and deaths of a server overlap, an answer goes to
  the call that asked, and a waiting call can be answered, cancelled or time
  out.
- The rank fusion puts no document above one that beats it on every route,
  whatever routes fail or list a document twice; a stream ends with exactly one
  `complete`, whose success is the absence of errors before it.

### What the violation shows

`evolution_lost`: of two overlapping evolutions the later save drops what the
earlier one learnt, although the audit log records it; the class says it is
thread-safe. `findings` in `PROJECT.json` quotes it.

### Bounds

`desk`: a batch acts on a proper subset, a restart keeps one row and removes
another, the engineer meets tickets of another department, the administrator
does everything a manager does without a department; two decisions
(`MaxDecisions`) are the first repeated one. `ToolStatus` is the status that makes
a ticket wait and one that ends it; in `pipeline`, where the desk's own properties
are not checked, the one that brings a ticket back to the intake. A string that is
no status reads like the waiting one. More accounts and tickets are
covered by the proofs. `pipeline`: two requests in a session give every order of
question, answer and filing; a third repeats one of the two. `scheduler_loop`:
two checking threads and two executions of one task (`MaxInFlight`) are the first
overlap of each kind. `evolution_slots`: three ratings are the first number above
the two slots of the code; two storage errors (`MaxErrors`) include a rollback
that fails after the step it undoes. `knowledge_gap`: the gap that was there
before lets two requests find the same one; one fault (`MaxFaults`) is a failing
write or a crash, also one in the middle of a write. `react_turns`: three rounds with two
tools (`MaxRounds`, `MaxRequested`) give contexts of nine messages, which the real
`KeepMin` of four cuts inside a group of answers; a limit of two calls
(`CallLimit`) is reached within a turn, in one minute or over two (`MaxClock`);
one token (`MaxRefills`) comes in while a turn may be asleep; a history of two
messages makes every exchange push another out. `chat_two`: messages on different
channels share at most a platform's token, which two messages on one channel
share too; with `Life` 3, `Margin` 2 and `Timeout` 1 a token is refreshed while
another coroutine still uses the old one; two faults (`MaxFaults`) reach an
apology that fails. `index_sync`: three changes (`MaxChanges`) let a document be
added, changed in another category and deleted while a batch is being written, or
two documents share a batch while one of them changes; three faults
(`MaxIndexFaults`) let a batch fail, the next one be cut off by a stop, and the
process crash after a write that failed. `settings`: `MaxRotations` and `MaxFaults` of one reach every
mixture of layers and choices. `mcp_overlap`: two connects are the first that
orphan a process; `MaxDeaths` is one for each of the processes in turn.
`stream_search`: with one result kept, two are fetched for the reranker, and four
documents leave something to cut on each route; `MaxTools` of two gives a stream
with several tool events.

Symmetry is used only in runs without a liveness property: `evolution_lost`,
`settings` (providers and keys) and `mcp_overlap` (the connects). Deadlock is
checked except in the runs of `Evolution`, `Knowledge`, `ReactLoop`,
`ChatPlatforms`, `VectorIndex`, `McpLink` and `TicketStream`, where everything
that was started comes to an end, or a bound is reached, and the system may
stop.

### Fairness

- `Coordinator`: weak fairness of each request's next step. The executor's call
  is under a `wait_for` of 120 s (`agents/task_agent.py:141`), the classifier's
  too (`agents/base.py:133`); the calls that phrase a question or a gap are under
  the client's timeout (`llm/openai_llm.py:68`). Searches are computations.
- `Scheduler`: strong fairness of checking, beginning and completing an
  execution, because the lock and the loop are taken again and again by others,
  but their waiters are served; weak fairness of waking, of the end of a save
  and of the handler's retry. A callback is assumed to end; the application
  installs none.
- `Evolution`: weak fairness of a thread's next step. Nobody is obliged to rate.
- `Knowledge`: strong fairness of the pipeline's steps and of the writers,
  for the same reason as in `Scheduler`; weak fairness of a manager's write.
- `ReactLoop`: weak fairness of a turn's next step. The event loop serves its
  coroutines in turn, the model's call is under `wait_for`
  (`agents/task_agent.py:141`), the wait for a token ends after 30 s
  (`llm/openai_llm.py:90`), and a tool is assumed to return. Nothing is assumed
  of tokens coming in.
- `VectorIndex`: weak fairness of each worker task's next step: it wakes from its
  sleep of five seconds, and a request to the database succeeds or fails.
- `TicketStream`: weak fairness of the generator's next step, which includes the
  end, good or bad, of each call it awaits. The client need not leave.
- `ChatPlatforms`, `ModelSettings`, `McpLink`: none; only safety is checked.

## 4. The proofs

TLAPS proves the following for every choice of the constants that satisfies the
modules' assumptions. They say what the code's tables and settings say:
`DeskAssumption` and `PipelineAssumption` that roles and departments of accounts
are what the tables allow and demo tickets look as `seed_demo.py` writes them;
`ReactAssumption` that the history's limit is even (`main.py` gives 20);
`ChatAssumption` that a request's timeout is shorter than the cache's margin, and
twice it shorter than a token's life (`feishu/client.py`: 10 s and 60 s of 7200);
`EvolutionAssumption` and `LinkAssumption` that ratings and coroutines are
finitely many; and everywhere that special values are distinct from real ones.
`RetrievalAssumption` that at most five results are kept (`main.py`: `rag_top_k` is
5), so that a route finds at most ten for the reranker.
The proofs about `VectorIndex` and `ModelSettings` use no assumption at all.

**TicketDesk.** The safety invariants are not inductive one by one: that a
waiting ticket is listed needs the row to be a row, that a decided ticket has a
record needs the record's type, that a filing finds nothing under its new
identifier needs to know that no decision was ever taken there. The inductive
invariant `IInv` is type correctness, `RowInv` of each identifier and
`NoOrphans`. The argument goes by rows: `OneRowWritten` shows that writing one
row that has `RowInv` keeps `IInv`; `RepoUpdateKeeps`, `BatchUpdateKeeps` and
`OrgCommitKeeps` lift it to the three ways of writing, and each handler then
only has to show `RowInv` of the row it writes. `Invariance` follows, and from it
`TypeCorrect`, `DecisionsRecorded`, `WaitingListed` and `EndStamped`.
`update_ticket` is one more writer: the row it writes has `RowInv` because it is
marked, and `WithStatus` of any row has it by the rules of each handler, so a mark
is never needed again once another handler gave the status. `StrictWithoutTools`
draws the conclusion for the application as it starts by default: without the
mounted tools no row is ever marked, and both promises hold without exception.
`IntakeIsLeft` is the action property, again by writers. `LedgerImplemented` maps
each step to `Ask`, `Decide`, `Reset` or a stutter of `ApprovalLedger`.

**Coordinator.** `PInv` is the shape of the pipeline's state, `MergedOnce`,
`OnlyAskedQuestionsWait` and `AssignmentKept` (what a request carries past its
classification is an assignment the desk would make). The first two need each
other: a question can be taken without being shared only because whoever
asked it is no longer live. Eight of the steps only move one request and leave
its text alone, which `Moved` and `MovedKeeps` treat once. `PipelineStepIsDeskStep`
shows that every step is a step of the desk or leaves it alone, so
`PipelineImplementsDesk` holds and with it every theorem of the desk:
`PipelineDecisionsRecorded` draws the first. `OneTicketForEachAnswer` counts:
`CountInv` says that the identifiers issued and the requests answered are finite
and equally many, and each step adds one to both (`File` takes an identifier that
was not issued, on whichever of its outcomes) or leaves both; a restart of the
application, which forgets requests, leaves what was answered.

**Scheduler** (in `EvolutionProofs`). `FileInv` says what `FileFollows` leaves out: a file that is not
whole is torn, a save under way has torn it or has failed, and a failure is on
record from then on. `RemovedStaysRemoved` is an action property from it: a
reload reads the table, nothing, or what a failure on record left.

**Evolution.** Slots are counted: `SlotInv` says that `active` is the cardinality
of the set of threads between taking a slot and giving it back, and each step
adds one thread to that set, removes one, or leaves it; a crash empties it.
`MemoryInv` says that without overlap at most one thread is between its read of
`MEMORY.md` and its end, and, for each place it can stand at (`FilesAt`), that what
it read, its snapshot and the newest backup are the old memory and what is logged. `MemoryIsTheLog` and
`NothingLostInASave` follow from it, the second by places.

**Knowledge.** `CacheInv`: the cached version is never ahead of the store's, a file
that is not being written is the list, and a retriever with the store's version
was built from that list. A change of the list tears the file until it is written,
and the end of the write raises the version, so a change between the check and the
rebuild cannot pass for the version checked; a restart drops the cache. `GapInv` says that the request between `Find` and `Save` owns the loop, so
what it read of the gap is still what is on file when it writes it back, except
for the resolved mark, and no source is lost with it.

**VectorIndex** (in `KnowledgeProofs`). `IndexInv` speaks of the events in the dict
and in a batch as sets; in which order they are sent does not matter. Its parts:
one worker at a time has a batch (`OneWorker`); an event tells the truth about the
version it has (`EventsTrue`), and a deletion is never followed by a change; what
is known of a document is ordered by version, its points before the event in the
batch, that before the event that waits, that before the document (`InOrder`);
and the newest version of a document there is, in memory and in the file alike,
waits, is in a batch, has its point, or is one of those the histories name
(`NoneLost`): a crash brings back what the file has, so the index owes both. A
text that is not at or behind a blank one has the same place among the vectors as
among the texts, and no other text has that place (`PlacesDiffer`, `PairedOwn`), so
another's vector means a blank text before it (`PairedForeign`, `OwnVectors`). `WorkerStep` treats once what the worker's steps
have in common, `GroupAndRest` and `PairedFacts` say what the grouping keeps and
which points an addition may write. `NoEventSlips` is `NoneLost` for a document
that neither waits nor is written together with `OwnVectors`, `IndexNeverGoesBack` is `InOrder` for the batch
whose texts are added. Without the guard of `start` two batches could be under way
and the order would be lost, which is what the run's planted fault shows.

**ReactLoop.** `HistoryPaired` is inductive together with the type of the
history. The one writer is `Reply`; `RememberPaired` shows that adding an exchange
and cutting to an even number of messages keeps the pairs, from `PairedIsEven` and
`NewestPaired` (parity of positions). An odd limit would leave a reply at the
front. `BucketNeverOverdrawn` is inductive with the types of the three counters.
`RequestsAreAnswered` rests on `Awaited`: in a context every request is followed by
its answers, except that the last of them may still be to come, as many as the
turn has tools to run. Cutting keeps a newest part, and a newest part of such a
context is one (`NewestAwaited`); turns that ask have no tools to run, so the model
sees no request without its answers. `GuardKeepsRate` compares two counts: the calls
of the present minute the guard remembers are at least the tools the turn has run
in it, and a tool that runs was let in below the limit. Forgetting drops older
calls only, and recording adds a call with a new number, so the history grows
by one (`Numbered`); a tool that ends in a later minute counts for that one.

**ChatPlatforms.** `TokenInv` has two bounds: the cache never promises more than the
token has, and a request began with a token that outlives its timeout, a cached
one because the margin is longer than the timeout, a new one because it was
issued at most a timeout ago. The clock moves only while no request outlives its
timeout. Who wrote the cache, and in which order, does not matter. `AckInv` says
when a delivery still owes its answer: a handler that awaits has not failed its
callback, DingTalk's and Feishu's handlers end without an error, and Feishu's work
begins with its answer, so that a second delivery's work means an answer was lost
(`FeishuWorksOnce`, `WorkIsAnswered`). `ToldInv` follows a delivery's
messages: the result is sent before any trouble, DingTalk's plain text after one
refusal, an apology after one failure; trouble with either of the last two is a
second one, so `FailureIsForgiven`.

**ModelSettings.** `SInv` speaks of the file and of the list a handler is about to
write. The first active configuration of either was chosen, because `upsert` comes
with a choice that is put on record first and `set_active` leaves one provider
active; a crash between the two leaves what was chosen before or what was tried
since (`RestartKeepsChoice`). A list on its way has one layer of encryption less
than a file may have, and a file's newest layer is the present key's unless the
key was changed since (`LayersAreChanges`).

**McpLink.** `LinkInv` is about numbers: a number is given once, to one call, and
never again by a later connection, so the requests and answers in the pipes of a
process carry the numbers of calls sent to that process (`Addressed`), and the
entry under a number is that call or nobody. That there are enough numbers and
processes for the types is a matter of counting (`Numbered`, `Tried`).
`EntriesTaken` treats the three steps that take entries out of the table.

**TicketStream.** `OrderedIsInOrder` shows that counting the predecessors of each
member of a finite set lists it in the order given: the counts are different, so
they are all the numbers there are. With it `DescendingFalls` says what a sort
returns, and `MergedHasAll` that every document found is among the keys.
`BeatingScoresMore` compares two scores by summation by parts: a score is the sum,
over the ranks, of the difference between a rank's share and the next one's, times
how often the document was found up to that rank; all the differences are
positive, a document that beats another has no smaller count and one greater.
`FusionKeepsOrder` puts the two together: the one that is beaten is sorted behind,
and cutting keeps a first part. Nothing is assumed of the lists but that there are
one or two of them. `StreamInv` says that no `complete` was sent as long as the
stream goes on, and an error only if it has failed; `EndedStreamsConclude` is the
part of `StreamConcludes` that needs no fairness: what an ended stream has sent is
right, whether or not every stream ends.

**Model-checked only.** Liveness (`EveryRequestAnswered`, `DueIsRun`,
`StopEndsThreads`, `FullIsTemporary`, `MissesServed`, `TurnsEnd`, `EventsTaken`,
`StreamConcludes`), which the prover does not reach. Every safety property of a passing run is a theorem.
`UpdatesKept` is the property the code violates.

## 5. Divergences seen while reading, without a run of their own

- `api/routes_ticket.py:511` and `:527` say that batch closing is for resolved
  and batch assignment for pending tickets; `batch_update` has no such condition.
- `api/routes_org.py:201` says an engineer takes only tickets of the own department;
  `/tickets/{id}/assign` has no department check.
- `README.md:162` describes data kept over restarts; `seed_demo.py:243` deletes
  all tickets at each start.
- `coordinator/linear.py:195` builds a classification from the category the user
  chose; line 212 classifies again and overwrites it.
- `scheduler/task_store.py:5` calls a once task a single execution; it is
  scheduled again after each. The service's usage example adds a task without a
  time, which never runs. A service stopped and started within five seconds has
  two checking threads.
- `evolution/feedback_loop.py:83` says a bad rating forces an evolution; over the
  limit of two it is given up without a retry. The first evolution ever that
  fails after its save is not undone: its snapshot has no `MEMORY.md` to copy
  back (`memory/storage.py:144`).
- `api/routes_feedback.py:81` marks a rating for review on a copy that is never
  stored.
- `coordinator/linear.py:105` assigns to whoever has the fewest tickets; the load is
  compared before the awaits and need not be the least when the ticket is filed.
- `security/tool_guard.py:92` refuses a call for the limit of a minute although
  older calls of other tools, and refused ones, are counted.
- `agents/context_guard.py:42` says the newest user message is kept; trimming
  keeps the last messages whatever they are.
- `api/routes_ticket.py:57` answers an assignment with success when the write
  failed, because `repository/ticket_repository.py:82` returns the row it finds.
  Two routes assign a ticket, with different guards.
- `README.md:22` promises an approval chain for HR tickets; a ticket whose second
  filing transaction fails stays outside it (`coordinator/linear.py:337`).
- `scheduler/task_store.py:9` says tasks survive a restart; the only copy is
  truncated before it is written (`:124`), and a crash there loses them all. The
  knowledge base is written the same way (`knowledge/store.py:55`); after a crash
  there it is back at its seeds or cannot be loaded (`knowledge/store.py:34`).
- `knowledge/embedding_pipeline.py:117` logs that a failed batch is tried again
  next time; it was emptied before it was written. Line 4 says deletions are
  synchronised; an event without a category deletes from the collection
  `general`, and an update adds points without removing the old ones, so a
  document may be found twice. Documents generated for a gap are not enqueued.
  The writer uses a collection for each category; the retriever that `main.py:146`
  builds reads `ticket_knowledge`.
- `rag/embeddings.py:74` leaves blank texts out and `rag/vector_store.py:119` pairs
  the vectors that come back with all the texts, by place: a blank text
  and those behind it are stored under the vectors of later texts, the last ones
  not at all, and the batch is logged as synchronised. The routes accept a blank text.
- A knowledge write that fails in `knowledge/store.py:55` has changed the list
  already: the route answers 500 and notes no event, so the document is live, can be
  read and searched by words, and is not in the index; a crash brings the old one
  back.
- `integrations/wecom/bot.py:254` makes a session of the second a group message
  comes in. DingTalk and WeCom do the work before they answer the callback, and an
  apology says that processing failed although the ticket was filed.
- With `USE_LANGGRAPH=true` the application does not start: the workflow takes
  other arguments, and only `ImportError` is caught.
- The event stream files no ticket (`streaming/event_stream.py`, `/tickets/stream`),
  and an event's two lines are not followed by the blank line the format asks for.
- A reranker whose grading of a document fails leaves the fused score (about
  0.02) among grades of 0 to 1, so the document falls behind all graded ones
  rather than keeping its place. A first document that is too long makes the
  context empty.
- `mcp/client.py:5` calls connecting idempotent; two connects that overlap start
  two processes, one of which nobody ends. The end of the stream leaves
  `_connected` set, so the client never connects again. The server's
  `escalate_ticket` reports success for a ticket there is not, and `update_ticket`
  for fields that are no columns. Mounted by `main.py:254`, `update_ticket` writes any
  string as the status of any ticket (`mcp/server.py:196`), without the role and the
  status that every other handler asks for and without a timestamp: it leaves
  closed tickets without a closing time, tickets that wait and that no approver's
  list holds, and puts tickets back into the intake.
- `/api/models/status` reports the stored configuration although `switch_model`
  changed the clients; a stored configuration overrides the variables of the
  roles at a start.
- `llm/openai_llm.py:145` turns a provider's error into the text of a reply, which
  is then answered, saved and filed like any other.

## 6. Not modelled

`PROJECT.json` gives the reason for each. In short: the text of messages,
prompts and replies; read-only handlers, statistics and exports; accounts and
departments as changing data (they are constants); providers, vector database and
platforms (external, modelled by what the code sees of them); content tools and
pure helpers (JSON repair, URL safety, prompts), which keep no state; the web
pages; and code that nothing calls (the LangGraph workflow, the memory manager,
Redis memory, the conversation store, the circuit breaker, the deep dream).

Crashes are in `TicketDesk`, `Coordinator`, `Scheduler`, `Evolution`, `Knowledge`,
`VectorIndex`, `ModelSettings` and, for its server, `McpLink`. `Knowledge` takes the
store as created before two threads can ask for it at once; two objects made at
the same first use would each have a list of their own.

Ticket identifiers are taken as fresh: that two of a day's random ones collide
(`models/ticket.py:46`) is a probability.

Outside `TicketDesk`: the MCP server run as a process of its own (its `main`),
which would write the same file beside the application, and `update_ticket` with a
column it does not document; `approval_status` written that way would also break
`DecisionOnRecord` and `ImplementsLedger`. The agents' own tools that write tickets
(`tools/ticket_tools.py`) need a person's consent, for which there is no way to ask,
so the guard refuses them.

`Scheduler` leaves out the test for `enabled` (`scheduler/task_store.py:156`): only a
test disables a task. `ChatPlatforms` takes the timeout of a client as a bound on a
whole request, although httpx counts it for each phase and each piece of an answer:
the token's margin of 60 seconds covers several phases of 10, not a platform that
answers drop by drop. `VectorIndex` takes what the database does with a request it
was sent to be over before a restarted worker sends its own, and a torn file to be
read as empty: the seeds that a start writes for a file of size zero are not
documents of the model.

Hazards without a property, with the reason for each in `PROJECT.json`: the
ticket that is filed by half, the update that fails and is reported as done, the
load compared before the awaits, the task file torn by a crash, and the resolved
mark that `knowledge_gap.save` writes back from before a rating's thread set it. The
model has the steps of all of them; the repository promises nothing there that a
property could state.

## 7. What could follow

- Abstract specifications: a set of learnt entries for `Evolution` without
  overlap, an atomic task table for `Scheduler`, an index for `VectorIndex`.
- The composition of `Knowledge` with `VectorIndex` (one handler
  changes both) and with `Evolution` (one thread runs both).
