------------------------------ MODULE McpLink ------------------------------
(***************************************************************************)
(* MCPClient and TicketMCPServer: JSON-RPC over the pipes of a subprocess. *)
(*                                                                         *)
(* Connecting, calling a tool and closing are coroutines on one event      *)
(* loop; a lock covers the test of a connection, the numbering and writing *)
(* of a request, and one assignment of close, and nothing else.  A reader  *)
(* task matches the answers to the requests that wait.  The server runs a  *)
(* tool on the ticket table, in any order and at any speed, and may die.   *)
(***************************************************************************)
EXTENDS Naturals, FiniteSets

CONSTANTS
  Connects,      \* coroutines that connect and, when done, close
  Callers,       \* coroutines that call a tool
  NoCall,
  ToolOf,        \* the tool, ticket and field of each caller
  LinkTicket,    \* tickets
  OnFile,        \* the tickets in the table at the start
  MaxDeaths      \* bound: server processes that die by themselves

Calls     == Connects \cup Callers
Processes == 1 .. Cardinality(Connects)
Ids       == 1 .. Cardinality(Calls)

\* The fields update_ticket names, and those that are columns of the table.
Fields  == {"status", "assignee", "priority", "description"}
Columns == {"status", "priority"}
Tools   == {"get_ticket_status", "update_ticket", "create_ticket", "escalate_ticket",
            "search_knowledge"}

ASSUME LinkAssumption ==
  /\ NoCall \notin Calls /\ IsFiniteSet(Calls) /\ Connects \cap Callers = {}
  /\ ToolOf \in [Callers -> [tool : Tools, ticket : LinkTicket, field : Fields]]
  /\ OnFile \subseteq LinkTicket
  /\ MaxDeaths \in Nat

VARIABLES
  started,    \* server processes started so far
  up,         \* those still running
  process,    \* _process, 0 for none
  reader,     \* where each reader task stands
  task,       \* _reader_task, by the process it was created for, 0 for none
  connected,  \* _connected
  holder,     \* the call that holds the lock over an await
  lastId,     \* _request_id
  pending,    \* _pending
  stdin,      \* requests on their way to a process
  stdout,     \* its answers
  call,       \* the state of each coroutine
  table,      \* the tickets, each with the columns that were set
  deaths

link     == <<started, up, process, reader, task, connected, holder, lastId, pending>>
vars == <<link, stdin, stdout, call, table, deaths>>

Reader(s, p) == [state |-> s, on |-> p]

Goes(c, pc)  == call' = [call EXCEPT ![c].pc = pc]

-----------------------------------------------------------------------------
(***************************************************************************)
(* connect.                                                                *)
(***************************************************************************)

\* The lock is given back before anything is done about the answer of the test.
Connect(c) ==
  /\ call[c].pc = "idle" /\ c \in Connects
  /\ holder = NoCall
  /\ Goes(c, IF connected THEN "done" ELSE "spawn")
  /\ UNCHANGED <<link, stdin, stdout, table, deaths>>

\* Planted fault: a new connection counts its requests from one.
Spawned_CountsAnew(c) ==
  /\ call[c].pc = "spawn"
  /\ started' = started + 1
  /\ up' = up \cup {started'}
  /\ process' = started'
  /\ reader' = [reader EXCEPT ![started'] = Reader("new", 0)]
  /\ task' = started'
  /\ connected' = TRUE
  /\ lastId' = 0
  /\ Goes(c, "lock")
  /\ UNCHANGED <<holder, pending, stdin, stdout, table, deaths>>

\* The process and its reader replace whatever was there; the initialize request
\* is then sent like any other.
Spawned(c) ==
  /\ call[c].pc = "spawn"
  /\ started' = started + 1
  /\ up' = up \cup {started'}
  /\ process' = started'
  /\ reader' = [reader EXCEPT ![started'] = Reader("new", 0)]
  /\ task' = started'
  /\ connected' = TRUE
  /\ Goes(c, "lock")
  /\ UNCHANGED <<holder, lastId, pending, stdin, stdout, table, deaths>>

SpawnFails(c) ==
  /\ call[c].pc = "spawn"
  /\ Goes(c, "close")
  /\ UNCHANGED <<link, stdin, stdout, table, deaths>>

-----------------------------------------------------------------------------
(***************************************************************************)
(* _send_request.                                                          *)
(***************************************************************************)

\* A connect that fails closes the client before it raises.
AfterFailure(c) == IF c \in Connects THEN "close" ELSE "failed"

CallTool(c) ==
  /\ call[c].pc = "idle" /\ c \in Callers
  /\ Goes(c, IF connected /\ process # 0 THEN "lock" ELSE "failed")
  /\ UNCHANGED <<link, stdin, stdout, table, deaths>>

\* Planted fault: the request is entered when the answer is awaited.
Send_EntersLater(c) ==
  /\ call[c].pc = "lock"
  /\ holder = NoCall
  /\ process # 0
  /\ lastId' = lastId + 1
  /\ call' = [call EXCEPT ![c].id = lastId', ![c].to = process, ![c].pc = "drain"]
  /\ holder' = c
  /\ stdin' = IF process \in up
                THEN [stdin EXCEPT ![process] = @ \cup {lastId'}] ELSE stdin
  /\ UNCHANGED <<started, up, process, reader, task, connected, pending,
                 stdout, table, deaths>>

\* The request is numbered, entered and written under the lock; the connection is
\* not tested again, and without a process the write raises.
Send(c) ==
  /\ call[c].pc = "lock"
  /\ holder = NoCall
  /\ lastId' = lastId + 1
  /\ pending' = [pending EXCEPT ![lastId'] = c]
  /\ call' = [call EXCEPT ![c].id = lastId', ![c].to = process,
                          ![c].pc = IF process = 0 THEN AfterFailure(c) ELSE "drain"]
  /\ IF process = 0
       THEN UNCHANGED <<holder, stdin>>
       ELSE /\ holder' = c
            /\ stdin' = IF process \in up
                          THEN [stdin EXCEPT ![process] = @ \cup {lastId'}] ELSE stdin
  /\ UNCHANGED <<started, up, process, reader, task, connected, stdout, table, deaths>>

Drained(c) ==
  /\ call[c].pc = "drain"
  /\ holder' = NoCall
  /\ Goes(c, "wait")
  /\ UNCHANGED <<started, up, process, reader, task, connected, lastId, pending,
                 stdin, stdout, table, deaths>>

\* The pipe of a dead process is closed; the request stays in _pending.
DrainFails(c) ==
  /\ call[c].pc = "drain"
  /\ call[c].to \notin up
  /\ holder' = NoCall
  /\ Goes(c, AfterFailure(c))
  /\ UNCHANGED <<started, up, process, reader, task, connected, lastId, pending,
                 stdin, stdout, table, deaths>>

\* The future is done: with a result, or cancelled by close.
Resumes(c) ==
  /\ call[c].pc = "wait"
  /\ call[c].result # "none"
  /\ Goes(c, call[c].result)
  /\ UNCHANGED <<link, stdin, stdout, table, deaths>>

TimesOut(c) ==
  /\ call[c].pc = "wait"
  /\ call[c].result = "none"
  /\ pending' = [pending EXCEPT ![call[c].id] = NoCall]
  /\ Goes(c, AfterFailure(c))
  /\ UNCHANGED <<started, up, process, reader, task, connected, holder, lastId,
                 stdin, stdout, table, deaths>>

-----------------------------------------------------------------------------
(***************************************************************************)
(* _read_loop.                                                             *)
(***************************************************************************)

\* Each turn reads from the process of the moment.  An empty stream that another
\* reader waits on raises, which ends the task.
Raises(p) ==
  /\ stdout'[process] = {}
  /\ \E q \in Processes \ {p} : reader[q] = Reader("reads", process)

Turn(p) ==
  reader' = [reader EXCEPT ![p] = IF process = 0 \/ Raises(p)
               THEN Reader("ended", 0) ELSE Reader("reads", process)]

ReaderStarts(p) ==
  /\ reader[p].state = "new"
  /\ UNCHANGED <<started, up, process, task, connected, holder, lastId, pending,
                 stdin, stdout, call, table, deaths>>
  /\ Turn(p)

\* An answer resolves the request it names; one that nobody waits for is ignored.
Read(p) ==
  LET q == reader[p].on IN
  /\ reader[p].state = "reads"
  /\ \E a \in stdout[q] :
       /\ stdout' = [stdout EXCEPT ![q] = @ \ {a}]
       /\ pending' = [pending EXCEPT ![a.id] = NoCall]
       /\ call' = IF pending[a.id] = NoCall
                    THEN call
                    ELSE [call EXCEPT ![pending[a.id]].result = "answered",
                                      ![pending[a.id]].got = [id |-> a.id, from |-> q]]
  /\ Turn(p)
  /\ UNCHANGED <<started, up, process, task, connected, holder, lastId, stdin, table, deaths>>

\* The end of the stream ends the reader and nothing else: _connected stays.
Eof(p) ==
  /\ reader[p].state = "reads"
  /\ reader[p].on \notin up
  /\ stdout[reader[p].on] = {}
  /\ reader' = [reader EXCEPT ![p] = Reader("ended", 0)]
  /\ UNCHANGED <<started, up, process, task, connected, holder, lastId, pending,
                 stdin, stdout, call, table, deaths>>

-----------------------------------------------------------------------------
(***************************************************************************)
(* close.  Its awaits let other coroutines in, and what they have put into *)
(* the fields meanwhile is reset with the rest.                            *)
(***************************************************************************)

Close(c) ==
  /\ c \in Connects
  /\ call[c].pc \in {"close", "answered", "done"}
  /\ holder = NoCall
  /\ connected' = FALSE
  /\ reader' = IF task = 0 THEN reader
                           ELSE [reader EXCEPT ![task] = Reader("ended", 0)]
  /\ Goes(c, "terminate")
  /\ UNCHANGED <<started, up, process, task, holder, lastId, pending,
                 stdin, stdout, table, deaths>>

Exits(p) ==
  /\ up' = up \ {p}
  /\ stdin' = IF p = 0 THEN stdin ELSE [stdin EXCEPT ![p] = {}]

\* Every future that waits is cancelled, whoever waits for it.
CancelAll(c) ==
  /\ pending' = [i \in Ids |-> NoCall]
  /\ call' = [d \in Calls |->
                IF d = c THEN [call[d] EXCEPT !.pc = "closed"]
                ELSE IF call[d].result = "none" /\ \E i \in Ids : pending[i] = d
                  THEN [call[d] EXCEPT !.result = "cancelled"]
                ELSE call[d]]

\* A process that does not end when asked to is killed.
Terminate(c) ==
  /\ call[c].pc = "terminate"
  /\ process # 0
  /\ task' = 0
  /\ Exits(process)
  /\ Goes(c, "cleanup")
  /\ UNCHANGED <<started, process, reader, connected, holder, lastId, pending,
                 stdout, table, deaths>>

NothingToTerminate(c) ==
  /\ call[c].pc = "terminate"
  /\ process = 0
  /\ task' = 0
  /\ CancelAll(c)
  /\ UNCHANGED <<started, up, process, reader, connected, holder, lastId,
                 stdin, stdout, table, deaths>>

CleanUp(c) ==
  /\ call[c].pc = "cleanup"
  /\ process' = 0
  /\ CancelAll(c)
  /\ UNCHANGED <<started, up, reader, task, connected, holder, lastId,
                 stdin, stdout, table, deaths>>

-----------------------------------------------------------------------------
(***************************************************************************)
(* The server: TicketMCPServer._execute_tool on the ticket table.          *)
(***************************************************************************)

\* TicketRepository.update ignores a field that is no column; when the commit
\* fails it returns the ticket all the same.
Updated(t, f) ==
  {table} \cup {IF t \in table.on /\ f \in Columns
                  THEN [table EXCEPT !.set = @ \cup {<<t, f>>}] ELSE table}

\* What a tool may leave behind and answer.
Outcomes(x) ==
  CASE x.tool = "update_ticket" ->
         {[table |-> new, ok |-> x.ticket \in table.on] : new \in Updated(x.ticket, x.field)}
    [] x.tool = "escalate_ticket" ->
         {[table |-> new, ok |-> TRUE] : new \in Updated(x.ticket, "status")}
    [] x.tool = "create_ticket" ->
         {[table |-> new, ok |-> TRUE] :
            new \in {table} \cup {[table EXCEPT !.on = @ \cup {x.ticket}]}}
    [] OTHER -> {[table |-> table, ok |-> TRUE]}

\* The caller's tool, or the answer to initialize.
Serve(q) ==
  /\ q \in up
  /\ \E i \in stdin[q], c \in Connects \cup Callers :
       /\ call[c].id = i /\ call[c].to = q
       /\ stdin' = [stdin EXCEPT ![q] = @ \ {i}]
       /\ IF c \in Connects
            THEN /\ stdout' = [stdout EXCEPT ![q] = @ \cup {[id |-> i, ok |-> TRUE]}]
                 /\ UNCHANGED table
            ELSE \E o \in Outcomes(ToolOf[c]) :
                   /\ stdout' = [stdout EXCEPT ![q] = @ \cup {[id |-> i, ok |-> o.ok]}]
                   /\ table' = o.table
  /\ UNCHANGED <<link, call, deaths>>

Dies(q) ==
  /\ q \in up
  /\ deaths < MaxDeaths
  /\ deaths' = deaths + 1
  /\ Exits(q)
  /\ UNCHANGED <<started, process, reader, task, connected, holder, lastId, pending,
                 stdout, call, table>>

-----------------------------------------------------------------------------
Init ==
  /\ started = 0 /\ up = {} /\ process = 0
  /\ reader = [p \in Processes |-> Reader("none", 0)]
  /\ task = 0
  /\ connected = FALSE
  /\ holder = NoCall
  /\ lastId = 0
  /\ pending = [i \in Ids |-> NoCall]
  /\ stdin = [p \in Processes |-> {}]
  /\ stdout = [p \in Processes |-> {}]
  /\ call = [c \in Calls |-> [pc |-> "idle", id |-> 0, to |-> 0, result |-> "none",
                              got |-> [id |-> 0, from |-> 0]]]
  /\ table = [on |-> OnFile, set |-> {}]
  /\ deaths = 0

Coroutine(c) ==
  \/ Connect(c) \/ Spawned(c) \/ SpawnFails(c)
  \/ CallTool(c) \/ Send(c) \/ Drained(c) \/ DrainFails(c) \/ Resumes(c) \/ TimesOut(c)
  \/ Close(c) \/ Terminate(c) \/ NothingToTerminate(c) \/ CleanUp(c)

Reads(p) == ReaderStarts(p) \/ Read(p) \/ Eof(p)

Next ==
  \/ \E c \in Calls : Coroutine(c)
  \/ \E p \in Processes : Reads(p) \/ Serve(p) \/ Dies(p)

Spec == Init /\ [][Next]_vars

-----------------------------------------------------------------------------
(***************************************************************************)
(* Properties.                                                             *)
(***************************************************************************)

\* A call is answered with the answer to its own request, from the process it was
\* sent to, whatever connections overlap and however late an answer comes.
OwnAnswer ==
  \A c \in Calls : call[c].result = "answered" =>
    call[c].got = [id |-> call[c].id, from |-> call[c].to]

\* Nobody waits for what can no longer come: the request of a call that waits is
\* entered under its number, so that an answer finds it and a close cancels it,
\* until it is done.
NoWaiterForgotten ==
  \A c \in Calls : call[c].pc \in {"drain", "wait"} /\ call[c].result = "none" =>
    pending[call[c].id] = c

=============================================================================
