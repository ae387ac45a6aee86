----------------------------- MODULE TicketDesk -----------------------------
(***************************************************************************)
(* The ticket table and every HTTP handler that writes to it.              *)
(*                                                                         *)
(* A ticket is a row of ticket_records.  It is filed by the coordinator    *)
(* (one INSERT followed by one UPDATE, two transactions), then moved by    *)
(* the handlers of routes_ticket.py and routes_org.py and, where           *)
(* MCP_ENABLED mounts them, by the MCP tools of mcp/server.py.  All of     *)
(* them are "async def" functions without an await before or between their *)
(* accesses to the table, served by one uvicorn process: each is one       *)
(* atomic step.  A restart of the process runs the start-up seeding.       *)
(*                                                                         *)
(* update_ticket writes whatever column its caller names.  Of the fields   *)
(* it documents (status, assignee, priority, description) only the status  *)
(* is a column of Row: assignee is a relationship, whose assignment raises *)
(* and is swallowed, and the model leaves priority out.  A caller naming   *)
(* an undocumented column, such as approval_status, is outside the model.  *)
(***************************************************************************)
EXTENDS Naturals, Sequences, FiniteSets

CONSTANTS
  TicketId,          \* identifiers a ticket can have
  DemoTicket,        \* the fixed identifiers TK-DEMO-nnn of the demo data
  DemoRow,           \* the row the demo data gives to each of them
  User,              \* registered accounts
  Role,              \* role of each account
  UserDept,          \* department of each account (NoDept for the admin)
  Guest,             \* a submitter without an account (public form, chat bots)
  Submitter,         \* those who submit tickets: accounts, or Guest
  Nobody,            \* assigned_to IS NULL
  Department,
  NoDept,            \* department_id 0 or NULL, both false in the code's tests
  Category,          \* the values of TicketCategory
  NoCategory,        \* category "": not classified, or not a known category
  ApprovalCategory,  \* APPROVAL_REQUIRED_CATEGORIES
  CategoryDept,      \* CATEGORY_DEPT_MAP, NoDept where it has no entry
  McpEnabled,        \* MCP_ENABLED: the MCP tools are mounted, off by default
  ToolStatus,        \* bound: the strings given to update_ticket as a status
  MaxDecisions       \* bound: decisions taken on all tickets

Roles == {"employee", "engineer", "manager", "admin"}

\* The stored status strings, in the order of TicketStatus; "awaiting_approval"
\* is written by the coordinator but is not a member of that enumeration, and
\* "other" is any further string: only update_ticket writes one.
Status == {"pending", "processing", "awaiting_confirm", "resolved", "closed",
           "escalated", "awaiting_approval", "other"}

\* approval_status: "" (written as none here), pending, approved, rejected
Verdict  == {"approved", "rejected"}
Approval == {"none", "pending"} \cup Verdict

Row == [creator       : User \cup {Guest},
        category      : Category \cup {NoCategory},
        status        : Status \cup {"absent"},
        dept          : Department \cup {NoDept},
        assignee      : User \cup {Nobody},
        needsApproval : BOOLEAN,
        approval      : Approval,
        resolvedAt    : BOOLEAN,     \* resolved_at IS NOT NULL
        closedAt      : BOOLEAN,     \* closed_at IS NOT NULL
        byTool        : BOOLEAN]     \* history, no column: the status is one that
                                     \* update_ticket wrote

\* The value of the table at an identifier without a row.
Absent == [creator |-> Guest, category |-> NoCategory, status |-> "absent",
           dept |-> NoDept, assignee |-> Nobody, needsApproval |-> FALSE,
           approval |-> "none", resolvedAt |-> FALSE, closedAt |-> FALSE,
           byTool |-> FALSE]

\* What the demo tickets of seed_demo.py look like: no timestamps, nothing
\* decided, and only a ticket that waits for approval needs one.
DemoShape(row) ==
  /\ row.status \in Status \ {"closed", "awaiting_confirm", "other"}
  /\ ~row.resolvedAt /\ ~row.closedAt /\ ~row.byTool
  /\ row.approval \in {"none", "pending"}
  /\ row.needsApproval <=> row.status = "awaiting_approval"
  /\ row.approval = "pending" <=> row.status = "awaiting_approval"
  /\ row.status \in {"processing", "resolved"} => row.assignee # Nobody

ASSUME DeskAssumption ==
  /\ DemoTicket \subseteq TicketId
  /\ Role \in [User -> Roles]
  /\ UserDept \in [User -> Department \cup {NoDept}]
  /\ Guest \notin User /\ Nobody \notin User
  /\ Submitter \subseteq User \cup {Guest}
  /\ NoDept \notin Department /\ NoCategory \notin Category
  /\ ApprovalCategory \subseteq Category
  /\ CategoryDept \in [Category -> Department \cup {NoDept}]
  /\ DemoRow \in [DemoTicket -> Row]
  /\ \A t \in DemoTicket : DemoShape(DemoRow[t])
  /\ McpEnabled \in BOOLEAN /\ ToolStatus \subseteq Status
  /\ MaxDecisions \in Nat \ {0}

VARIABLES
  rows,       \* ticket_records
  decisions,  \* approvals: the verdicts recorded for each ticket, oldest first
  issued      \* history: the generated identifiers used so far

vars == <<rows, decisions, issued>>

TypeOK ==
  /\ rows \in [TicketId -> Row]
  /\ decisions \in [TicketId -> Seq(Verdict)]
  /\ issued \subseteq TicketId \ DemoTicket

Stored == {t \in TicketId : rows[t].status # "absent"}

\* get_current_user takes the role from the users table with each request; the
\* program has no way to change it.
Engineers == {u \in User : Role[u] \in {"engineer", "manager", "admin"}}
Managers  == {u \in User : Role[u] \in {"manager", "admin"}}
Admins    == {u \in User : Role[u] = "admin"}

\* The table after the demo data has been written over it.
Seeded == [t \in TicketId |-> IF t \in DemoTicket THEN DemoRow[t] ELSE Absent]

\* init_db creates the tables, without touching rows that exist.
Init ==
  /\ rows = Seeded
  /\ decisions = [t \in TicketId |-> <<>>]
  /\ issued = {}

-----------------------------------------------------------------------------
(***************************************************************************)
(* Writing rows.                                                           *)
(***************************************************************************)

\* The domain object the handlers of routes_ticket.py read: a status that is
\* not in TicketStatus is read back as "pending".
ViewStatus(s) == IF s \in {"awaiting_approval", "other"} THEN "pending" ELSE s

\* The row with a status that a handler gives it.
WithStatus(row, s) == [row EXCEPT !.status = s, !.byTool = FALSE]

\* TicketRepository.update.  The write may fail, and the failure is swallowed:
\* the handlers answer with the ticket read back, whatever became of the write.
RepoUpdate(t, row) ==
  /\ rows' \in {rows, [rows EXCEPT ![t] = row]}
  /\ UNCHANGED <<decisions, issued>>

\* TicketRepository.batch_update: one transaction over the rows that exist,
\* without a condition on their status; a failure updates none of them.
BatchUpdate(S, next) ==
  /\ rows' \in {rows, [t \in TicketId |->
                         IF t \in S \cap Stored THEN next[t] ELSE rows[t]]}
  /\ UNCHANGED <<decisions, issued>>

\* Planted fault: the ticket and the approvals row are two transactions.
OrgCommit_TwoTransactions(t, row, log) ==
  /\ \/ /\ rows' = [rows EXCEPT ![t] = row]
        /\ decisions' \in {decisions, [decisions EXCEPT ![t] = log]}
     \/ UNCHANGED <<rows, decisions>>
  /\ UNCHANGED issued

\* A handler of routes_org.py that changes the ticket inside session_scope: it
\* commits, or it rolls back and the client gets an error.
OrgCommit(t, row, log) ==
  /\ \/ /\ rows' = [rows EXCEPT ![t] = row]
        /\ decisions' = [decisions EXCEPT ![t] = log]
     \/ UNCHANGED <<rows, decisions>>
  /\ UNCHANGED issued

-----------------------------------------------------------------------------
(***************************************************************************)
(* Filing a ticket: the last steps of LinearCoordinator.process.  There is *)
(* no await between the INSERT and the UPDATE.                             *)
(***************************************************************************)

\* The row TicketRepository.create inserts.
NewRow(by, c, s) ==
  [Absent EXCEPT !.creator = by, !.category = c, !.status = s]

\* A fresh identifier is used up, and the row that survives is one of: nothing
\* (the INSERT failed and was swallowed), the inserted row (the UPDATE failed,
\* or the process died in between) or the completed row.
File(t, inserted, completed) ==
  /\ t \in (TicketId \ DemoTicket) \ issued
  /\ issued' = issued \cup {t}
  /\ rows' \in {rows, [rows EXCEPT ![t] = inserted], [rows EXCEPT ![t] = completed]}
  /\ UNCHANGED decisions

\* What the automatic assignment may answer for a category: nobody (the default,
\* also its answer when the query fails), the admin for a category without a
\* department, a member of the department's staff for the others.
AssignChoices(c) ==
  LET dept  == IF c \in Category THEN CategoryDept[c] ELSE NoDept
      staff == IF dept = NoDept
                 THEN Admins
                 ELSE {u \in User : UserDept[u] = dept /\ Role[u] \in {"engineer", "manager"}}
  IN {[dept |-> NoDept, assignee |-> Nobody]}
       \cup {[dept |-> dept, assignee |-> u] : u \in staff}

\* Planted fault: the reply is filed without approval_status.
ReplyRow_Unlisted(by, c, a) ==
  [NewRow(by, c, IF c \in ApprovalCategory THEN "awaiting_approval" ELSE "awaiting_confirm")
     EXCEPT !.dept = a.dept, !.assignee = a.assignee,
            !.needsApproval = c \in ApprovalCategory]

\* The completed reply: approval for the categories that need it, the user's
\* confirmation for the others.
ReplyRow(by, c, a) ==
  LET assigned == [NewRow(by, c, "awaiting_confirm") EXCEPT !.dept = a.dept,
                                                           !.assignee = a.assignee]
  IN IF c \in ApprovalCategory
       THEN [assigned EXCEPT !.status = "awaiting_approval",
                             !.needsApproval = TRUE,
                             !.approval = "pending"]
       ELSE assigned

FileReply(t, by, c, a) ==
  File(t, NewRow(by, c, "awaiting_confirm"), ReplyRow(by, c, a))

\* The classifier asked for a human.
FileEscalation(t, by, c, a) ==
  File(t, NewRow(by, c, "escalated"),
       [NewRow(by, c, "escalated") EXCEPT !.dept = a.dept, !.assignee = a.assignee])

\* Any exception in the pipeline: only the INSERT is made.
FileFallback(t, by, c) ==
  File(t, NewRow(by, c, "escalated"), NewRow(by, c, "escalated"))

-----------------------------------------------------------------------------
(***************************************************************************)
(* routes_ticket.py                                                        *)
(***************************************************************************)

AssignTicket(u, t) ==
  /\ u \in Engineers /\ t \in Stored
  /\ ViewStatus(rows[t].status) \in {"pending", "awaiting_confirm", "escalated"}
  /\ RepoUpdate(t, [WithStatus(rows[t], "processing") EXCEPT !.assignee = u])

ResolveTicket(u, t) ==
  /\ u \in Engineers /\ t \in Stored
  /\ rows[t].status = "processing"
  /\ u \in Admins \/ rows[t].assignee = u
  /\ RepoUpdate(t, [WithStatus(rows[t], "resolved") EXCEPT !.resolvedAt = TRUE])

CloseTicket(u, t) ==
  /\ u \in Engineers /\ t \in Stored
  /\ rows[t].status = "resolved"
  /\ u \in Admins \/ rows[t].assignee = u
  /\ RepoUpdate(t, [WithStatus(rows[t], "closed") EXCEPT !.closedAt = TRUE])

\* Planted faults: reopening sends the ticket back to the queue, or back to the
\* approvers.
ReopenTicket_Requeued(u, t) ==
  /\ t \in Stored
  /\ rows[t].status \in {"resolved", "closed"}
  /\ u \in Admins \/ rows[t].creator = u \/ rows[t].assignee = u
  /\ RepoUpdate(t, [WithStatus(rows[t], "pending") EXCEPT !.closedAt = FALSE])

ReopenTicket_AskedAgain(u, t) ==
  /\ t \in Stored
  /\ rows[t].status \in {"resolved", "closed"}
  /\ u \in Admins \/ rows[t].creator = u \/ rows[t].assignee = u
  /\ RepoUpdate(t, [WithStatus(rows[t], "processing") EXCEPT !.closedAt = FALSE,
                       !.approval = IF rows[t].needsApproval THEN "pending" ELSE @])

ReopenTicket(u, t) ==
  /\ t \in Stored
  /\ rows[t].status \in {"resolved", "closed"}
  /\ u \in Admins \/ rows[t].creator = u \/ rows[t].assignee = u
  /\ RepoUpdate(t, [WithStatus(rows[t], "processing") EXCEPT !.closedAt = FALSE])

ConfirmTicketResolved(u, t) ==
  /\ t \in Stored
  /\ RepoUpdate(t, [WithStatus(rows[t], "resolved") EXCEPT !.resolvedAt = TRUE])

RejectTicketEscalate(u, t) ==
  /\ t \in Stored
  /\ RepoUpdate(t, WithStatus(rows[t], "escalated"))

\* Planted fault: the batch forgets the closing time.
BatchCloseTickets_Unstamped(u, S) ==
  /\ u \in Engineers
  /\ BatchUpdate(S, [t \in TicketId |-> WithStatus(rows[t], "closed")])

BatchCloseTickets(u, S) ==
  /\ u \in Engineers
  /\ BatchUpdate(S, [t \in TicketId |-> [WithStatus(rows[t], "closed") EXCEPT !.closedAt = TRUE]])

BatchAssignTickets(u, S) ==
  /\ u \in Engineers
  /\ BatchUpdate(S, [t \in TicketId |-> [WithStatus(rows[t], "processing") EXCEPT !.assignee = u]])

BatchEscalateTickets(u, S) ==
  /\ u \in Engineers
  /\ BatchUpdate(S, [t \in TicketId |-> WithStatus(rows[t], "escalated")])

-----------------------------------------------------------------------------
(***************************************************************************)
(* routes_org.py                                                           *)
(***************************************************************************)

\* An ordinary engineer is kept to the tickets of their own department, as far
\* as both sides have one.
SameDept(u, t) ==
  \/ Role[u] # "engineer"
  \/ UserDept[u] = NoDept
  \/ rows[t].dept = NoDept
  \/ UserDept[u] = rows[t].dept

OrgAssignTicket(u, t, v) ==
  /\ u \in Managers /\ t \in Stored
  /\ LET row == IF rows[t].status = "pending" THEN WithStatus(rows[t], "processing") ELSE rows[t]
     IN  OrgCommit(t, [row EXCEPT !.assignee = v], decisions[t])

AcceptTicket(u, t) ==
  /\ u \in Engineers /\ t \in Stored
  /\ SameDept(u, t)
  /\ OrgCommit(t, [WithStatus(rows[t], "processing") EXCEPT !.assignee = u],
               decisions[t])

OrgResolveTicket(u, t) ==
  /\ u \in Engineers /\ t \in Stored
  /\ SameDept(u, t)
  /\ OrgCommit(t, [WithStatus(rows[t], "resolved") EXCEPT !.resolvedAt = TRUE],
               decisions[t])

\* The decision and its record are one transaction.  Nothing is asked of the
\* ticket: it may have been decided before, or not need a decision at all.
ProcessApproval(u, t, v) ==
  /\ u \in Managers /\ t \in Stored
  /\ Cardinality(UNION {{s} \X DOMAIN decisions[s] : s \in TicketId}) < MaxDecisions
  /\ OrgCommit(t, [WithStatus(rows[t], IF v = "approved" THEN "resolved" ELSE "closed")
                     EXCEPT !.approval = v],
               Append(decisions[t], v))

-----------------------------------------------------------------------------
(***************************************************************************)
(* mcp/server.py, mounted on the same process.  create_ticket files its    *)
(* ticket through the coordinator.                                         *)
(***************************************************************************)

\* Any string on any ticket: nothing is asked of the caller or of the ticket,
\* and no timestamp or approval follows.
UpdateTicketTool(t, s) ==
  /\ McpEnabled /\ t \in Stored
  /\ RepoUpdate(t, [rows[t] EXCEPT !.status = s, !.byTool = TRUE])

EscalateTicketTool(t) ==
  /\ McpEnabled /\ t \in Stored
  /\ RepoUpdate(t, WithStatus(rows[t], "escalated"))

-----------------------------------------------------------------------------
(***************************************************************************)
(* A restart.  Every start runs seed_all, which ends in seed_demo: the     *)
(* table is emptied and the demo rows are written, in one transaction.     *)
(* The approvals table is not touched.  When seeding fails the start goes  *)
(* on with the table as it was.                                            *)
(***************************************************************************)
Restart ==
  /\ rows' \in {rows, Seeded}
  /\ UNCHANGED <<decisions, issued>>

Filing ==
  \E t \in TicketId, by \in Submitter, c \in Category \cup {NoCategory} :
    \/ \E a \in AssignChoices(c) : FileReply(t, by, c, a) \/ FileEscalation(t, by, c, a)
    \/ FileFallback(t, by, c)

TicketRoutes ==
  \E u \in User :
    \/ \E t \in TicketId :
         \/ AssignTicket(u, t)
         \/ ResolveTicket(u, t)
         \/ CloseTicket(u, t)
         \/ ReopenTicket(u, t)
         \/ ConfirmTicketResolved(u, t)
         \/ RejectTicketEscalate(u, t)
    \/ \E S \in SUBSET TicketId \ {{}} :
         \/ BatchCloseTickets(u, S)
         \/ BatchAssignTickets(u, S)
         \/ BatchEscalateTickets(u, S)

OrgRoutes ==
  \E u \in User, t \in TicketId :
    \/ \E v \in User : OrgAssignTicket(u, t, v)
    \/ AcceptTicket(u, t)
    \/ OrgResolveTicket(u, t)
    \/ \E v \in Verdict : ProcessApproval(u, t, v)

McpTools ==
  \E t \in TicketId :
    \/ \E s \in ToolStatus : UpdateTicketTool(t, s)
    \/ EscalateTicketTool(t)

Next == Filing \/ TicketRoutes \/ OrgRoutes \/ McpTools \/ Restart

Spec == Init /\ [][Next]_vars

-----------------------------------------------------------------------------
(***************************************************************************)
(* Safety.                                                                 *)
(***************************************************************************)

\* A ticket shown as approved or rejected has an approval record, and the newest
\* one says the same: the two tables never disagree, across failed commits and
\* across the restarts that rewrite one of them.
DecisionOnRecord ==
  \A t \in TicketId :
    rows[t].approval \in Verdict =>
      decisions[t] # <<>> /\ decisions[t][Len(decisions[t])] = rows[t].approval

\* A ticket that waits for approval is in the approvers' list (pending_approvals
\* selects on needs_approval and approval_status), so it cannot wait unseen,
\* unless update_ticket made it wait; and whatever is in that list really needs
\* approval.
WaitingIsListed ==
  \A t \in TicketId :
    /\ rows[t].status = "awaiting_approval" =>
         rows[t].approval = "pending" \/ rows[t].byTool
    /\ rows[t].approval = "pending" => rows[t].needsApproval

\* Through all reopenings, a ticket that is closed without a closing time was
\* rejected by an approver; one that is resolved without a resolving time was
\* approved, or came resolved with the demo data.  update_ticket alone ends a
\* ticket without either, and every handler that moves the ticket on mends it.
EndIsStamped ==
  \A t \in TicketId :
    /\ rows[t].status = "closed" =>
         rows[t].closedAt \/ rows[t].approval = "rejected" \/ rows[t].byTool
    /\ rows[t].status = "resolved" =>
         \/ rows[t].resolvedAt \/ rows[t].approval = "approved"
         \/ t \in DemoTicket  \/ rows[t].byTool

\* Only identifiers that were issued, or belong to the demo data, have rows or
\* decisions; an identifier that was never stored has neither.
NoOrphans ==
  \A t \in TicketId \ DemoTicket :
    t \notin issued => rows[t] = Absent /\ decisions[t] = <<>>

\* The statuses in which a ticket waits for its first human answer.
Intake == {"pending", "awaiting_confirm", "awaiting_approval"}

\* Once a ticket has left the intake nothing but update_ticket or a restart
\* brings it back: no handler, batch or late filing makes it wait for approval
\* or confirmation again.
IntakeLeftForGood ==
  [][ \A t \in Stored :
        rows[t].status \notin Intake /\ rows'[t].status \in Intake =>
          Restart \/ UpdateTicketTool(t, rows'[t].status) ]_vars

\* What an approver sees of a ticket.
Standing == [t \in TicketId |-> rows[t].approval]

Ledger == INSTANCE ApprovalLedger WITH
  Ticket        <- TicketId,
  Verdicts      <- Verdict,
  FirstStanding <- [t \in TicketId |-> Seeded[t].approval],
  standing      <- Standing,
  ledger        <- decisions

\* The desk keeps the ledger's promise: confirming, resolving, closing, reopening
\* or escalating never alters what the approvers decided.
ImplementsLedger == Ledger!LedgerSpec
=============================================================================
