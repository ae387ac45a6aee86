------------------------- MODULE CoordinatorProofs -------------------------
(***************************************************************************)
(* Proofs about the ticket desk and about the pipeline, which extends it.  *)
(*                                                                         *)
(* First part: TicketDesk, for every set of tickets, accounts, departments *)
(* and categories.  The invariant is kept row by row: RowInv says what     *)
(* holds of one identifier, and the three ways of writing rows             *)
(* (RepoUpdate, BatchUpdate, OrgCommit) keep it as soon as the row they    *)
(* write has it.                                                           *)
(*                                                                         *)
(* Second part: the pipeline.  It implements the ticket desk for any       *)
(* number of overlapping requests, so every theorem of the first part      *)
(* holds of it too; then what relates the requests to their tickets.       *)
(***************************************************************************)
EXTENDS Coordinator, FiniteSetTheorems, TLAPS

RowInv(t, row, log) ==
  /\ row \in Row
  /\ row.approval \in Verdict => log # <<>> /\ log[Len(log)] = row.approval
  /\ row.status = "awaiting_approval" => row.approval = "pending" \/ row.byTool
  /\ row.approval = "pending" => row.needsApproval
  /\ row.status = "closed" => row.closedAt \/ row.approval = "rejected" \/ row.byTool
  /\ row.status = "resolved" =>
       row.resolvedAt \/ row.approval = "approved" \/ t \in DemoTicket \/ row.byTool
  /\ row.byTool => McpEnabled

IInv ==
  /\ TypeOK
  /\ \A t \in TicketId : RowInv(t, rows[t], decisions[t])
  /\ NoOrphans

-----------------------------------------------------------------------------
(***************************************************************************)
(* What the writing operators keep.                                        *)
(***************************************************************************)

LEMMA AbsentRow == \A t \in TicketId, log \in Seq(Verdict) : RowInv(t, Absent, log)
  BY DeskAssumption DEF RowInv, Absent, Row, Status, Approval, Verdict

LEMMA SeededRow == \A t \in TicketId, log \in Seq(Verdict) : RowInv(t, Seeded[t], log)
  <1> SUFFICES ASSUME NEW t \in TicketId, NEW log \in Seq(Verdict)
               PROVE  RowInv(t, Seeded[t], log)
    OBVIOUS
  <1>1. CASE t \in DemoTicket
    <2>1. Seeded[t] = DemoRow[t] /\ DemoRow[t] \in Row /\ DemoShape(DemoRow[t])
      BY <1>1, DeskAssumption DEF Seeded
    <2>2. QED
      BY <1>1, <2>1 DEF RowInv, DemoShape, Verdict
  <1>2. CASE t \notin DemoTicket
    BY <1>2, AbsentRow DEF Seeded
  <1>3. QED
    BY <1>1, <1>2

LEMMA InitInv == Init => IInv
  <1> SUFFICES ASSUME Init PROVE IInv
    OBVIOUS
  <1>1. decisions \in [TicketId -> Seq(Verdict)]
    BY DEF Init
  <1>2. \A t \in TicketId : RowInv(t, rows[t], decisions[t])
    BY <1>1, SeededRow DEF Init
  <1>3. TypeOK
    BY <1>1, <1>2 DEF Init, TypeOK, RowInv, Seeded
  <1>4. NoOrphans
    BY DEF Init, NoOrphans, Seeded
  <1>5. QED
    BY <1>2, <1>3, <1>4 DEF IInv

\* A row written over a stored ticket, or over an identifier just issued.
LEMMA OneRowWritten ==
  ASSUME IInv, NEW t \in TicketId, NEW row, RowInv(t, row, decisions[t]),
         rows' \in {rows, [rows EXCEPT ![t] = row]},
         UNCHANGED decisions,
         issued \subseteq issued', issued' \subseteq TicketId \ DemoTicket,
         t \in Stored \/ t \in issued'
  PROVE  IInv'
  <1>1. \A s \in TicketId : RowInv(s, rows'[s], decisions'[s])
    <2> SUFFICES ASSUME NEW s \in TicketId PROVE RowInv(s, rows'[s], decisions[s])
      OBVIOUS
    <2>1. CASE rows' = rows
      BY <2>1 DEF IInv
    <2>2. CASE rows' = [rows EXCEPT ![t] = row] /\ s = t
      BY <2>2 DEF IInv, TypeOK
    <2>3. CASE rows' = [rows EXCEPT ![t] = row] /\ s # t
      BY <2>3 DEF IInv, TypeOK
    <2>4. QED
      BY <2>1, <2>2, <2>3
  <1>2. TypeOK'
    BY DEF IInv, TypeOK, RowInv
  <1>3. NoOrphans'
    <2> SUFFICES ASSUME NEW s \in TicketId \ DemoTicket, s \notin issued'
                 PROVE  rows'[s] = Absent /\ decisions'[s] = <<>>
      BY DEF NoOrphans
    <2>1. rows[s] = Absent /\ decisions[s] = <<>>
      BY DEF IInv, NoOrphans
    <2>2. s # t
      BY <2>1 DEF Stored, Absent
    <2>3. QED
      BY <2>1, <2>2 DEF IInv, TypeOK
  <1>4. QED
    BY <1>1, <1>2, <1>3 DEF IInv

LEMMA RepoUpdateKeeps ==
  ASSUME IInv, NEW t \in Stored, NEW row,
         RowInv(t, row, decisions[t]), RepoUpdate(t, row)
  PROVE  IInv'
  BY OneRowWritten DEF RepoUpdate, Stored, IInv, TypeOK

LEMMA BatchUpdateKeeps ==
  ASSUME IInv, NEW S, NEW next \in [TicketId -> Row],
         \A t \in Stored : RowInv(t, next[t], decisions[t]),
         rows' \in {rows, [t \in TicketId |->
                             IF t \in S \cap Stored THEN next[t] ELSE rows[t]]},
         UNCHANGED <<decisions, issued>>
  PROVE  IInv'
  <1>1. \A s \in TicketId : RowInv(s, rows'[s], decisions'[s])
    <2> SUFFICES ASSUME NEW s \in TicketId PROVE RowInv(s, rows'[s], decisions[s])
      OBVIOUS
    <2>1. RowInv(s, rows[s], decisions[s])
      BY DEF IInv
    <2>2. rows'[s] = rows[s] \/ (s \in Stored /\ rows'[s] = next[s])
      OBVIOUS
    <2>3. QED
      BY <2>1, <2>2
  <1>2. TypeOK'
    BY <1>1 DEF IInv, TypeOK, RowInv
  <1>3. NoOrphans'
    <2> SUFFICES ASSUME NEW s \in TicketId \ DemoTicket, s \notin issued
                 PROVE  rows'[s] = Absent /\ decisions'[s] = <<>>
      BY DEF NoOrphans
    <2>1. rows[s] = Absent /\ decisions[s] = <<>>
      BY DEF IInv, NoOrphans
    <2>2. s \notin Stored
      BY <2>1 DEF Stored, Absent
    <2>3. QED
      BY <2>1, <2>2
  <1>4. QED
    BY <1>1, <1>2, <1>3 DEF IInv

LEMMA OrgCommitKeeps ==
  ASSUME IInv, NEW t \in Stored, NEW row, NEW log \in Seq(Verdict),
         RowInv(t, row, log), OrgCommit(t, row, log)
  PROVE  IInv'
  <1>1. CASE UNCHANGED <<rows, decisions>>
    BY <1>1 DEF OrgCommit, IInv, TypeOK, NoOrphans, RowInv
  <1>2. CASE /\ rows' = [rows EXCEPT ![t] = row]
             /\ decisions' = [decisions EXCEPT ![t] = log]
    <2>1. t \in TicketId
      BY DEF Stored
    <2>2. \A s \in TicketId : RowInv(s, rows'[s], decisions'[s])
      <3> SUFFICES ASSUME NEW s \in TicketId PROVE RowInv(s, rows'[s], decisions'[s])
        OBVIOUS
      <3>1. CASE s = t
        BY <1>2, <3>1 DEF IInv, TypeOK
      <3>2. CASE s # t
        BY <1>2, <3>2 DEF IInv, TypeOK
      <3>3. QED
        BY <3>1, <3>2
    <2>3. TypeOK'
      BY <1>2, <2>1 DEF OrgCommit, IInv, TypeOK, RowInv
    <2>4. NoOrphans'
      <3> SUFFICES ASSUME NEW s \in TicketId \ DemoTicket, s \notin issued
                   PROVE  rows'[s] = Absent /\ decisions'[s] = <<>>
        BY DEF NoOrphans, OrgCommit
      <3>1. rows[s] = Absent /\ decisions[s] = <<>>
        BY DEF IInv, NoOrphans
      <3>2. s # t
        BY <3>1 DEF Stored, Absent
      <3>3. QED
        BY <1>2, <3>1, <3>2 DEF IInv, TypeOK
    <2>5. QED
      BY <2>2, <2>3, <2>4 DEF IInv
  <1>3. QED
    BY <1>1, <1>2 DEF OrgCommit

-----------------------------------------------------------------------------
(***************************************************************************)
(* Every action keeps the invariant.                                       *)
(***************************************************************************)

\* The row RowInv speaks of, at an identifier that has a row.
LEMMA StoredRow ==
  ASSUME IInv, NEW t \in Stored
  PROVE  /\ t \in TicketId
         /\ rows[t] \in Row
         /\ decisions[t] \in Seq(Verdict)
         /\ RowInv(t, rows[t], decisions[t])
  BY DEF IInv, TypeOK, Stored

LEMMA FilingKeeps == ASSUME IInv, Filing PROVE IInv'
  <1>1. PICK t \in TicketId, by \in Submitter, c \in Category \cup {NoCategory} :
          \/ \E a \in AssignChoices(c) : FileReply(t, by, c, a) \/ FileEscalation(t, by, c, a)
          \/ FileFallback(t, by, c)
    BY DEF Filing
  <1>2. by \in User \cup {Guest}
    BY DeskAssumption
  <1>3. \A a \in AssignChoices(c) :
          a.dept \in Department \cup {NoDept} /\ a.assignee \in User \cup {Nobody}
    BY DeskAssumption DEF AssignChoices, Admins
  <1>4. decisions[t] \in Seq(Verdict)
    BY DEF IInv, TypeOK
  <1>5. RowInv(t, NewRow(by, c, "awaiting_confirm"), decisions[t])
    BY <1>2, DeskAssumption DEF RowInv, NewRow, Absent, Row, Status, Approval, Verdict
  <1>6. RowInv(t, NewRow(by, c, "escalated"), decisions[t])
    BY <1>2, DeskAssumption DEF RowInv, NewRow, Absent, Row, Status, Approval, Verdict
  <1>7. CASE \E a \in AssignChoices(c) : FileReply(t, by, c, a)
    <2>1. PICK a \in AssignChoices(c) : FileReply(t, by, c, a)
      BY <1>7
    <2>2. RowInv(t, ReplyRow(by, c, a), decisions[t])
      <3>1. a.dept \in Department \cup {NoDept} /\ a.assignee \in User \cup {Nobody}
        BY <1>3
      <3>2. CASE c \in ApprovalCategory
        <4>1. ReplyRow(by, c, a) =
                [creator |-> by, category |-> c, status |-> "awaiting_approval",
                 dept |-> a.dept, assignee |-> a.assignee, needsApproval |-> TRUE,
                 approval |-> "pending", resolvedAt |-> FALSE, closedAt |-> FALSE,
                 byTool |-> FALSE]
          BY <3>2 DEF ReplyRow, NewRow, Absent
        <4>2. QED
          BY <1>2, <3>1, <4>1 DEF RowInv, Row, Status, Approval, Verdict
      <3>3. CASE c \notin ApprovalCategory
        <4>1. ReplyRow(by, c, a) =
                [creator |-> by, category |-> c, status |-> "awaiting_confirm",
                 dept |-> a.dept, assignee |-> a.assignee, needsApproval |-> FALSE,
                 approval |-> "none", resolvedAt |-> FALSE, closedAt |-> FALSE,
                 byTool |-> FALSE]
          BY <3>3 DEF ReplyRow, NewRow, Absent
        <4>2. QED
          BY <1>2, <3>1, <4>1 DEF RowInv, Row, Status, Approval, Verdict
      <3>4. QED
        BY <3>2, <3>3
    <2>3. PICK row : /\ RowInv(t, row, decisions[t])
                     /\ rows' \in {rows, [rows EXCEPT ![t] = row]}
      BY <1>5, <2>1, <2>2 DEF FileReply, File
    <2>4. QED
      BY <2>1, <2>3, OneRowWritten DEF FileReply, File, IInv, TypeOK
  <1>8. CASE \E a \in AssignChoices(c) : FileEscalation(t, by, c, a)
    <2>1. PICK a \in AssignChoices(c) : FileEscalation(t, by, c, a)
      BY <1>8
    <2>2. RowInv(t, [NewRow(by, c, "escalated") EXCEPT !.dept = a.dept,
                                                      !.assignee = a.assignee],
                 decisions[t])
      BY <1>2, <1>3, DeskAssumption DEF RowInv, NewRow, Absent, Row, Status, Approval, Verdict
    <2>3. PICK row : /\ RowInv(t, row, decisions[t])
                     /\ rows' \in {rows, [rows EXCEPT ![t] = row]}
      BY <1>6, <2>1, <2>2 DEF FileEscalation, File
    <2>4. QED
      BY <2>1, <2>3, OneRowWritten DEF FileEscalation, File, IInv, TypeOK
  <1>9. CASE FileFallback(t, by, c)
    BY <1>6, <1>9, OneRowWritten DEF FileFallback, File, IInv, TypeOK
  <1>10. QED
    BY <1>1, <1>7, <1>8, <1>9

\* A handler's status leaves the shape of the row, and all else of it.
LEMMA WithStatusShape ==
  ASSUME NEW row \in Row, NEW s \in Status
  PROVE  /\ WithStatus(row, s) \in Row
         /\ WithStatus(row, s).status = s /\ ~WithStatus(row, s).byTool
         /\ WithStatus(row, s).approval = row.approval
         /\ WithStatus(row, s).assignee = row.assignee
         /\ WithStatus(row, s).needsApproval = row.needsApproval
         /\ WithStatus(row, s).resolvedAt = row.resolvedAt
         /\ WithStatus(row, s).closedAt = row.closedAt
  BY DEF WithStatus, Row

\* The shape of a row whose closing time or assignee is written.
LEMMA ColumnShape ==
  ASSUME NEW row \in Row
  PROVE  /\ [row EXCEPT !.closedAt = TRUE] \in Row
         /\ \A u \in User : [row EXCEPT !.assignee = u] \in Row
  BY DEF Row

\* The rows the handlers write.
LEMMA WrittenRows ==
  ASSUME IInv, NEW t \in Stored, NEW u \in User
  PROVE  /\ RowInv(t, [WithStatus(rows[t], "processing") EXCEPT !.assignee = u], decisions[t])
         /\ RowInv(t, [WithStatus(rows[t], "resolved") EXCEPT !.resolvedAt = TRUE], decisions[t])
         /\ RowInv(t, [WithStatus(rows[t], "closed") EXCEPT !.closedAt = TRUE], decisions[t])
         /\ RowInv(t, [WithStatus(rows[t], "processing") EXCEPT !.closedAt = FALSE], decisions[t])
         /\ RowInv(t, WithStatus(rows[t], "escalated"), decisions[t])
         /\ RowInv(t, [rows[t] EXCEPT !.assignee = u], decisions[t])
  BY StoredRow DEF RowInv, WithStatus, Row, Status, Verdict

LEMMA TicketRoutesKeep == ASSUME IInv, TicketRoutes PROVE IInv'
  <1>1. PICK u \in User :
          \/ \E t \in TicketId :
               \/ AssignTicket(u, t)
               \/ ResolveTicket(u, t)
               \/ CloseTicket(u, t)
               \/ ReopenTicket(u, t)
               \/ ConfirmTicketResolved(u, t)
               \/ RejectTicketEscalate(u, t)
          \/ \E S \in SUBSET TicketId \ {{}} :
               \/ BatchCloseTickets(u, S)
               \/ BatchAssignTickets(u, S)
               \/ BatchEscalateTickets(u, S)
    BY DEF TicketRoutes
  <1>2. ASSUME NEW t \in TicketId, AssignTicket(u, t) PROVE IInv'
    BY <1>2, WrittenRows, RepoUpdateKeeps DEF AssignTicket
  <1>3. ASSUME NEW t \in TicketId, ResolveTicket(u, t) PROVE IInv'
    BY <1>3, WrittenRows, RepoUpdateKeeps DEF ResolveTicket
  <1>4. ASSUME NEW t \in TicketId, CloseTicket(u, t) PROVE IInv'
    BY <1>4, WrittenRows, RepoUpdateKeeps DEF CloseTicket
  <1>5. ASSUME NEW t \in TicketId, ReopenTicket(u, t) PROVE IInv'
    BY <1>5, WrittenRows, RepoUpdateKeeps DEF ReopenTicket
  <1>6. ASSUME NEW t \in TicketId, ConfirmTicketResolved(u, t) PROVE IInv'
    BY <1>6, WrittenRows, RepoUpdateKeeps DEF ConfirmTicketResolved
  <1>7. ASSUME NEW t \in TicketId, RejectTicketEscalate(u, t) PROVE IInv'
    BY <1>7, WrittenRows, RepoUpdateKeeps DEF RejectTicketEscalate
  <1>8. ASSUME NEW S \in SUBSET TicketId, BatchCloseTickets(u, S) PROVE IInv'
    <2> DEFINE next == [t \in TicketId |-> [WithStatus(rows[t], "closed") EXCEPT !.closedAt = TRUE]]
    <2>1. next \in [TicketId -> Row]
      <3>1. \A t \in TicketId : next[t] \in Row
        BY WithStatusShape, ColumnShape DEF IInv, TypeOK, Status
      <3>2. QED
        BY <3>1
    <2>2. \A t \in Stored : RowInv(t, next[t], decisions[t])
      BY WrittenRows DEF Stored
    <2> HIDE DEF next
    <2>3. QED
      BY <1>8, <2>1, <2>2, BatchUpdateKeeps DEF BatchCloseTickets, BatchUpdate, next, Stored
  <1>9. ASSUME NEW S \in SUBSET TicketId, BatchAssignTickets(u, S) PROVE IInv'
    <2> DEFINE next == [t \in TicketId |-> [WithStatus(rows[t], "processing") EXCEPT !.assignee = u]]
    <2>1. next \in [TicketId -> Row]
      <3>1. \A t \in TicketId : next[t] \in Row
        BY WithStatusShape, ColumnShape DEF IInv, TypeOK, Status
      <3>2. QED
        BY <3>1
    <2>2. \A t \in Stored : RowInv(t, next[t], decisions[t])
      BY WrittenRows DEF Stored
    <2> HIDE DEF next
    <2>3. QED
      BY <1>9, <2>1, <2>2, BatchUpdateKeeps DEF BatchAssignTickets, BatchUpdate, next, Stored
  <1>10. ASSUME NEW S \in SUBSET TicketId, BatchEscalateTickets(u, S) PROVE IInv'
    <2> DEFINE next == [t \in TicketId |-> WithStatus(rows[t], "escalated")]
    <2>1. next \in [TicketId -> Row]
      <3>1. \A t \in TicketId : next[t] \in Row
        BY WithStatusShape, ColumnShape DEF IInv, TypeOK, Status
      <3>2. QED
        BY <3>1
    <2>2. \A t \in Stored : RowInv(t, next[t], decisions[t])
      BY WrittenRows DEF Stored
    <2> HIDE DEF next
    <2>3. QED
      BY <1>10, <2>1, <2>2, BatchUpdateKeeps DEF BatchEscalateTickets, BatchUpdate, next, Stored
  <1>11. QED
    BY <1>1, <1>2, <1>3, <1>4, <1>5, <1>6, <1>7, <1>8, <1>9, <1>10

LEMMA OrgRoutesKeep == ASSUME IInv, OrgRoutes PROVE IInv'
  <1>1. PICK u \in User, t \in TicketId :
          \/ \E v \in User : OrgAssignTicket(u, t, v)
          \/ AcceptTicket(u, t)
          \/ OrgResolveTicket(u, t)
          \/ \E v \in Verdict : ProcessApproval(u, t, v)
    BY DEF OrgRoutes
  <1>2. ASSUME NEW v \in User, OrgAssignTicket(u, t, v) PROVE IInv'
    <2>1. t \in Stored
      BY <1>2 DEF OrgAssignTicket
    <2>2. CASE rows[t].status = "pending"
      BY <1>2, <2>1, <2>2, WrittenRows, StoredRow, OrgCommitKeeps DEF OrgAssignTicket
    <2>3. CASE rows[t].status # "pending"
      BY <1>2, <2>1, <2>3, WrittenRows, StoredRow, OrgCommitKeeps DEF OrgAssignTicket
    <2>4. QED
      BY <2>2, <2>3
  <1>3. CASE AcceptTicket(u, t)
    BY <1>3, WrittenRows, StoredRow, OrgCommitKeeps DEF AcceptTicket
  <1>4. CASE OrgResolveTicket(u, t)
    BY <1>4, WrittenRows, StoredRow, OrgCommitKeeps DEF OrgResolveTicket
  <1>5. ASSUME NEW v \in Verdict, ProcessApproval(u, t, v) PROVE IInv'
    <2> DEFINE row == [WithStatus(rows[t], IF v = "approved" THEN "resolved" ELSE "closed")
                         EXCEPT !.approval = v]
               log == Append(decisions[t], v)
    <2>1. t \in Stored
      BY <1>5 DEF ProcessApproval
    <2>2. log \in Seq(Verdict) /\ log # <<>> /\ log[Len(log)] = v
      BY <2>1, StoredRow
    <2>3. RowInv(t, row, log)
      <3>1. rows[t] \in Row /\ RowInv(t, rows[t], decisions[t])
        BY <2>1, StoredRow
      <3>2. /\ row \in Row /\ row.approval = v /\ ~row.byTool
            /\ row.status = IF v = "approved" THEN "resolved" ELSE "closed"
        BY <3>1 DEF WithStatus, Row, Status, Approval
      <3>3. QED
        BY <2>2, <3>2 DEF RowInv, Verdict
    <2> HIDE DEF row, log
    <2>4. QED
      BY <1>5, <2>1, <2>2, <2>3, OrgCommitKeeps DEF ProcessApproval, row, log
  <1>6. QED
    BY <1>1, <1>2, <1>3, <1>4, <1>5

LEMMA McpToolsKeep == ASSUME IInv, McpTools PROVE IInv'
  <1>1. ASSUME NEW t \in TicketId, NEW s \in ToolStatus, UpdateTicketTool(t, s) PROVE IInv'
    <2> DEFINE row == [rows[t] EXCEPT !.status = s, !.byTool = TRUE]
    <2>1. t \in Stored /\ McpEnabled /\ RepoUpdate(t, row)
      BY <1>1 DEF UpdateTicketTool
    <2>2. rows[t] \in Row /\ RowInv(t, rows[t], decisions[t])
      BY <2>1, StoredRow
    <2>3. s \in Status
      BY DeskAssumption
    <2>4. row \in Row /\ row.byTool /\ row.approval = rows[t].approval
                    /\ row.needsApproval = rows[t].needsApproval
      BY <2>2, <2>3 DEF Row
    <2>5. RowInv(t, row, decisions[t])
      BY <2>1, <2>2, <2>4 DEF RowInv
    <2> HIDE DEF row
    <2>6. QED
      BY <2>1, <2>5, RepoUpdateKeeps
  <1>2. ASSUME NEW t \in TicketId, EscalateTicketTool(t) PROVE IInv'
    <2>1. t \in Stored /\ RepoUpdate(t, WithStatus(rows[t], "escalated"))
      BY <1>2 DEF EscalateTicketTool
    <2>2. RowInv(t, WithStatus(rows[t], "escalated"), decisions[t])
      BY <2>1, StoredRow DEF RowInv, WithStatus, Row, Status
    <2>3. QED
      BY <2>1, <2>2, RepoUpdateKeeps
  <1>3. QED
    BY <1>1, <1>2 DEF McpTools

LEMMA RestartKeeps == ASSUME IInv, Restart PROVE IInv'
  <1>1. \A t \in TicketId : RowInv(t, rows'[t], decisions'[t])
    BY SeededRow DEF Restart, IInv, TypeOK
  <1>2. TypeOK'
    BY <1>1 DEF Restart, IInv, TypeOK, RowInv, Seeded
  <1>3. NoOrphans'
    BY DEF Restart, IInv, NoOrphans, Seeded
  <1>4. QED
    BY <1>1, <1>2, <1>3 DEF IInv

LEMMA NextInv == IInv /\ [Next]_vars => IInv'
  <1> SUFFICES ASSUME IInv, [Next]_vars PROVE IInv'
    OBVIOUS
  <1>1. CASE UNCHANGED vars
    BY <1>1 DEF vars, IInv, TypeOK, NoOrphans, RowInv
  <1>2. QED
    BY <1>1, FilingKeeps, TicketRoutesKeep, OrgRoutesKeep, McpToolsKeep, RestartKeeps
       DEF Next

\* The inductive invariant holds in every reachable state: it is what every
\* other theorem of this module rests on.
THEOREM Invariance == Spec => []IInv
  BY InitInv, NextInv, PTL DEF Spec

\* Every handler, batch, filing and restart writes rows of the declared shape.
THEOREM TypeCorrect == Spec => []TypeOK
  BY Invariance, PTL DEF IInv

\* ticket_records never shows a decision the approvals table does not have as
\* its newest: process_approval writes both in one transaction, and nothing
\* else writes either of them to a decided value.
THEOREM DecisionsRecorded == Spec => []DecisionOnRecord
  <1>1. IInv => DecisionOnRecord
    BY DEF IInv, RowInv, DecisionOnRecord
  <1>2. QED
    BY <1>1, Invariance, PTL

\* No ticket waits for an approval that pending_approvals does not list, save one
\* that update_ticket made wait.
THEOREM WaitingListed == Spec => []WaitingIsListed
  <1>1. IInv => WaitingIsListed
    BY DEF IInv, RowInv, WaitingIsListed
  <1>2. QED
    BY <1>1, Invariance, PTL

\* A closed ticket has its closing time, or was rejected by an approver; a
\* resolved one has its resolving time, was approved, or is demo data; or
\* update_ticket ended it.
THEOREM EndStamped == Spec => []EndIsStamped
  <1>1. IInv => EndIsStamped
    BY DEF IInv, RowInv, EndIsStamped
  <1>2. QED
    BY <1>1, Invariance, PTL

\* Without the MCP tools, as the program starts by default, no ticket at all
\* waits outside the approvers' list or ends unstamped.
StrictlyListedAndStamped ==
  \A t \in TicketId :
    /\ rows[t].status = "awaiting_approval" =>
         rows[t].approval = "pending" /\ rows[t].needsApproval
    /\ rows[t].status = "closed" => rows[t].closedAt \/ rows[t].approval = "rejected"
    /\ rows[t].status = "resolved" =>
         rows[t].resolvedAt \/ rows[t].approval = "approved" \/ t \in DemoTicket

\* Where MCP_ENABLED is not set the exception for update_ticket is void: the
\* approvers' list is complete and every end is stamped.
THEOREM StrictWithoutTools ==
  ASSUME ~McpEnabled
  PROVE  Spec => []StrictlyListedAndStamped
  <1>1. IInv => StrictlyListedAndStamped
    BY DEF IInv, RowInv, StrictlyListedAndStamped
  <1>2. QED
    BY <1>1, Invariance, PTL

-----------------------------------------------------------------------------
(***************************************************************************)
(* What one step may do to a ticket.  All handlers but process_approval    *)
(* leave the approval alone, and none but update_ticket puts a ticket back *)
(* into the intake.                                                        *)
(***************************************************************************)

Kept(s) ==
  /\ rows'[s].approval = rows[s].approval
  /\ s \in Stored /\ rows[s].status \notin Intake => rows'[s].status \notin Intake

LEMMA OneRowKept ==
  ASSUME TypeOK, NEW t \in TicketId, NEW row,
         row.approval = rows[t].approval, Kept(t) \/ row.status \notin Intake,
         rows' \in {rows, [rows EXCEPT ![t] = row]}
  PROVE  \A s \in TicketId : Kept(s)
  <1> SUFFICES ASSUME NEW s \in TicketId PROVE Kept(s)
    OBVIOUS
  <1>1. CASE rows' = rows
    BY <1>1 DEF Kept
  <1>2. CASE rows' = [rows EXCEPT ![t] = row] /\ s = t
    BY <1>2 DEF Kept, TypeOK
  <1>3. CASE rows' = [rows EXCEPT ![t] = row] /\ s # t
    BY <1>3 DEF Kept, TypeOK
  <1>4. QED
    BY <1>1, <1>2, <1>3

LEMMA FilingKept ==
  ASSUME IInv, Filing
  PROVE  \E t \in TicketId \ DemoTicket :
           /\ rows[t] = Absent /\ decisions[t] = <<>>
           /\ \/ rows' = rows
              \/ \E row \in Row : /\ row.approval \in {"none", "pending"}
                                 /\ rows' = [rows EXCEPT ![t] = row]
           /\ UNCHANGED decisions
  <1>1. PICK t \in TicketId, by \in Submitter, c \in Category \cup {NoCategory} :
          \/ \E a \in AssignChoices(c) : FileReply(t, by, c, a) \/ FileEscalation(t, by, c, a)
          \/ FileFallback(t, by, c)
    BY DEF Filing
  <1>2. PICK one, two : File(t, one, two) /\ one.approval = "none"
                                         /\ two.approval \in {"none", "pending"}
    <2>1. /\ \A st : NewRow(by, c, st).approval = "none"
          /\ \A a : ReplyRow(by, c, a).approval \in {"none", "pending"}
          /\ \A a : [NewRow(by, c, "escalated") EXCEPT !.dept = a.dept,
                                             !.assignee = a.assignee].approval = "none"
      BY DEF NewRow, ReplyRow, Absent
    <2>2. CASE FileFallback(t, by, c)
      BY <2>1, <2>2 DEF FileFallback
    <2>3. CASE \E a \in AssignChoices(c) : FileReply(t, by, c, a)
      BY <2>1, <2>3 DEF FileReply
    <2>4. CASE \E a \in AssignChoices(c) : FileEscalation(t, by, c, a)
      BY <2>1, <2>4 DEF FileEscalation
    <2>5. QED
      BY <1>1, <2>2, <2>3, <2>4
  <1>3. t \in TicketId \ DemoTicket /\ rows[t] = Absent /\ decisions[t] = <<>>
    BY <1>2 DEF File, IInv, NoOrphans
  <1>4. rows'[t] \in Row
    BY FilingKeeps DEF IInv, TypeOK
  <1>5. QED
    BY <1>2, <1>3, <1>4 DEF File, IInv, TypeOK

LEMMA TicketRoutesKept ==
  ASSUME IInv, TicketRoutes
  PROVE  UNCHANGED decisions /\ \A s \in TicketId : Kept(s)
  <1> USE DEF Intake
  <1>1. PICK u \in User :
          \/ \E t \in TicketId :
               \/ AssignTicket(u, t)
               \/ ResolveTicket(u, t)
               \/ CloseTicket(u, t)
               \/ ReopenTicket(u, t)
               \/ ConfirmTicketResolved(u, t)
               \/ RejectTicketEscalate(u, t)
          \/ \E S \in SUBSET TicketId \ {{}} :
               \/ BatchCloseTickets(u, S)
               \/ BatchAssignTickets(u, S)
               \/ BatchEscalateTickets(u, S)
    BY DEF TicketRoutes
  <1>2. TypeOK /\ \A t \in TicketId : rows[t] \in Row
    BY DEF IInv, TypeOK
  <1>3. ASSUME NEW t \in TicketId,
               \/ AssignTicket(u, t) \/ ResolveTicket(u, t) \/ CloseTicket(u, t)
               \/ ReopenTicket(u, t) \/ ConfirmTicketResolved(u, t)
               \/ RejectTicketEscalate(u, t)
        PROVE  UNCHANGED decisions /\ \A s \in TicketId : Kept(s)
    <2>1. PICK row : /\ row.approval = rows[t].approval /\ row.status \notin Intake
                     /\ rows' \in {rows, [rows EXCEPT ![t] = row]}
                     /\ UNCHANGED decisions
      BY <1>2, <1>3 DEF AssignTicket, ResolveTicket, CloseTicket, ReopenTicket,
         ConfirmTicketResolved, RejectTicketEscalate, RepoUpdate, WithStatus, Row
    <2>2. QED
      BY <1>2, <2>1, OneRowKept
  <1>a. ASSUME NEW S, NEW next,
               \A t \in Stored : /\ next[t].approval = rows[t].approval
                               /\ next[t].status \notin Intake,
               BatchUpdate(S, next)
        PROVE  UNCHANGED decisions /\ \A s \in TicketId : Kept(s)
    BY <1>2, <1>a DEF BatchUpdate, Kept, Row
  <1>4. ASSUME NEW S, BatchCloseTickets(u, S)
        PROVE  UNCHANGED decisions /\ \A s \in TicketId : Kept(s)
    <2> DEFINE next == [t \in TicketId |-> [WithStatus(rows[t], "closed") EXCEPT !.closedAt = TRUE]]
    <2>1. \A t \in Stored : /\ next[t].approval = rows[t].approval
                           /\ next[t].status \notin Intake
      BY <1>2 DEF WithStatus, Row, Stored
    <2>2. BatchUpdate(S, next)
      BY <1>4 DEF BatchCloseTickets
    <2> HIDE DEF next
    <2>3. QED
      BY <1>a, <2>1, <2>2
  <1>5. ASSUME NEW S, BatchAssignTickets(u, S)
        PROVE  UNCHANGED decisions /\ \A s \in TicketId : Kept(s)
    <2> DEFINE next == [t \in TicketId |-> [WithStatus(rows[t], "processing") EXCEPT !.assignee = u]]
    <2>1. \A t \in Stored : /\ next[t].approval = rows[t].approval
                           /\ next[t].status \notin Intake
      BY <1>2 DEF WithStatus, Row, Stored
    <2>2. BatchUpdate(S, next)
      BY <1>5 DEF BatchAssignTickets
    <2> HIDE DEF next
    <2>3. QED
      BY <1>a, <2>1, <2>2
  <1>6. ASSUME NEW S, BatchEscalateTickets(u, S)
        PROVE  UNCHANGED decisions /\ \A s \in TicketId : Kept(s)
    <2> DEFINE next == [t \in TicketId |-> WithStatus(rows[t], "escalated")]
    <2>1. \A t \in Stored : /\ next[t].approval = rows[t].approval
                           /\ next[t].status \notin Intake
      BY <1>2 DEF WithStatus, Row, Stored
    <2>2. BatchUpdate(S, next)
      BY <1>6 DEF BatchEscalateTickets
    <2> HIDE DEF next
    <2>3. QED
      BY <1>a, <2>1, <2>2
  <1>7. QED
    BY <1>1, <1>3, <1>4, <1>5, <1>6

LEMMA OrgRoutesKept ==
  ASSUME IInv, OrgRoutes
  PROVE  /\ \A s \in Stored : rows[s].status \notin Intake => rows'[s].status \notin Intake
         /\ \/ UNCHANGED decisions /\ \A s \in TicketId : Kept(s)
            \/ \E t \in TicketId, v \in Verdict, row \in Row :
                 /\ row.approval = v
                 /\ rows' = [rows EXCEPT ![t] = row]
                 /\ decisions' = [decisions EXCEPT ![t] = Append(decisions[t], v)]
  <1> USE DEF Intake
  <1>1. PICK u \in User, t \in TicketId :
          \/ \E v \in User : OrgAssignTicket(u, t, v)
          \/ AcceptTicket(u, t)
          \/ OrgResolveTicket(u, t)
          \/ \E v \in Verdict : ProcessApproval(u, t, v)
    BY DEF OrgRoutes
  <1>2. TypeOK /\ rows[t] \in Row /\ decisions[t] \in Seq(Verdict)
    BY DEF IInv, TypeOK
  <1>3. ASSUME NEW row, OrgCommit(t, row, decisions[t]), row.approval = rows[t].approval,
               rows[t].status \notin Intake => row.status \notin Intake
        PROVE  UNCHANGED decisions /\ \A s \in TicketId : Kept(s)
    BY <1>2, <1>3 DEF OrgCommit, Kept, TypeOK
  <1>4. CASE \E v \in User : OrgAssignTicket(u, t, v)
    BY <1>2, <1>3, <1>4 DEF OrgAssignTicket, WithStatus, Row, Kept, Stored
  <1>5. CASE AcceptTicket(u, t) \/ OrgResolveTicket(u, t)
    BY <1>2, <1>3, <1>5 DEF AcceptTicket, OrgResolveTicket, WithStatus, Row, Kept, Stored
  <1>6. ASSUME NEW v \in Verdict, ProcessApproval(u, t, v) PROVE
          /\ \A s \in Stored : rows[s].status \notin Intake => rows'[s].status \notin Intake
          /\ \/ UNCHANGED decisions /\ \A s \in TicketId : Kept(s)
             \/ \E row \in Row :
                  /\ row.approval = v
                  /\ rows' = [rows EXCEPT ![t] = row]
                  /\ decisions' = [decisions EXCEPT ![t] = Append(decisions[t], v)]
    <2> DEFINE row == [WithStatus(rows[t], IF v = "approved" THEN "resolved" ELSE "closed")
                         EXCEPT !.approval = v]
    <2>1. row \in Row /\ row.approval = v /\ row.status \notin Intake
      BY <1>2 DEF WithStatus, Row, Status, Approval
    <2>2. OrgCommit(t, row, Append(decisions[t], v))
      BY <1>6 DEF ProcessApproval
    <2> HIDE DEF row
    <2>3. CASE UNCHANGED <<rows, decisions>>
      BY <2>3 DEF Kept
    <2>4. CASE /\ rows' = [rows EXCEPT ![t] = row]
               /\ decisions' = [decisions EXCEPT ![t] = Append(decisions[t], v)]
      BY <1>2, <2>1, <2>4 DEF TypeOK, Stored
    <2>5. QED
      BY <2>2, <2>3, <2>4 DEF OrgCommit
  <1>7. QED
    BY <1>1, <1>4, <1>5, <1>6 DEF Kept, Stored

\* The step gives t the status st and leaves every other ticket alone.
OnlyGiven(t, st) ==
  rows'[t].status = st /\ \A s \in TicketId \ {t} : rows'[s] = rows[s]

\* An MCP tool leaves the decisions and the approvals alone; update_ticket apart,
\* it keeps a ticket that has left the intake out of it.
LEMMA McpToolsKept ==
  ASSUME IInv, McpTools
  PROVE  /\ UNCHANGED decisions
         /\ \A s \in TicketId : rows'[s].approval = rows[s].approval
         /\ \/ \A s \in TicketId : Kept(s)
            \/ \E t \in TicketId, st \in ToolStatus :
                 UpdateTicketTool(t, st) /\ OnlyGiven(t, st)
  <1>1. rows \in [TicketId -> Row]
    BY DEF IInv, TypeOK
  <1>2. ASSUME NEW t \in TicketId, NEW st \in ToolStatus, UpdateTicketTool(t, st)
        PROVE  /\ UNCHANGED decisions
               /\ \A s \in TicketId : rows'[s].approval = rows[s].approval
               /\ \/ \A s \in TicketId : Kept(s)
                  \/ OnlyGiven(t, st)
    <2>1. CASE rows' = rows
      BY <1>2, <2>1 DEF UpdateTicketTool, RepoUpdate, Kept
    <2>2. CASE rows' = [rows EXCEPT ![t] = [rows[t] EXCEPT !.status = st, !.byTool = TRUE]]
      <3>1. rows[t] \in Row
        BY <1>1
      <3>2. /\ [rows[t] EXCEPT !.status = st, !.byTool = TRUE].approval = rows[t].approval
            /\ [rows[t] EXCEPT !.status = st, !.byTool = TRUE].status = st
        BY <3>1 DEF Row
      <3>3. \A s \in TicketId : rows'[s].approval = rows[s].approval
        BY <1>1, <2>2, <3>2
      <3>4. OnlyGiven(t, st)
        BY <1>1, <2>2, <3>2 DEF OnlyGiven
      <3>5. QED
        BY <1>2, <3>3, <3>4 DEF UpdateTicketTool, RepoUpdate
    <2>3. QED
      BY <1>2, <2>1, <2>2 DEF UpdateTicketTool, RepoUpdate
  <1>3. ASSUME NEW t \in TicketId, EscalateTicketTool(t)
        PROVE  UNCHANGED decisions /\ \A s \in TicketId : Kept(s)
    <2>1. rows[t] \in Row
      BY <1>1
    <2>2. /\ WithStatus(rows[t], "escalated").approval = rows[t].approval
          /\ WithStatus(rows[t], "escalated").status \notin Intake
      BY <2>1 DEF WithStatus, Row, Intake
    <2>3. TypeOK
      BY DEF IInv
    <2>4. QED
      BY <1>3, <2>2, <2>3, OneRowKept DEF EscalateTicketTool, RepoUpdate
  <1>4. QED
    BY <1>2, <1>3 DEF McpTools, Kept

\* No handler, batch or filing puts a ticket that has left the intake back into
\* it: only update_ticket does, and a restart, which rewrites the table.
THEOREM IntakeIsLeft == Spec => IntakeLeftForGood
  <1>1. ASSUME IInv, [Next]_vars
        PROVE  [ \A t \in Stored :
                   rows[t].status \notin Intake /\ rows'[t].status \in Intake =>
                     Restart \/ UpdateTicketTool(t, rows'[t].status) ]_vars
    <2>1. CASE UNCHANGED vars
      BY <2>1
    <2>2. CASE Filing
      <3>1. ASSUME NEW s \in Stored PROVE rows'[s] = rows[s]
        <4>1. PICK t \in TicketId \ DemoTicket :
                rows[t] = Absent /\ (rows' = rows \/ \E row : rows' = [rows EXCEPT ![t] = row])
          BY <1>1, <2>2, FilingKept
        <4>2. s \in TicketId /\ s # t
          BY <3>1, <4>1 DEF Stored, Absent
        <4>3. QED
          BY <1>1, <4>1, <4>2 DEF IInv, TypeOK
      <3>2. QED
        BY <3>1
    <2>3. CASE TicketRoutes
      BY <1>1, <2>3, TicketRoutesKept DEF Kept, Stored
    <2>4. CASE OrgRoutes
      BY <1>1, <2>4, OrgRoutesKept
    <2>5. CASE McpTools
      <3>1. CASE \A s \in TicketId : Kept(s)
        BY <3>1 DEF Kept, Stored
      <3>2. ASSUME NEW t \in TicketId, NEW st \in ToolStatus, UpdateTicketTool(t, st),
                   OnlyGiven(t, st),
                   NEW s \in Stored, rows[s].status \notin Intake, rows'[s].status \in Intake
            PROVE  UpdateTicketTool(s, rows'[s].status)
        BY <3>2 DEF OnlyGiven, Stored
      <3>3. QED
        BY <1>1, <2>5, <3>1, <3>2, McpToolsKept
    <2>6. CASE Restart
      BY <2>6
    <2>7. QED
      BY <1>1, <2>1, <2>2, <2>3, <2>4, <2>5, <2>6 DEF Next
  <1>2. QED
    BY <1>1, Invariance, PTL DEF Spec, IntakeLeftForGood

\* The desk implements the approvers' ledger: each of its steps asks for one
\* decision, takes one, resets at a restart, or changes nothing an approver sees.
THEOREM LedgerImplemented == Spec => ImplementsLedger
  <1>1. Init => Ledger!Begin
    BY DEF Init, Ledger!Begin, Standing
  <1>2. ASSUME IInv, [Next]_vars PROVE [Ledger!Step]_<<Standing, decisions>>
    <2> USE DEF Ledger!Step
    <2>1. CASE UNCHANGED vars
      BY <2>1 DEF vars, Standing
    <2>2. CASE Filing
      <3>1. PICK t \in TicketId \ DemoTicket :
              /\ rows[t] = Absent /\ decisions[t] = <<>>
              /\ \/ rows' = rows
                 \/ \E row \in Row : /\ row.approval \in {"none", "pending"}
                                    /\ rows' = [rows EXCEPT ![t] = row]
              /\ UNCHANGED decisions
        BY <1>2, <2>2, FilingKept
      <3>2. Standing[t] = "none"
        BY <3>1 DEF Standing, Absent
      <3>3. CASE Standing' = Standing
        BY <3>1, <3>3
      <3>4. CASE Standing' = [Standing EXCEPT ![t] = "pending"]
        BY <3>1, <3>2, <3>4 DEF Ledger!Ask
      <3>5. Standing' = Standing \/ Standing' = [Standing EXCEPT ![t] = "pending"]
        <4>1. CASE rows' = rows
          BY <4>1 DEF Standing
        <4>2. ASSUME NEW row \in Row, row.approval \in {"none", "pending"},
                     rows' = [rows EXCEPT ![t] = row]
              PROVE  Standing' = [Standing EXCEPT ![t] = row.approval]
          BY <1>2, <4>2 DEF Standing, IInv, TypeOK
        <4>3. [Standing EXCEPT ![t] = "none"] = Standing
          BY <3>2 DEF Standing
        <4>4. QED
          BY <3>1, <4>1, <4>2, <4>3
      <3>6. QED
        BY <3>3, <3>4, <3>5
    <2>3. CASE TicketRoutes
      BY <1>2, <2>3, TicketRoutesKept DEF Kept, Standing
    <2>4. CASE OrgRoutes
      <3>1. CASE UNCHANGED decisions /\ \A s \in TicketId : Kept(s)
        BY <3>1 DEF Kept, Standing
      <3>2. ASSUME NEW t \in TicketId, NEW v \in Verdict, NEW row \in Row,
                   row.approval = v,
                   rows' = [rows EXCEPT ![t] = row],
                   decisions' = [decisions EXCEPT ![t] = Append(decisions[t], v)]
            PROVE  Ledger!Decide(t, v)
        BY <1>2, <3>2 DEF Ledger!Decide, Standing, IInv, TypeOK
      <3>3. QED
        BY <1>2, <2>4, <3>1, <3>2, OrgRoutesKept
    <2>5. CASE McpTools
      BY <1>2, <2>5, McpToolsKept DEF Standing
    <2>6. CASE Restart
      BY <2>6 DEF Restart, Ledger!Reset, Standing
    <2>7. QED
      BY <1>2, <2>1, <2>2, <2>3, <2>4, <2>5, <2>6 DEF Next
  <1>3. QED
    BY <1>1, <1>2, Invariance, PTL DEF Spec, ImplementsLedger, Ledger!LedgerSpec

-----------------------------------------------------------------------------
(***************************************************************************)
(* The pipeline.                                                           *)
(***************************************************************************)

Assignment == [dept : Department \cup {NoDept}, assignee : User \cup {Nobody}]

\* A request past its classification carries an assignment the desk would make.
Carrying == {"ask", "retrieve", "gap", "execute"}

AssignmentKept ==
  \A r \in Request :
    job[r].pc \in Carrying => job[r].assign \in AssignChoices(job[r].category)

PipelineShape ==
  /\ job \in [Request -> Job]
  /\ asked \in [Session -> SUBSET Request]

\* The inductive invariant.
PInv == PipelineShape /\ MergedOnce /\ OnlyAskedQuestionsWait /\ AssignmentKept

\* A step of the request r that leaves the questions, and its own text, alone.
Moved(r) ==
  /\ r \in Request
  /\ job[r].pc \in Live
  /\ job' = [job EXCEPT ![r] = job'[r]]
  /\ job'[r] \in Job
  /\ job'[r].text = job[r].text
  /\ job'[r].pc \in Carrying \cup {"answered"}
  /\ job'[r].pc \in Carrying => job'[r].assign \in AssignChoices(job'[r].category)
  /\ asked' = asked

\* What the automatic assignment answers is what the desk lets a filing use.
LEMMA Choices ==
  ASSUME NEW c \in Category \cup {NoCategory}, NEW a \in AutoAssign(c)
  PROVE  a \in AssignChoices(c) /\ a \in Assignment
<1> DEFINE dept == IF c \in Category THEN CategoryDept[c] ELSE NoDept
<1>1. dept \in Department \cup {NoDept}
  BY DeskAssumption
<1>2. CASE a = Unassigned
  BY <1>2 DEF AssignChoices, Unassigned, Assignment
<1>3. ASSUME NEW u \in Staff(c), a = [dept |-> dept, assignee |-> u]
      PROVE  a \in AssignChoices(c) /\ a \in Assignment
  <2>1. u \in User
    BY DEF Staff, Admins
  <2> QED
    BY <1>1, <1>3, <2>1 DEF AssignChoices, Assignment, Staff
<1> QED
  BY <1>2, <1>3 DEF AutoAssign

\* The initial states satisfy the invariant.
LEMMA PipelineInitInv == PipelineInit => PInv
<1> SUFFICES ASSUME PipelineInit PROVE PInv
  OBVIOUS
<1>1. PICK s \in Session, by \in Submitter :
        job = [r \in Request |->
                 [pc |-> "idle", session |-> s, by |-> by, choice |-> NoCategory,
                  text |-> {}, category |-> NoCategory, assign |-> Unassigned]]
  BY DEF PipelineInit
<1>2. asked = [v \in Session |-> {}]
  BY DEF PipelineInit
<1>3. \A r \in Request : /\ job[r] \in Job
                         /\ job[r].pc = "idle"
                         /\ job[r].text = {}
  BY <1>1 DEF Job, Unassigned
<1>4. PipelineShape
  BY <1>1, <1>2, <1>3 DEF PipelineShape
<1>5. MergedOnce /\ OnlyAskedQuestionsWait /\ AssignmentKept
  BY <1>2, <1>3 DEF MergedOnce, OnlyAskedQuestionsWait, AssignmentKept, Live, Carrying
<1> QED
  BY <1>4, <1>5 DEF PInv

\* A step of that kind keeps the invariant.
LEMMA MovedKeeps ==
  ASSUME PInv, NEW r, Moved(r)
  PROVE  PInv'
<1>1. job \in [Request -> Job] /\ asked \in [Session -> SUBSET Request]
  BY DEF PInv, PipelineShape
<1>2. \A q \in Request : q # r => job'[q] = job[q]
  BY <1>1 DEF Moved
<1>3. \A q \in Request : /\ job'[q].text = job[q].text
                         /\ job'[q].pc \in Live => job[q].pc \in Live
                         /\ job[q].pc = "questioned" => job'[q].pc = "questioned"
  BY <1>2 DEF Moved, Live
<1>4. PipelineShape'
  BY <1>1, <1>2 DEF Moved, PipelineShape
<1>5. MergedOnce'
  BY <1>3 DEF PInv, MergedOnce, Moved
<1>6. OnlyAskedQuestionsWait'
  BY <1>1, <1>3 DEF PInv, OnlyAskedQuestionsWait, Moved, Job
<1>7. AssignmentKept'
  <2> SUFFICES ASSUME NEW q \in Request, job'[q].pc \in Carrying
               PROVE  job'[q].assign \in AssignChoices(job'[q].category)
    BY DEF AssignmentKept, AssignChoices
  <2>1. CASE q = r
    BY <2>1 DEF Moved
  <2>2. CASE q # r
    BY <1>2, <2>2 DEF PInv, AssignmentKept
  <2> QED
    BY <2>1, <2>2
<1> QED
  BY <1>4, <1>5, <1>6, <1>7 DEF PInv

\* A step of r that only sets its stage, with an assignment already decided.
LEMMA GoesMoves ==
  ASSUME PInv, NEW r \in Request, NEW pc \in Carrying \cup {"answered"},
         job[r].pc \in Live, Goes(r, pc), asked' = asked,
         job[r].pc \in Carrying \/ pc = "answered"
  PROVE  Moved(r)
<1>1. job \in [Request -> Job]
  BY DEF PInv, PipelineShape
<1>2. job[r] \in Job
  BY <1>1
<1>3. job' = [job EXCEPT ![r] = [job[r] EXCEPT !.pc = pc]]
  BY <1>1 DEF Goes
<1>4. job'[r] = [job[r] EXCEPT !.pc = pc]
  BY <1>1, <1>3
<1>5. /\ job'[r] \in Job
      /\ job'[r].text = job[r].text
      /\ job'[r].pc = pc
      /\ job'[r].assign = job[r].assign
      /\ job'[r].category = job[r].category
  BY <1>2, <1>4 DEF Job, Live, Finished, Carrying
<1>6. pc \in Carrying => job[r].assign \in AssignChoices(job[r].category)
  BY DEF PInv, AssignmentKept, Carrying
<1> QED
  BY <1>3, <1>4, <1>5, <1>6 DEF Moved

\* The step that ends the classification.
LEMMA ClassifiedMoves ==
  ASSUME PInv, NEW r \in Request, NEW c \in Category \cup {NoCategory},
         NEW a \in AutoAssign(c), NEW pc \in Carrying \cup {"answered"},
         job[r].pc = "classify", Classified(r, c, a, pc), asked' = asked
  PROVE  Moved(r)
<1>1. job \in [Request -> Job]
  BY DEF PInv, PipelineShape
<1>2. job[r] \in Job
  BY <1>1
<1>3. a \in AssignChoices(c) /\ a \in Assignment
  BY Choices
<1>4. job' = [job EXCEPT ![r] = [job[r] EXCEPT !.category = c, !.assign = a, !.pc = pc]]
  BY <1>1 DEF Classified
<1>5. job'[r] = [job[r] EXCEPT !.category = c, !.assign = a, !.pc = pc]
  BY <1>1, <1>4
<1>6. /\ job'[r] \in Job
      /\ job'[r].text = job[r].text
      /\ job'[r].pc = pc
      /\ job'[r].assign = a
      /\ job'[r].category = c
  BY <1>2, <1>3, <1>5 DEF Job, Live, Finished, Carrying, Assignment
<1> QED
  BY <1>3, <1>4, <1>5, <1>6 DEF Moved, Live

\* Every step of a request but the question put back is of that kind.
LEMMA ResumeMoves ==
  ASSUME PInv, NEW r \in Request, Resume(r)
  PROVE  Moved(r) \/ AskBack(r)
<1>1. job \in [Request -> Job]
  BY DEF PInv, PipelineShape
<1>2. CASE Classifies(r)
  <2>1. PICK c \in Category \cup {NoCategory} :
          \/ \E a \in AutoAssign(c) :
               \/ ClassifyGoesOn(r, c, a)
               \/ ClassifyUnsure(r, c, a)
               \/ \E t \in TicketId : ClassifyEscalates(r, t, c, a)
          \/ \E t \in TicketId : ClassifyFails(r, t, c)
    BY <1>2 DEF Classifies
  <2>2. ASSUME NEW a \in AutoAssign(c), ClassifyGoesOn(r, c, a)
        PROVE  Moved(r)
    <3>1. Search(c) \in Carrying
      BY DEF Search, Carrying
    <3> QED
      BY <2>2, <3>1, ClassifiedMoves DEF ClassifyGoesOn
  <2>3. ASSUME NEW a \in AutoAssign(c), ClassifyUnsure(r, c, a)
        PROVE  Moved(r)
    <3>1. "ask" \in Carrying
      BY DEF Carrying
    <3> QED
      BY <2>3, <3>1, ClassifiedMoves DEF ClassifyUnsure
  <2>4. ASSUME NEW a \in AutoAssign(c), NEW t \in TicketId, ClassifyEscalates(r, t, c, a)
        PROVE  Moved(r)
    BY <2>4, ClassifiedMoves DEF ClassifyEscalates
  <2>5. ASSUME NEW t \in TicketId, ClassifyFails(r, t, c)
        PROVE  Moved(r)
    BY <2>5, GoesMoves DEF ClassifyFails, Live
  <2> QED
    BY <2>1, <2>2, <2>3, <2>4, <2>5
<1>3. CASE AskNothing(r)
  <2>1. Search(job[r].category) \in Carrying
    BY DEF Search, Carrying
  <2> QED
    BY <1>3, <2>1, GoesMoves DEF AskNothing, Live, Carrying
<1>4. ASSUME NEW found \in BOOLEAN, Retrieve(r, found)
      PROVE  Moved(r)
  <2>1. (IF found THEN "execute" ELSE "gap") \in Carrying
    BY DEF Carrying
  <2> QED
    BY <1>4, <2>1, GoesMoves DEF Retrieve, Live, Carrying
<1>5. CASE FillGap(r)
  BY <1>5, GoesMoves DEF FillGap, Live, Carrying
<1>6. ASSUME NEW t \in TicketId, ExecuteReplies(r, t) \/ ExecuteFails(r, t)
      PROVE  Moved(r)
  BY <1>6, GoesMoves DEF ExecuteReplies, ExecuteFails, Live, Carrying
<1> QED
  BY <1>2, <1>3, <1>4, <1>5, <1>6 DEF Resume

\* A new message takes the question that waits; the request has been nowhere
\* before, so it is in no other text and in no question.
LEMMA SubmitKeeps ==
  ASSUME PInv, NEW r \in Request, NEW s \in Session, NEW by \in Submitter,
         NEW k \in Category \cup {NoCategory}, Submit(r, s, by, k)
  PROVE  PInv'
<1> DEFINE new == [pc |-> "classify", session |-> s, by |-> by, choice |-> k,
                   text |-> {r} \cup (IF k = NoCategory THEN asked[s] ELSE {}),
                   category |-> NoCategory, assign |-> Unassigned]
<1>1. job \in [Request -> Job] /\ asked \in [Session -> SUBSET Request]
  BY DEF PInv, PipelineShape
<1>2. job' = [job EXCEPT ![r] = new]
  BY DEF Submit
<1>3. job'[r] = new /\ \A q \in Request : q # r => job'[q] = job[q]
  BY <1>1, <1>2
<1>4. asked' \in [Session -> SUBSET Request]
  BY <1>1 DEF Submit
<1>5. \A v \in Session : /\ asked'[v] \subseteq asked[v]
                         /\ k = NoCategory => asked'[s] = {}
  BY <1>1 DEF Submit
<1>6. job[r].pc = "idle"
  BY DEF Submit
<1>7. /\ \A q \in Request : r \notin job[q].text \ {q}
      /\ \A v \in Session : r \notin asked[v]
  BY <1>6 DEF PInv, OnlyAskedQuestionsWait
<1>8. new \in Job
  BY <1>1 DEF Job, Live, Unassigned
<1>9. PipelineShape'
  BY <1>1, <1>2, <1>4, <1>8 DEF PipelineShape
<1>10. new.text \subseteq {r} \cup asked[s] /\ new.pc = "classify"
  OBVIOUS
<1>11. MergedOnce'
  <2>1. ASSUME NEW q \in Request, q # r, job[q].pc \in Live
        PROVE  job[q].text \cap new.text = {}
    BY <1>7, <1>10, <2>1 DEF PInv, MergedOnce
  <2>2. ASSUME NEW v \in Session
        PROVE  new.text \cap asked'[v] = {}
    <3>1. CASE k = NoCategory
      BY <1>5, <1>7, <1>10, <3>1 DEF PInv, MergedOnce
    <3>2. CASE k # NoCategory
      BY <1>5, <1>7, <3>2
    <3> QED
      BY <3>1, <3>2
  <2>3. \A q, p \in Request :
          q # p /\ job'[q].pc \in Live /\ job'[p].pc \in Live
            => job'[q].text \cap job'[p].text = {}
    <3> SUFFICES ASSUME NEW q \in Request, NEW p \in Request, q # p,
                        job'[q].pc \in Live, job'[p].pc \in Live
                 PROVE  job'[q].text \cap job'[p].text = {}
      OBVIOUS
    <3>1. CASE q # r /\ p # r
      BY <1>3, <3>1 DEF PInv, MergedOnce
    <3>2. CASE q = r
      BY <1>3, <2>1, <3>2
    <3>3. CASE p = r
      BY <1>3, <2>1, <3>3
    <3> QED
      BY <3>1, <3>2, <3>3
  <2>4. \A q \in Request, v \in Session :
          job'[q].pc \in Live => job'[q].text \cap asked'[v] = {}
    BY <1>3, <1>5, <2>2 DEF PInv, MergedOnce
  <2>5. \A u, v \in Session : u # v => asked'[u] \cap asked'[v] = {}
    BY <1>5 DEF PInv, MergedOnce
  <2> QED
    BY <2>3, <2>4, <2>5 DEF MergedOnce
<1>12. OnlyAskedQuestionsWait'
  <2>1. \A q \in Request : job[q].pc = "questioned" => job'[q] = job[q]
    BY <1>3, <1>6
  <2>2. \A v \in Session : \A q \in asked'[v] : job'[q].pc = "questioned"
    BY <1>1, <1>5, <2>1 DEF PInv, OnlyAskedQuestionsWait
  <2>3. \A p \in Request : \A q \in job'[p].text \ {p} : job'[q].pc = "questioned"
    <3> SUFFICES ASSUME NEW p \in Request, NEW q \in job'[p].text \ {p}
                 PROVE  job'[q].pc = "questioned"
      OBVIOUS
    <3>1. CASE p = r
      BY <1>1, <1>3, <1>10, <2>1, <3>1 DEF PInv, OnlyAskedQuestionsWait
    <3>2. CASE p # r
      BY <1>1, <1>3, <2>1, <3>2 DEF PInv, OnlyAskedQuestionsWait, Job
    <3> QED
      BY <3>1, <3>2
  <2> QED
    BY <2>2, <2>3 DEF OnlyAskedQuestionsWait
<1>13. AssignmentKept'
  BY <1>3, <1>10 DEF PInv, AssignmentKept, Carrying, AssignChoices
<1> QED
  BY <1>9, <1>11, <1>12, <1>13 DEF PInv

\* Putting the question back moves a text from a request to a session.
LEMMA AskBackKeeps ==
  ASSUME PInv, NEW r \in Request, AskBack(r)
  PROVE  PInv'
<1>1. job \in [Request -> Job] /\ asked \in [Session -> SUBSET Request]
  BY DEF PInv, PipelineShape
<1> DEFINE s == job[r].session
<1>2. job[r] \in Job /\ job[r].pc = "ask"
  BY <1>1 DEF AskBack
<1>3. job' = [job EXCEPT ![r] = [job[r] EXCEPT !.pc = "questioned"]]
  BY <1>1 DEF AskBack, Goes
<1>4. /\ job'[r] = [job[r] EXCEPT !.pc = "questioned"]
      /\ \A q \in Request : q # r => job'[q] = job[q]
  BY <1>1, <1>3
<1>5. job'[r] \in Job /\ job'[r].text = job[r].text /\ job'[r].pc = "questioned"
  BY <1>2, <1>4 DEF Job, Finished
<1>6. s \in Session /\ job[r].text \in SUBSET Request
  BY <1>2 DEF Job
<1>7. asked' = [asked EXCEPT ![s] = job[r].text]
  BY DEF AskBack
<1>8. asked'[s] = job[r].text /\ \A v \in Session : v # s => asked'[v] = asked[v]
  BY <1>1, <1>6, <1>7
<1>9. PipelineShape'
  BY <1>1, <1>3, <1>4, <1>5, <1>6, <1>7 DEF PipelineShape
<1>10. MergedOnce'
  <2>1. \A q \in Request : job'[q].pc \in Live => q # r /\ job'[q] = job[q]
    BY <1>4, <1>5 DEF Live
  <2>2. "ask" \in Live
    BY DEF Live
  <2>3. \A q, p \in Request :
          q # p /\ job'[q].pc \in Live /\ job'[p].pc \in Live
            => job'[q].text \cap job'[p].text = {}
    BY <2>1 DEF PInv, MergedOnce
  <2>4. \A q \in Request, v \in Session :
          job'[q].pc \in Live => job'[q].text \cap asked'[v] = {}
    BY <1>2, <1>8, <2>1, <2>2 DEF PInv, MergedOnce
  <2>5. \A u, v \in Session : u # v => asked'[u] \cap asked'[v] = {}
    BY <1>2, <1>8, <2>2 DEF PInv, MergedOnce
  <2> QED
    BY <2>3, <2>4, <2>5 DEF MergedOnce
<1>11. OnlyAskedQuestionsWait'
  <2>1. \A q \in Request : /\ job'[q].text = job[q].text
                           /\ job[q].pc = "questioned" => job'[q].pc = "questioned"
    BY <1>4, <1>5
  <2>2. \A q \in job[r].text : job'[q].pc = "questioned"
    BY <1>5, <1>6, <2>1 DEF PInv, OnlyAskedQuestionsWait
  <2>3. \A v \in Session : \A q \in asked'[v] : job'[q].pc = "questioned"
    BY <1>1, <1>8, <2>1, <2>2 DEF PInv, OnlyAskedQuestionsWait
  <2>4. \A p \in Request : \A q \in job'[p].text \ {p} : job'[q].pc = "questioned"
    <3> SUFFICES ASSUME NEW p \in Request, NEW q \in job[p].text \ {p}
                 PROVE  job'[q].pc = "questioned"
      BY <2>1
    <3>1. job[p] \in Job
      BY <1>1
    <3>2. q \in Request
      BY <3>1 DEF Job
    <3> QED
      BY <2>1, <3>2 DEF PInv, OnlyAskedQuestionsWait
  <2> QED
    BY <2>3, <2>4 DEF OnlyAskedQuestionsWait
<1>12. AssignmentKept'
  <2> SUFFICES ASSUME NEW q \in Request, job'[q].pc \in Carrying
               PROVE  job'[q].assign \in AssignChoices(job'[q].category)
    BY DEF AssignmentKept, AssignChoices
  <2>1. q # r /\ job'[q] = job[q]
    BY <1>4, <1>5 DEF Carrying
  <2> QED
    BY <2>1 DEF PInv, AssignmentKept
<1> QED
  BY <1>9, <1>10, <1>11, <1>12 DEF PInv

\* A restart ends the requests under way and empties the questions.
LEMMA RebootKeeps ==
  ASSUME PInv, Reboot
  PROVE  PInv'
<1>1. job \in [Request -> Job]
  BY DEF PInv, PipelineShape
<1>2. \A r \in Request :
        job'[r] = IF job[r].pc \in Live THEN [job[r] EXCEPT !.pc = "lost"] ELSE job[r]
  BY DEF Reboot
<1>3. ASSUME NEW r \in Request
      PROVE  /\ job'[r] \in Job
             /\ job'[r].text = job[r].text
             /\ job'[r].pc \notin Live
             /\ job[r].pc = "questioned" => job'[r].pc = "questioned"
  <2>1. job[r] \in Job
    BY <1>1
  <2>2. CASE job[r].pc \in Live
    <3>1. job'[r] = [job[r] EXCEPT !.pc = "lost"]
      BY <1>2, <2>2
    <3> QED
      BY <2>1, <2>2, <3>1 DEF Job, Finished, Live
  <2>3. CASE job[r].pc \notin Live
    BY <1>2, <2>1, <2>3
  <2> QED
    BY <2>2, <2>3
<1>4. asked' = [s \in Session |-> {}]
  BY DEF Reboot
<1>5. PipelineShape'
  <2>1. job' \in [Request -> Job]
    BY <1>3 DEF Reboot
  <2> QED
    BY <1>4, <2>1 DEF PipelineShape
<1>6. MergedOnce'
  BY <1>3, <1>4 DEF MergedOnce
<1>7. OnlyAskedQuestionsWait'
  <2>1. \A r \in Request : \A q \in job[r].text : q \in Request
    BY <1>1 DEF Job
  <2> QED
    BY <1>3, <1>4, <2>1 DEF PInv, OnlyAskedQuestionsWait
<1>8. AssignmentKept'
  BY <1>3 DEF AssignmentKept, Carrying, Live, AssignChoices
<1> QED
  BY <1>5, <1>6, <1>7, <1>8 DEF PInv

\* Every step of the pipeline keeps the invariant.
LEMMA PipelineNextInv == PInv /\ [PipelineNext]_allvars => PInv'
<1> SUFFICES ASSUME PInv, [PipelineNext]_allvars PROVE PInv'
  OBVIOUS
<1>1. CASE Submits
  BY <1>1, SubmitKeeps DEF Submits
<1>2. ASSUME NEW r \in Request, Resume(r)
      PROVE  PInv'
  BY <1>2, ResumeMoves, MovedKeeps, AskBackKeeps
<1>3. CASE UNCHANGED pipeline
  BY <1>3 DEF pipeline, PInv, PipelineShape, MergedOnce, OnlyAskedQuestionsWait,
              AssignmentKept, AssignChoices
<1>4. CASE Reboot
  BY <1>4, RebootKeeps
<1> QED
  BY <1>1, <1>2, <1>3, <1>4 DEF PipelineNext, Handlers, allvars

\* Every step of the pipeline is a step of the desk, or leaves it alone.
LEMMA PipelineStepIsDeskStep ==
  ASSUME PInv, [PipelineNext]_allvars
  PROVE  [Next]_vars
<1>1. job \in [Request -> Job]
  BY DEF PInv, PipelineShape
<1>2. ASSUME NEW r \in Request, Resume(r)
      PROVE  Filing \/ UNCHANGED vars
  <2>1. job[r] \in Job
    BY <1>1
  <2>2. job[r].by \in Submitter /\ job[r].category \in Category \cup {NoCategory}
    BY <2>1 DEF Job
  <2>3. CASE Classifies(r)
    <3>1. PICK c \in Category \cup {NoCategory} :
            \/ \E a \in AutoAssign(c) :
                 \/ ClassifyGoesOn(r, c, a)
                 \/ ClassifyUnsure(r, c, a)
                 \/ \E t \in TicketId : ClassifyEscalates(r, t, c, a)
            \/ \E t \in TicketId : ClassifyFails(r, t, c)
      BY <2>3 DEF Classifies
    <3>2. \A a \in AutoAssign(c) : a \in AssignChoices(c)
      BY Choices
    <3>3. ASSUME NEW a \in AutoAssign(c), NEW t \in TicketId, ClassifyEscalates(r, t, c, a)
          PROVE  Filing
      BY <2>2, <3>2, <3>3 DEF ClassifyEscalates, Filing
    <3>4. ASSUME NEW t \in TicketId, ClassifyFails(r, t, c)
          PROVE  Filing
      BY <2>2, <3>4 DEF ClassifyFails, Filing
    <3>5. ASSUME NEW a \in AutoAssign(c), ClassifyGoesOn(r, c, a) \/ ClassifyUnsure(r, c, a)
          PROVE  UNCHANGED vars
      BY <3>5 DEF ClassifyGoesOn, ClassifyUnsure
    <3> QED
      BY <3>1, <3>3, <3>4, <3>5
  <2>4. ASSUME NEW t \in TicketId, ExecuteReplies(r, t)
        PROVE  Filing
    <3>1. job[r].assign \in AssignChoices(job[r].category)
      BY <2>4 DEF PInv, AssignmentKept, ExecuteReplies, Carrying
    <3> QED
      BY <2>2, <2>4, <3>1 DEF ExecuteReplies, Filing
  <2>5. ASSUME NEW t \in TicketId, ExecuteFails(r, t)
        PROVE  Filing
    BY <2>2, <2>5 DEF ExecuteFails, Filing
  <2>6. CASE AskBack(r) \/ AskNothing(r) \/ FillGap(r) \/ \E found \in BOOLEAN : Retrieve(r, found)
    BY <2>6 DEF AskBack, AskNothing, FillGap, Retrieve
  <2> QED
    BY <1>2, <2>3, <2>4, <2>5, <2>6 DEF Resume
<1>3. CASE Submits
  BY <1>3 DEF Submits, Submit
<1>4. CASE Handlers
  BY <1>4 DEF Handlers, Next
<1>5. CASE Reboot
  BY <1>5 DEF Reboot, Next
<1>6. CASE UNCHANGED allvars
  BY <1>6 DEF allvars
<1> QED
  BY <1>2, <1>3, <1>4, <1>5, <1>6 DEF PipelineNext, Next

\* The pipeline keeps its inductive invariant.
THEOREM PipelineInvariance == PipelineSpec => []PInv
<1>1. PipelineInit => PInv
  BY PipelineInitInv
<1>2. PInv /\ [PipelineNext]_allvars => PInv'
  BY PipelineNextInv
<1> QED
  BY <1>1, <1>2, PTL DEF PipelineSpec

\* Any number of overlapping requests does to the tickets only what the desk
\* allows: the assignment kept over the awaits is one the desk would make.
THEOREM PipelineImplementsDesk == PipelineSpec => ImplementsDesk
<1>1. PipelineInit => Init
  BY DEF PipelineInit
<1>2. PInv /\ [PipelineNext]_allvars => [Next]_vars
  BY PipelineStepIsDeskStep
<1> QED
  BY <1>1, <1>2, PipelineInvariance, PTL DEF PipelineSpec, ImplementsDesk, Spec

\* The pipeline's variables keep their types, the desk's included.
THEOREM PipelineTypeCorrect == PipelineSpec => []PipelineTypeOK
<1>1. PInv /\ TypeOK => PipelineTypeOK
  BY DEF PInv, PipelineShape, PipelineTypeOK
<1> QED
  BY <1>1, PipelineInvariance, PipelineImplementsDesk, TypeCorrect, PTL
     DEF ImplementsDesk

\* No description is merged into two requests.
THEOREM DescriptionsMergedOnce == PipelineSpec => []MergedOnce
<1>1. PInv => MergedOnce
  BY DEF PInv
<1> QED
  BY <1>1, PipelineInvariance, PTL

\* Only questions that were put to the user wait for an answer.
THEOREM WaitingQuestionsWereAsked == PipelineSpec => []OnlyAskedQuestionsWait
<1>1. PInv => OnlyAskedQuestionsWait
  BY DEF PInv
<1> QED
  BY <1>1, PipelineInvariance, PTL

\* The decisions stay on record whatever the pipeline does at the same time: one
\* of the desk's theorems, carried over.
THEOREM PipelineDecisionsRecorded == PipelineSpec => []DecisionOnRecord
<1> QED
  BY PipelineImplementsDesk, DecisionsRecorded, PTL DEF ImplementsDesk

-----------------------------------------------------------------------------
(***************************************************************************)
(* One ticket for each answer.  Both sides are counted step by step: the   *)
(* steps that issue an identifier are those that answer a request, and an  *)
(* answered request takes no further step.                                 *)
(***************************************************************************)

Answered == {r \in Request : job[r].pc = "answered"}

CountInv ==
  /\ IsFiniteSet(issued) /\ IsFiniteSet(Answered)
  /\ Cardinality(issued) = Cardinality(Answered)

LEMMA CountInit == PipelineInit => CountInv
<1> SUFFICES ASSUME PipelineInit PROVE CountInv
  OBVIOUS
<1>1. issued = {} /\ Answered = {}
  BY DEF PipelineInit, Init, Answered
<1> QED
  BY <1>1, FS_EmptySet DEF CountInv

\* A request that files a ticket has been answered with this step.
LEMMA AnswerCounts ==
  ASSUME PInv, CountInv, NEW r \in Request, NEW t,
         t \notin issued, issued' = issued \cup {t},
         r \notin Answered, Answered' = Answered \cup {r}
  PROVE  CountInv'
<1>1. /\ IsFiniteSet(issued') /\ Cardinality(issued') = Cardinality(issued) + 1
      /\ IsFiniteSet(Answered') /\ Cardinality(Answered') = Cardinality(Answered) + 1
  BY FS_AddElement DEF CountInv
<1> QED
  BY <1>1 DEF CountInv

\* A step of r that sets its stage answers r, or leaves the answered ones alone.
LEMMA StageCounts ==
  ASSUME PInv, NEW r \in Request, NEW pc, job[r].pc \in Live,
         job' = [job EXCEPT ![r] = job'[r]], job'[r].pc = pc
  PROVE  /\ r \notin Answered
         /\ pc = "answered" => Answered' = Answered \cup {r}
         /\ pc # "answered" => Answered' = Answered
<1>1. job \in [Request -> Job]
  BY DEF PInv, PipelineShape
<1>2. \A q \in Request : q # r => job'[q] = job[q]
  BY <1>1
<1> QED
  BY <1>2 DEF Answered, Live

LEMMA CountStep == PInv /\ CountInv /\ [PipelineNext]_allvars => CountInv'
<1> SUFFICES ASSUME PInv, CountInv, [PipelineNext]_allvars PROVE CountInv'
  OBVIOUS
<1>1. job \in [Request -> Job]
  BY DEF PInv, PipelineShape
<1>2. ASSUME issued' = issued, Answered' = Answered PROVE CountInv'
  BY <1>2 DEF CountInv
<1>3. ASSUME NEW r \in Request, NEW pc, job[r].pc \in Live, Goes(r, pc)
      PROVE  job' = [job EXCEPT ![r] = job'[r]] /\ job'[r].pc = pc
  <2>1. job[r] \in Job
    BY <1>1
  <2>2. job' = [job EXCEPT ![r] = [job[r] EXCEPT !.pc = pc]]
    BY <1>1, <1>3 DEF Goes
  <2>3. job'[r] = [job[r] EXCEPT !.pc = pc]
    BY <1>1, <2>2
  <2> QED
    BY <2>1, <2>2, <2>3 DEF Job
<1>4. ASSUME NEW r \in Request, NEW c, NEW a, NEW pc, job[r].pc \in Live, Classified(r, c, a, pc)
      PROVE  job' = [job EXCEPT ![r] = job'[r]] /\ job'[r].pc = pc
  <2>1. job[r] \in Job
    BY <1>1
  <2>2. job' = [job EXCEPT ![r] = [job[r] EXCEPT !.category = c, !.assign = a, !.pc = pc]]
    BY <1>1, <1>4 DEF Classified
  <2>3. job'[r] = [job[r] EXCEPT !.category = c, !.assign = a, !.pc = pc]
    BY <1>1, <2>2
  <2> QED
    BY <2>1, <2>2, <2>3 DEF Job
<1>5. ASSUME NEW r \in Request, NEW t, NEW inserted, NEW completed, File(t, inserted, completed),
             job[r].pc \in Live, job' = [job EXCEPT ![r] = job'[r]], job'[r].pc = "answered"
      PROVE  CountInv'
  <2>1. t \notin issued /\ issued' = issued \cup {t}
    BY <1>5 DEF File
  <2> QED
    BY <1>5, <2>1, StageCounts, AnswerCounts
<1>6. ASSUME NEW r \in Request, Resume(r) PROVE CountInv'
  <2> USE DEF Live
  <2>1. ASSUME NEW c, NEW a, ClassifyGoesOn(r, c, a) \/ ClassifyUnsure(r, c, a)
        PROVE  CountInv'
    <3>1. PICK pc \in {"ask", "retrieve", "execute"} : Classified(r, c, a, pc)
      BY <2>1 DEF ClassifyGoesOn, ClassifyUnsure, Search
    <3>2. job[r].pc \in Live /\ issued' = issued
      BY <2>1 DEF ClassifyGoesOn, ClassifyUnsure, vars
    <3> QED
      BY <1>2, <1>4, <3>1, <3>2, StageCounts
  <2>2. ASSUME NEW c, NEW a, NEW t, ClassifyEscalates(r, t, c, a) PROVE CountInv'
    BY <1>4, <1>5, <2>2 DEF ClassifyEscalates, FileEscalation
  <2>3. ASSUME NEW c, NEW t, ClassifyFails(r, t, c) PROVE CountInv'
    BY <1>3, <1>5, <2>3 DEF ClassifyFails, FileFallback
  <2>4. ASSUME AskBack(r) \/ AskNothing(r) \/ FillGap(r) \/ \E found \in BOOLEAN : Retrieve(r, found)
        PROVE  CountInv'
    <3>1. PICK pc \in {"questioned", "retrieve", "execute", "gap"} : Goes(r, pc)
      BY <2>4 DEF AskBack, AskNothing, FillGap, Retrieve, Search
    <3>2. job[r].pc \in Live /\ issued' = issued
      BY <2>4 DEF AskBack, AskNothing, FillGap, Retrieve, vars
    <3> QED
      BY <1>2, <1>3, <3>1, <3>2, StageCounts
  <2>5. ASSUME NEW t, ExecuteReplies(r, t) PROVE CountInv'
    BY <1>3, <1>5, <2>5 DEF ExecuteReplies, FileReply
  <2>6. ASSUME NEW t, ExecuteFails(r, t) PROVE CountInv'
    BY <1>3, <1>5, <2>6 DEF ExecuteFails, FileFallback
  <2> QED
    BY <1>6, <2>1, <2>2, <2>3, <2>4, <2>5, <2>6 DEF Resume, Classifies
<1>7. CASE Submits
  <2>1. PICK r \in Request, s \in Session, by \in Submitter, k \in Category \cup {NoCategory} :
          Submit(r, s, by, k)
    BY <1>7 DEF Submits
  <2>2. job[r].pc = "idle" /\ issued' = issued
    BY <2>1 DEF Submit, vars
  <2>3. job'[r].pc = "classify" /\ \A q \in Request : q # r => job'[q] = job[q]
    BY <1>1, <2>1 DEF Submit
  <2>4. Answered' = Answered
    BY <2>2, <2>3 DEF Answered
  <2> QED
    BY <1>2, <2>2, <2>4
<1>8. CASE Handlers
  <2>1. Answered' = Answered
    BY <1>8 DEF Handlers, pipeline, Answered
  <2>2. issued' = issued
    BY <1>8 DEF Handlers, TicketRoutes, OrgRoutes, McpTools,
       UpdateTicketTool, EscalateTicketTool, AssignTicket, ResolveTicket, CloseTicket,
       ReopenTicket, ConfirmTicketResolved, RejectTicketEscalate, BatchCloseTickets,
       BatchAssignTickets, BatchEscalateTickets, OrgAssignTicket, AcceptTicket, OrgResolveTicket,
       ProcessApproval, RepoUpdate, BatchUpdate, OrgCommit
  <2> QED
    BY <1>2, <2>1, <2>2
<1>9. CASE Reboot
  <2>1. issued' = issued
    BY <1>9 DEF Reboot, Restart
  <2>2. ASSUME NEW r \in Request PROVE job'[r].pc = "answered" <=> job[r].pc = "answered"
    <3>1. job[r] \in Job
      BY <1>1
    <3>2. job'[r] = IF job[r].pc \in Live THEN [job[r] EXCEPT !.pc = "lost"] ELSE job[r]
      BY <1>9 DEF Reboot
    <3> QED
      BY <3>1, <3>2 DEF Job, Live
  <2>3. Answered' = Answered
    BY <2>2 DEF Answered
  <2> QED
    BY <1>2, <2>1, <2>3
<1>10. CASE UNCHANGED allvars
  BY <1>2, <1>10 DEF allvars, vars, pipeline, Answered
<1> QED
  BY <1>6, <1>7, <1>8, <1>9, <1>10 DEF PipelineNext

\* However many requests overlap, and on whichever branch each of them ends, as
\* many tickets are filed as requests are answered: none twice, none without.
THEOREM OneTicketForEachAnswer == PipelineSpec => []OneTicketEach
<1>1. CountInv => OneTicketEach
  BY DEF CountInv, Answered, OneTicketEach
<1> QED
  BY <1>1, CountInit, CountStep, PipelineInvariance, PTL DEF PipelineSpec
=============================================================================
