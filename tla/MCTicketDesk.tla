---------------------------- MODULE MCTicketDesk ----------------------------
(***************************************************************************)
(* A small desk for TLC: a ticket to be filed by an engineer beside a demo *)
(* ticket that waits for approval, an engineer of one department and the   *)
(* administrator, two decisions.  Batches and restarts act on both         *)
(* tickets; the engineer meets the tickets of another department.  The MCP *)
(* tools are mounted, and update_ticket makes tickets wait or closes them. *)
(***************************************************************************)
EXTENDS TicketDesk

CONSTANTS t1, d1, eit, adm, guest, nobody, it, hr, nodept, nocat

MCTicketId   == {t1, d1}
MCDemoTicket == {d1}
MCUser       == {eit, adm}
MCSubmitter  == {eit}
MCCategory   == {"IT", "HR"}

MCRole     == [u \in User |-> IF u = adm THEN "admin" ELSE "engineer"]
MCUserDept == [u \in User |-> IF u = adm THEN nodept ELSE it]
MCDepartment       == {it, hr}
MCApprovalCategory == {"HR"}
MCCategoryDept     == [c \in Category |-> IF c = "IT" THEN it ELSE hr]

\* TK-DEMO-008: a request for leave, waiting for approval.
MCDemoRow == [t \in DemoTicket |->
  [creator |-> guest, category |-> "HR", status |-> "awaiting_approval",
   dept |-> hr, assignee |-> nobody, needsApproval |-> TRUE,
   approval |-> "pending", resolvedAt |-> FALSE, closedAt |-> FALSE,
   byTool |-> FALSE]]
=============================================================================
