--------------------------- MODULE ApprovalLedger ---------------------------
(***************************************************************************)
(* What the approval feature promises, seen by an approver: every ticket   *)
(* has a standing, every decision is entered in a ledger that only grows,  *)
(* and the standing of a ticket changes in no other way than by being      *)
(* asked for, once, by a decision, or by the reset to the initial          *)
(* standings at a restart, which leaves the ledger alone.                  *)
(***************************************************************************)
EXTENDS Sequences

CONSTANTS Ticket, Verdicts, FirstStanding

VARIABLES standing, ledger

Begin ==
  /\ standing = FirstStanding
  /\ ledger = [t \in Ticket |-> <<>>]

\* A ticket nobody decided on is put before the approvers.
Ask(t) ==
  /\ standing[t] = "none" /\ ledger[t] = <<>>
  /\ standing' = [standing EXCEPT ![t] = "pending"]
  /\ UNCHANGED ledger

\* A decision, first or repeated, and its entry are one step.
Decide(t, v) ==
  /\ standing' = [standing EXCEPT ![t] = v]
  /\ ledger' = [ledger EXCEPT ![t] = Append(@, v)]

Reset ==
  /\ standing' = FirstStanding
  /\ UNCHANGED ledger

Step ==
  \/ Reset
  \/ \E t \in Ticket : Ask(t) \/ \E v \in Verdicts : Decide(t, v)

LedgerSpec == Begin /\ [][Step]_<<standing, ledger>>
=============================================================================
