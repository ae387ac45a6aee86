--------------------------- MODULE MCCoordinator ---------------------------
(***************************************************************************)
(* Two requests of one session, for TLC, beside an engineer who works on   *)
(* the tickets.  "HR" tickets need approval and have a knowledge base; a   *)
(* description may also be left without a category.                        *)
(***************************************************************************)
EXTENDS Coordinator, TLC

CONSTANTS t1, t2, r1, r2, s1, ehr, guest, nobody, hr, nodept, nocat

Two_TicketId   == {t1, t2}
Two_Request    == {r1, r2}
One_Session    == {s1}
No_DemoTicket  == {}
No_DemoRow     == [t \in {} |-> Absent]
Guest_Only     == {guest}
HR_Only        == {"HR"}
HR_Engineer    == {ehr}

MCRole         == [u \in User |-> "engineer"]
MCUserDept     == [u \in User |-> hr]
MCDepartment   == {hr}
MCCategoryDept == [c \in Category |-> hr]
=============================================================================
