-------------------------- MODULE MCChatPlatforms --------------------------
(***************************************************************************)
(* Two messages on one channel, whichever, for TLC: messages on different  *)
(* platforms share nothing.                                                *)
(***************************************************************************)
EXTENDS ChatPlatforms, TLC

CONSTANTS m1, m2
Two_Message == {m1, m2}
Three_Deliveries == (m1 :> 2) @@ (m2 :> 1)
One_Channel == {(m1 :> [channel |-> ch, form |-> "text", matches |-> TRUE])
                  @@ (m2 :> [channel |-> ch, form |-> f, matches |-> b]) :
                  ch \in Channel, f \in Form, b \in BOOLEAN}
=============================================================================
