SPECIFICATION Spec
CONSTANTS
  k1 = k1
  k2 = k2
  t1 = t1
  tk = tk
  NoCall = none
  Connects <- Two_Connects
  Callers <- One_Caller
  ToolOf <- MCToolOf
  LinkTicket <- One_Ticket
  OnFile <- One_Ticket
  MaxDeaths = 1
INVARIANTS
  OwnAnswer
  NoWaiterForgotten
SYMMETRY Alike
CHECK_DEADLOCK FALSE
