SPECIFICATION Spec
CONSTANTS
  t1 = t1
  t2 = t2
  t3 = t3
  rule = rule
  NoFile = NoFile
  Tickets <- Two_Ticket
  OldMemory <- Old_Rule
  MaxConcurrent = 2
  MaxErrors = 0
  MaxCrashes = 0
INVARIANTS
  UpdatesKept
SYMMETRY Alike
CHECK_DEADLOCK FALSE
