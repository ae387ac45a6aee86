SPECIFICATION FairSpec
CONSTANTS
  t1 = t1
  t2 = t2
  t3 = t3
  rule = rule
  NoFile = NoFile
  Tickets <- Three_Ticket
  OldMemory <- Old_Rule
  MaxConcurrent = 2
  MaxErrors = 2
  MaxCrashes = 1
CHECK_DEADLOCK FALSE
INVARIANTS
  SlotsAccounted
  MemoryFollowsLog
  BackupAtHand
PROPERTIES
  FullIsTemporary
