SPECIFICATION FairSpec
CONSTANTS
  exec = exec
  class = class
  s1 = s1
  status = status
  search = search
  update = update
  Turn <- Two_Turn
  Tasks <- Exec_Only
  Session <- One_Session
  SessionOf <- Same_Session
  AutoTool <- Read_Tool
  ConfirmTool <- Write_Tool
  MaxRounds = 3
  MaxRequested = 2
  CallLimit = 2
  Window = 2
  MaxMessages = 2
  KeepMin = 4
  Capacity = 3
  MaxClock = 1
  MaxRefills = 1
  NoTurn = NoTurn
CHECK_DEADLOCK FALSE
INVARIANTS
  HistoryPaired
  AnswersComplete
  RateKept
  BucketBound
PROPERTIES
  TurnsEnd
