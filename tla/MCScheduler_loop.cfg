SPECIFICATION FairSchedulerSpec
CONSTANTS
  hourly = hourly
  poll = poll
  a = a
  b = b
  Task <- Two_Task
  Kind <- MCKind
  Thread <- Two_Thread
  MaxInFlight = 2
INVARIANTS
  FileFollows
PROPERTIES
  RemovedStaysRemoved
  DueIsRun
  StopEndsThreads
