SPECIFICATION FairSpec
CONSTANTS
  r1 = r1
  r2 = r2
  bad = bad
  old = old
  Nobody = Nobody
  Manager = Manager
  Missing = Missing
  Requests <- Two_Request
  Ratings <- One_Rating
  Seeds <- No_Seed
  OldGaps <- One_Gap
  MaxFaults = 1
CHECK_DEADLOCK FALSE
INVARIANTS
  RetrieverIsCurrent
  ResolvedHasDoc
  MissesRecorded
PROPERTIES
  MissesServed
