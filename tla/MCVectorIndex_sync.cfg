SPECIFICATION FairIndexSpec
CONSTANTS
  d1 = d1
  d2 = d2
  it = it
  general = general
  w1 = w1
  w2 = w2
  Doc <- Two_Doc
  Category <- One_Category
  General = general
  Worker <- Two_Worker
  MaxChanges = 3
  MaxIndexFaults = 3
INVARIANTS
  IndexedWhenQuiet
PROPERTIES
  NeverOlder
  EventsTaken
CHECK_DEADLOCK FALSE
