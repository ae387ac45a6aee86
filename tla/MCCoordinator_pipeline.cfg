SPECIFICATION FairPipeline
CONSTANTS
  t1 = t1
  t2 = t2
  r1 = r1
  r2 = r2
  s1 = s1
  ehr = ehr
  guest = guest
  nobody = nobody
  hr = hr
  nodept = nodept
  nocat = nocat
  TicketId <- Two_TicketId
  DemoTicket <- No_DemoTicket
  DemoRow <- No_DemoRow
  User <- HR_Engineer
  Role <- MCRole
  UserDept <- MCUserDept
  Guest = guest
  Submitter <- Guest_Only
  Nobody = nobody
  Department <- MCDepartment
  NoDept = nodept
  Category <- HR_Only
  NoCategory = nocat
  ApprovalCategory <- HR_Only
  KnowledgeCategory <- HR_Only
  CategoryDept <- MCCategoryDept
  McpEnabled = TRUE
  ToolStatus = {"pending"}
  MaxDecisions = 1
  Request <- Two_Request
  Session <- One_Session
INVARIANTS
  MergedOnce
  OnlyAskedQuestionsWait
  OneTicketEach
PROPERTIES
  ImplementsDesk
  EveryRequestAnswered
