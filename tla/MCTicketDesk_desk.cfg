SPECIFICATION Spec
CONSTANTS
  t1 = t1
  d1 = d1
  eit = eit
  adm = adm
  guest = guest
  nobody = nobody
  it = it
  hr = hr
  nodept = nodept
  nocat = nocat
  TicketId <- MCTicketId
  DemoTicket <- MCDemoTicket
  User <- MCUser
  Submitter <- MCSubmitter
  Category <- MCCategory
  DemoRow <- MCDemoRow
  Role <- MCRole
  UserDept <- MCUserDept
  Department <- MCDepartment
  ApprovalCategory <- MCApprovalCategory
  CategoryDept <- MCCategoryDept
  Guest = guest
  Nobody = nobody
  NoDept = nodept
  NoCategory = nocat
  McpEnabled = TRUE
  ToolStatus = {"awaiting_approval", "closed"}
  MaxDecisions = 2
INVARIANTS
  DecisionOnRecord
  WaitingIsListed
  EndIsStamped
PROPERTIES
  IntakeLeftForGood
  ImplementsLedger
