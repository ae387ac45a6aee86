SPECIFICATION Spec
CONSTANTS
  d1 = d1
  d2 = d2
  d3 = d3
  d4 = d4
  vpn = vpn
  mail = mail
  it = it
  other = other
  Failed = failed
  NoNumber = nonumber
  Doc <- Four_Doc
  Store <- MCStore
  Term <- Two_Term
  Terms <- MCTerms
  Idf <- MCIdf
  DocLength <- MCDocLength
  MaxContext = 8
  TopK = 1
  Query <- MCQuery
  KbCategory <- One_Category
  OtherCategory = other
  Enabled = {"vector", "reranker"}
  MaxTools = 2
INVARIANTS
  NoneBeatenAbove
PROPERTIES
  StreamConcludes
CHECK_DEADLOCK FALSE
