SPECIFICATION Spec
CONSTANTS
  m1 = m1
  m2 = m2
  Message <- Two_Message
  Traffic <- One_Channel
  MaxDeliveries <- Three_Deliveries
  Secured = {"feishu", "wecom"}
  DingTalkEnabled = TRUE
  Life = 3
  Margin = 2
  Timeout = 1
  MaxClock = 3
  MaxFaults = 2
INVARIANTS
  TokenAliveInUse
  FeishuRunsOnce
  DoneIsAnswered
  OneFailureIsForgiven
CHECK_DEADLOCK FALSE
