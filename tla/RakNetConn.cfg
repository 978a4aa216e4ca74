SPECIFICATION FairSpec
CONSTANTS
  Writer = {w1}
  NoWriter = none
  OutboundQueueSize = 1
  InboundQueueSize = 1
  MaxPendingReliable = 2
  MaxResendAttempts = 2
  MaxDatagrams = 2
  MaxPayloads = 1
  MaxFaults = 1
INVARIANTS
  TypeOK
  OutboundAccounted
  GoodbyeSent
PROPERTIES
  CloseEnds
  WriteEnds
CHECK_DEADLOCK FALSE
