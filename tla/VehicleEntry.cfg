SPECIFICATION FairSpec
CONSTANTS
  Api = {a1, a2}
  Continuation = {c1}
  Nobody = nobody
  Vehicle = {v1, v2}
  NoVehicle = novehicle
  Seat = {FALSE}
  MaxCalls = 2
  MaxMessages = 2
  MaxFaults = 1
INVARIANTS
  TypeOK
  NeverInEndedVehicle
  QueueHasOwner
PROPERTY
  CallsReturn
CHECK_DEADLOCK FALSE
