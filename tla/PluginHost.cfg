SPECIFICATION Spec
CONSTANTS
  Api = {a1, a2}
  Process = {p1, p2, p3}
  Watch = watch
  Nobody = nobody
  Calls = {"start", "stop", "restart", "close", "debug"}
  AutoRestart = TRUE
  MaxCalls = 2
  MaxTicks = 2
SYMMETRY Interchangeable
INVARIANTS
  TypeOK
  NoStrayProcess
  RequestsSettled
CHECK_DEADLOCK FALSE
