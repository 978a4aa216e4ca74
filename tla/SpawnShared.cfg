SPECIFICATION Spec
CONSTANTS
  Api = {a1}
  Native = {n1}
  Worker = {w1}
  Run = run
  Sync = sync
  Nobody = nobody
  AutomaticPolicy = TRUE
  Optional = {"rejoin", "denied_class", "vehicle", "position"}
  MaxEpoch = 3
  MaxRequests = 1
SYMMETRY Interchangeable
INVARIANTS
  ServerSeesSpawn
  FrameWithinLife
  ReservedDeathHasOwner
  DeathWrittenOnce
