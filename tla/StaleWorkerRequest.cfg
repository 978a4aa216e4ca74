SPECIFICATION Spec
CONSTANTS
  Api = {}
  Native = {}
  Worker = {w1}
  Run = run
  Sync = sync
  Nobody = nobody
  AutomaticPolicy = TRUE
  Optional = {"rejoin"}
  MaxEpoch = 5
  MaxRequests = 1
INVARIANT AutomaticNeverRequests
