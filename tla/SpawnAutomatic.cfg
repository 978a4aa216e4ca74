SPECIFICATION Spec
CONSTANTS
  Api = {}
  Native = {}
  Worker = {w1, w2}
  Run = run
  Sync = sync
  Nobody = nobody
  AutomaticPolicy = TRUE
  Optional = {"rejoin", "denied_class", "positive_health", "close"}
  MaxEpoch = 6
  MaxRequests = 0
SYMMETRY Interchangeable
PROPERTY KeepsContract
INVARIANTS
  TypeOK
  TransactionConsistent
  SpawningHasOwner
  HealthMatchesLife
  OneCurrentWorker
  DeadHasWorker
  WireInv
