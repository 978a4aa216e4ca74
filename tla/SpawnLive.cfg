SPECIFICATION FairSpec
CONSTANTS
  Api = {}
  Native = {}
  Worker = {w1}
  Run = run
  Sync = sync
  Nobody = nobody
  AutomaticPolicy = TRUE
  Optional = {"denied_class", "rejoin"}
  MaxEpoch = 4
  MaxRequests = 1
PROPERTIES
  DeadRespawns
  DeathToldOrSuperseded
  CancelStops
  RequestEnds
