SPECIFICATION FairSpec
CONSTANTS
  Emitter = {e1}
  Run = run
  Nobody = nobody
  QueueSize = 1
  EventsSize = 2
  MaxBatches = 3
  BatchSize = 2
INVARIANTS
  TypeOK
  NothingLost
  BatchesWhole
  HandedOver
PROPERTIES
  KeepsFeed
  CancelFrees
