SPECIFICATION Spec
CONSTANTS
  Emitter = {e1}
  Run = run
  Nobody = nobody
  QueueSize = 1
  EventsSize = 2
  MaxBatches = 2
  BatchSize = 2
INVARIANTS
  TerminalDelivered
