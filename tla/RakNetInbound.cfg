SPECIFICATION Spec
CONSTANTS
  Channel = {0, 1}
  Space = 10
  MaxReceivedWindow = 3
  MaxOrderedFrames = 1
  MaxSplitAssemblies = 2
  MaxAssemblyBytes = 2
  MaxBufferedBytes = 2
  Workload <- Workloads
  Flight = 3
  MaxLost = 1
  MaxParts = 3
  MaxExpired = 1
INVARIANTS
  TypeOK
  StreamsInOrder
  AcknowledgedIsAccounted
