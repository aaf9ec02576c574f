SPECIFICATION Spec
CONSTANTS
  Cpus = {c1, c2}
  RawSrtts = {4, 160, 240}
  MinInterval = 1
  EmitInterval = 2
  MinDelta = 2
  Wrap = 64
  PollInterval = 1
  RingCapacity = 1
  MaxConnections = 2
  MaxCalls = 2
  MaxClock = 2
SYMMETRY CpuSymmetry
INVARIANTS
  DropsAccounted
PROPERTIES
  SuppressionJustified
CHECK_DEADLOCK FALSE
