SPECIFICATION Spec
CONSTANTS
  Conns = {a, b}
  Streams = {1}
  StateTTL = 1
  SweepEvery = 2
  MaxTracked = 1
  MaxStreams = 1
  NanosPerMicro = 2
  MaxOutstanding = 2
  MaxInversions = 1
  MaxClock = 2
SYMMETRY ConnSymmetry
INVARIANTS
  NoGuessedPair
  FreshStart
PROPERTIES
  PoisonSticks
