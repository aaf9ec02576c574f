SPECIFICATION FairSpec
CONSTANTS
  Calls = {p1, p2}
  NServers = 2
INVARIANTS
  WrittenAtMostOnce
  NoSessionLeak
  CloseJoins
PROPERTIES
  CloseInterrupts
CHECK_DEADLOCK FALSE
