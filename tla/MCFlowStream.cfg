SPECIFICATION StreamSpec
CONSTANTS
  Ids = {1, 2, 3}
  Identities = {f, g}
  Times = {0, 2, 3, 5}
  Rtts <- MCRtts
  WindowSize = 2
  AllowedLateness = 1
  MaxWindows = 2
SYMMETRY Symmetry
INVARIANTS
  StreamTypeOK
  MatchesAggregate
  EmittedOnce
  WatermarkSeparates
  WindowsBounded
PROPERTIES
  WatermarkMonotone
