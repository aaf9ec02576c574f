SPECIFICATION FairSpec
CONSTANTS
  Ids <- MCIds
  Times <- MCTimes
  Rtts <- MCRtts
  Identities <- MCIdentities
  WindowSize = 2
  AllowedLateness = 0
  MaxWindows = 1
  Keys = {}
  Instants <- MCTimes
  Stamps = {0}
  NanosPerMicro = 1000
  MaxDatagrams = 2
  Timeout = 2
  MaxPending = 1
  Flows = {f, g}
  Kinds = {"connect", "sample"}
  ChannelCapacity = 1
  MaxEvents = 2
  MaxResolutions = 1
  MaxAttempts = 3
  MaxReads = 2
  MaxSetBacks = 0
  MaxClock = 2
  FaultySink = TRUE
INVARIANTS
  CaptureAccounted
  NothingLost
PROPERTIES
  ImplementsStream
  Terminates
  ResolutionSettles
