SPECIFICATION Spec
CONSTANTS
  Ids <- MCIds
  Times <- MCTimes
  Rtts <- MCRtts
  Identities <- MCIdentities
  WindowSize = 2
  AllowedLateness = 0
  MaxWindows = 2
  Keys = {}
  Instants <- MCTimes
  Stamps = {0}
  NanosPerMicro = 1000
  MaxDatagrams = 2
  Timeout = 2
  MaxPending = 1
  Flows = {f}
  Kinds = {"connect"}
  ChannelCapacity = 1
  MaxEvents = 0
  MaxResolutions = 1
  MaxAttempts = 3
  FaultySink = FALSE
  MaxReads = 2
  MaxSetBacks = 1
  MaxClock = 2
INVARIANTS
  NoJoinAcrossGenerations
