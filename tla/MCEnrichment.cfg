SPECIFICATION Spec
CONSTANTS
  Instants <- MCInstants
  StepBack = 1
  Backends = {"b1", "b2"}
  Ttl = 2
  MissRefresh = 1
  Containers = {"c1"}
  NoContainer = "host"
  ProcessTtl = 2
  Pods <- MCPods
  NoPod = NoPod
  Client = "client"
  Service = "service"
  ResolutionGrace = 1
  MaxObservations = 2
  MaxChanges = 3
INVARIANTS
  MappingSound
  AttributionSound
PROPERTIES
  DumpsThrottled
CHECK_DEADLOCK FALSE
