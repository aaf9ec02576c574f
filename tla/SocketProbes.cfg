SPECIFICATION Spec
CONSTANTS
  Threads = {t1, t2}
  Fds = {1}
  Contexts = {x}
  Peers = {p, q}
  CacheEntries = 1
  RingCapacity = 1
  MaxObjects = 2
  MaxSyscalls = 2
  MaxSslCalls = 2
  MaxCalls = 3
SYMMETRY ProbesSymmetry
INVARIANTS
  FragmentsTrue
  OncePerCall
  ResolvedFresh
CHECK_DEADLOCK FALSE
