SPECIFICATION DnsSpec
CONSTANTS
  Keys = {k1, k2}
  Instants = {1, 3}
  Stamps = {0, 1, 4}
  NanosPerMicro = 2
  MaxDatagrams = 3
  Timeout = 2
  MaxPending = 1
SYMMETRY Symmetry
INVARIANTS
  DatagramsAccounted
  LatencySound
