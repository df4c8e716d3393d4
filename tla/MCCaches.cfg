SPECIFICATION Spec
CONSTANTS
  Accesses <- MCAccesses
  Modes <- MCModes
  Singles = {TRUE, FALSE}
  Sets <- MCSets
  Assoc <- MCAssoc
  Latency <- MCLatency
  MaxInFlight = 2
  MaxLru <- MCMaxLru
INVARIANTS RequestsAccounted LruListsWays L2IncludesL1 StoresAreCarried
PROPERTY RunsToTheEnd
