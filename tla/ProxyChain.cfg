\* Three hops of either scheme, all proxies given by their addresses.
SPECIFICATION FairSpec
CONSTANTS
  N = 3
  Named <- NoHops
  MaxChunks = 2
INVARIANTS TypeOK EndsClean
PROPERTIES TunnelSpec FailsForCause DialEnds
CHECK_DEADLOCK FALSE
