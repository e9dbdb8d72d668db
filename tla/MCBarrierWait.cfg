\* Four CPUs, four calls each (the four of ap_entry): every CPU re-enters the
\* barrier while others still have to leave it, in both senses, twice.
CONSTANTS
  CpuCount = 4
  Present = {0, 1, 2, 3}
  Rounds = 4
SPECIFICATION FairSpec
INVARIANTS TypeOK NoEarlyExit BarrierInv
PROPERTIES ImplementsRendezvous EveryCallReturns
