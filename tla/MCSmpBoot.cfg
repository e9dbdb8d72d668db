\* Four CPUs (the -smp 4 of the run targets), any of the APs dead or slow; the first SIPI
\* may stay pending past the polls of apic_wait_icr and be overwritten.
CONSTANTS
  CpuCount = 4
  MayFail = {1, 2, 3}
  MayBeSlow = {1, 2, 3}
  SlowIpi = {"sipi1"}
SPECIFICATION FairSpec
INVARIANTS TypeOK IdsDistinct OwnStackInTime SuccessMeansAll
PROPERTY WorkingApsComeOnline
