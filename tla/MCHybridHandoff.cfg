\* Four CPUs, any of the APs dead or slow: a slow one may come up while the BSP
\* fills BootInfo.
CONSTANTS
  CpuCount = 4
  MayFail = {1, 2, 3}
  MayBeSlow = {1, 2, 3}
  SlowIpi = {}
SPECIFICATION FairHybridSpec
INVARIANTS EntryHasCpu SuccessReported BarrierNeverOpens
PROPERTY HandoffCompletes
