SPECIFICATION Spec
CONSTANTS
  CpuCount = 3
  Bsp = 1
  MayFail = {}
  MayBeLate = {0, 2}
  MaxOverwrites = 3
INVARIANT NoLostUpdate
CHECK_DEADLOCK FALSE
