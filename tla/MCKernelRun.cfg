SPECIFICATION Spec
CONSTANTS
  CpuCount = 2
  MaxCpus = 2
  Kernels <- AllKernels
  ApicIds <- Numberings
  Vectors = {3, 13, 29}
  MaxFaults = 1
  MaxTicks = 2
INVARIANT TickAccounting
INVARIANT HandlerReady
INVARIANT ReportTrue
INVARIANT ExceptionSeesFault
PROPERTY RunEnds
CHECK_DEADLOCK FALSE
