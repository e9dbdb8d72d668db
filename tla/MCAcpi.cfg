SPECIFICATION AcpiSpec
CONSTANTS
  MaxCpus = 2
  CountBound = 4
  Kernels <- AllKernels
  Firmwares <- SmallFirmwares
INVARIANT MadtFound
INVARIANT StartsTheOthers
PROPERTY DiscoveryEnds
