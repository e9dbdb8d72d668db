\* A fault stops the machine for good: deadlock is not checked.
CONSTANTS
  PageSize = 4
  ByteBits = 4
  MemoryLimit = 40
  FourGb = 100
  MemoryMaps <- Maps
  MbInfoEnd <- MbEnds
  KernelStart = 12
  KernelEnd = 28
  RECURSIVE_INDEX = 2
  boot_pml4 = 3
  boot_pdpt = 4
  boot_pd = 5
  boot_pd_high = 6
  ApicPdpt = 1
  ApicPd = 1
  ApicFrame = 90
  Callers <- Addresses
SPECIFICATION VmmSpec
INVARIANT TablesOwned
PROPERTY OnlyOwnTranslation
CHECK_DEADLOCK FALSE
