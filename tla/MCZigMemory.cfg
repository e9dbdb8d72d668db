\* With no memory map the kernel halts, and with no usable page no block is ever
\* made: deadlock is not checked.
CONSTANTS
  PAGE_SIZE = 4
  MAX_PAGES = 8
  kernel_end = 9
  MemoryMaps <- Maps
  NoMemoryMap = NoMemoryMap
  Lengths = {1, 4, 9}
SPECIFICATION Spec
INVARIANT BlocksOwnPages
CHECK_DEADLOCK FALSE
