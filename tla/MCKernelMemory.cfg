\* Twelve pages, three bytes of bitmap and a heap of three pages: small enough that both
\* allocators run out, and that regions begin and end inside pages and inside bytes.
CONSTANTS
  PageSize = 4
  ByteBits = 4
  MemoryLimit = 48
  FourGb = 100
  MemoryMaps <- Maps
  MbInfoEnd <- MbEnds
  KernelStart = 16
  KernelEnd = 22
  HeapSize = 12
  HeapAlign = 2
  Sizes = {0, 1, 2, 5}
  MaxOverrun = 4
SPECIFICATION Spec
INVARIANTS MemoryTypeOK UsedPagesMatches KernelKept PagesAccounted BlocksDisjoint HeapClearOfKernel
