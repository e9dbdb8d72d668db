------------------------------- MODULE ZigMemory -------------------------------
(***************************************************************************)
(* The memory of the Zig kernel: the page bitmap of zig/src/pmm.zig and    *)
(* the allocator of zig/src/allocator.zig on top of it.  Both run on the   *)
(* BSP alone, so each function is one action.  Addresses are counted in    *)
(* units of which PAGE_SIZE make a page, as in Pmm.                        *)
(***************************************************************************)
EXTENDS Naturals, FiniteSetsExt, SequencesExt

CONSTANTS
  PAGE_SIZE, MAX_PAGES,
  kernel_end,    \* 0x150000 in the code, whatever the size of the kernel
  MemoryMaps,    \* what find_mmap_tag may find: sequences of entries
  NoMemoryMap,   \* or that there is no such tag
  Lengths        \* what callers of the allocator ask for

Entry == [base_addr : Nat, length : Nat, available : BOOLEAN]

ASSUME ZigMemoryAssumption ==
  /\ PAGE_SIZE \in Nat \ {0} /\ MAX_PAGES \in Nat /\ kernel_end \in Nat
  /\ MemoryMaps \subseteq Seq(Entry)
  /\ Lengths \subseteq Nat \ {0}

VARIABLES
  phase,        \* "start", "ready" after pmm.init, "halted" after its error
  mmap,         \* the memory map, fixed
  bitmap,       \* the set bits
  free_pages,
  blocks        \* what the allocator has returned and not got back

vars == <<phase, mmap, bitmap, free_pages, blocks>>

Page == 0 .. MAX_PAGES - 1

Init ==
  /\ phase = "start"
  /\ mmap \in MemoryMaps \cup {NoMemoryMap}
  /\ bitmap \in {{}, Page}       \* undefined until pmm.init
  /\ free_pages = 0
  /\ blocks = {}

--------------------------------------------------------------------------------
\* Faulty variant: counts the pages that were free already.
MarkFreeAlways(pm, pages) ==
  [bits |-> pm.bits \ pages, free |-> pm.free + Cardinality(pages)]

\* mark_free of each page below MAX_PAGES
MarkFree(pm, pages) ==
  [bits |-> pm.bits \ pages, free |-> pm.free + Cardinality(pages \cap pm.bits)]

\* mark_used of each
MarkUsed(pm, pages) ==
  [bits |-> pm.bits \cup pages, free |-> pm.free - Cardinality(pages \ pm.bits)]

\* Down to the page it begins in, and down to the page it ends in
PagesOf(entry) ==
  {p \in Page : /\ p >= entry.base_addr \div PAGE_SIZE
                /\ p < (entry.base_addr + entry.length) \div PAGE_SIZE}

LowPages == {p \in Page : p < kernel_end \div PAGE_SIZE}

Store(pm) == bitmap' = pm.bits /\ free_pages' = pm.free

\* One turn of the loop over the memory map
FreeEntry(pm, entry) == IF entry.available THEN MarkFree(pm, PagesOf(entry)) ELSE pm

\* pmm.init: the available regions are freed, then low memory is taken back
PmmInit ==
  LET none == [bits |-> Page, free |-> free_pages]
  IN  /\ phase = "start"
      /\ IF mmap = NoMemoryMap
           THEN phase' = "halted" /\ Store(none)
           ELSE phase' = "ready" /\ Store(MarkUsed(FoldLeft(FreeEntry, none, mmap), LowPages))
      /\ UNCHANGED <<mmap, blocks>>

Pm == [bits |-> bitmap, free |-> free_pages]

\* alloc: pages_needed is at least 1 and the loop returns in its first round, with
\* the lowest free page; without one it returns null.
Alloc(len) ==
  /\ phase = "ready"
  /\ Page \ bitmap # {}
  /\ LET page == Min(Page \ bitmap)
     IN  /\ Store(MarkUsed(Pm, {page}))
         /\ blocks' = blocks \cup {[page |-> page, len |-> len]}
  /\ UNCHANGED <<phase, mmap>>

\* free: free_page of the first page of the block
Free(block) ==
  /\ phase = "ready"
  /\ Store(MarkFree(Pm, {block.page}))
  /\ blocks' = blocks \ {block}
  /\ UNCHANGED <<phase, mmap>>

Next ==
  \/ PmmInit
  \/ \E len \in Lengths : Alloc(len)
  \/ \E block \in blocks : Free(block)

Spec == Init /\ [][Next]_vars

--------------------------------------------------------------------------------
Usable ==
  (UNION {PagesOf(mmap[i]) : i \in {j \in DOMAIN mmap : mmap[j].available}}) \ LowPages

Touched(block) == block.page .. (block.page * PAGE_SIZE + block.len - 1) \div PAGE_SIZE

(* Every usable page is either free or the first page of exactly one block,  *)
(* and free_pages counts the free ones, though regions overlap and reach     *)
(* past MAX_PAGES.  Blocks of at most a page, all the kernel asks for, lie   *)
(* in usable pages of their own; a longer one may run into another block.    *)
BlocksOwnPages ==
  phase = "ready" =>
    /\ free_pages = Cardinality(Page \ bitmap)
    /\ Usable = (Page \ bitmap) \cup {b.page : b \in blocks}
    /\ \A b \in {c \in blocks : c.len <= PAGE_SIZE} :
         /\ Touched(b) \subseteq Usable \cap bitmap
         /\ \A c \in blocks \ {b} : c.page \notin Touched(b)
================================================================================
