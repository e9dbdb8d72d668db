---------------------------------- MODULE Pmm ----------------------------------
(***************************************************************************)
(* The physical memory manager of c/kernel/minimal_step9.c: a bitmap with  *)
(* one bit for each page, kept whole bytes at a time where the code does   *)
(* so, and used_pages beside it.  It runs on the BSP alone, so each        *)
(* function is one action.                                                 *)
(*                                                                         *)
(* The bitmap is the set of the numbers of its set bits.  Addresses are    *)
(* counted in units of which PageSize make a page (4096 in the code) and   *)
(* ByteBits bits make a byte of the bitmap (8 in the code).                *)
(***************************************************************************)
EXTENDS Naturals, FiniteSetsExt, SequencesExt

CONSTANTS
  PageSize,      \* PAGE_SIZE
  ByteBits,      \* bits in a byte of the bitmap
  MemoryLimit,   \* the 64 MB pmm_init limits itself to
  FourGb,        \* where the addresses begin that the memory map parser ignores
  MemoryMaps,    \* the memory maps GRUB may pass: sequences of entries
  MbInfoEnd,     \* where the Multiboot2 information may end
  KernelStart,   \* kernel_start of the linker script
  KernelEnd      \* kernel_end

Entry == [addr : Nat, len : Nat, available : BOOLEAN]

ASSUME PmmAssumption ==
  /\ PageSize \in Nat \ {0} /\ ByteBits \in Nat \ {0}
  /\ MemoryLimit \in Nat /\ FourGb \in Nat
  /\ MemoryMaps \subseteq Seq(Entry)
  /\ MbInfoEnd \subseteq Nat
  /\ KernelStart \in Nat /\ KernelEnd \in Nat /\ KernelStart < KernelEnd

VARIABLES
  phase,         \* which of the initialisation functions ran last
  mmap,          \* the memory map, fixed
  mb_end,        \* the end of the Multiboot2 information, fixed
  total_memory,
  total_pages,
  bitmap,        \* the set bits of pmm_bitmap
  used_pages,
  pmm_bitmap,    \* the address of the bitmap
  held,          \* the pages callers own
  lost,          \* the pages marked by calls that answered "out of memory"
  boot_used      \* history: the pages in use when initialisation ended

fixed == <<mmap, mb_end>>
layout == <<total_memory, total_pages, pmm_bitmap>>
pmmVars == <<phase, fixed, layout, bitmap, used_pages, held, lost, boot_used>>

Page == 0 .. total_pages - 1
BitmapSize == (total_pages + ByteBits - 1) \div ByteBits
BitmapEnd == pmm_bitmap + BitmapSize
RoundUp(a) == ((a + PageSize - 1) \div PageSize) * PageSize  \* PAGE_ALIGN

PmmInit ==
  /\ phase = "start"
  /\ mmap \in MemoryMaps
  /\ mb_end \in MbInfoEnd
  /\ total_memory = 0 /\ total_pages = 0 /\ pmm_bitmap = 0
  /\ bitmap = {} /\ used_pages = 0
  /\ held = {} /\ lost = {} /\ boot_used = {}

\* parse_multiboot_mmap: the highest end of an available region below 4 GB
ParseMmap ==
  /\ phase = "start"
  /\ total_memory' =
       Max({0} \cup {e.addr + e.len : e \in {f \in ToSet(mmap) : f.available /\ f.addr < FourGb}})
  /\ phase' = "parsed"
  /\ UNCHANGED <<fixed, total_pages, pmm_bitmap, bitmap, used_pages, held, lost, boot_used>>

\* pmm_init: the bitmap goes after the kernel and the Multiboot2 information,
\* with every bit set, those past the last page too.
InitBitmap ==
  /\ phase = "parsed"
  /\ total_memory' = Min({total_memory, MemoryLimit})
  /\ total_pages' = total_memory' \div PageSize
  /\ pmm_bitmap' = RoundUp(Max({mb_end, KernelEnd}))
  /\ bitmap' = 0 .. ByteBits * BitmapSize' - 1
  /\ used_pages' = total_pages'
  /\ phase' = "bitmap"
  /\ UNCHANGED <<fixed, held, lost, boot_used>>

--------------------------------------------------------------------------------
\* Faulty variant: counts the bits it is asked to clear, not those that were set.
ClearUncounted(pm, bits) ==
  [bits |-> pm.bits \ bits, used |-> pm.used - Cardinality(bits)]

\* Clearing bits, with used_pages-- for each that was set
Clear(pm, bits) ==
  [bits |-> pm.bits \ bits, used |-> pm.used - Cardinality(bits \cap pm.bits)]

\* pmm_mark_region_free: the partial byte at the start, the whole bytes, then
\* the partial byte at the end.
RegionFree(pm, base, length) ==
  LET start_page == base \div PageSize
      end_page == (base + length) \div PageSize
      start_byte == start_page \div ByteBits
      end_byte == end_page \div ByteBits
      unaligned == start_page % ByteBits # 0
      first_whole == IF unaligned THEN start_byte + 1 ELSE start_byte
      head == IF unaligned
                THEN start_page .. Min({(start_byte + 1) * ByteBits, end_page}) - 1
                ELSE {}
      whole == first_whole * ByteBits .. Min({end_byte, BitmapSize}) * ByteBits - 1
      tail == IF end_page % ByteBits # 0 THEN end_byte * ByteBits .. end_page - 1 ELSE {}
  IN  Clear(Clear(Clear(pm, head \cap Page), whole), tail \cap Page)

\* Marks those of the pages of a region that are free, the last page rounded up.
MarkUsed(pm, base, length, pages) ==
  LET fresh == {p \in pages : /\ p >= base \div PageSize
                              /\ p < (base + length + PageSize - 1) \div PageSize
                              /\ p \notin pm.bits}
  IN  [bits |-> pm.bits \cup fresh, used |-> pm.used + Cardinality(fresh)]

\* Faulty variant: no check of the page against total_pages.
RegionUsedUncapped(pm, base, length) == MarkUsed(pm, base, length, 0 .. (base + length))

\* pmm_mark_region_used
RegionUsed(pm, base, length) == MarkUsed(pm, base, length, Page)

\* The loop over the available entries, capped to total_memory
FreeEntry(pm, e) ==
  IF ~e.available \/ e.addr >= total_memory THEN pm
  ELSE RegionFree(pm, e.addr, Min({e.len, total_memory - e.addr}))

KernelUsed(pm) == RegionUsed(pm, KernelStart, BitmapEnd - KernelStart)

Bits == [bits |-> bitmap, used |-> used_pages]

MarkRegions(result) ==
  /\ phase = "bitmap"
  /\ bitmap' = result.bits
  /\ used_pages' = result.used
  /\ boot_used' = Page \cap result.bits
  /\ phase' = "ready"
  /\ UNCHANGED <<fixed, layout, held, lost>>

\* Faulty variant: the kernel is marked before the regions are freed.
MarkKernelFirst == MarkRegions(FoldLeft(FreeEntry, KernelUsed(Bits), mmap))

\* pmm_mark_free_regions: frees the available regions, then takes back the
\* kernel and the bitmap.
MarkFreeRegions == MarkRegions(KernelUsed(FoldLeft(FreeEntry, Bits, mmap)))

--------------------------------------------------------------------------------
FreePages == Page \ bitmap

\* Marking the lowest free page, if there is one
TakePage(pm) ==
  LET page == Min(Page \ pm.bits)
  IN  [bits |-> pm.bits \cup {page}, used |-> pm.used + 1]

\* Faulty variant: the page is handed out and its bit not set.
AllocUnmarked ==
  /\ phase = "ready"
  /\ IF FreePages = {} THEN UNCHANGED held ELSE held' = held \cup {Min(FreePages)}
  /\ UNCHANGED <<phase, fixed, layout, boot_used, bitmap, used_pages, lost>>

\* pmm_alloc_page: the lowest free page.  The address of page 0 is 0, which
\* callers take for "out of memory".
AllocPage ==
  /\ phase = "ready"
  /\ IF FreePages = {}
       THEN UNCHANGED <<bitmap, used_pages, held, lost>>
       ELSE LET page == Min(FreePages)
                result == TakePage(Bits)
            IN  /\ bitmap' = result.bits
                /\ used_pages' = result.used
                /\ held' = IF page * PageSize = 0 THEN held ELSE held \cup {page}
                /\ lost' = IF page * PageSize = 0 THEN lost \cup {page} ELSE lost
  /\ UNCHANGED <<phase, fixed, layout, boot_used>>

\* pmm_free_page, by the owner of the page
FreePage(page) ==
  /\ phase = "ready"
  /\ page \in held
  /\ held' = held \ {page}
  /\ IF page \in Page \cap bitmap
       THEN bitmap' = bitmap \ {page} /\ used_pages' = used_pages - 1
       ELSE UNCHANGED <<bitmap, used_pages>>
  /\ UNCHANGED <<phase, fixed, layout, lost, boot_used>>

PmmBoot == ParseMmap \/ InitBitmap \/ MarkFreeRegions
PmmCall == AllocPage \/ \E page \in held : FreePage(page)
PmmNext == PmmBoot \/ PmmCall

--------------------------------------------------------------------------------
(* Type invariant: no bit outside the bitmap is set, used_pages never runs   *)
(* below zero or past total_pages.                                           *)
PmmTypeOK ==
  /\ phase \in {"start", "parsed", "bitmap", "ready"}
  /\ mmap \in MemoryMaps /\ mb_end \in MbInfoEnd
  /\ total_memory \in Nat /\ total_pages \in Nat /\ pmm_bitmap \in Nat
  /\ bitmap \subseteq 0 .. ByteBits * BitmapSize - 1
  /\ used_pages \in 0 .. total_pages
  /\ held \subseteq Page /\ lost \subseteq Page /\ boot_used \subseteq Page

KernelPages ==
  {p \in Page : p >= KernelStart \div PageSize /\ p * PageSize < BitmapEnd}

(* used_pages is the number of pages whose bit is set: the byte-wise and     *)
(* page-wise paths of pmm_mark_region_free count alike, overlapping regions  *)
(* and the padding bits of the last byte included.                           *)
UsedPagesMatches == used_pages = Cardinality(bitmap \cap Page)

(* No caller ever gets a page of the kernel, of the Multiboot2 information   *)
(* behind it or of the bitmap itself.                                        *)
KernelKept == phase = "ready" => KernelPages \subseteq bitmap /\ KernelPages \cap held = {}

(* A page is in use because initialisation left it so, because a caller owns *)
(* it, or because it is page 0; never for two of these reasons.              *)
PagesAccounted ==
  phase = "ready" =>
    /\ bitmap \cap Page = boot_used \cup held \cup lost
    /\ boot_used \cap held = {} /\ boot_used \cap lost = {} /\ held \cap lost = {}
    /\ lost \subseteq {0}

(* "return 0;  // Out of memory": a call that answers 0 found no free page   *)
(* and took none.  The first call may take page 0 (README, section 3).       *)
ZeroMeansOutOfMemory == lost = {}

(* "Now mark available regions from memory map": a page that is free or in   *)
(* a caller's hands lies in a region the map calls available.  Short regions *)
(* break it (README, section 3).                                             *)
OnlyAvailableFreed ==
  phase = "ready" =>
    \A p \in Page \ boot_used : \E i \in DOMAIN mmap :
      /\ mmap[i].available
      /\ p * PageSize < mmap[i].addr + mmap[i].len
      /\ mmap[i].addr < (p + 1) * PageSize
================================================================================
