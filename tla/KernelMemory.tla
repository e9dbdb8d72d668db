------------------------------ MODULE KernelMemory -----------------------------
(***************************************************************************)
(* The memory of the C kernel: kernel_main of c/kernel/minimal_step9.c     *)
(* initialises the page allocator (Pmm), then the heap (Heap) right behind *)
(* the bitmap.  From then on callers of either allocator follow each other *)
(* in any order.                                                           *)
(***************************************************************************)
EXTENDS Pmm, Heap

\* A page is a whole number of the units kmalloc aligns to: 256 of 16 bytes.
ASSUME KernelMemoryAssumption == \E k \in 1 .. PageSize : PageSize = k * HeapAlign

vars == <<pmmVars, heapVars>>

Init == PmmInit /\ HeapInit

\* Faulty variant: the heap is put right behind the kernel image.
HeapBehindKernel ==
  phase = "ready" /\ StartHeapAt(RoundUp(KernelEnd)) /\ UNCHANGED pmmVars

\* kernel_main calls heap_init after the PMM is ready
StartHeap ==
  phase = "ready" /\ StartHeapAt(RoundUp(BitmapEnd)) /\ UNCHANGED pmmVars

Boot == (PmmBoot /\ UNCHANGED heapVars) \/ StartHeap

PageCall == HeapReady /\ PmmCall /\ UNCHANGED heapVars
HeapCall == \E size \in Sizes : Kmalloc(size) /\ UNCHANGED pmmVars

Next == Boot \/ PageCall \/ HeapCall

Spec == Init /\ [][Next]_vars

--------------------------------------------------------------------------------
(* Type invariant of both allocators. *)
MemoryTypeOK == PmmTypeOK /\ HeapTypeOK

(* A block of the heap never lies over the kernel image, the Multiboot2      *)
(* information or the bitmap.                                                *)
HeapClearOfKernel ==
  \A b \in blocks : b.addr >= BitmapEnd /\ b.addr >= KernelEnd /\ b.addr >= mb_end

HeapPages ==
  {p \in Page : /\ HeapReady
                /\ (p + 1) * PageSize > heap_start
                /\ p * PageSize < heap_end}

(* The memory layout of README.md gives the 16 MB behind the bitmap to the   *)
(* heap: pmm_alloc_page must not hand out a page of it.  It does (README,    *)
(* section 3).                                                               *)
HeapPagesReserved == held \cap HeapPages = {}
================================================================================
