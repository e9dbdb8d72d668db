--------------------------------- MODULE Heap ----------------------------------
(***************************************************************************)
(* The kernel heap of c/kernel/minimal_step9.c: a bump allocator whose     *)
(* kfree does nothing.  The region lies behind the bitmap of the physical  *)
(* memory manager; KernelMemory puts the two together.                     *)
(***************************************************************************)
EXTENDS Naturals

CONSTANTS
  HeapSize,    \* 16 MB in the code
  HeapAlign,   \* 16 in the code
  Sizes,       \* the sizes callers ask for
  MaxOverrun   \* bound: how far failing calls may push heap_current past heap_end

ASSUME HeapAssumption ==
  /\ HeapSize \in Nat \ {0} /\ HeapAlign \in Nat \ {0}
  /\ Sizes \subseteq Nat /\ MaxOverrun \in Nat

VARIABLES heap_start, heap_current, heap_end,
          blocks   \* what kmalloc has returned: the address and the size asked for

heapVars == <<heap_start, heap_current, heap_end, blocks>>

HeapInit == heap_start = 0 /\ heap_current = 0 /\ heap_end = 0 /\ blocks = {}

HeapReady == heap_end # 0

\* heap_init, with the page-aligned address it computes
StartHeapAt(start) ==
  /\ ~HeapReady
  /\ heap_start' = start
  /\ heap_current' = start
  /\ heap_end' = start + HeapSize
  /\ UNCHANGED blocks

AlignUp(size) == ((size + HeapAlign - 1) \div HeapAlign) * HeapAlign

\* kmalloc of a size rounded to step: heap_current moves before the check, and
\* stays there when the call fails.
Bump(size, step) ==
  /\ heap_current' = heap_current + step
  /\ heap_current' <= heap_end + MaxOverrun
  /\ blocks' = IF heap_current' >= heap_end THEN blocks
               ELSE blocks \cup {[addr |-> heap_current, size |-> size]}
  /\ UNCHANGED <<heap_start, heap_end>>

\* Faulty variant: rounds down.
KmallocRoundDown(size) ==
  HeapReady /\ size > 0 /\ Bump(size, (size \div HeapAlign) * HeapAlign)

Kmalloc(size) == HeapReady /\ size > 0 /\ Bump(size, AlignUp(size))

--------------------------------------------------------------------------------
(* Type invariant. *)
HeapTypeOK ==
  /\ heap_start \in Nat /\ heap_current \in Nat /\ heap_end \in Nat
  /\ blocks \subseteq [addr : Nat, size : Sizes \ {0}]

EndOf(b) == b.addr + b.size

(* Two live blocks never share a byte and every block is aligned and inside  *)
(* the heap, after failed calls too (they leave heap_current advanced).      *)
BlocksDisjoint ==
  \A b \in blocks :
    /\ b.addr % HeapAlign = 0
    /\ heap_start <= b.addr /\ EndOf(b) < heap_end
    /\ \A c \in blocks \ {b} : EndOf(b) <= c.addr \/ EndOf(c) <= b.addr
================================================================================
