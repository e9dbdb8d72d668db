---------------------------------- MODULE Vmm ----------------------------------
(***************************************************************************)
(* The virtual memory manager of c/kernel/minimal_step9.c over the page    *)
(* allocator of Pmm: four levels of page tables that the kernel reads and  *)
(* writes through a recursive entry of the PML4, so that every access to a *)
(* table is itself translated by the tables.  All of it runs on the BSP,   *)
(* before the APs are started: a function is one action.                   *)
(*                                                                         *)
(* A virtual address is the sequence of its four table indices; <<>> is an *)
(* address that is not canonical.  A physical address is a page number.    *)
(***************************************************************************)
EXTENDS Pmm

CONSTANTS
  RECURSIVE_INDEX,          \* the last index of a table, 511 in the code
  boot_pml4, boot_pdpt, boot_pd, boot_pd_high,  \* pages of boot_minimal.S
  ApicPdpt, ApicPd,         \* the indices that map the local APIC, 3 and 503
  ApicFrame,                \* its page
  Callers                   \* the addresses callers pass

Index == 0 .. RECURSIVE_INDEX
Frames == 0 .. MemoryLimit \div PageSize - 1

ASSUME VmmAssumption ==
  /\ RECURSIVE_INDEX \in Nat \ {0}
  /\ {boot_pml4, boot_pdpt, boot_pd, boot_pd_high} \subseteq
       {p \in Frames : KernelStart <= p * PageSize /\ p * PageSize < KernelEnd}
  /\ boot_pml4 \notin {boot_pdpt, boot_pd, boot_pd_high}
  /\ boot_pdpt \notin {boot_pd, boot_pd_high} /\ boot_pd # boot_pd_high
  /\ ApicPdpt \in Index \ {0} /\ ApicPd \in Index /\ ApicFrame \in Nat
  /\ \A a \in Callers : a \in Seq(Index) /\ Len(a) = 4 /\ a[1] # RECURSIVE_INDEX

VARIABLES
  memory,     \* what each page holds, read as a table
  machine,    \* "boot" before vmm_init, then "up"; "fault" after a fault, for good
  tables      \* history: the pages vmm_map_page took

vmmVars == <<memory, machine, tables>>
pagingVars == <<pmmVars, vmmVars>>

Absent == [present |-> FALSE, frame |-> 0, huge |-> FALSE]
To(frame) == [present |-> TRUE, frame |-> frame, huge |-> FALSE]
Huge(frame) == [present |-> TRUE, frame |-> frame, huge |-> TRUE]
EmptyTable == [i \in Index |-> Absent]

\* What an earlier owner may have left in a page: an entry that looks present
StaleTable == [EmptyTable EXCEPT ![1] = To(0)]

\* boot_minimal.S: huge pages for the first GB, and one for the local APIC
BootTable(page, content) ==
  CASE page = boot_pml4 -> [EmptyTable EXCEPT ![0] = To(boot_pdpt)]
    [] page = boot_pdpt -> [EmptyTable EXCEPT ![0] = To(boot_pd), ![ApicPdpt] = To(boot_pd_high)]
    [] page = boot_pd -> [i \in Index |-> Huge(i * (RECURSIVE_INDEX + 1))]
    [] page = boot_pd_high -> [EmptyTable EXCEPT ![ApicPd] = Huge(ApicFrame)]
    [] OTHER -> content

VmmInit ==
  /\ PmmInit
  /\ \E content \in {EmptyTable, StaleTable} :
       memory = [p \in Frames |-> BootTable(p, content)]
  /\ machine = "boot"
  /\ tables = {}

--------------------------------------------------------------------------------
Fault == [ok |-> FALSE, frame |-> 0, leaf |-> TRUE]

\* One level of the processor's walk.  A huge entry ends it at the second or third
\* level; at the last level the same bit means something else.
Visit(mem, va, at, level) ==
  LET entry == mem[at.frame][va[level]]
  IN  IF at.leaf THEN at
      ELSE IF ~entry.present THEN Fault
      ELSE [ok |-> TRUE, frame |-> entry.frame,
            leaf |-> level = 4 \/ (level \in {2, 3} /\ entry.huge)]

Root == [ok |-> TRUE, frame |-> boot_pml4, leaf |-> FALSE]

Walk(mem, va) ==
  IF va = <<>> THEN Fault
  ELSE Visit(mem, va, Visit(mem, va, Visit(mem, va, Visit(mem, va, Root, 1), 2), 3), 4)

\* PML4_VIRT_ADDR, PDPT_VIRT_ADDR, PD_VIRT_ADDR, PT_VIRT_ADDR: RECURSIVE_INDEX is
\* an int, and shifted by 39 it is lost.  The upper bits of the first three come
\* from RECURSIVE_INDEX << 30, which is negative; PT_VIRT_ADDR has no such term
\* and is not canonical.
TableAddress(va, level) ==
  IF level = 4 THEN <<>>
  ELSE [k \in 1 .. 4 |-> IF k <= 5 - level THEN RECURSIVE_INDEX ELSE va[k + level - 5]]

\* vmm_init
vmm_init ==
  /\ phase = "ready" /\ machine = "boot"
  /\ memory' = [memory EXCEPT ![boot_pml4][RECURSIVE_INDEX] = To(boot_pml4)]
  /\ machine' = "up"
  /\ UNCHANGED <<pmmVars, tables>>

--------------------------------------------------------------------------------
\* A call in progress: what it has changed so far and whether it goes on
Call == [pm |-> Bits, mem |-> memory, tables |-> tables, lost |-> lost, end |-> "goes_on"]

Stop(call, why) == [call EXCEPT !.end = why]

\* Faulty variant: the new table is not cleared.
ClearNothing(call, address) == call

\* Clearing a new table through its virtual address
ClearTable(call, address) ==
  LET at == Walk(call.mem, address)
  IN  IF at.ok THEN [call EXCEPT !.mem[at.frame] = EmptyTable] ELSE Stop(call, "fault")

\* pmm_alloc_page answers 0 when there is no page, and when the page is page 0.
\* The new table is linked first and cleared after.
NewTable(call, table, index, address) ==
  IF Page \subseteq call.pm.bits THEN Stop(call, "out_of_memory")
  ELSE LET page == Min(Page \ call.pm.bits)
           taken == [call EXCEPT !.pm = TakePage(call.pm)]
       IN  IF page = 0 THEN Stop([taken EXCEPT !.lost = @ \cup {0}], "out_of_memory")
           ELSE ClearTable([taken EXCEPT !.mem[table][index] = To(page),
                                         !.tables = @ \cup {page}], address)

\* Faulty variant: makes a new table whether there is one or not.
LevelAlwaysNew(call, va, level) ==
  LET at == Walk(call.mem, TableAddress(va, level))
  IN  IF call.end # "goes_on" THEN call
      ELSE NewTable(call, at.frame, va[level], TableAddress(va, level + 1))

\* One level of vmm_map_page: the entry of va in the table of the level, made if
\* it is absent.  An entry for a huge page counts as present.
Level(call, va, level) ==
  LET at == Walk(call.mem, TableAddress(va, level))
  IN  IF call.end # "goes_on" THEN call
      ELSE IF ~at.ok THEN Stop(call, "fault")
      ELSE IF call.mem[at.frame][va[level]].present THEN call
      ELSE NewTable(call, at.frame, va[level], TableAddress(va, level + 1))

\* The last table's entry, which vmm_map_page sets and vmm_unmap_page resets
SetEntry(call, va, entry) ==
  LET at == Walk(call.mem, TableAddress(va, 4))
  IN  IF call.end # "goes_on" THEN call
      ELSE IF ~at.ok THEN Stop(call, "fault")
      ELSE [call EXCEPT !.mem[at.frame][va[4]] = entry]

\* What a call leaves.  A fault here is before idt_init: nothing runs after it.
Finish(call) ==
  /\ machine = "up"
  /\ bitmap' = call.pm.bits
  /\ used_pages' = call.pm.used
  /\ memory' = call.mem
  /\ tables' = call.tables
  /\ lost' = call.lost
  /\ machine' = IF call.end = "fault" THEN "fault" ELSE "up"
  /\ UNCHANGED <<phase, fixed, layout, held, boot_used>>

vmm_map_page(va, frame) ==
  Finish(SetEntry(Level(Level(Level(Call, va, 1), va, 2), va, 3), va, To(frame)))

\* One level of vmm_unmap_page and of vmm_virt_to_phys, which return at the first
\* entry that is not present
Look(call, va, level) ==
  LET at == Walk(call.mem, TableAddress(va, level))
  IN  IF call.end # "goes_on" THEN call
      ELSE IF ~at.ok THEN Stop(call, "fault")
      ELSE IF call.mem[at.frame][va[level]].present THEN call
      ELSE Stop(call, "not_mapped")

WalkDown(va) == Look(Look(Look(Call, va, 1), va, 2), va, 3)

vmm_unmap_page(va) == Finish(SetEntry(WalkDown(va), va, Absent))

\* Reads the last entry instead of writing it
vmm_virt_to_phys(va) ==
  LET call == WalkDown(va)
  IN  Finish(IF call.end = "goes_on" /\ ~Walk(call.mem, TableAddress(va, 4)).ok
               THEN Stop(call, "fault") ELSE call)

VmmCall ==
  \E va \in Callers :
    vmm_map_page(va, 0) \/ vmm_unmap_page(va) \/ vmm_virt_to_phys(va)

\* The page allocator's other callers
OtherCall == machine # "fault" /\ PmmCall /\ UNCHANGED vmmVars

VmmNext == (PmmBoot /\ UNCHANGED vmmVars) \/ vmm_init \/ VmmCall \/ OtherCall

VmmSpec == VmmInit /\ [][VmmNext]_pagingVars

--------------------------------------------------------------------------------
\* The tables below the PML4 that the processor may read
Linked ==
  LET Below(frames) ==
        {memory[x[1]][x[2]].frame : x \in
          {y \in frames \X Index : LET entry == memory[y[1]][y[2]]
                                   IN  entry.present /\ ~entry.huge}}
      pdpts == Below({boot_pml4}) \ {boot_pml4}
      pds == Below(pdpts)
  IN  pdpts \cup pds \cup Below(pds)

(* Every page table the processor uses is one of boot_minimal.S or a page    *)
(* vmm_map_page took; such a page is in use in the PMM and has no other      *)
(* owner.  After a call that ran out of memory half-way the tables it made   *)
(* are still linked, for the next call to use; none leaks.                   *)
TablesOwned ==
  /\ machine # "fault" => Linked \ {boot_pdpt, boot_pd, boot_pd_high} = tables
  /\ tables \subseteq bitmap
  /\ tables \cap (held \cup lost) = {}

(* A call that returns changes the translation of no address but its own:    *)
(* what an earlier owner left in a new table never becomes a mapping, and    *)
(* the identity mapping of the first GB stays as it was.                     *)
OnlyOwnTranslation ==
  [][\A va \in Callers :
       (vmm_map_page(va, 0) \/ vmm_unmap_page(va)) /\ machine' # "fault" =>
         \A other \in Callers \ {va} : Walk(memory, other)' = Walk(memory, other)]_pagingVars

(* What that leaves of vmm_map_page and vmm_unmap_page, since no table of    *)
(* the last level can be reached: a call that returns has mapped nothing and *)
(* unmapped nothing, at its own address either.                              *)
MapsNothing ==
  [][VmmCall /\ machine' # "fault" =>
       \A va \in Callers : Walk(memory, va)' = Walk(memory, va)]_pagingVars

(* "Access page tables via recursive mapping": the address a macro makes for *)
(* a table reaches it.                                                       *)
TablesReachable == machine # "fault"
================================================================================
