# Verification of zig-boot

The repository holds three small x86-64 SMP kernels: one in C (`c/`), one in Zig
(`zig/`), and a hybrid whose C bootstrap hands over to Zig (`hybrid/`). `archive/`
keeps the eight steps that led to the C kernel and an older, modular kernel. All of
them boot from Multiboot2; most find the CPUs in the ACPI MADT, start the application
processors (APs) with INIT-SIPI-SIPI and run parallel tests over a barrier; the later
ones add interrupts, timers and memory management. This directory models the parts of
that whose correctness depends on order, on several CPUs, or on bit-exact bookkeeping.

Paths below are relative to the repository's root; `step9.c` is
`c/kernel/minimal_step9.c`, the C kernel and the reference where several kernels have
copies of the same code.

## 1. Inventory

| Component | State | Operations | Interacts through | What makes it correct |
|---|---|---|---|---|
| Barrier (`barrier_wait`) | `barrier_count`, `barrier_sense`; a local sense per call | one call | shared memory of all CPUs | nobody leaves early; everybody leaves; re-usable at once |
| Parallel tests | `per_cpu_counters`, `partial_sums`, `total_sum` | three tests per CPU, the BSP's report | barrier, shared arrays indexed by CPU number | sums and counters complete when read; the report says what happened |
| SMP boot | trampoline's stack slot, interrupt command register, `cpus_online`, `ap_stacks` | `setup_trampoline`, `boot_ap`, `boot_all_aps`; the trampoline; `ap_entry` | IPIs, shared slot, atomic counter | own stack per CPU, own number per CPU, every working AP online, honest verdict |
| PMM | `pmm_bitmap`, `used_pages`, `total_pages` | initialisation from the memory map, `pmm_alloc_page`, `pmm_free_page` | memory map; VMM as caller | counter equals bitmap; kernel never handed out; only RAM handed out |
| Heap | `heap_start`, `heap_current`, `heap_end` | `heap_init`, `kmalloc`, `kfree` (does nothing) | placed behind the PMM's bitmap; hybrid Zig allocator calls it | blocks disjoint, aligned, inside the heap |
| VMM | page tables through a recursive entry | map, unmap, translate | PMM for new tables | a table has one owner; a call changes its own translation only |
| ACPI | `cpu_apic_ids`, `cpu_count` | find RSDP, find MADT, parse, start the others | firmware tables; everything indexed by CPU | the tables are found; the parse ends; exactly the other CPUs are started |
| APIC, timer, IDT | `timer_ticks`, `global_timer_calls`, IDT, `timer_init_debug` | init per CPU, timer interrupt, exceptions | interrupts on every CPU | each tick counted once; no interrupt without a handler; the handler sees the fault that happened |
| Hybrid hand-off | `BootInfo` | C fills it, Zig reads it | one call; APs left in the C code | BootInfo true; APs where Zig believes them |
| Zig SMP and tests | as in C | as in C, no INIT deassert | as in C | as in C |
| Zig memory | bitmap, `free_pages` | `pmm.init`, `alloc_page`, `free_page`, `std.mem.Allocator` | allocator over PMM | every usable page free or in one block |
| Modular kernel (archive) | `global_func`, `cpus_ready`, `cpus_finished`, `result_lock`, `shared_result`, one stack for all APs | `smp_boot_aps`, `on_each_cpu`, `ap_boot_complete`, a task under a spin lock | shared memory, the APs' stack, a function pointer any AP clears | no frame overwritten; no addition lost; no call through a cleared pointer; the wait ends |
| Steps 1 to 8 (archive) | subsets of the above | subsets of the above, in other orders; steps 6 and 7 end in a division by zero, to show their exception handler | as in C | all CPUs come to their end |
| Consoles, boot assembly | none of interest | output, CPU set-up | | not modelled |

Hard behaviour: several CPUs in one barrier while it is being re-used; a shared
trampoline patched while APs may be reading it; delays that are counted loops and not
acknowledgements; polls that give up; a report that reads what others are writing;
interrupts and exceptions between any two steps of a CPU's set-up; page tables read
and written through themselves; an allocation that fails half-way; APs that share one stack; bitmap arithmetic
at page and byte boundaries; two allocators over the same memory; firmware tables that
are broken, absent or longer than the arrays they fill.
`PROJECT.json` lists each hazard at its line, with the properties that cover it or the
reason none does.

## 2. Modules

| Module | Models | How it corresponds |
|---|---|---|
| `Rendezvous` | nothing: the promise of a barrier | a CPU may leave for the k-th time only when all have arrived k times |
| `BarrierWait` | `barrier_wait` (step9.c 1178-1194) | one action per access to shared memory: `ReadSense`, `Arrive` (the atomic add), `CloseRound` (two stores), `SpinExit` |
| `ParallelTests` | `ap_entry` from its tests on, the same calls and the report in `kernel_main` | `WaitStep` takes the steps of `BarrierWait` (`INSTANCE`, `Rounds <- 4`); the number of returned calls is the program counter |
| `SmpBoot` | `setup_trampoline`, `boot_ap`, `send_ipi`, `boot_all_aps`, the check after it; `trampoline.S`; the first line of `ap_entry` | BSP, interrupt command register and each AP are actors; `Deliver` is the local APIC (external) |
| `HybridHandoff` | `hybrid/boot/init.c` from the boot of the APs to `zig_kernel_main`, and that function | extends `SmpBoot` (the boot code is the same), takes the APs' tests from `BarrierWait` (`INSTANCE`, each AP under its claimed number) and adds the loop that fills `BootInfo` |
| `Pmm` | the physical memory manager | one action per function; the bitmap is the set of its set bits, byte-wise where the code is |
| `Heap` | `heap_init`, `kmalloc` | `Bump` moves `heap_current` before the check, as the code does |
| `KernelMemory` | PMM and heap in the order of `kernel_main`, then calls in any order | extends both; the heap starts at the page after the bitmap |
| `Vmm` | `vmm_init`, `vmm_map_page`, `vmm_unmap_page`, `vmm_virt_to_phys` and the tables of `boot_minimal.S` | extends `Pmm`, whose `TakePage` gives it pages; a call is one action, computed as a sequence of accesses each of which is walked through the tables as they are by then (`Level`, `ClearTable`, `SetEntry`, `Look`) |
| `Acpi` | `acpi_find_rsdp`, `acpi_find_madt`, `acpi_parse_madt`, the loop over `cpu_apic_ids`, in all twelve kernels | one state machine (`AcpiSpec`); a record per kernel names the decisions in which its copy differs |
| `KernelRun` | the order in which each CPU of eleven C kernels goes through `idt_init`, `apic_init`, `boot_all_aps`, `apic_timer_init`, the barriers and the report, with `timer_interrupt_handler`, the exception stubs and `exception_handler` in between | a kernel is two programs (BSP, AP) of phases and the gates of its IDT; each phase is an action, the division by zero at the end of steps 6 and 7 (`Divide`) too; the barrier is `Rendezvous` (`INSTANCE`), which `BarrierWait` implements |
| `OldModular` | `archive/old-modular`: `smp.c`, `sync.c`, the task and the verdict of `main.c` | one action per access to a shared variable; a call of an AP writes its return address to the one stack of the APs (`Call`), and its return (`Return`) goes to what it then finds there; `local_result` is kept by stack |
| `ZigMemory` | `zig/src/pmm.zig`, `zig/src/allocator.zig` | one action per function |
| `BarrierWaitProofs`, `ParallelTestsProofs`, `KernelRunProofs`, `OldModularProofs` | theorems about the module of that name | see section 5 |
| `SmpBootProofs` | theorems about `SmpBoot` and `HybridHandoff` | see section 5 |
| `KernelMemoryProofs` | theorems about `KernelMemory` and `Vmm` | see section 5 |
| `FirmwareProofs` | theorems about `ZigMemory` and `Acpi` | see section 5 |
| `FoldLemmas` | lemmas about the folds and sums of the community modules | used by the proofs of the memory, the tests, the timers and the Zig memory |
| `MCKernelMemory`, `MCVmm`, `MCAcpi`, `MCKernelRun`, `MCZigMemory` | memory maps, addresses, firmwares and kernels for TLC | |

A definition introduced by the comment "Faulty variant" is a plausible bug. No
specification uses one; each is there so that a property can be seen to fail
when it replaces the definition it follows.

Abstractions. CPUs, stacks and pages are indices. Loop lengths of the tests are
constants. A memory map is a sequence of records, and so is the MADT; the Multiboot2
tags around the one are not walked, and a checksum is right or wrong. Messages of the
reports are the values `test1_ok`, `barrier_ok`, `verdict`, `outcome`, `shown`,
`printed`. In `Vmm` a virtual address is the sequence of its table indices, with
`<<>>` for an address that is not canonical, and the address macros are modelled by
the bits they lose; the TLB is left out, since the code invalidates what it changes and
one CPU runs. In `KernelRun` an APIC id behind the end of `timer_ticks` is counted
nowhere, as the code checks it; `Exception` puts on the stack what the processor and
the stub push, and `exception_handler` reads where it reads. Which vectors come with an
error code (`PushesCode`), the processor's walk (`Walk`), the delivery of an IPI
(`Deliver`) and call and ret on the stack (`Call`, `Return`) are hardware, modelled from
how the code uses it.

The modular kernel sets `trampoline_stack` once (`main.c` 76), so all its APs run on the
same stack. `OldModular` keeps on it what decides where an AP goes on and what it adds:
the return addresses, by the depth of the call, and `local_result`, with the counter of
its loop. The BSP has a stack of its own. `overwrites` counts the calls an AP has made
while another was in one: from the first on a frame may be lost (`clobbered`).

History variables (`arrived`, `left`, `flips`, `held`, `lost`, `blocks`, `boot_used`,
`tables`, `additions`, `overwrites`, `workers`, `fired`, `cause`) appear in no guard the code does not
have, with these exceptions: callers free only pages they hold, `BarrierWait`'s callers
stop after `Rounds` calls, a timer stops after `MaxTicks` ticks, and `OldModular` is
followed up to `MaxOverwrites` overwrites, with the sum of an AP uncertain from the first
on.
Memory is sequentially consistent: the shared variables are volatile or accessed with
sequentially consistent atomics and x86 orders the one plain store that matters (the
reset of `barrier_count`) before the store that follows it.

## 3. Runs

| Run | Configuration | Shows |
|---|---|---|
| `barrier` | 4 CPUs, 4 calls each | `NoEarlyExit`, the inductive invariant `BarrierInv`, refinement of `Rendezvous` with its fairness, `EveryCallReturns` |
| `tests` | 3 CPUs, loops of 4, sum to 7 | `SumComplete`, `SecondHalfTogether`, `SuccessIsTrue`, `TestsEnd` |
| `smp_boot` | 4 CPUs, any AP dead or slow, first SIPI may be overwritten | `IdsDistinct`, `OwnStackInTime`, `SuccessMeansAll`, `WorkingApsComeOnline` |
| `hybrid` | 4 CPUs, any AP dead or slow | `EntryHasCpu`, `SuccessReported`, `BarrierNeverOpens`, `HandoffCompletes` |
| `memory` | 12 pages, 5 memory maps, 2 positions of the Multiboot2 information, 3-page heap | `UsedPagesMatches`, `KernelKept`, `PagesAccounted`, `BlocksDisjoint`, `HeapClearOfKernel` |
| `acpi` | 12 kernels, `MAX_CPUS` 2, MADTs of up to 3 entries, all small root tables and broken RSDPs | `MadtFound`, `StartsTheOthers`, `DiscoveryEnds` |
| `kernel_run` | 11 kernels, 2 CPUs, APIC ids in a row or with a gap, 2 ticks per CPU, one exception of vector 3, 13 or 29 besides the division by zero of steps 6 and 7 | `TickAccounting`, `HandlerReady`, `ReportTrue`, `ExceptionSeesFault`, `RunEnds` |
| `modular` | 3 CPUs, the BSP in the middle, one AP may be dead, both may be late, one overwrite | `LockProtects`, `InTimeStack`, `NullCallNeedsTwo`, `InTimeSucceeds` |
| `vmm` | tables of 3 entries, 10 pages of which 5 are free, 7 addresses | `TablesOwned`, `OnlyOwnTranslation` |
| `zig_memory` | 8 pages, blocks of 1, 4 and 9 units (a page has 4), maps with overlaps, none at all | `BlocksOwnPages` |
| `tests_report` | 2 CPUs | violated (`FailureIsTrue`): the report says a CPU did not reach a barrier that all reached |
| `vmm_tables` | as `vmm` | violated (`TablesReachable`): `PT_VIRT_ADDR` is not canonical and no page table can be read or written |

The violated properties state what a comment, a message or a document of the repository
says; `findings` in `PROJECT.json` quotes each.

Because of the second one, every `vmm_map_page` whose tables exist ends in a fault, and
so does every one that reaches the last level. What `vmm` shows of the other calls is
about what is left: calls that run out of memory at each level, and calls that find
nothing to unmap. A version with a canonical `PT_VIRT_ADDR` can be looked at by giving
level 4 of `TableAddress` the same form as the others.

Properties the code breaks and that have no run of their own. Each is defined, and
added as an INVARIANT (the second line's as a PROPERTY) to the configuration named it
gives the trace described; `MCOldModularStack.cfg` has it already, and is used with
`tlc -config MCOldModularStack.cfg OldModular`.

| Property | Configuration | What goes wrong |
|---|---|---|
| `StacksPrivate` of `SmpBoot` | `MCSmpBoot.cfg` | a late AP reads the slot after it was patched for the next AP, and two run on one stack |
| `ReportComes` of `ParallelTests` | `MCParallelTests.cfg` with a CPU missing from `Present` and `CHECK_DEADLOCK FALSE` | the BSP calls the absence of a CPU normal and then waits for it in the first barrier for ever |
| `OnlineMeansRunning` of `HybridHandoff` | `MCHybridHandoff.cfg` | an entry of `BootInfo` is online by its index, not by its APIC id: with AP 1 dead and AP 2 running, AP 1 is reported |
| `ZeroMeansOutOfMemory` of `Pmm` | `MCKernelMemory.cfg` | page 0 is available, and handed out first: the caller takes its address for a failure and the page is lost |
| `OnlyAvailableFreed` of `Pmm` | `MCKernelMemory.cfg` | a region inside one byte of the bitmap is freed from the byte's first page on, reserved pages included |
| `HeapPagesReserved` of `KernelMemory` | `MCKernelMemory.cfg` | nothing marks the heap's pages as used: `pmm_alloc_page` hands them out |
| `NoLostUpdate` of `OldModular` | `MCOldModularStack.cfg` | "Add to shared result (protected by spinlock)" (`main.c` 28): a late AP calls `smp_processor_id` and so writes to the stack on which another is summing, and the sum that one adds is not its own. The spin lock does not help, as what it guards is not what is lost |
| `SuccessMeansBooted` of `OldModular` | `MCOldModular.cfg` | "All APs booted and functional!" is printed when the BSP has run every task itself; APs in time are asleep by then |

Bounds, and why they are enough.

* Barrier: four CPUs are the first number at which, besides the closer and a straggler,
  two CPUs can be in different states of the next round; four rounds use each sense
  twice and are what the code makes. The theorems remove both bounds for safety.
* Tests: with 3 CPUs and 1..7 the division leaves a remainder and every CPU has a
  share; a first and a second half of two steps each let a CPU be in the middle of
  either. The counters only count, so longer loops add states and no new order.
* SMP boot: four CPUs is what the Makefiles run. Only the first SIPI may stay pending
  past the polls of `apic_wait_icr`; an INIT lost that way is not retried by the code
  (an AP not reset ignores the SIPIs) and is a hazard with a note.
* Hybrid: with four CPUs three APs can come up before, while and after `BootInfo` is
  filled, so its entries can have holes; a slow AP is what comes up late.
* Memory: pages of 4 units and bytes of 4 bits keep every boundary case: regions that
  begin and end inside a page, inside a byte, span whole bytes, overlap, exceed the
  limit or lie above 4 GB; a last byte with padding bits; no memory map at all. Both
  allocators run out. `MaxOverrun` bounds how far failing `kmalloc` calls push
  `heap_current`.
* ACPI: three entries exceed `MAX_CPUS` = 2 by one, and put a processor, a disabled
  one, another kind of entry and one of length 0 at every position. `CountBound` stops
  the count of an entry of length 0 that the code would count for ever. The BSP is
  processor "a", first in some tables and last or missing in others. An RSDP may be a
  broken copy in front of a good one, of revision 1 or 2, with an RSDT and an XSDT that
  hold the MADT, lack it or have a wrong sum.
* Kernel run: two CPUs are enough for each hazard here: one in its handler while the
  other sets up, prints or takes an exception. With ids 0 and 2 the second CPU is
  behind a table of 2. Two ticks let one fall between two reads of the report and one
  before; a second exception could only stop another CPU. Vector 3 resumes, 13 has an
  error code, 29 is the one whose stub is wrong.
* Modular: with two late APs one can clear the pointer between the other's test and
  call, and each can overwrite the other's frames; the BSP in the middle is skipped in the
  middle of the loop. What the run states is about the time before the first overwrite,
  or about APs in time, of which there is none, so `MaxOverwrites` = 1 is enough;
  `MCOldModularStack.cfg` follows three. The theorems remove the bound on CPUs, and hold
  for any number of overwrites.
* VMM: index 2 of 3 is the recursive one, so 0 and 1 remain at each level, and the seven
  addresses lack none, one, two or all three of the tables. Five free pages, one of
  them page 0, let memory run out before each level.
* Zig memory: regions begin and end inside a page, overlap and exceed `MAX_PAGES`; a
  block is shorter than a page, exactly one and longer.

`CHECK_DEADLOCK FALSE` is used where the system really stops: `kernel_run` and
`modular` (halted CPUs), `vmm` and `vmm_tables` (a fault stops the machine before it has
an IDT), `zig_memory` (without a memory map the kernel halts). Elsewhere a system that
has done its work stutters (`Finished`, `Halted`, `Booted`, `Settled`); the `memory` run
never stops because an allocation that fails is a step.

## 4. Fairness

`BarrierWait` and `ParallelTests` assume weak fairness of each CPU that has started:
a core that runs keeps running, interrupts return, and nothing in the modelled code
waits for anything but the barrier. Spinning is the disabled `SpinExit`, so fairness
demands nothing a spinning CPU could not do: once the sense differs it stays so until
this CPU has left. `SmpBoot` assumes it of the BSP and of each AP that is not dead, and
of the delivery of an IPI, which the BSP may still overwrite first; `HybridHandoff` assumes the same and the
progress of the APs' tests. `Rendezvous` asks
only that a CPU that may leave does.

`KernelRun` assumes it of each CPU's own steps, its handlers included; that a timer
fires or an exception happens is never assumed, but for the division by zero of steps 6
and 7, which is a step of the program. A spinning CPU is one whose `Leave` is
disabled. `OldModular` assumes it of each CPU that is not halted; a dead AP stays
parked and has no step. The waits on a count are disabled steps again, and a count
that is passed stays passed where the code relies on it. `Acpi` is sequential: weak
fairness of `AcpiNext` says that the BSP goes on. `Pmm`, `Heap`, `Vmm` and `ZigMemory` have
no liveness properties.

## 5. Proofs

`BarrierWaitProofs` proves, for every `CpuCount > 0`, every set `Present` of CPUs that
start and every `Rounds` (assumption `BarrierAssumption`):

* `TypeCorrect`: `Spec => []TypeOK`, including `barrier_count <= cpu_count`;
* `BarrierInvariant`: `Spec => []BarrierInv`;
* `BarrierSafety`: `Spec => []NoEarlyExit`;
* `BarrierRefinement`: `Spec => Abstract!Spec`, every step of `barrier_wait` is a step of
  the rendezvous or changes neither `arrived` nor `left`;
* `BarrierNobodyStuck`: `Spec => []NobodyStuck`, a CPU that waits waits for one that
  neither waits nor has made all its calls;
* `BarrierReleaseStays`: `Spec => ReleaseStays`, a CPU whose round is over sees the other
  sense until it returns;
* `BarrierAbsentHoldsAll`: `Spec => []AbsentHoldsAll`, with a CPU absent nobody returns.

`NoEarlyExit` is not inductive: it says nothing of the sense, so a spinning CPU in a
state that satisfies it might see the other sense early. `BarrierInv` adds what re-use
depends on. A CPU outside has arrived as often as the sense was inverted and, once it
has read the sense, holds the current one (`OutsideInv`). One that spins is either in
the open round with the current sense, or in the round just closed with the other one
(`SpinInv`); no CPU can lag further, because the next round needs its arrival. The CPU
that found the count complete is alone, and everyone else spins in its round
(`CloseInv`); that is why the plain reset of the count loses nothing. The count is the
number of CPUs that arrived in the open round (`CountInv`). Each action has its lemma,
with one step for each conjunct; the cardinality of the set of arrived CPUs is the only
fact about finite sets needed. The run `barrier` checks the same invariant.

The last three are what safety has to say of `EveryCallReturns`. If everyone waited, all
would be in the open round and the count complete; but a complete count has a last
arriver, which is not waiting (`ProgressInv`). What a CPU waits for stays true once it is
true, so weak fairness of its steps is enough; that each of finitely many CPUs then goes
on for ever or to its end is the part left to TLC.

`SmpBootProofs` proves, for every `CpuCount` up to `MAX_CPUS`, every set of dead and of
slow APs and every set of IPIs that may outlast the polls (assumption `SmpAssumption`):

* `BootTyped`: `Spec => []TypeOK`, so no index reaches `cpu_count`;
* `BootIdsDistinct`: `Spec => []IdsDistinct`;
* `BootOwnStackInTime`: `Spec => []OwnStackInTime`;
* `BootSuccessMeansAll`: `Spec => []SuccessMeansAll`;
* `BootNoneLost` and `BootRestMeansOnline`: `Spec => []NoneLost` and
  `Spec => []RestMeansOnline`, if the polls of `apic_wait_icr` outlast the INIT and one
  of the two SIPIs (`EnoughPolls`).

`IdsDistinct` carries itself: the number claimed is one more than the count of APs
online. `OwnStackInTime` needs to know what the slot holds when an AP reads it, and that
follows from where the BSP is (`PhaseInv`: the slot belongs to `cpu_idx` from the patch
to the return of `boot_ap`), from where APs can be (`ApInv`: an AP ahead of the BSP is
parked, one behind it has its stack unless it is dead or slow) and from which IPI can
be pending (`IcrInv`: an INIT only for the AP the BSP is starting, so that it never
resets an AP that runs; a SIPI may be late). `SuccessMeansAll` combines the count with
the fact that a set of APs with `cpu_count - 1` members is all of them
(`OnlineFinite`). There is one lemma for each action. What "slow" means is an assumption
of the model, not a result: the delays of `boot_ap` are counted loops, and the theorem
says what they have to achieve.

The last two are the safety part of `WorkingApsComeOnline`. The BSP waits for no AP and
may overwrite an IPI that has not arrived, so it has to be shown that none is lost
(`AwakeInv`): a working AP behind `cpu_idx` runs, and the one at `cpu_idx` waits for the
IPI that is on its way or for one `boot_ap` has still to send. An IPI is overwritten only
if its kind may outlast the polls; if that is the first SIPI, the second is not, and the
other way round. `EnoughPolls` is needed: an AP that misses its INIT ignores both SIPIs.
`RestMeansOnline` then gives the final count, `cpus_online = cpu_count` less the dead.

Its second half composes boot and barrier in the hybrid kernel, under `SmpAssumption`:

* `HandoffRefinesBoot`: `HybridSpec => Spec` of `SmpBoot`, with an identity mapping, so
  the theorems above hold of the hybrid kernel;
* `HandoffEntryHasCpu` and `HandoffSuccessReported`: `EntryHasCpu` needs only that the
  numbers claimed are `1 .. cpus_online - 1` (`IdsDistinct`) and that an AP online keeps
  its number (`OnlineGrows`); what an entry says of a number stays true;
* `HandoffBarrierNeverOpens`: every step of the hybrid kernel is a step of
  `BarrierWait` or leaves its variables alone, because an AP's number is never 0; so
  `BarrierInv` holds, nobody returns before CPU 0 has arrived, and CPU 0 never does.
  The lemmas of `BarrierWaitProofs` are used through an `INSTANCE`;
* `HandoffTyped`: the types of all three, from those invariants and from the order of
  the stages.

`ParallelTestsProofs` proves, for every `CpuCount`, every set of CPUs that start and
loops of any length (assumption `TestsAssumption`), `TestsSecondHalfTogether`,
`TestsSuccessIsTrue`, `TestsSumComplete` and `TestsTyped`. What it knows of the barrier is
`BarrierInv`, kept as it is because the tests use `barrier_wait` as `BarrierWait` says
(`BarrierKept`, through an `INSTANCE` with `Rounds <- 4`). None of the properties is
inductive. `ProgInv` says how far in its stretch
a CPU can be, and `CounterInv` that its counter follows from that, since nobody else
writes it. From the barrier comes `FourthBarrier`: when one CPU has left its fourth call,
all have arrived at theirs and so have counted their first half. The BSP reads the
counters one by one while others still count; `ReportInv` says that a counter it has
found complete is that of a CPU that has ended and stays so. That `total_sum` is right is
what the report itself has compared; the proof needs only that it no longer changes.

`TestsSumComplete` does say why the sum is right. The sum of a range of numbers is a
difference of triangular numbers (`GaussSteps`, and `Telescope` of `FoldLemmas`), the
ranges of the CPUs follow one another up to `SUM_TARGET`, the last with the remainder of
the division (`Ranges`), and so all shares together are the sum expected (`WorkAll`).
`SumInv` adds what the CPUs have done of it: a partial sum is the CPU's share once it is
stored, and `total_sum` the sum of the shares added, in whatever order. The second
barrier makes that all of them (`AllAdded`).

`TestsUseBarrier` is `Spec => B!Spec`, where `B` is `BarrierWait` with four calls: the
theorems about the barrier become theorems about the tests, `TestsMeet` (they are the
rendezvous) and `TestsNobodyStuck` among them. With `BarrierAbsentHoldsAll` it gives
`TestsReportNeedsAll`, the general form of the trace that refutes `ReportComes`: whichever
CPU is absent, the BSP prints no line of its report.

`KernelMemoryProofs` proves, for every memory map, page size, memory size and alignment
that divides a page (assumptions `PmmAssumption`, `HeapAssumption`,
`KernelMemoryAssumption`):

* `MemoryUsedPagesMatches` and `MemoryTyped`: `used_pages` is the number of set bits
  among the pages (`Counted`), so it is never below 0 nor above `total_pages`. The loop
  over the regions keeps that whatever the regions are (`LoopCounted`): whole bytes, and
  pages one by one, count down what they clear and nothing else (`RegionFreeCounted`,
  `WholeBytes`), also where regions overlap, and the padding bits of the last byte are no
  pages (`BytesCover`);
* `MemoryPagesAccounted` and `MemoryKernelKept`: a page in use was left so by the
  initialisation, is held by a caller or is page 0, and none for two reasons; no call
  hands out a page of the kernel, of the Multiboot2 information or of the bitmap. The
  kernel's pages are marked after the loop over the memory map, so nothing has to be
  known of what that loop made of the bitmap (`KernelInBoot`, lemma `KernelMarked`), and
  no call frees a page that is not held.
* `MemoryBlocksDisjoint` and `MemoryHeapClearOfKernel`: `heap_current` never goes back,
  stays a multiple of `HeapAlign`, and every block is behind the last one (`Pointers`,
  `Behind`), although a call that fails moves it too; the heap starts behind the
  bitmap, which is behind the kernel.

That the lowest free page and the highest end of a region exist is proved from
well-foundedness of the natural numbers and of the subsets of a finite set.

Its second half is about `Vmm`, for every table size, every set of callers' addresses,
every memory map and whatever the pages held before (assumption `VmmAssumption`):

* `VmmTablesOwned`: `VmmSpec => []TablesOwned`;
* `VmmOnlyOwnTranslation`: `VmmSpec => OnlyOwnTranslation`;
* `VmmMapsNothing`: `VmmSpec => MapsNothing`, a call that returns has not changed the
  translation of its own address either. It is what the violated `TablesReachable` comes
  to for every memory: no page is ever mapped or unmapped.

`TablesOwned` says which tables are reachable but not how, and a call is three levels of
reading, allocating, linking and clearing through addresses that the tables themselves
translate. The invariant `PagingInv` says that the tables are a tree of two layers below
the PML4 (`Tree`, `Layered`): disjoint, each table linked from the layer above, and the
lower layer holding huge pages only. There is no third layer, because of the fault of
`PT_VIRT_ADDR`: every call that gets as far ends in it. In such a tree the recursive
addresses reach the table they are meant to (`ReachPml4`, `ReachUpper`, `ReachMiddle`),
and linking an empty table into a free entry changes no translation (`LinkUpper`,
`LinkMiddle`). `Sound` is the invariant of a call in progress: unless it has faulted, the
tables are a tree, the translation of every caller's address is what it was, and each
page in use has one owner. One lemma per level shows that it is kept when the table is
there, when it is made, and when memory runs out; a page taken is never one of the tree,
since those are in use (`PageTaken`, `BootTablesInUse`). What a page held before it
became a table is `StaleTable` or anything else: the proof uses only that it is cleared.
The theorems on translations are, as the run, about calls that return.

`FirmwareProofs` proves, for every number of pages, memory map and lengths
(`ZigMemoryAssumption`), `ZigBlocksOwnPages`: `Spec => []BlocksOwnPages` of `ZigMemory`.
After any of its turns, the loop of `pmm.init` has freed exactly the pages of the entries
seen (`FreeExactly`, lemma `LoopFrees`); taking low memory back leaves the usable ones,
and each call moves one page between the free ones and the blocks (`Owned`).

For every firmware and every `MAX_CPUS`, and any of the twelve kernels (`AcpiAssumption`),
it proves

* `AcpiMadtFound`: `AcpiSpec => []MadtFound`. A search that has failed saw no RSDP it
  accepts, or the first led to nothing (`SearchInv`); that this is the first with a right
  sum follows from the record of the kernel (`KernelsAre`);
* `AcpiStartsTheOthers`: `AcpiSpec => []StartsTheOthers`. What is to be started is stated
  by the elements of a sequence that are in a set (`Only`), a recursive function. `Keeps`
  relates it to its prefixes, and these are what the loops have at hand: after `ptr - 1`
  entries the ids are those of the processors in them as far as they fit (`ParseInv`),
  and after `cpu_idx` ids, those but the BSP's have been started (`StartInv`). When the
  parse ends, either all entries were seen or the table was full, and the ids are the
  first `MAX_CPUS` enabled ones in both cases (`ParseEndFirst`). The premise that the BSP
  is listed once is part of the property: listed again behind the first entry it would be
  sent its own INIT, since `boot_ap` leaves out index 0 only.

`FoldLemmas` is what these proofs know of folds. A fold of the community modules takes an
operator, about which nothing can be said in general here, but it is defined by a
recursive function over the subsets of its domain. The lemmas show, for any step that is
itself a function, that this function exists and satisfies its equation (`FoldExists`,
`FoldIn`), and for sums, that one term more by `d` makes the sum more by `d`
(`SumChange`) and that sums of differences telescope. Induction is over sets in place of
predicates: the set of all numbers (or subsets) for which the claim holds contains 0 (or
the empty set) and is closed, so that its complement has no least element (`NatSet`,
`SubsetSet`, by well-foundedness).

`KernelRunProofs` proves, for any subset of the eleven kernels, any number of CPUs, any
APIC ids, any exceptions below 32 and any number of ticks (assumption
`KernelRunAssumption`):

* `RunHandlerReady`: `Spec => []HandlerReady`;
* `RunExceptionSeesFault`: `Spec => []ExceptionSeesFault`;
* `RunTickAccounting`: `Spec => []TickAccounting`;
* `RunReportTrue`: `Spec => []ReportTrue`, for up to `MaxCpus` CPUs;
* `RunMeets`: `Spec => Rdv!Spec`, the barriers are the rendezvous that `BarrierWait`
  implements;
* `RunNobodyStuck`: `Spec => []NobodyStuck`, for all kernels but the hybrid one;
* `RunMetMeansOnline`: `Spec => []MetMeansOnline`, in the hybrid kernel because nobody
  passes a barrier;
* `RunEndMeansOnline`: `Spec => []EndMeansOnline`.

All the first four need of a kernel is the order of some of its phases (`OrderedKernel`): the IDT
is loaded and the APIC enabled before interrupts are, the BSP fills the gates before it
starts the APs or enables interrupts, `apic_timer_init` is over when its notes are shown.
`KernelsOrdered` shows it of each kernel. The invariant says that a CPU has done what the
phases behind it do (`SetUp`), that no AP has begun before the BSP was at `boot_all_aps`
(`Parked`), and what is on the stack of a CPU in an exception (`Frames`). Lemma `Layout`
computes where `exception_common` finds its arguments, for each vector with and without
an error code, and `HandlerReturns` that a breakpoint goes on where it was; without it
an exception could move a CPU past a phase. For the report, `Noted` says that an entry
of `timer_init_debug` is right from its first writing on, whoever wrote it, and `Lines`
that a counter is not below what was read of it. `CpuCount <= MaxCpus` is an
assumption: `acpi_parse_madt` counts processors beyond `MAX_CPUS`, and the report would
read past the end of `timer_ticks`. `RunTickAccounting` does without it: an interrupt is
counted in the sum of its CPU's ticks or, for an APIC id behind the table, in what the
CPU has fired; between the two steps of the handler it is in neither and the CPU is among
those counted as `Called`.

`RunMeets` and what follows it need that the four barriers of a program follow one
another, behind `start` on the BSP and behind the one `claim` of an AP, or that both
programs have none (`MeetingKernel`; `KernelsMeet` shows it of each kernel). Then the
place of a CPU tells how often it has returned (`MeetInv`). Among the CPUs that have
arrived least often there is none that is held; one that had ended would have arrived
four times, and one still parked would mean that the BSP is before `boot_all_aps`, where
nobody has arrived. So `RunNobodyStuck` is one half of the safety part of `RunEnds`:
`kernel_main` and `ap_entry` call `barrier_wait` equally often. The other half is
`RunEndMeansOnline`: at the end `cpus_online` is the number of all CPUs, or 0 in the
kernels that start none. It holds of step 4 too, which has no barrier, because each
kernel that starts APs has them count themselves (`Counting`). `cpus_online` is one more
than the number of APs behind `claim` (`OnlineInv`), which all are when the first
barrier opens.

`RunNobodyStuck` and `RunEndMeansOnline` speak of the end of a program. That is its last
`hlt`, but for the BSP of steps 6 and 7 the handler of the division by zero, from which it
does not return. An exception that stops a CPU before its end (`Struck`) may hold up the
others; this one stands behind all barriers (`Block`), and AP programs have none
(`Counting`).

`OldModularProofs` proves, for every `CpuCount` up to `MAX_CPUS`, any BSP, any dead and
late APs and any number of overwrites (assumption `ModularAssumption`):

* `ModularLockProtects`: `Spec => []LockProtects`. Unless an AP has overwritten the frame
  of another, one CPU at most is between `spin_lock` and `spin_unlock`, the lock is set
  while one is, and what it has read is still there when it adds (`LockInv`). That needs
  to be known of the stack: as long as it is not `clobbered`, one AP at most is in a call,
  and what it finds there is what it wrote (`FramesInv`);
* `ModularInTimeStack`: `Spec => []InTimeStack`. If no AP is late, one at most is anywhere
  but parked or halted, because `smp_boot_aps` waits with each for the one before
  (`OneRuns`);
* `ModularNullCallNeedsTwo`: `global_func` is 0 until `on_each_cpu` sets it, and the APs
  in time have halted by then; once it is 0 again a late AP has cleared it and has
  halted, so one that calls through it is a second (`LateInv`);
* `ModularInTime`: `Spec => []InTimeNeverStuck`, the safety part of `InTimeSucceeds`.
  With no AP late the APs never come to the pointer, and in the loop of `on_each_cpu` the
  four counters all follow from `idx` and the place of the BSP in the task (`Calling`);
* `ModularReportNotEarly`: `Spec => []ReportNotEarly`, with late APs in the task too, until
  the first overwrite. What `cores_done` lacks of the additions is the number of CPUs
  between the two (`DoneInv`).

The premise `~clobbered` of the first and the last is what the program needs and does not
give: with two late APs on the one stack neither the lock nor the count means anything
(`NoLostUpdate`, section 3).

Only model-checked:

* all liveness (`EveryCallReturns`, `TestsEnd`, `WorkingApsComeOnline`,
  `HandoffCompletes`, `DiscoveryEnds`, `RunEnds`, `InTimeSucceeds`, the fairness half of
  the refinement): the proof system does not treat fairness;
* the violated properties, for which a trace is the evidence.

Every invariant and action property of a passing run is also proved. `HandoffTypeOK` of
`HybridHandoff`, `NobodyStuck`,
`MetMeansOnline` and `EndMeansOnline` of `KernelRun`, `NobodyStuck`, `ReleaseStays` and
`AbsentHoldsAll` of `BarrierWait`, `NoneLost` and `RestMeansOnline` of `SmpBoot`,
`ReportNeedsAll` of `ParallelTests`, `InTimeNeverStuck` and `ReportNotEarly` of
`OldModular` and `MapsNothing` of `Vmm` are proved without a run of their own; they hold when added to the configurations of section 3
(`AbsentHoldsAll` and `ReportNeedsAll` speak of those with a CPU missing from `Present`).

## 6. Not modelled

* Consoles, string and number formatting, the boot assembly before `kernel_main`, the
  listing of CPU features: output, or straight-line set-up of one processor.
* `calibrate_tsc`, `disable_pic`: they set what nothing modelled reads. The x2APIC branch
  of `send_ipi` has no delivery status to wait for; `SmpBoot` is the xAPIC one.
* The walk over the Multiboot2 tags. That one walk has a limit and the other has none is
  a hazard with a note.
* In `Vmm`: the walk through a 2 MB page as if it were a table (the fault of
  `PT_VIRT_ADDR` comes first), and the TLB.
* The wrap-around of 64-bit sizes in `kmalloc`: no caller passes such a size.
* Zig blocks that are longer than a page are in `ZigMemory`, but no property covers
  them: the allocator returns one page whatever the size. The allocator of the hybrid
  kernel only passes its length to `kmalloc` and drops the alignment.
* The boot of the APs in the Zig kernel. It is `boot_ap` without the INIT deassert, waits
  without limit for the delivery of an IPI, and `main.zig` prints that all CPUs booted
  whatever the count is. Its IDT and timer are not modelled either. Its barrier and tests
  are those of `BarrierWait` and `ParallelTests`, step for step.
* In `OldModular`: the arguments of the callees and the registers they save, which lie on
  the one stack of the APs as well. Before the first overwrite nothing depends on them;
  after it the model shows some of what can happen and not all.
* In the archive: the bodies of `boot_ap`, `barrier_wait` and the tests of steps 4 to 8,
  which `SmpBoot`, `BarrierWait` and `ParallelTests` model from their last form.

## 7. Plan

What is left, in the order of its worth:

1. `ZigSmp`: the boot of the Zig kernel as a variant of `SmpBoot`, with a BSP that waits
   for ever for an IPI that is not delivered.
2. `SmpBoot` composed with `Acpi` through `cpu_apic_ids`: with the ids that
   `AcpiStartsTheOthers` promises, each AP of `SmpBoot` is started once.
3. A `Vmm` whose `PT_VIRT_ADDR` is canonical: `Tree` with a third layer.
