---------------------------------- MODULE Acpi ----------------------------------
(***************************************************************************)
(* Finding the processors: from the tables the firmware left in memory to  *)
(* the APIC ids that are sent startup IPIs.  Every kernel of the           *)
(* repository has its own copy of this code (acpi_find_rsdp,               *)
(* acpi_find_madt, acpi_parse_madt and the loop over cpu_apic_ids).  The   *)
(* copies differ in a few decisions; a record per kernel names them and    *)
(* one state machine runs any of them:                                     *)
(*   rsdpSum  the 20 bytes of an RSDP must sum to 0                        *)
(*   ebda     the extended BIOS data area is searched first                *)
(*   wide     a revision 2 RSDP leads to the XSDT, if it has one           *)
(*   rootSum  the RSDT or XSDT must sum to 0                               *)
(*   full     what the MADT loop does when the table of ids is full        *)
(*   starts   how the BSP is left out when the others are started          *)
(*                                                                         *)
(* A firmware is a record of                                               *)
(*   ebda, bios  the RSDPs in these areas, in the order of their addresses *)
(*   madt        the MADT's entries: kind, size in bytes, enabled, APIC id *)
(*   bsp         the APIC id of the processor that boots                   *)
(* An RSDP has [sum, wide, rsdt, xsdt], a root table [sum, tables]; all    *)
(* tables lie below 4 GB and an entry's size is the true one or 0.         *)
(***************************************************************************)
EXTENDS Naturals, Sequences, SequencesExt

CONSTANTS
  MaxCpus,     \* the length of cpu_apic_ids
  CountBound,  \* where the model stops counting an entry that repeats for ever
  Kernels,     \* the kernels looked at
  Firmwares    \* the firmwares looked at

VARIABLES
  fw, kernel,  \* the machine, fixed from the start
  pc,          \* where the kernel is
  rsdp,        \* the RSDP found
  ptr,         \* the MADT entry looked at
  cpu_count,
  cpu_apic_ids,
  cpu_idx,     \* the loop over the processors to start
  started      \* the APIC ids startup IPIs were sent to

machine == <<fw, kernel>>
acpiVars == <<machine, pc, rsdp, ptr, cpu_count, cpu_apic_ids, cpu_idx, started>>

--------------------------------------------------------------------------------
(* The kernels                                                               *)

\* Step 1 only counts the enabled processors.
MinimalAcpi == [rsdpSum |-> TRUE, ebda |-> FALSE, wide |-> TRUE, rootSum |-> TRUE,
                full |-> "no_table", starts |-> "none"]
Step2 == MinimalAcpi
Step3 == MinimalAcpi

\* From step 4 on the ids of the first MAX_CPUS are kept and all of them are
\* counted; the processor at index 0 is taken for the BSP.
Step4 == [MinimalAcpi EXCEPT !.full = "counts_on", !.starts = "from_1"]
Step5 == Step4
Step6 == Step4
Step7 == Step4
Step8 == Step4
CKernel == Step4
HybridKernel == Step4

\* Any RSDP will do, the XSDT is never used, nothing is summed; a processor
\* that finds no room is not counted.
ZigKernel == [rsdpSum |-> FALSE, ebda |-> TRUE, wide |-> FALSE, rootSum |-> FALSE,
              full |-> "skips", starts |-> "from_1"]

\* The loop over the MADT ends when the table is full; the BSP is known by
\* its own APIC id.
ModularKernel == [MinimalAcpi EXCEPT !.full = "stops", !.starts = "others"]

AllKernels == {MinimalAcpi, Step2, Step3, Step4, Step5, Step6, Step7, Step8, CKernel,
               HybridKernel, ZigKernel, ModularKernel}

ASSUME AcpiAssumption ==
  /\ MaxCpus \in Nat \ {0} /\ CountBound \in Nat /\ CountBound > MaxCpus
  /\ Kernels \subseteq AllKernels
  /\ \A f \in Firmwares : /\ f.ebda \in Seq(ToSet(f.ebda)) /\ f.bios \in Seq(ToSet(f.bios))
                          /\ f.madt \in Seq(ToSet(f.madt))

--------------------------------------------------------------------------------
NoTable == [sum |-> FALSE, tables |-> <<>>]

AcpiInit ==
  /\ fw \in Firmwares
  /\ kernel \in Kernels
  /\ pc = "rsdp"
  /\ rsdp = [sum |-> FALSE]
  /\ ptr = 1
  /\ cpu_count = 0
  /\ cpu_apic_ids = <<>>
  /\ cpu_idx = 0
  /\ started = <<>>

Areas == (IF kernel.ebda THEN fw.ebda ELSE <<>>) \o fw.bios

\* Faulty variant: the search ends at the first signature, whatever its sum.
AcceptedFirst == {i \in DOMAIN Areas : i = 1 /\ Areas[1].sum}

(* acpi_find_rsdp: where the kernel sees an RSDP that it accepts; the first  *)
(* one ends its search                                                       *)
Accepted == {i \in DOMAIN Areas : Areas[i].sum \/ ~kernel.rsdpSum}

FindRsdp ==
  /\ pc = "rsdp"
  /\ IF Accepted = {}
     THEN pc' = "failed" /\ UNCHANGED rsdp
     ELSE pc' = "root" /\ rsdp' = Areas[Min(Accepted)]
  /\ UNCHANGED <<machine, ptr, cpu_count, cpu_apic_ids, cpu_idx, started>>

\* What the 4-byte words behind a root table's header point to.  An entry of the
\* XSDT has 8 bytes: its upper half, 0 below 4 GB, is taken for a table at address 0.
Words(root, isXsdt) ==
  ToSet(root.tables) \cup IF isXsdt /\ root.tables # <<>> THEN {"address_0"} ELSE {}

\* xsdt_address is 0 in an RSDP without an XSDT
UsesXsdt == kernel.wide /\ rsdp.rev2 /\ rsdp.xsdt # NoTable

(* acpi_find_madt                                                            *)
FindMadt ==
  LET root == IF UsesXsdt THEN rsdp.xsdt ELSE rsdp.rsdt
  IN /\ pc = "root"
     /\ pc' = IF /\ root.sum \/ ~kernel.rootSum
                 /\ "APIC" \in Words(root, UsesXsdt)
              THEN "parse" ELSE "failed"
     /\ UNCHANGED <<machine, rsdp, ptr, cpu_count, cpu_apic_ids, cpu_idx, started>>

Full == cpu_count >= MaxCpus

MoreEntries == ptr <= Len(fw.madt) /\ ~(kernel.full = "stops" /\ Full)

\* Faulty variant: only an entry of a processor moves on.
StuckAtOthers(e) == IF e.kind # "lapic" THEN ptr ELSE ptr + 1

\* ptr += length
NextPtr(e) == IF e.size = 0 THEN ptr ELSE ptr + 1

(* acpi_parse_madt, one turn of its loop                                     *)
ParseEntry ==
  /\ pc = "parse" /\ MoreEntries
  /\ LET e == fw.madt[ptr]
     IN /\ IF e.kind = "lapic" /\ e.enabled /\ ~(kernel.full = "skips" /\ Full)
           THEN /\ cpu_count' = IF cpu_count = CountBound THEN cpu_count ELSE cpu_count + 1
                /\ cpu_apic_ids' = IF kernel.full = "no_table" \/ Full THEN cpu_apic_ids
                                   ELSE Append(cpu_apic_ids, e.id)
           ELSE UNCHANGED <<cpu_count, cpu_apic_ids>>
        /\ ptr' = NextPtr(e)
  /\ UNCHANGED <<machine, pc, rsdp, cpu_idx, started>>

\* Faulty variant: every processor is started, the BSP too.
StartFromZero ==
  /\ pc = "parse" /\ ~MoreEntries
  /\ pc' = IF kernel.starts = "none" THEN "done" ELSE "start"
  /\ cpu_idx' = 0
  /\ UNCHANGED <<machine, rsdp, ptr, cpu_count, cpu_apic_ids, started>>

ParseEnd ==
  /\ pc = "parse" /\ ~MoreEntries
  /\ pc' = IF kernel.starts = "none" THEN "done" ELSE "start"
  /\ cpu_idx' = IF kernel.starts = "from_1" THEN 1 ELSE 0
  /\ UNCHANGED <<machine, rsdp, ptr, cpu_count, cpu_apic_ids, started>>

(* The loop of boot_all_aps.  An id behind the end of cpu_apic_ids is        *)
(* whatever lies there.                                                      *)
StartNext ==
  /\ pc = "start" /\ cpu_idx < cpu_count
  /\ \E id \in IF cpu_idx < Len(cpu_apic_ids) THEN {cpu_apic_ids[cpu_idx + 1]}
                                              ELSE {fw.bsp, "stray"} :
       started' = IF kernel.starts = "others" /\ id = fw.bsp THEN started
                  ELSE Append(started, id)
  /\ cpu_idx' = cpu_idx + 1
  /\ UNCHANGED <<machine, pc, rsdp, ptr, cpu_count, cpu_apic_ids>>

StartEnd ==
  /\ pc = "start" /\ cpu_idx >= cpu_count
  /\ pc' = "done"
  /\ UNCHANGED <<machine, rsdp, ptr, cpu_count, cpu_apic_ids, cpu_idx, started>>

Halted == pc \in {"done", "failed"} /\ UNCHANGED acpiVars

AcpiNext == FindRsdp \/ FindMadt \/ ParseEntry \/ ParseEnd \/ StartNext \/ StartEnd \/ Halted

AcpiSpec == AcpiInit /\ [][AcpiNext]_acpiVars /\ WF_acpiVars(AcpiNext)

--------------------------------------------------------------------------------
(* Properties                                                                *)

\* The elements of a sequence that are in a set, in their order
Only(s, S) ==
  LET kept[n \in 0 .. Len(s)] ==
        IF n = 0 THEN <<>>
        ELSE IF s[n] \in S THEN Append(kept[n - 1], s[n]) ELSE kept[n - 1]
  IN  kept[Len(s)]

\* What a reader of the ACPI specification takes from the tables.
Enabled == Only(fw.madt, {e \in ToSet(fw.madt) : e.kind = "lapic" /\ e.enabled})
EnabledIds == [i \in DOMAIN Enabled |-> Enabled[i].id]
WellFormed == \A i \in DOMAIN fw.madt : fw.madt[i].size > 0
ValidRsdps == {i \in DOMAIN fw.bios : fw.bios[i].sum}
TrueRoot(r) == IF r.rev2 /\ r.xsdt # NoTable THEN r.xsdt ELSE r.rsdt

(* A machine whose first RSDP with a right checksum leads to a MADT is never *)
(* given up: the search passes the broken copies by, and reading the XSDT    *)
(* in halves of entries misses nothing.  The Zig kernel, which sums nothing  *)
(* and knows the RSDT only, needs a machine without broken copies.           *)
MadtFound ==
  (pc = "failed" /\ ValidRsdps # {}) =>
    LET r == fw.bios[Min(ValidRsdps)]
    IN \/ ~TrueRoot(r).sum \/ "APIC" \notin ToSet(TrueRoot(r).tables)
       \/ ~kernel.rsdpSum /\ \/ fw.bios[1] # r \/ fw.ebda # <<>>
                             \/ "APIC" \notin ToSet(r.rsdt.tables)

\* A reader who leaves out entry 1 leaves out the BSP and nobody else.
BspIsFirst ==
  EnabledIds # <<>> /\ \A i \in DOMAIN EnabledIds : EnabledIds[i] = fw.bsp <=> i = 1

(* With a BSP that is the first enabled processor of the MADT and listed     *)
(* once, or a kernel that knows the BSP by its id, startup IPIs go to every  *)
(* other enabled processor, in the table's order, once: never to the BSP     *)
(* itself, which would reset, and never to a disabled one.  Above MAX_CPUS   *)
(* processors this fails for the kernels that count on (boot_ap then reads   *)
(* behind the end of cpu_apic_ids), so that case is left out for them.       *)
StartsTheOthers ==
  (/\ pc = "done" /\ kernel.starts # "none" /\ WellFormed
   /\ kernel.starts = "others" \/ BspIsFirst
   /\ kernel.full = "counts_on" => Len(EnabledIds) <= MaxCpus)
  => LET first == SubSeq(EnabledIds, 1, IF Len(EnabledIds) < MaxCpus THEN Len(EnabledIds)
                                        ELSE MaxCpus)
     IN started = Only(first, ToSet(first) \ {fw.bsp})

(* The loop over the MADT ends unless an entry has length 0: then ptr stays  *)
(* where it is.                                                              *)
DiscoveryEnds == WellFormed ~> pc \in {"done", "failed"}
================================================================================
