-------------------------------- MODULE SmpBoot --------------------------------
(***************************************************************************)
(* Starting the application processors in c/kernel/minimal_step9.c: the    *)
(* BSP patches one trampoline that all APs share and sends each AP INIT    *)
(* and two SIPIs (setup_trampoline, boot_ap, boot_all_aps, the check in    *)
(* kernel_main); an AP runs the trampoline of c/boot/trampoline.S, loads   *)
(* the stack pointer it finds there and claims a CPU number (ap_entry).    *)
(*                                                                         *)
(* The BSP never waits for an AP: its delays are counted loops.  An AP for *)
(* which they are long enough has loaded its stack before its boot_ap      *)
(* returns; for a slow one the return of boot_ap says nothing.             *)
(* An AP is named by its index in cpu_apic_ids, the BSP by 0.              *)
(***************************************************************************)
EXTENDS Naturals, FiniteSets

CONSTANTS
  CpuCount,   \* cpu_count, as the MADT gives it
  MayFail,    \* the APs that may turn out to accept IPIs and execute nothing
  MayBeSlow,  \* the APs for which the delays of boot_ap may be too short
  SlowIpi     \* IPIs whose delivery may outlast the polls of apic_wait_icr

Cpu == 0 .. CpuCount - 1
Ap == Cpu \ {0}

ASSUME SmpAssumption ==
  /\ CpuCount \in 1 .. 16            \* MAX_CPUS
  /\ MayFail \subseteq Ap
  /\ MayBeSlow \subseteq Ap
  /\ SlowIpi \subseteq {"init", "deassert", "sipi1", "sipi2"}

VARIABLES
  bsp,          \* where the BSP is in its program
  cpu_idx,      \* the AP boot_ap is called for
  slot,         \* trampoline_stack: the index of the stack it points into, 0 for NULL
  icr,          \* the IPI whose delivery status is still "pending"
  ap,           \* where each AP is
  rsp,          \* the index of the stack an AP runs on
  my_id,        \* the CPU number an AP has claimed
  cpus_online,
  outcome,      \* what kernel_main prints about the CPUs online
  dead,         \* the APs that do not work, fixed from the start
  slow          \* the APs the delays are too short for, fixed from the start

apVars == <<ap, rsp, my_id>>
chance == <<dead, slow>>
vars == <<bsp, cpu_idx, slot, icr, apVars, cpus_online, outcome, chance>>

NoIpi == [kind |-> "none", to |-> 0]

Init ==
  /\ bsp = "setup"
  /\ cpu_idx = 0
  /\ slot = 0
  /\ icr = NoIpi
  /\ ap = [i \in Ap |-> "parked"]
  /\ rsp = [i \in Ap |-> 0]
  /\ my_id = [i \in Ap |-> 0]
  /\ cpus_online = 0
  /\ outcome = "none"
  /\ dead \in SUBSET MayFail
  /\ slow \in SUBSET MayBeSlow

--------------------------------------------------------------------------------
(* The BSP                                                                   *)

\* setup_trampoline copies the trampoline with a NULL stack; boot_all_aps
\* then counts the BSP as online before it starts the first AP.
Setup ==
  /\ bsp = "setup"
  /\ slot' = 0
  /\ cpus_online' = 1
  /\ cpu_idx' = 1
  /\ bsp' = IF CpuCount > 1 THEN "patch" ELSE "check"
  /\ UNCHANGED <<icr, apVars, outcome, chance>>

\* Faulty variant: the first stack is used for every AP.
PatchOnce ==
  /\ bsp = "patch"
  /\ slot' = 1
  /\ bsp' = "init"
  /\ UNCHANGED <<cpu_idx, icr, apVars, cpus_online, outcome, chance>>

\* *stack_ptr = &ap_stacks[cpu_idx][AP_STACK_SIZE]; wbinvd
PatchStack ==
  /\ bsp = "patch"
  /\ slot' = cpu_idx
  /\ bsp' = "init"
  /\ UNCHANGED <<cpu_idx, icr, apVars, cpus_online, outcome, chance>>

\* send_ipi: apic_wait_icr, then the command overwrites the register, whether
\* the last one is delivered or the polls have run out.
SendIpi(kind, then) ==
  /\ bsp = kind
  /\ icr.kind \in SlowIpi \cup {"none"}
  /\ icr' = [kind |-> kind, to |-> cpu_idx]
  /\ bsp' = then
  /\ UNCHANGED <<cpu_idx, slot, apVars, cpus_online, outcome, chance>>

\* Faulty variant: no second SIPI.
OneSipi ==
  \/ SendIpi("init", "deassert")
  \/ SendIpi("deassert", "sipi1")
  \/ SendIpi("sipi1", "settle")

\* INIT, 10 ms, INIT deassert, SIPI, 200 us, SIPI
InitSipiSipi ==
  \/ SendIpi("init", "deassert")
  \/ SendIpi("deassert", "sipi1")
  \/ SendIpi("sipi1", "sipi2")
  \/ SendIpi("sipi2", "settle")

HasStack(i) == ap[i] \in {"stacked", "online"}

\* boot_ap's last apic_wait_icr and delay; the loop of boot_all_aps
NextApBelow(limit) ==
  /\ bsp = "settle"
  /\ icr.kind \in SlowIpi \cup {"none"}
  /\ cpu_idx \in dead \cup slow \/ HasStack(cpu_idx)
  /\ cpu_idx' = cpu_idx + 1
  /\ bsp' = IF cpu_idx' < limit THEN "patch" ELSE "check"
  /\ UNCHANGED <<slot, icr, apVars, outcome, chance>>

\* Faulty variant: the loop goes one CPU too far.
NextApOneMore == NextApBelow(CpuCount + 1) /\ UNCHANGED cpus_online

\* Faulty variant: the BSP counts itself after it has started the APs.
NextApLateCount ==
  /\ NextApBelow(CpuCount)
  /\ cpus_online' = IF bsp' = "patch" THEN cpus_online ELSE 1

NextAp == NextApBelow(CpuCount) /\ UNCHANGED cpus_online

\* Faulty variant: the number of boot_ap calls is reported as the number online.
CountAttempts ==
  /\ bsp = "check"
  /\ outcome' = IF cpu_idx = CpuCount THEN "success" ELSE "warning"
  /\ bsp' = "tests"
  /\ UNCHANGED <<cpu_idx, slot, icr, apVars, cpus_online, chance>>

\* "[SUCCESS] All CPUs booted successfully!" or "[WARNING] Not all CPUs came online"
CheckOnline ==
  /\ bsp = "check"
  /\ outcome' = IF cpus_online = CpuCount THEN "success" ELSE "warning"
  /\ bsp' = "tests"
  /\ UNCHANGED <<cpu_idx, slot, icr, apVars, cpus_online, chance>>

BspStep == Setup \/ PatchStack \/ InitSipiSipi \/ NextAp \/ CheckOnline

--------------------------------------------------------------------------------
(* The interrupt command register and the processors                         *)

\* INIT resets a processor, a SIPI starts it only when it waits for one, the
\* INIT deassert does nothing.
After(kind, state) ==
  IF kind = "init" THEN "wait_sipi"
  ELSE IF kind \in {"sipi1", "sipi2"} /\ state = "wait_sipi" THEN "real_mode"
  ELSE state

\* The pending IPI reaches its target.
Deliver ==
  /\ icr # NoIpi
  /\ icr' = NoIpi
  /\ ap' = [ap EXCEPT ![icr.to] = After(icr.kind, @)]
  /\ UNCHANGED <<bsp, cpu_idx, slot, rsp, my_id, cpus_online, outcome, chance>>

\* The trampoline up to lm_start: protected mode, CR3, long mode
EnterLongMode(i) ==
  /\ ap[i] = "real_mode"
  /\ ap' = [ap EXCEPT ![i] = "long_mode"]
  /\ UNCHANGED <<bsp, cpu_idx, slot, icr, rsp, my_id, cpus_online, outcome, chance>>

\* movq trampoline_stack, %rsp; call *trampoline_entry
LoadStack(i) ==
  /\ ap[i] = "long_mode"
  /\ rsp' = [rsp EXCEPT ![i] = slot]
  /\ ap' = [ap EXCEPT ![i] = "stacked"]
  /\ UNCHANGED <<bsp, cpu_idx, slot, icr, my_id, cpus_online, outcome, chance>>

\* my_id = __atomic_fetch_add(&cpus_online, 1)
ClaimId(i) ==
  /\ ap[i] = "stacked"
  /\ my_id' = [my_id EXCEPT ![i] = cpus_online]
  /\ cpus_online' = cpus_online + 1
  /\ ap' = [ap EXCEPT ![i] = "online"]
  /\ UNCHANGED <<bsp, cpu_idx, slot, icr, rsp, outcome, chance>>

ApStep(i) == EnterLongMode(i) \/ LoadStack(i) \/ ClaimId(i)

\* Boot is over: every AP that works is in ap_entry, the BSP goes on to the tests.
Booted ==
  /\ bsp = "tests" /\ icr = NoIpi
  /\ \A i \in Ap : ap[i] \in {"real_mode", "long_mode", "stacked"} => i \in dead
  /\ UNCHANGED vars

Next == BspStep \/ Deliver \/ (\E i \in Ap \ dead : ApStep(i)) \/ Booted

Spec == Init /\ [][Next]_vars

\* The BSP and the working APs keep executing, and a command in the register is
\* delivered unless the BSP overwrites it first.
FairSpec ==
  /\ Spec
  /\ WF_vars(BspStep)
  /\ WF_vars(Deliver)
  /\ \A i \in Ap : WF_vars(i \notin dead /\ ApStep(i))

--------------------------------------------------------------------------------
(* Every variable holds a value it can have; no index leaves its array.      *)
TypeOK ==
  /\ bsp \in {"setup", "patch", "init", "deassert", "sipi1", "sipi2", "settle",
              "check", "tests"}
  /\ cpu_idx \in 0 .. CpuCount
  /\ slot \in Cpu
  /\ icr \in [kind : {"none", "init", "deassert", "sipi1", "sipi2"}, to : Cpu]
  /\ ap \in [Ap -> {"parked", "wait_sipi", "real_mode", "long_mode", "stacked", "online"}]
  /\ rsp \in [Ap -> Cpu]
  /\ my_id \in [Ap -> Cpu]
  /\ cpus_online \in 0 .. CpuCount
  /\ outcome \in {"none", "success", "warning"}
  /\ dead \subseteq MayFail /\ slow \subseteq MayBeSlow

Online == {i \in Ap : ap[i] = "online"}

(* The numbers that index per_cpu_counters and partial_sums are the CPUs'    *)
(* own: no two CPUs have the same, none has the BSP's 0, and with k APs      *)
(* online they are 1 .. k, whatever the order the APs come up in.            *)
IdsDistinct ==
  /\ \A i, j \in Online : my_id[i] = my_id[j] => i = j
  /\ {my_id[i] : i \in Online} = 1 .. Cardinality(Online)
  /\ bsp # "setup" => cpus_online = Cardinality(Online) + 1

(* The single stack slot is enough for an AP the delays suffice for, and for *)
(* the last AP however slow it is: it runs on the stack the BSP meant for it. *)
OwnStackInTime ==
  \A i \in Ap : HasStack(i) =>
    /\ rsp[i] >= i
    /\ i \notin slow \/ i = CpuCount - 1 => rsp[i] = i

(* "chaque core dispose de sa propre stack": no two APs run on one stack,    *)
(* and none runs on an unpatched NULL one.  A late AP breaks it (README,     *)
(* section 3).                                                               *)
StacksPrivate ==
  \A i \in Ap : HasStack(i) =>
    /\ rsp[i] # 0
    /\ \A j \in Ap \ {i} : HasStack(j) => rsp[i] # rsp[j]

(* "[SUCCESS] All CPUs booted successfully!" is printed only when every CPU  *)
(* of the MADT is executing kernel code.                                     *)
SuccessMeansAll == outcome = "success" => Online = Ap

(* When boot_all_aps returns, every AP that works is at least in the         *)
(* trampoline, slow or not: none waits for a SIPI that was overwritten in    *)
(* the command register or came before its INIT.                             *)
NoneLost ==
  bsp \in {"check", "tests"} => \A i \in Ap \ dead : ap[i] \notin {"parked", "wait_sipi"}

(* A boot that has come to rest has all working APs online, and the BSP and  *)
(* they are what cpus_online counts.                                         *)
RestMeansOnline ==
  bsp = "tests" /\ (\A i \in Ap \ dead : ap[i] \notin {"real_mode", "long_mode", "stacked"}) =>
    Online = Ap \ dead /\ cpus_online = CpuCount - Cardinality(dead)

(* Every AP that works comes online, though the first SIPI may be lost to a  *)
(* command register that stays busy; the boot ends whatever the APs do.      *)
WorkingApsComeOnline ==
  /\ \A i \in Ap : <>[](i \in dead \/ ap[i] = "online")
  /\ <>(bsp = "tests")
================================================================================
