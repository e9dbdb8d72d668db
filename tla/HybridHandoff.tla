----------------------------- MODULE HybridHandoff -----------------------------
(***************************************************************************)
(* The hand-over of hybrid/boot/init.c to the Zig kernel.  The hybrid      *)
(* kernel starts its APs with the code SmpBoot models and has the barrier  *)
(* of BarrierWait.  Its APs run the tests of ap_entry as in the C kernel;  *)
(* its BSP does not: it fills a BootInfo while they come up and calls      *)
(* zig_kernel_main, which tests on the BSP alone.                          *)
(*                                                                         *)
(* An entry of boot_info.cpus is indexed like cpu_apic_ids, the barrier    *)
(* and the counters by the number an AP claimed in ap_entry.               *)
(***************************************************************************)
EXTENDS SmpBoot

VARIABLES
  barrier_count, barrier_sense, my_sense, at, arrived, left, flips,
  filled,  \* how many entries of boot_info.cpus are filled
  online,  \* boot_info.cpus[i].online
  stage    \* whose code the BSP executes: "c", "zig", "halted"

Barrier == INSTANCE BarrierWait WITH Present <- Cpu, Rounds <- 4

barrierVars == <<barrier_count, barrier_sense, my_sense, at, arrived, left, flips>>
handoffVars == <<filled, online, stage>>
hybridVars == <<vars, barrierVars, handoffVars>>

HybridInit ==
  /\ Init
  /\ Barrier!Init
  /\ filled = 0
  /\ online = [i \in Cpu |-> FALSE]
  /\ stage = "c"

--------------------------------------------------------------------------------
\* kernel_main up to the message on the CPUs online, and the APs up to ap_entry
BspBoot == BspStep /\ UNCHANGED <<barrierVars, handoffVars>>
IpiArrives == Deliver /\ UNCHANGED <<barrierVars, handoffVars>>
ApBoot(i) == ApStep(i) /\ UNCHANGED <<barrierVars, handoffVars>>

\* ap_entry: barrier_wait(my_id) after test_parallel_counters, and those after it
ApTests(i) ==
  /\ ap[i] = "online"
  /\ Barrier!Step(my_id[i])
  /\ UNCHANGED <<vars, handoffVars>>

Fill(value) ==
  /\ bsp = "tests" /\ stage = "c" /\ filled < CpuCount
  /\ online' = [online EXCEPT ![filled] = value]
  /\ filled' = filled + 1
  /\ UNCHANGED <<vars, barrierVars, stage>>

\* Faulty variant: the comparison is off by one.
FillAtLeast == Fill(filled = 0 \/ cpus_online >= filled)

\* Faulty variant: the BSP is not counted among cpus_online.
FillWithoutBsp == Fill(filled = 0 \/ cpus_online > filled + 1)

\* boot_info.cpus[i].online = (i == 0 || cpus_online > i);  one iteration, which
\* reads the volatile cpus_online anew
FillEntry == Fill(filled = 0 \/ cpus_online > filled)

\* Faulty variant: the BSP runs the first test with the APs before it leaves C.
CallZigAfterTest ==
  \/ /\ filled = CpuCount /\ stage = "c" /\ left[0] = 0
     /\ Barrier!Step(0)
     /\ UNCHANGED <<vars, handoffVars>>
  \/ /\ filled = CpuCount /\ stage = "c" /\ left[0] = 1
     /\ stage' = "zig"
     /\ UNCHANGED <<vars, barrierVars, filled, online>>

\* zig_kernel_main(&boot_info)
CallZig ==
  /\ filled = CpuCount /\ stage = "c"
  /\ stage' = "zig"
  /\ UNCHANGED <<vars, barrierVars, filled, online>>

\* Faulty variant: zig_kernel_main waits for the APs it reports as online.
ZigKernelWaits ==
  /\ stage = "zig"
  /\ \A c \in Ap : online[c] => left[c] > 0
  /\ stage' = "halted"
  /\ UNCHANGED <<vars, barrierVars, filled, online>>

\* zig_kernel_main: the report of boot_info, the allocator test, run_all on the
\* BSP, which touches neither the barrier nor the counters of the APs; hlt
ZigKernel ==
  /\ stage = "zig"
  /\ stage' = "halted"
  /\ UNCHANGED <<vars, barrierVars, filled, online>>

BspHybrid == BspBoot \/ FillEntry \/ CallZig \/ ZigKernel

\* The BSP has halted; every AP that works spins in barrier_wait or has halted.
AllSettled ==
  /\ stage = "halted" /\ icr = NoIpi
  /\ \A i \in Ap : \/ ap[i] \in {"real_mode", "long_mode", "stacked"} /\ i \in dead
                   \/ ap[i] \in {"parked", "wait_sipi"}
                   \/ ap[i] = "online" /\ ~ ENABLED Barrier!Step(my_id[i])

Settled == AllSettled /\ UNCHANGED hybridVars

HybridNext ==
  \/ BspHybrid
  \/ IpiArrives
  \/ \E i \in Ap \ dead : ApBoot(i) \/ ApTests(i)
  \/ Settled

HybridSpec == HybridInit /\ [][HybridNext]_hybridVars

\* As in SmpBoot and BarrierWait: processors keep executing, IPIs arrive.
FairHybridSpec ==
  /\ HybridSpec
  /\ WF_hybridVars(BspHybrid)
  /\ WF_hybridVars(IpiArrives)
  /\ \A i \in Ap : WF_hybridVars(i \notin dead /\ (ApBoot(i) \/ ApTests(i)))

--------------------------------------------------------------------------------
(* Every variable holds a value it can have, those of the barrier included.  *)
HandoffTypeOK ==
  /\ TypeOK
  /\ Barrier!TypeOK
  /\ filled \in 0 .. CpuCount
  /\ online \in [Cpu -> BOOLEAN]
  /\ stage \in {"c", "zig", "halted"}

(* An entry of BootInfo that says "online" has a CPU executing under its     *)
(* number, whichever APs failed and whatever came up while the entries were  *)
(* filled: as many CPUs run as are reported.                                 *)
EntryHasCpu ==
  \A k \in Ap : online[k] => \E i \in Online : my_id[i] = k

(* When the boot reported success, the Zig kernel is handed no CPU as        *)
(* offline.                                                                  *)
SuccessReported ==
  outcome = "success" /\ stage # "c" => \A k \in Cpu : online[k]

(* "bool online;  True if CPU is running" (hybrid/shared/boot_info.h): the   *)
(* entry's CPU, the one with its APIC id, is running.  It is not always so   *)
(* (README, section 3).                                                      *)
OnlineMeansRunning ==
  \A k \in Ap : online[k] => k \in Online

(* The barrier counts to cpu_count and the BSP never joins it: no AP returns *)
(* from its first barrier_wait, so no result of the later tests of ap_entry  *)
(* ever appears under the Zig kernel.                                        *)
BarrierNeverOpens == flips = 0 /\ \A c \in Cpu : left[c] = 0

(* The hand-over and the Zig kernel end whichever APs fail or stay in the    *)
(* barrier.                                                                  *)
HandoffCompletes == <>[](stage = "halted")
================================================================================
