----------------------------- MODULE SmpBootProofs -----------------------------
(***************************************************************************)
(* Proofs about SmpBoot for any number of CPUs, any APs dead or slow and   *)
(* any IPIs that may outlast the polls of apic_wait_icr: the CPU numbers,  *)
(* the stacks and the verdict of the boot.  Then about HybridHandoff: the  *)
(* hybrid kernel boots as SmpBoot says, BootInfo reports no more CPUs than *)
(* run, and its barrier never opens.                                       *)
(***************************************************************************)
EXTENDS HybridHandoff, FiniteSetTheorems, TLAPS

B == INSTANCE BarrierWaitProofs WITH Present <- Cpu, Rounds <- 4

Loop == {"patch", "init", "deassert", "sipi1", "sipi2", "settle"}
Over == {"check", "tests"}

\* Where the BSP is says what the trampoline's slot holds.
PhaseInv ==
  /\ bsp = "setup" => cpu_idx = 0 /\ cpus_online = 0 /\ icr = NoIpi
  /\ bsp \in Loop => cpu_idx \in Ap /\ slot = IF bsp = "patch" THEN cpu_idx - 1 ELSE cpu_idx
  /\ bsp \in Over => cpu_idx = CpuCount /\ slot = CpuCount - 1

\* An INIT is pending only while boot_ap waits for it; a SIPI may outlive the
\* boot_ap that sent it.
IcrInv ==
  /\ icr.kind = "none" => icr = NoIpi
  /\ icr.kind # "none" => icr.to \in Ap
  /\ icr.kind = "init" => bsp = "deassert" /\ icr.to = cpu_idx
  /\ icr.kind \in {"sipi1", "sipi2"} =>
       icr.to < cpu_idx \/ (icr.to = cpu_idx /\ bsp \in {"sipi2", "settle"})

\* No AP is ahead of the BSP, and none of those that work in time is behind.
ApInv ==
  \A i \in Ap :
    /\ i > cpu_idx => ap[i] = "parked"
    /\ i = cpu_idx /\ bsp \in {"patch", "init"} => ap[i] = "parked"
    /\ i = cpu_idx /\ bsp \in {"deassert", "sipi1"} => ap[i] \in {"parked", "wait_sipi"}
    /\ i < cpu_idx => i \in dead \cup slow \/ HasStack(i)
    /\ HasStack(i) => i \notin dead

BootInv ==
  PhaseInv /\ IcrInv /\ ApInv /\ OwnStackInTime /\ IdsDistinct /\ SuccessMeansAll

--------------------------------------------------------------------------------
(* There are cpu_count - 1 APs, and the APs online are a finite set that is  *)
(* all of them when it has as many members.                                  *)
LEMMA OnlineFinite ==
  /\ IsFiniteSet(Online)
  /\ Cardinality(Online) \in Nat
  /\ Cardinality(Online) <= CpuCount - 1
  /\ Cardinality(Online) = CpuCount - 1 => Online = Ap
<1>1. Ap = 1 .. CpuCount - 1
  BY SmpAssumption DEF Ap, Cpu
<1>2. IsFiniteSet(Ap) /\ Cardinality(Ap) = CpuCount - 1
  BY <1>1, SmpAssumption, FS_Interval
<1>3. Online \in SUBSET Ap
  BY DEF Online
<1>4. /\ IsFiniteSet(Online)
      /\ Cardinality(Online) <= CpuCount - 1
      /\ Cardinality(Online) = CpuCount - 1 => Online = Ap
  BY <1>2, <1>3, FS_Subset
<1>5. Cardinality(Online) \in Nat
  BY <1>4, FS_CardinalityType
<1> QED BY <1>4, <1>5

(* Before setup_trampoline nothing has been sent and no AP runs.             *)
LEMMA InitInv == Init => TypeOK /\ BootInv
<1> SUFFICES ASSUME Init PROVE TypeOK /\ BootInv
  OBVIOUS
<1> USE SmpAssumption DEF Init, NoIpi, Cpu, Ap
<1>1. TypeOK
  BY DEF TypeOK
<1>2. PhaseInv /\ IcrInv
  BY DEF PhaseInv, IcrInv, Loop, Over
<1>3. Online = {}
  BY DEF Online
<1>4. ApInv /\ OwnStackInTime
  BY DEF ApInv, OwnStackInTime, HasStack
<1>5. IdsDistinct
  <2>1. Cardinality(Online) = 0
    BY <1>3, FS_EmptySet
  <2> QED BY <1>3, <2>1 DEF IdsDistinct
<1>6. SuccessMeansAll
  BY DEF SuccessMeansAll
<1> QED BY <1>1, <1>2, <1>4, <1>5, <1>6 DEF BootInv

(* A step of the BSP that leaves the APs and cpus_online alone keeps what is *)
(* said of them.                                                             *)
LEMMA ApsUntouched ==
  ASSUME UNCHANGED <<ap, rsp, my_id, dead, slow>>
  PROVE  /\ Online' = Online
         /\ \A i : HasStack(i)' = HasStack(i)
         /\ OwnStackInTime' = OwnStackInTime
BY DEF Online, HasStack, OwnStackInTime

(* setup_trampoline, and the BSP counting itself in boot_all_aps.            *)
LEMMA SetupInv ==
  ASSUME TypeOK, BootInv, Setup
  PROVE  TypeOK' /\ BootInv'
<1> USE SmpAssumption DEF Setup, apVars, chance
<1>1. /\ cpu_idx = 0 /\ cpus_online = 0 /\ icr = NoIpi
      /\ \A i \in Ap : ap[i] = "parked"
  BY DEF BootInv, PhaseInv, ApInv, TypeOK, Ap, Cpu
<1>2. TypeOK'
  BY DEF TypeOK, Cpu
<1>3. PhaseInv' /\ IcrInv'
  BY <1>1 DEF PhaseInv, IcrInv, Loop, Over, NoIpi, Ap, Cpu
<1>4. Online = {}
  BY <1>1 DEF Online
<1>5. ApInv'
  BY <1>1 DEF ApInv, HasStack, Ap, Cpu
<1>6. OwnStackInTime' /\ Online' = Online
  BY ApsUntouched DEF BootInv
<1>7. IdsDistinct'
  <2>1. Cardinality(Online') = 0
    BY <1>4, <1>6, FS_EmptySet
  <2> QED BY <1>4, <1>6, <2>1 DEF IdsDistinct
<1>8. SuccessMeansAll'
  BY <1>6 DEF BootInv, SuccessMeansAll
<1> QED BY <1>2, <1>3, <1>5, <1>6, <1>7, <1>8 DEF BootInv

(* boot_ap patches the stack slot for the AP it is about to start.           *)
LEMMA PatchStackInv ==
  ASSUME TypeOK, BootInv, PatchStack
  PROVE  TypeOK' /\ BootInv'
<1> USE SmpAssumption DEF PatchStack, apVars, chance
<1>1. cpu_idx \in Ap
  BY DEF BootInv, PhaseInv, Loop
<1>2. TypeOK'
  BY <1>1 DEF TypeOK, Ap
<1>3. PhaseInv' /\ IcrInv'
  BY <1>1 DEF BootInv, PhaseInv, IcrInv, Loop, Over
<1>4. ApInv'
  BY DEF BootInv, ApInv, HasStack
<1>5. OwnStackInTime' /\ Online' = Online
  BY ApsUntouched DEF BootInv
<1>6. IdsDistinct' /\ SuccessMeansAll'
  BY <1>5 DEF BootInv, IdsDistinct, SuccessMeansAll
<1> QED BY <1>2, <1>3, <1>4, <1>5, <1>6 DEF BootInv

(* One IPI of boot_ap, which may overwrite one that is still pending.        *)
LEMMA SendIpiInv ==
  ASSUME TypeOK, BootInv,
         NEW kind, NEW then,
         <<kind, then>> \in {<<"init", "deassert">>, <<"deassert", "sipi1">>,
                            <<"sipi1", "sipi2">>, <<"sipi2", "settle">>},
         SendIpi(kind, then)
  PROVE  TypeOK' /\ BootInv'
<1> USE SmpAssumption DEF SendIpi, apVars, chance
<1>1. cpu_idx \in Ap
  BY DEF BootInv, PhaseInv, Loop
<1>2. TypeOK'
  BY <1>1 DEF TypeOK, Ap
<1>3. PhaseInv'
  BY <1>1 DEF BootInv, PhaseInv, Loop, Over
<1>4. IcrInv'
  BY <1>1 DEF IcrInv
<1>5. ApInv'
  BY DEF BootInv, ApInv, HasStack
<1>6. OwnStackInTime' /\ Online' = Online
  BY ApsUntouched DEF BootInv
<1>7. IdsDistinct' /\ SuccessMeansAll'
  BY <1>6 DEF BootInv, IdsDistinct, SuccessMeansAll
<1> QED BY <1>2, <1>3, <1>4, <1>5, <1>6, <1>7 DEF BootInv

(* boot_all_aps goes on to the next AP; one that works in time has its stack. *)
LEMMA NextApInv ==
  ASSUME TypeOK, BootInv, NextAp
  PROVE  TypeOK' /\ BootInv'
<1> USE SmpAssumption DEF NextAp, NextApBelow, apVars, chance
<1>1. cpu_idx \in Ap /\ slot = cpu_idx
  BY DEF BootInv, PhaseInv, Loop
<1>2. TypeOK'
  BY <1>1 DEF TypeOK, Ap, Cpu
<1>3. PhaseInv'
  BY <1>1 DEF PhaseInv, Loop, Over, Ap, Cpu
<1>4. IcrInv'
  BY <1>1 DEF BootInv, IcrInv, Ap, Cpu, TypeOK
<1>5. ApInv'
  BY <1>1 DEF BootInv, ApInv, HasStack, Ap, Cpu
<1>6. OwnStackInTime' /\ Online' = Online
  BY ApsUntouched DEF BootInv
<1>7. IdsDistinct' /\ SuccessMeansAll'
  BY <1>6 DEF BootInv, IdsDistinct, SuccessMeansAll
<1> QED BY <1>2, <1>3, <1>4, <1>5, <1>6, <1>7 DEF BootInv

(* kernel_main compares cpus_online with cpu_count: it counts the APs online *)
(* and the BSP, so equality leaves no AP out.                                *)
LEMMA CheckOnlineInv ==
  ASSUME TypeOK, BootInv, CheckOnline
  PROVE  TypeOK' /\ BootInv'
<1> USE SmpAssumption DEF CheckOnline, apVars, chance
<1>1. TypeOK'
  BY DEF TypeOK
<1>2. PhaseInv' /\ IcrInv'
  BY DEF BootInv, PhaseInv, IcrInv, Loop, Over, Ap, Cpu
<1>3. ApInv'
  BY DEF BootInv, ApInv, HasStack, Ap, Cpu
<1>4. OwnStackInTime' /\ Online' = Online
  BY ApsUntouched DEF BootInv
<1>5. IdsDistinct'
  BY <1>4 DEF BootInv, IdsDistinct
<1>6. SuccessMeansAll'
  <2>1. cpus_online = Cardinality(Online) + 1
    BY DEF BootInv, IdsDistinct
  <2>2. outcome' = "success" => Online = Ap
    BY <2>1, OnlineFinite
  <2> QED BY <2>2, <1>4 DEF SuccessMeansAll
<1> QED BY <1>1, <1>2, <1>3, <1>4, <1>5, <1>6 DEF BootInv

(* Delivery of an IPI neither stops an AP that runs nor gives one a stack:   *)
(* an INIT finds its AP parked, a SIPI only ends the wait for one.           *)
LEMMA DeliverEffect ==
  ASSUME TypeOK, BootInv, Deliver
  PROVE  /\ ap' \in [Ap -> {"parked", "wait_sipi", "real_mode", "long_mode", "stacked", "online"}]
         /\ \A i \in Ap : \/ ap'[i] = ap[i]
                          \/ /\ icr.kind = "init" /\ i = cpu_idx /\ bsp = "deassert"
                             /\ ap[i] \in {"parked", "wait_sipi"} /\ ap'[i] = "wait_sipi"
                          \/ /\ icr.kind \in {"sipi1", "sipi2"} /\ i = icr.to
                             /\ ap[i] = "wait_sipi" /\ ap'[i] = "real_mode"
<1> USE SmpAssumption DEF Deliver, After
<1>1. icr.kind # "none" /\ icr.to \in Ap
  BY DEF BootInv, IcrInv
<1>2. icr.kind = "init" => /\ bsp = "deassert" /\ icr.to = cpu_idx
                          /\ ap[icr.to] \in {"parked", "wait_sipi"}
  BY <1>1 DEF BootInv, IcrInv, ApInv
<1>3. CASE icr.kind = "init"
  BY <1>3, <1>1, <1>2 DEF TypeOK
<1>4. CASE icr.kind \in {"sipi1", "sipi2"} /\ ap[icr.to] = "wait_sipi"
  BY <1>4, <1>1 DEF TypeOK
<1>5. CASE icr.kind # "init" /\ ~(icr.kind \in {"sipi1", "sipi2"} /\ ap[icr.to] = "wait_sipi")
  <2>1. ap' = ap
    BY <1>5, <1>1 DEF TypeOK
  <2> QED BY <2>1 DEF TypeOK
<1> QED BY <1>3, <1>4, <1>5

(* The arrival of an IPI keeps the invariant.                                *)
LEMMA DeliverInv ==
  ASSUME TypeOK, BootInv, Deliver
  PROVE  TypeOK' /\ BootInv'
<1> USE SmpAssumption DEF Deliver
<1>1. /\ ap' \in [Ap -> {"parked", "wait_sipi", "real_mode", "long_mode", "stacked", "online"}]
      /\ \A i \in Ap : \/ ap'[i] = ap[i]
                       \/ /\ icr.kind = "init" /\ i = cpu_idx /\ bsp = "deassert"
                          /\ ap[i] \in {"parked", "wait_sipi"} /\ ap'[i] = "wait_sipi"
                       \/ /\ icr.kind \in {"sipi1", "sipi2"} /\ i = icr.to
                          /\ ap[i] = "wait_sipi" /\ ap'[i] = "real_mode"
  BY DeliverEffect
<1>2. \A i \in Ap : HasStack(i)' <=> HasStack(i)
  BY <1>1 DEF HasStack
<1>3. Online' = Online
  BY <1>1 DEF Online
<1>4. TypeOK'
  BY <1>1 DEF TypeOK, NoIpi, Cpu, chance
<1>5. PhaseInv' /\ IcrInv'
  BY DEF BootInv, PhaseInv, IcrInv, NoIpi
<1>6. ApInv'
  <2> SUFFICES ASSUME NEW i \in Ap
               PROVE  /\ i > cpu_idx => ap'[i] = "parked"
                      /\ i = cpu_idx /\ bsp \in {"patch", "init"} => ap'[i] = "parked"
                      /\ i = cpu_idx /\ bsp \in {"deassert", "sipi1"} =>
                           ap'[i] \in {"parked", "wait_sipi"}
                      /\ i < cpu_idx => i \in dead \cup slow \/ HasStack(i)
                      /\ HasStack(i) => i \notin dead
    BY <1>2 DEF ApInv, chance, HasStack
  <2>1. icr.kind \in {"sipi1", "sipi2"} =>
          icr.to < cpu_idx \/ (icr.to = cpu_idx /\ bsp \in {"sipi2", "settle"})
    BY DEF BootInv, IcrInv
  <2>2. cpu_idx \in Nat /\ i \in Nat
    BY DEF TypeOK, Ap, Cpu
  <2> QED BY <1>1, <2>1, <2>2 DEF BootInv, ApInv
<1>7. OwnStackInTime'
  BY <1>2 DEF BootInv, OwnStackInTime, chance
<1>8. IdsDistinct' /\ SuccessMeansAll'
  BY <1>3 DEF BootInv, IdsDistinct, SuccessMeansAll
<1> QED BY <1>4, <1>5, <1>6, <1>7, <1>8 DEF BootInv

(* An AP on its way through the trampoline has no stack yet.                 *)
LEMMA EnterLongModeInv ==
  ASSUME TypeOK, BootInv, NEW i \in Ap \ dead, EnterLongMode(i)
  PROVE  TypeOK' /\ BootInv'
<1> USE SmpAssumption DEF EnterLongMode, chance
<1>1. /\ ap[i] = "real_mode" /\ ap'[i] = "long_mode"
      /\ \A j \in Ap \ {i} : ap'[j] = ap[j]
      /\ \A j \in Ap : HasStack(j)' <=> HasStack(j)
  BY DEF TypeOK, HasStack
<1>2. TypeOK'
  BY DEF TypeOK
<1>3. PhaseInv' /\ IcrInv'
  BY DEF BootInv, PhaseInv, IcrInv, NoIpi
<1>4. ApInv'
  <2>1. i <= cpu_idx /\ (i = cpu_idx => bsp \notin {"patch", "init", "deassert", "sipi1"})
    BY <1>1 DEF BootInv, ApInv, TypeOK, Ap, Cpu
  <2> QED BY <1>1, <2>1 DEF BootInv, ApInv, TypeOK, Ap, Cpu
<1>5. OwnStackInTime'
  BY <1>1 DEF BootInv, OwnStackInTime
<1>6. Online' = Online
  BY <1>1 DEF Online
<1>7. IdsDistinct' /\ SuccessMeansAll'
  BY <1>6 DEF BootInv, IdsDistinct, SuccessMeansAll
<1> QED BY <1>2, <1>3, <1>4, <1>5, <1>7 DEF BootInv

(* An AP loads its stack no earlier than the BSP has patched the slot for it, *)
(* and while boot_ap still waits for it unless it is slow.                   *)
LEMMA LoadStackInv ==
  ASSUME TypeOK, BootInv, NEW i \in Ap \ dead, LoadStack(i)
  PROVE  TypeOK' /\ BootInv'
<1> USE SmpAssumption DEF LoadStack, chance
<1>1. /\ ap[i] = "long_mode" /\ ap'[i] = "stacked"
      /\ \A j \in Ap \ {i} : ap'[j] = ap[j] /\ rsp'[j] = rsp[j]
      /\ rsp'[i] = slot
  BY DEF TypeOK
<1>2. TypeOK'
  BY DEF TypeOK
<1>3. PhaseInv' /\ IcrInv'
  BY DEF BootInv, PhaseInv, IcrInv, NoIpi
<1>4. i <= cpu_idx /\ (i = cpu_idx => bsp \notin {"patch", "init", "deassert", "sipi1"})
  BY <1>1 DEF BootInv, ApInv, TypeOK, Ap, Cpu
<1>5. ApInv'
  BY <1>1, <1>4 DEF BootInv, ApInv, HasStack, TypeOK, Ap, Cpu
<1>6. slot >= i /\ (i \notin slow \/ i = CpuCount - 1 => slot = i)
  <2>1. i < cpu_idx => i \in slow
    BY <1>1 DEF BootInv, ApInv, HasStack
  <2>2. CASE bsp = "setup"
    BY <1>4, <2>2 DEF BootInv, PhaseInv, Ap, Cpu
  <2>3. CASE bsp \in Loop
    BY <1>4, <2>1, <2>3 DEF BootInv, PhaseInv, Loop, Ap, Cpu
  <2>4. CASE bsp \in Over
    BY <1>4, <2>1, <2>4 DEF BootInv, PhaseInv, Over, Ap, Cpu
  <2> QED BY <2>2, <2>3, <2>4 DEF TypeOK, Loop, Over
<1>7. OwnStackInTime'
  BY <1>1, <1>6 DEF BootInv, OwnStackInTime, HasStack
<1>8. Online' = Online
  BY <1>1 DEF Online
<1>9. IdsDistinct' /\ SuccessMeansAll'
  BY <1>8 DEF BootInv, IdsDistinct, SuccessMeansAll
<1> QED BY <1>2, <1>3, <1>5, <1>7, <1>9 DEF BootInv

(* An AP that comes online takes the next number: the fetch-and-add returns  *)
(* one more than the number of APs already online.                           *)
LEMMA ClaimIdInv ==
  ASSUME TypeOK, BootInv, NEW i \in Ap \ dead, ClaimId(i)
  PROVE  TypeOK' /\ BootInv'
<1> USE SmpAssumption DEF ClaimId, chance
<1>1. /\ ap[i] = "stacked" /\ ap'[i] = "online" /\ my_id'[i] = cpus_online
      /\ \A j \in Ap \ {i} : ap'[j] = ap[j] /\ my_id'[j] = my_id[j]
      /\ \A j \in Ap : HasStack(j)' <=> HasStack(j)
  BY DEF TypeOK, HasStack
<1>2. i \notin Online /\ Online' = Online \cup {i}
  BY <1>1 DEF Online
<1>3. bsp # "setup"
  BY <1>1 DEF BootInv, PhaseInv, ApInv, Ap, Cpu
<1>4. cpus_online = Cardinality(Online) + 1
  BY <1>3 DEF BootInv, IdsDistinct
<1>5. Cardinality(Online') = Cardinality(Online) + 1
  BY <1>2, OnlineFinite, FS_AddElement
<1>6. cpus_online \in Ap
  <2>1. Cardinality(Online) # CpuCount - 1
    BY <1>2, OnlineFinite
  <2> QED BY <2>1, <1>4, OnlineFinite DEF Ap, Cpu
<1>7. TypeOK'
  BY <1>6 DEF TypeOK, Ap, Cpu
<1>8. PhaseInv' /\ IcrInv'
  BY <1>3 DEF BootInv, PhaseInv, IcrInv, NoIpi
<1>9. ApInv'
  <2>1. i <= cpu_idx /\ (i = cpu_idx => bsp \notin {"patch", "init", "deassert", "sipi1"})
    BY <1>1 DEF BootInv, ApInv, TypeOK, Ap, Cpu
  <2> QED BY <1>1, <2>1 DEF BootInv, ApInv, TypeOK, Ap, Cpu
<1>10. OwnStackInTime'
  BY <1>1 DEF BootInv, OwnStackInTime
<1>11. IdsDistinct'
  <2>1. {my_id[j] : j \in Online} = 1 .. Cardinality(Online)
    BY DEF BootInv, IdsDistinct
  <2>2. \A j \in Online : my_id'[j] = my_id[j] /\ my_id[j] \in 1 .. Cardinality(Online)
    BY <1>1, <1>2, <2>1 DEF Online
  <2>3. \A j, k \in Online' : my_id'[j] = my_id'[k] => j = k
    BY <1>1, <1>2, <1>4, <2>2, OnlineFinite DEF BootInv, IdsDistinct
  <2>4. {my_id'[j] : j \in Online'} = 1 .. Cardinality(Online')
    <3>1. {my_id'[j] : j \in Online'} = {my_id[j] : j \in Online} \cup {cpus_online}
      BY <1>1, <1>2, <2>2
    <3>2. \A n \in Nat : (1 .. n) \cup {n + 1} = 1 .. (n + 1)
      OBVIOUS
    <3>3. (1 .. Cardinality(Online)) \cup {cpus_online} = 1 .. Cardinality(Online')
      BY <3>2, <1>4, <1>5, OnlineFinite
    <3> QED BY <3>1, <3>3, <2>1, Zenon
  <2> QED BY <2>3, <2>4, <1>4, <1>5, OnlineFinite DEF IdsDistinct
<1>12. SuccessMeansAll'
  BY <1>2 DEF BootInv, SuccessMeansAll, Online
<1> QED BY <1>7, <1>8, <1>9, <1>10, <1>11, <1>12 DEF BootInv

--------------------------------------------------------------------------------
(* Every step of the boot keeps the invariant.                               *)
LEMMA NextInv == TypeOK /\ BootInv /\ [Next]_vars => (TypeOK /\ BootInv)'
<1> SUFFICES ASSUME TypeOK, BootInv, [Next]_vars PROVE TypeOK' /\ BootInv'
  OBVIOUS
<1>1. CASE Setup
  BY <1>1, SetupInv
<1>2. CASE PatchStack
  BY <1>2, PatchStackInv
<1>3. CASE InitSipiSipi
  BY <1>3, SendIpiInv DEF InitSipiSipi
<1>4. CASE NextAp
  BY <1>4, NextApInv
<1>5. CASE CheckOnline
  BY <1>5, CheckOnlineInv
<1>6. CASE Deliver
  BY <1>6, DeliverInv
<1>7. CASE \E i \in Ap \ dead : ApStep(i)
  BY <1>7, EnterLongModeInv, LoadStackInv, ClaimIdInv DEF ApStep
<1>8. CASE UNCHANGED vars
  <2> USE <1>8 DEF vars, apVars, chance
  <2>1. TypeOK' /\ PhaseInv' /\ IcrInv' /\ ApInv'
    BY DEF TypeOK, BootInv, PhaseInv, IcrInv, ApInv, HasStack
  <2>2. OwnStackInTime' /\ Online' = Online
    BY ApsUntouched DEF BootInv
  <2>3. IdsDistinct' /\ SuccessMeansAll'
    BY <2>2 DEF BootInv, IdsDistinct, SuccessMeansAll
  <2> QED BY <2>1, <2>2, <2>3 DEF BootInv
<1> QED BY <1>1, <1>2, <1>3, <1>4, <1>5, <1>6, <1>7, <1>8 DEF Next, BspStep, Booted

(* An AP that is online stays online and keeps the number it claimed.       *)
LEMMA OnlineGrows ==
  ASSUME TypeOK, BootInv, [Next]_vars
  PROVE  \A i \in Online : i \in Online' /\ my_id'[i] = my_id[i]
<1>1. CASE BspStep
  BY <1>1 DEF BspStep, Setup, PatchStack, InitSipiSipi, SendIpi, NextAp, NextApBelow,
              CheckOnline, apVars, Online
<1>2. CASE Deliver
  BY <1>2, DeliverEffect DEF Deliver, Online
<1>3. CASE \E i \in Ap \ dead : ApStep(i)
  <2> PICK i \in Ap \ dead : ApStep(i)
    BY <1>3
  <2>1. ap[i] # "online" /\ \A j \in Ap \ {i} : ap'[j] = ap[j] /\ my_id'[j] = my_id[j]
    BY DEF ApStep, EnterLongMode, LoadStack, ClaimId, TypeOK
  <2> QED BY <2>1 DEF Online
<1>4. CASE UNCHANGED vars
  BY <1>4 DEF vars, apVars, Online
<1> QED BY <1>1, <1>2, <1>3, <1>4 DEF Next, Booted

(* The inductive invariant holds throughout the boot.                        *)
THEOREM BootInvariant == Spec => [](TypeOK /\ BootInv)
BY InitInv, NextInv, PTL DEF Spec

(* No index of the boot leaves its array: cpu_idx, the stack the slot points  *)
(* into and the numbers the APs claim stay below cpu_count.                  *)
THEOREM BootTyped == Spec => []TypeOK
BY BootInvariant, PTL

(* __atomic_fetch_add(&cpus_online, 1) in ap_entry gives the APs the numbers *)
(* 1 .. k without a gap or a repetition, in any order they come up, whichever *)
(* of them never do.                                                         *)
THEOREM BootIdsDistinct == Spec => []IdsDistinct
<1>1. BootInv => IdsDistinct
  BY DEF BootInv
<1> QED BY <1>1, BootInvariant, PTL

(* An AP for which the delays of boot_ap suffice runs on the stack patched   *)
(* for it, and so does the last AP however slow it is.                       *)
THEOREM BootOwnStackInTime == Spec => []OwnStackInTime
<1>1. BootInv => OwnStackInTime
  BY DEF BootInv
<1> QED BY <1>1, BootInvariant, PTL

(* kernel_main prints the success line only when every AP is in ap_entry.    *)
THEOREM BootSuccessMeansAll == Spec => []SuccessMeansAll
<1>1. BootInv => SuccessMeansAll
  BY DEF BootInv
<1> QED BY <1>1, BootInvariant, PTL

--------------------------------------------------------------------------------
(* No working AP is lost.                                                    *)

\* apic_wait_icr outlasts the INIT and one of the two SIPIs.
EnoughPolls == "init" \notin SlowIpi /\ ~({"sipi1", "sipi2"} \subseteq SlowIpi)

Awake(i) == ap[i] \in {"real_mode", "long_mode", "stacked", "online"}
Waits(i, kind) == ap[i] = "wait_sipi" /\ icr.kind = kind /\ icr.to = i

\* An AP that does not run yet waits for the IPI that is on its way, or for one
\* boot_ap has still to send.
AwakeInv ==
  \A i \in Ap \ dead :
    /\ i < cpu_idx => Awake(i)
    /\ i = cpu_idx =>
         /\ bsp = "deassert" => ap[i] = "wait_sipi" \/ (icr.kind = "init" /\ icr.to = i)
         /\ bsp = "sipi1" => ap[i] = "wait_sipi"
         /\ bsp = "sipi2" => Awake(i) \/ Waits(i, "sipi1")
         /\ bsp = "settle" => Awake(i) \/ (Waits(i, "sipi2") /\ "sipi1" \in SlowIpi)

(* Each IPI finds its AP waiting for it, and leaves only when the one before *)
(* it has arrived or is one that may be lost.                                *)
LEMMA AwakeSend ==
  ASSUME EnoughPolls, TypeOK, BootInv, AwakeInv, NEW kind, NEW then,
         <<kind, then>> \in {<<"init", "deassert">>, <<"deassert", "sipi1">>,
                            <<"sipi1", "sipi2">>, <<"sipi2", "settle">>},
         SendIpi(kind, then)
  PROVE  AwakeInv'
<1> USE DEF SendIpi, apVars, chance
<1>1. icr' = [kind |-> kind, to |-> cpu_idx] /\ icr'.kind = kind /\ icr'.to = cpu_idx
  OBVIOUS
<1>2. /\ bsp = kind /\ bsp' = then /\ icr.kind \in SlowIpi \cup {"none"}
      /\ UNCHANGED <<cpu_idx, ap, dead>>
  OBVIOUS
<1> SUFFICES ASSUME NEW i \in Ap \ dead
             PROVE  /\ i < cpu_idx => Awake(i)
                    /\ i = cpu_idx =>
                         /\ then = "deassert" => kind = "init"
                         /\ then = "sipi1" => ap[i] = "wait_sipi"
                         /\ then = "sipi2" => ap[i] = "wait_sipi" /\ kind = "sipi1"
                         /\ then = "settle" => \/ Awake(i)
                                              \/ /\ ap[i] = "wait_sipi" /\ kind = "sipi2"
                                                 /\ "sipi1" \in SlowIpi
  BY <1>1, <1>2 DEF AwakeInv, Awake, Waits
<1>3. i < cpu_idx => Awake(i)
  BY DEF AwakeInv
<1>4. i = cpu_idx /\ then = "sipi1" => ap[i] = "wait_sipi"
  BY <1>2 DEF AwakeInv, EnoughPolls
<1>5. i = cpu_idx /\ then = "sipi2" => ap[i] = "wait_sipi" /\ kind = "sipi1"
  BY <1>2 DEF AwakeInv
<1>6. i = cpu_idx /\ then = "settle" =>
        Awake(i) \/ (ap[i] = "wait_sipi" /\ kind = "sipi2" /\ "sipi1" \in SlowIpi)
  BY <1>2 DEF AwakeInv, Waits
<1> QED BY <1>3, <1>4, <1>5, <1>6

(* An IPI that arrives wakes the AP that waits for it and puts none that     *)
(* runs to sleep.                                                            *)
LEMMA AwakeDeliver ==
  ASSUME TypeOK, BootInv, AwakeInv, Deliver
  PROVE  AwakeInv'
<1>1. icr.kind # "none" /\ icr.to \in Ap
  BY DEF Deliver, BootInv, IcrInv
<1>2. \A i \in Ap : ap'[i] = IF i = icr.to THEN After(icr.kind, ap[i]) ELSE ap[i]
  BY <1>1 DEF Deliver, TypeOK
<1>3. icr.kind = "init" => bsp = "deassert" /\ icr.to = cpu_idx
  BY <1>1 DEF BootInv, IcrInv
<1>4. UNCHANGED <<bsp, cpu_idx, dead>>
  BY DEF Deliver, chance
<1>5. ASSUME NEW i \in Ap, Awake(i), icr.kind # "init" \/ icr.to # i PROVE Awake(i)'
  BY <1>2, <1>5 DEF Awake, After
<1>6. ASSUME NEW i \in Ap, NEW kind \in {"sipi1", "sipi2"}, Waits(i, kind) PROVE Awake(i)'
  BY <1>2, <1>6 DEF Awake, Waits, After
<1> SUFFICES ASSUME NEW i \in Ap \ dead
             PROVE  /\ i < cpu_idx => Awake(i)'
                    /\ i = cpu_idx =>
                         /\ bsp = "deassert" => ap'[i] = "wait_sipi"
                         /\ bsp = "sipi1" => ap'[i] = "wait_sipi"
                         /\ bsp \in {"sipi2", "settle"} => Awake(i)'
  BY <1>4 DEF AwakeInv
<1>7. cpu_idx \in Nat /\ i \in Nat
  BY DEF TypeOK, Ap, Cpu
<1>8. i < cpu_idx => Awake(i)'
  BY <1>3, <1>5, <1>7 DEF AwakeInv
<1>9. i = cpu_idx /\ bsp = "deassert" => ap'[i] = "wait_sipi"
  <2>1. icr.kind \in {"sipi1", "sipi2"} /\ icr.to = cpu_idx => bsp # "deassert"
    BY <1>7 DEF BootInv, IcrInv
  <2> QED BY <1>2, <2>1 DEF AwakeInv, After
<1>10. i = cpu_idx /\ bsp = "sipi1" => ap'[i] = "wait_sipi"
  <2>1. icr.kind \in {"sipi1", "sipi2"} /\ icr.to = cpu_idx => bsp # "sipi1"
    BY <1>7 DEF BootInv, IcrInv
  <2> QED BY <1>2, <2>1 DEF AwakeInv, After
<1>11. i = cpu_idx /\ bsp \in {"sipi2", "settle"} => Awake(i)'
  BY <1>3, <1>5, <1>6 DEF AwakeInv
<1> QED BY <1>8, <1>9, <1>10, <1>11

LEMMA AwakeStep ==
  ASSUME EnoughPolls, TypeOK, BootInv, AwakeInv, [Next]_vars
  PROVE  AwakeInv'
<1>1. CASE Setup
  <2>1. cpu_idx' = 1 /\ bsp' \in {"patch", "check"} /\ UNCHANGED <<ap, dead>>
    BY <1>1 DEF Setup, apVars, chance
  <2>2. \A i \in Ap : ~(i < 1)
    BY SmpAssumption DEF Ap, Cpu
  <2> QED BY ONLY <2>1, <2>2 DEF AwakeInv, Ap
<1>2. CASE PatchStack
  <2>1. cpu_idx' = cpu_idx /\ bsp' = "init" /\ UNCHANGED <<ap, dead>>
    BY <1>2 DEF PatchStack, apVars, chance
  <2> QED BY <2>1 DEF AwakeInv, Awake
<1>3. CASE InitSipiSipi
  BY <1>3, AwakeSend DEF InitSipiSipi
<1>4. CASE NextAp
  <2>1. /\ bsp = "settle" /\ icr.kind \in SlowIpi \cup {"none"}
        /\ cpu_idx' = cpu_idx + 1 /\ bsp' \in {"patch", "check"} /\ UNCHANGED <<ap, dead>>
    BY <1>4 DEF NextAp, NextApBelow, apVars, chance
  <2>2. \A i \in Ap \ dead : i < cpu_idx \/ i = cpu_idx => Awake(i)
    BY <2>1 DEF AwakeInv, EnoughPolls, Waits
  <2>3. \A i \in Ap : i < cpu_idx + 1 => i < cpu_idx \/ i = cpu_idx
    BY DEF TypeOK, Ap, Cpu
  <2> QED BY ONLY <2>1, <2>2, <2>3 DEF AwakeInv, Awake
<1>5. CASE CheckOnline
  <2>1. cpu_idx' = cpu_idx /\ bsp' = "tests" /\ UNCHANGED <<ap, dead>>
    BY <1>5 DEF CheckOnline, apVars, chance
  <2> QED BY <2>1 DEF AwakeInv, Awake
<1>6. CASE Deliver
  BY <1>6, AwakeDeliver
<1>7. ASSUME NEW k \in Ap \ dead, ApStep(k) PROVE AwakeInv'
  <2>1. Awake(k) /\ Awake(k)'
    BY <1>7 DEF ApStep, EnterLongMode, LoadStack, ClaimId, Awake, TypeOK
  <2>2. \A i \in Ap \ {k} : ap'[i] = ap[i]
    BY <1>7 DEF ApStep, EnterLongMode, LoadStack, ClaimId, TypeOK
  <2>3. UNCHANGED <<bsp, cpu_idx, icr, dead>>
    BY <1>7 DEF ApStep, EnterLongMode, LoadStack, ClaimId, chance
  <2>4. k < cpu_idx \/ (k = cpu_idx /\ bsp \notin {"deassert", "sipi1"})
        \/ (k > cpu_idx)
    BY <2>1 DEF BootInv, ApInv, Awake, TypeOK, Ap, Cpu
  <2> QED BY <2>1, <2>2, <2>3, <2>4 DEF AwakeInv, Awake, Waits, TypeOK, Ap, Cpu
<1>8. CASE UNCHANGED vars
  BY <1>8 DEF vars, apVars, chance, AwakeInv, Awake, Waits
<1> QED BY <1>1, <1>2, <1>3, <1>4, <1>5, <1>6, <1>7, <1>8 DEF Next, BspStep, Booted

LEMMA AwakeInvariant == ASSUME EnoughPolls PROVE Spec => [](TypeOK /\ BootInv /\ AwakeInv)
<1>1. Init => AwakeInv
  <2>1. \A i \in Ap : ~(i < 0)
    BY DEF Ap, Cpu
  <2> QED BY <2>1 DEF Init, AwakeInv
<1>2. TypeOK /\ BootInv /\ AwakeInv /\ [Next]_vars => (TypeOK /\ BootInv /\ AwakeInv)'
  BY NextInv, AwakeStep
<1> QED BY <1>1, <1>2, InitInv, PTL DEF Spec

(* Where the polls of apic_wait_icr are long enough for the INIT and for one *)
(* of the two SIPIs, boot_all_aps leaves no working AP behind, though it     *)
(* waits for none: all are in the trampoline or further.                     *)
THEOREM BootNoneLost == ASSUME EnoughPolls PROVE Spec => []NoneLost
<1>1. TypeOK /\ BootInv /\ AwakeInv => NoneLost
  <2> SUFFICES ASSUME TypeOK, BootInv, AwakeInv, bsp \in Over, NEW i \in Ap \ dead
               PROVE  ap[i] \notin {"parked", "wait_sipi"}
    BY DEF NoneLost, Over
  <2>1. i < cpu_idx
    BY SmpAssumption DEF BootInv, PhaseInv, Ap, Cpu
  <2> QED BY <2>1 DEF AwakeInv, Awake
<1> QED BY <1>1, AwakeInvariant, PTL

(* So the boot comes to rest only with every working AP in ap_entry, and     *)
(* cpus_online has counted each of them once.                                *)
THEOREM BootRestMeansOnline == ASSUME EnoughPolls PROVE Spec => []RestMeansOnline
<1>1. TypeOK /\ BootInv /\ AwakeInv => RestMeansOnline
  <2> SUFFICES ASSUME TypeOK, BootInv, AwakeInv, bsp = "tests",
                      \A i \in Ap \ dead : ap[i] \notin {"real_mode", "long_mode", "stacked"}
               PROVE  Online = Ap \ dead /\ cpus_online = CpuCount - Cardinality(dead)
    BY DEF RestMeansOnline
  <2>1. \A i \in Ap : i < cpu_idx
    BY SmpAssumption DEF BootInv, PhaseInv, Over, Ap, Cpu
  <2>2. \A i \in Ap \ dead : ap[i] = "online"
    BY <2>1 DEF AwakeInv, Awake
  <2>3. \A i \in dead : ap[i] # "online"
    BY SmpAssumption DEF BootInv, ApInv, HasStack, TypeOK
  <2>4. Online = Ap \ dead
    BY <2>2, <2>3 DEF Online
  <2>5. Ap = 1 .. CpuCount - 1 /\ dead \subseteq Ap
    BY SmpAssumption DEF Ap, Cpu, TypeOK
  <2>6. IsFiniteSet(Ap) /\ Cardinality(Ap) = CpuCount - 1
    BY <2>5, SmpAssumption, FS_Interval
  <2>7. Ap \cap dead = dead
    BY <2>5
  <2>8. Cardinality(Ap \ dead) = Cardinality(Ap) - Cardinality(dead)
    BY <2>6, <2>7, FS_Difference
  <2>9. IsFiniteSet(dead) /\ Cardinality(dead) \in Nat
    BY <2>5, <2>6, FS_Subset, FS_CardinalityType
  <2>10. cpus_online = Cardinality(Online) + 1
    BY DEF BootInv, IdsDistinct
  <2> QED BY <2>4, <2>6, <2>8, <2>9, <2>10, SmpAssumption
<1> QED BY <1>1, AwakeInvariant, PTL

--------------------------------------------------------------------------------
(* The hybrid kernel                                                         *)

(* What zig_kernel_main is told of the CPUs, with the types it depends on.   *)
ReportInv ==
  /\ filled \in 0 .. CpuCount
  /\ online \in [Cpu -> BOOLEAN]
  /\ stage # "c" => filled = CpuCount
  /\ filled # 0 => bsp = "tests"
  /\ outcome = "success" => \A k \in Cpu : k < filled => online[k]
  /\ EntryHasCpu

--------------------------------------------------------------------------------
(* A step of the hybrid kernel is a step of the boot or leaves it alone.     *)
LEMMA HybridNextBoots == [HybridNext]_hybridVars => [Next]_vars
<1> SUFFICES ASSUME [HybridNext]_hybridVars PROVE [Next]_vars
  OBVIOUS
<1>1. CASE BspHybrid
  BY <1>1 DEF BspHybrid, BspBoot, FillEntry, Fill, CallZig, ZigKernel, Next
<1>2. CASE IpiArrives
  BY <1>2 DEF IpiArrives, Next
<1>3. CASE \E i \in Ap \ dead : ApBoot(i) \/ ApTests(i)
  BY <1>3 DEF ApBoot, ApTests, Next
<1>4. CASE Settled \/ UNCHANGED hybridVars
  BY <1>4 DEF Settled, hybridVars
<1> QED BY <1>1, <1>2, <1>3, <1>4 DEF HybridNext

(* The loop that fills boot_info.cpus sets an entry's bit only when the      *)
(* number is claimed, and no later step takes a number back.                 *)
LEMMA ReportStep ==
  TypeOK /\ BootInv /\ ReportInv /\ [HybridNext]_hybridVars => ReportInv'
<1> SUFFICES ASSUME TypeOK, BootInv, ReportInv, [HybridNext]_hybridVars PROVE ReportInv'
  OBVIOUS
<1>1. \A i \in Online : i \in Online' /\ my_id'[i] = my_id[i]
  BY HybridNextBoots, OnlineGrows
<1>2. CASE FillEntry
  <2> USE <1>2, SmpAssumption DEF FillEntry, Fill
  <2>1. /\ filled' \in 0 .. CpuCount /\ online' \in [Cpu -> BOOLEAN]
        /\ bsp' = "tests" /\ stage' = "c" /\ outcome' = outcome
    BY DEF ReportInv, Cpu, vars
  <2>2. ASSUME NEW k \in Ap, online'[k] PROVE \E i \in Online : my_id[i] = k
    <3>1. CASE k # filled
      BY <2>2, <3>1 DEF ReportInv, EntryHasCpu, Ap
    <3>2. CASE k = filled
      <4>1. k # 0 /\ cpus_online > k
        BY <2>2, <3>2 DEF ReportInv, Ap, Cpu
      <4>2. cpus_online = Cardinality(Online) + 1
        BY DEF BootInv, IdsDistinct
      <4>3. k \in 1 .. Cardinality(Online)
        BY <4>1, <4>2, OnlineFinite DEF Ap, Cpu
      <4>4. {my_id[i] : i \in Online} = 1 .. Cardinality(Online)
        BY DEF BootInv, IdsDistinct
      <4> QED BY <4>3, <4>4, Zenon
    <3> QED BY <3>1, <3>2
  <2>3. EntryHasCpu'
    BY <2>2, <1>1 DEF EntryHasCpu
  <2>4. outcome = "success" => cpus_online = CpuCount
    <3>1. 1 .. CpuCount - 1 = Ap
      BY DEF Ap, Cpu
    <3>2. Cardinality(Ap) = CpuCount - 1
      BY <3>1, FS_Interval
    <3> QED BY <3>2 DEF BootInv, SuccessMeansAll, IdsDistinct
  <2>5. outcome = "success" => \A k \in Cpu : k < filled' => online'[k]
    <3> SUFFICES ASSUME outcome = "success", NEW k \in Cpu, k < filled' PROVE online'[k]
      OBVIOUS
    <3>1. CASE k # filled
      <4>1. k < filled
        BY <3>1 DEF ReportInv, Cpu
      <4>2. online'[k] = online[k]
        BY <3>1 DEF ReportInv
      <4> QED BY <4>1, <4>2 DEF ReportInv
    <3>2. CASE k = filled
      <4>1. cpus_online > filled
        BY <2>4 DEF ReportInv
      <4> QED BY <3>2, <4>1 DEF ReportInv
    <3> QED BY <3>1, <3>2
  <2> QED BY <2>1, <2>3, <2>5 DEF ReportInv
<1> DEFINE Kept == /\ UNCHANGED <<filled, online>>
                   /\ stage' = stage \/ filled = CpuCount
                   /\ bsp = "tests" => bsp' = "tests" /\ outcome' = outcome
                   /\ outcome' = outcome \/ bsp # "tests"
<1>3. CASE Kept
  BY <1>1, <1>3, SmpAssumption DEF ReportInv, EntryHasCpu, Cpu
<1>4. FillEntry \/ Kept
  <2>1. CASE BspBoot
    BY <2>1 DEF BspBoot, BspStep, Setup, PatchStack, InitSipiSipi, SendIpi, NextAp,
                NextApBelow, CheckOnline, handoffVars
  <2>2. CASE CallZig \/ ZigKernel
    BY <2>2 DEF CallZig, ZigKernel, vars, ReportInv
  <2>3. CASE IpiArrives
    BY <2>3 DEF IpiArrives, Deliver, handoffVars
  <2>4. CASE \E i \in Ap \ dead : ApBoot(i) \/ ApTests(i)
    BY <2>4 DEF ApBoot, ApStep, EnterLongMode, LoadStack, ClaimId, ApTests, vars, handoffVars
  <2>5. CASE Settled \/ UNCHANGED hybridVars
    BY <2>5 DEF Settled, hybridVars, vars, handoffVars
  <2> QED BY <2>1, <2>2, <2>3, <2>4, <2>5 DEF HybridNext, BspHybrid
<1> QED BY <1>2, <1>3, <1>4

--------------------------------------------------------------------------------
(* hybrid/boot/init.c boots as the C kernel does: everything proved of       *)
(* setup_trampoline, boot_all_aps and ap_entry holds of the hybrid kernel.   *)
THEOREM HandoffRefinesBoot == HybridSpec => Spec
<1>1. HybridInit => Init
  BY DEF HybridInit
<1> QED BY <1>1, HybridNextBoots, PTL DEF HybridSpec, Spec

(* The report of the CPUs satisfies its invariant throughout.                *)
LEMMA ReportInvariant == HybridSpec => [](TypeOK /\ BootInv /\ ReportInv)
<1>1. HybridInit => TypeOK /\ BootInv /\ ReportInv
  <2> SUFFICES ASSUME HybridInit PROVE TypeOK /\ BootInv /\ ReportInv
    OBVIOUS
  <2>1. TypeOK /\ BootInv
    BY InitInv DEF HybridInit
  <2>2. ReportInv
    BY SmpAssumption DEF HybridInit, Init, ReportInv, EntryHasCpu, Ap
  <2> QED BY <2>1, <2>2
<1>2. TypeOK /\ BootInv /\ ReportInv /\ [HybridNext]_hybridVars
        => (TypeOK /\ BootInv /\ ReportInv)'
  BY HybridNextBoots, NextInv, ReportStep
<1> QED BY <1>1, <1>2, PTL DEF HybridSpec

(* A CPU that boot_info.cpus calls online has one executing under its        *)
(* number, for any number of CPUs and any APs that fail or are slow.         *)
THEOREM HandoffEntryHasCpu == HybridSpec => []EntryHasCpu
<1>1. ReportInv => EntryHasCpu
  BY DEF ReportInv
<1> QED BY <1>1, ReportInvariant, PTL

(* After a boot that printed the success line zig_kernel_main gets a         *)
(* BootInfo that calls every CPU online.                                     *)
THEOREM HandoffSuccessReported == HybridSpec => []SuccessReported
<1>1. ReportInv => SuccessReported
  BY SmpAssumption DEF ReportInv, SuccessReported, Cpu
<1> QED BY <1>1, ReportInvariant, PTL

--------------------------------------------------------------------------------
\* What the BSP has done in the barrier: nothing.
BspStaysOut == at[0] = "outside" /\ arrived[0] = 0

(* The APs use barrier_wait as BarrierWait says, each under its own number,  *)
(* and none of them under the BSP's.                                         *)
LEMMA HybridNextWaits ==
  TypeOK /\ BootInv /\ BspStaysOut /\ B!TypeOK /\ [HybridNext]_hybridVars
    => [B!Next]_(B!vars) /\ BspStaysOut'
<1> SUFFICES ASSUME TypeOK, BootInv, BspStaysOut, B!TypeOK, [HybridNext]_hybridVars
             PROVE  [B!Next]_(B!vars) /\ BspStaysOut'
  OBVIOUS
<1>1. CASE \E i \in Ap \ dead : ApTests(i)
  <2> PICK i \in Ap \ dead : ApTests(i)
    BY <1>1
  <2>1. my_id[i] \in Cpu /\ my_id[i] # 0
    <3>1. my_id[i] \in {my_id[j] : j \in Online}
      BY DEF ApTests, Online
    <3>2. my_id[i] \in 1 .. Cardinality(Online)
      BY <3>1, Zenon DEF BootInv, IdsDistinct
    <3> QED BY <3>2, OnlineFinite DEF TypeOK
  <2>2. B!Step(my_id[i])
    BY DEF ApTests, Barrier!Step, Barrier!ReadSense, Barrier!Arrive, Barrier!ArriveOf,
           Barrier!CloseRound, Barrier!StoreCount, Barrier!StoreSense, Barrier!MoveToClosing,
           Barrier!SpinExit, Barrier!SpinExitWhen, Barrier!Return, Barrier!shared,
           Barrier!Outside, Barrier!Entered, Barrier!Last, Barrier!Closing, Barrier!Spin,
           B!Step, B!ReadSense, B!Arrive, B!ArriveOf,
           B!CloseRound, B!StoreCount, B!StoreSense, B!MoveToClosing,
           B!SpinExit, B!SpinExitWhen, B!Return, B!shared,
           B!Outside, B!Entered, B!Last, B!Closing, B!Spin
  <2>3. \A v, w : [at EXCEPT ![my_id[i]] = v][0] = at[0] /\ [arrived EXCEPT ![my_id[i]] = w][0] = arrived[0]
    BY <2>1, SmpAssumption DEF B!TypeOK, B!Cpu, Cpu
  <2>4. \E v : at' = [at EXCEPT ![my_id[i]] = v]
    BY <2>2 DEF B!Step, B!ReadSense, B!Arrive, B!ArriveOf, B!CloseRound, B!MoveToClosing,
                B!SpinExit, B!SpinExitWhen, B!Return
  <2>5. arrived' = arrived \/ \E w : arrived' = [arrived EXCEPT ![my_id[i]] = w]
    BY <2>2 DEF B!Step, B!ReadSense, B!Arrive, B!ArriveOf, B!CloseRound, B!StoreCount,
                B!StoreSense, B!SpinExit, B!SpinExitWhen
  <2>6. BspStaysOut'
    BY <2>3, <2>4, <2>5 DEF BspStaysOut
  <2> QED BY <2>1, <2>2, <2>6 DEF B!Next
<1>2. CASE UNCHANGED barrierVars
  BY <1>2 DEF barrierVars, B!vars, BspStaysOut
<1>3. (\E i \in Ap \ dead : ApTests(i)) \/ UNCHANGED barrierVars
  BY DEF HybridNext, BspHybrid, BspBoot, FillEntry, Fill, CallZig, ZigKernel, IpiArrives,
         ApBoot, Settled, hybridVars
<1> QED BY <1>1, <1>2, <1>3

\* All that is known of the barrier while the hybrid kernel runs.
BarrierKept == BspStaysOut /\ B!TypeOK /\ B!BarrierInv

(* The barrier keeps its own invariants: those who use it do as it expects.  *)
LEMMA BarrierInvariant == HybridSpec => [](TypeOK /\ BootInv /\ BarrierKept)
<1>1. B!BarrierAssumption
  BY SmpAssumption DEF B!BarrierAssumption, B!Cpu, Cpu
<1>2. HybridInit => TypeOK /\ BootInv /\ BarrierKept
  <2> SUFFICES ASSUME HybridInit PROVE TypeOK /\ BootInv /\ BarrierKept
    OBVIOUS
  <2>1. TypeOK /\ BootInv
    BY InitInv DEF HybridInit
  <2>2. B!Init /\ BspStaysOut
    BY SmpAssumption DEF HybridInit, Barrier!Init, Barrier!Cpu, Barrier!Outside, B!Init,
           B!Cpu, B!Outside, BspStaysOut
  <2> QED BY <1>1, <2>1, <2>2, B!InitInv DEF BarrierKept
<1>3. TypeOK /\ BootInv /\ BarrierKept /\ [HybridNext]_hybridVars
        => (TypeOK /\ BootInv /\ BarrierKept)'
  BY <1>1, HybridNextBoots, NextInv, HybridNextWaits, B!NextInv DEF BarrierKept
<1> QED BY <1>2, <1>3, PTL DEF HybridSpec

(* The BSP of the hybrid kernel never joins the barrier its APs wait at: by  *)
(* the barrier's own safety no AP returns from its first barrier_wait, for   *)
(* any number of CPUs.                                                       *)
THEOREM HandoffBarrierNeverOpens == HybridSpec => []BarrierNeverOpens
<1>1. B!BarrierAssumption
  BY SmpAssumption DEF B!BarrierAssumption, B!Cpu, Cpu
<1>2. BarrierKept => BarrierNeverOpens
  <2> SUFFICES ASSUME BarrierKept PROVE BarrierNeverOpens
    OBVIOUS
  <2> USE DEF BarrierKept
  <2>1. B!NoEarlyExit
    BY <1>1, B!InvImpliesNoEarlyExit
  <2>2. flips = 0
    BY SmpAssumption DEF BspStaysOut, B!BarrierInv, B!OutsideInv, B!Outside, B!Cpu
  <2>3. \A c \in Cpu : left[c] = 0
    BY <2>1, SmpAssumption DEF BspStaysOut, B!NoEarlyExit, B!TypeOK, B!Cpu, Cpu
  <2> QED BY <2>2, <2>3 DEF BarrierNeverOpens
<1> QED BY <1>2, BarrierInvariant, PTL

--------------------------------------------------------------------------------
(* Each step of the BSP hands the machine on from one owner to the next.     *)
LEMMA StageInvariant == HybridSpec => [](stage \in {"c", "zig", "halted"})
<1> DEFINE T == stage \in {"c", "zig", "halted"}
<1>1. HybridInit => T
  BY DEF HybridInit
<1>2. T /\ [HybridNext]_hybridVars => T'
  BY DEF HybridNext, BspHybrid, BspBoot, FillEntry, Fill, CallZig, ZigKernel, IpiArrives,
         ApBoot, ApTests, Settled, hybridVars, handoffVars
<1> QED BY <1>1, <1>2, PTL DEF HybridSpec

(* Every variable of the boot, the barrier and the hand-over keeps its type: *)
(* no entry beyond cpu_count of boot_info.cpus is filled, and the numbers    *)
(* under which the APs wait are those of CPUs, for any number of them.       *)
THEOREM HandoffTyped == HybridSpec => []HandoffTypeOK
<1>1. Barrier!Place = B!Place /\ Barrier!Cpu = B!Cpu
  BY DEF Barrier!Place, Barrier!Outside, Barrier!Entered, Barrier!Last, Barrier!Closing,
         Barrier!Spin, B!Place, B!Outside, B!Entered, B!Last, B!Closing, B!Spin,
         Barrier!Cpu, B!Cpu
<1>2. B!TypeOK => Barrier!TypeOK
  BY <1>1 DEF B!TypeOK, Barrier!TypeOK
<1>3. TypeOK /\ BarrierKept /\ ReportInv /\ stage \in {"c", "zig", "halted"} => HandoffTypeOK
  BY <1>2 DEF BarrierKept, ReportInv, HandoffTypeOK
<1> QED BY <1>3, BarrierInvariant, ReportInvariant, StageInvariant, PTL
================================================================================
