-------------------------- MODULE ParallelTestsProofs --------------------------
(***************************************************************************)
(* Proofs about ParallelTests for any number of CPUs, any set of them that *)
(* starts and loops of any length: the barriers keep the halves of test 3  *)
(* apart, the shares of test 2 add up to the whole sum, and the BSP's      *)
(* report claims success only of tests that ended well.  What is known of  *)
(* the barrier is taken from BarrierWaitProofs.                            *)
(***************************************************************************)
EXTENDS ParallelTests, FoldLemmas

B == INSTANCE BarrierWaitProofs WITH Rounds <- 4

USE DEF Cpu

\* A CPU is inside its stretch, or in the barrier at the end of it.
ProgInv ==
  /\ prog \in [Cpu -> Nat]
  /\ \A c \in Cpu :
       /\ left[c] \in 0 .. 4
       /\ prog[c] <= StretchLength(left[c])
       /\ at[c] # "outside" => prog[c] = StretchLength(left[c])
       /\ left[c] = 4 => at[c] = "outside"

\* What a CPU's counter holds follows from where the CPU is: nobody else writes it.
CounterInv ==
  /\ per_cpu_counters \in [Cpu -> Nat]
  /\ \A c \in Cpu :
       /\ left[c] = 0 => per_cpu_counters[c] = prog[c]
       /\ left[c] = 1 => per_cpu_counters[c] = 2 * Half
       /\ left[c] = 2 => per_cpu_counters[c] = IF prog[c] = 0 THEN 2 * Half ELSE 0
       /\ left[c] = 3 => per_cpu_counters[c] = prog[c]
       /\ left[c] = 4 => per_cpu_counters[c] = Half + prog[c]

\* The barrier's own invariants: the tests use it as BarrierWait says.
BarrierKept == B!TypeOK /\ B!BarrierInv

\* Once the BSP reports it makes no other step.  A counter it has found complete
\* is that of a CPU that has ended its tests, and stays so.
ReportInv ==
  /\ shown \in 0 .. 2 * CpuCount
  /\ shown > 0 => Reporting
  /\ barrier_ok => \A k \in Cpu : CpuCount + k < shown =>
                     left[k] = 4 /\ at[k] = "outside" /\ prog[k] = Half
  /\ verdict = "success" => shown = 2 * CpuCount /\ barrier_ok /\ total_sum = ExpectedSum

TestsInv == BarrierKept /\ ProgInv /\ CounterInv /\ ReportInv

--------------------------------------------------------------------------------
(* The assumptions of the barrier hold of the tests.                         *)
LEMMA BarrierAssumed == B!BarrierAssumption
BY TestsAssumption DEF B!BarrierAssumption, B!Cpu

(* Each stretch has a number of steps.                                       *)
LEMMA StretchLengths ==
  /\ StretchLength(0) = 2 * Half
  /\ StretchLength(1) = 2
  /\ StretchLength(2) = 1
  /\ StretchLength(3) = Half
  /\ StretchLength(4) = Half
BY DEF StretchLength

(* Where a CPU is, as its arrivals and returns tell.                         *)
LEMMA Places ==
  ASSUME BarrierKept, NEW c \in Cpu
  PROVE  /\ at[c] = "outside" => arrived[c] = left[c]
         /\ arrived[c] <= left[c] + 1
         /\ left[c] \in Nat /\ arrived[c] \in Nat
         /\ \A d \in Cpu : left[d] <= arrived[c]
<1>1. /\ at[c] = "outside" => arrived[c] = left[c]
      /\ arrived[c] <= left[c] + 1
      /\ left[c] \in Nat /\ arrived[c] \in Nat
  BY DEF BarrierKept, B!TypeOK, B!BarrierInv, B!OutsideInv, B!SpinInv, B!CloseInv, B!Cpu,
         B!Place, B!Outside, B!Entered, B!Last, B!Closing, B!Spin
<1>2. B!NoEarlyExit
  BY BarrierAssumed, B!InvImpliesNoEarlyExit DEF BarrierKept
<1> QED BY <1>1, <1>2 DEF B!NoEarlyExit, B!Cpu

(* A CPU past the last barrier has all others at least inside it.            *)
LEMMA FourthBarrier ==
  ASSUME BarrierKept, ProgInv, NEW c \in Cpu, left[c] = 4, NEW d \in Cpu
  PROVE  left[d] = 4 \/ (left[d] = 3 /\ prog[d] = Half)
<1>1. arrived[d] >= 4 /\ arrived[d] <= left[d] + 1
  BY Places
<1>2. left[d] \in {3, 4}
  BY <1>1, Places DEF ProgInv
<1>3. CASE left[d] = 3
  <2>1. at[d] # "outside"
    BY <1>1, <1>3, Places
  <2> QED BY <1>3, <2>1, StretchLengths DEF ProgInv
<1> QED BY <1>2, <1>3

--------------------------------------------------------------------------------
(* The initial state satisfies the invariant.                                *)
LEMMA TestsInit == Init => TestsInv
<1> SUFFICES ASSUME Init PROVE TestsInv
  OBVIOUS
<1> USE TestsAssumption
<1>1. /\ at = [c \in Cpu |-> "outside"] /\ left = [c \in Cpu |-> 0]
      /\ B!Init
  BY DEF Init, Barrier!Init, Barrier!Cpu, Barrier!Outside, B!Init, B!Cpu, B!Outside
<1>2. BarrierKept
  BY <1>1, BarrierAssumed, B!InitInv DEF BarrierKept
<1>3. ProgInv
  BY <1>1, StretchLengths DEF Init, ProgInv
<1>4. CounterInv
  BY <1>1 DEF Init, CounterInv
<1>5. ReportInv
  BY DEF Init, ReportInv, None
<1> QED BY <1>2, <1>3, <1>4, <1>5 DEF TestsInv

(* A step of a test leaves the barrier alone.                                *)
LEMMA UnchangedBarrier ==
  ASSUME BarrierKept, UNCHANGED barrierVars
  PROVE  BarrierKept'
BY DEF BarrierKept, barrierVars, B!TypeOK, B!BarrierInv, B!OutsideInv, B!SpinInv,
       B!CloseInv, B!CountInv, B!InRound

(* A step of a CPU that has not ended its tests keeps what the report has    *)
(* found so far.                                                             *)
LEMMA ReportKept ==
  ASSUME ReportInv, UNCHANGED report, NEW c \in Cpu,
         \A d \in Cpu \ {c} : /\ left'[d] = left[d] /\ at'[d] = at[d]
                              /\ prog'[d] = prog[d],
         ~(left[c] = 4 /\ at[c] = "outside" /\ prog[c] = Half),
         total_sum' = total_sum \/ left[BSP] # 4
  PROVE  ReportInv'
<1> USE TestsAssumption, StretchLengths
<1>1. shown > 0 => c # BSP
  BY DEF ReportInv, Reporting, InStretch, StretchDone, Barrier!Outside, BSP
<1>2. BSP \in Cpu
  BY DEF BSP
<1>3. shown > 0 => Reporting'
  BY <1>1, <1>2 DEF ReportInv, Reporting, InStretch, StretchDone, Barrier!Outside
<1>4. verdict = "success" => total_sum' = total_sum
  BY DEF ReportInv, Reporting, InStretch
<1> QED BY <1>3, <1>4 DEF ReportInv, report, ExpectedSum

--------------------------------------------------------------------------------
(* A step inside a stretch moves its CPU's prog and nothing of the barrier.  *)
LEMMA ProgStep ==
  ASSUME TestsInv, NEW c \in Cpu, at[c] = "outside", prog[c] < StretchLength(left[c]),
         Advance(c), UNCHANGED barrierVars
  PROVE  BarrierKept' /\ ProgInv'
<1> USE DEF TestsInv
<1>1. BarrierKept'
  BY UnchangedBarrier
<1>2. StretchLength(left[c]) \in Nat
  <2>1. left[c] \in {0, 1, 2, 3, 4}
    BY DEF ProgInv
  <2> QED BY <2>1, StretchLengths, TestsAssumption
<1>3. UNCHANGED <<left, at>> /\ prog' = [prog EXCEPT ![c] = @ + 1]
  BY DEF Advance, barrierVars
<1>4. ProgInv'
  BY <1>2, <1>3 DEF ProgInv
<1> QED BY <1>1, <1>4

(* per_cpu_counters[cpu_id]++                                                *)
LEMMA CountStep ==
  ASSUME TestsInv, NEW c \in Cpu, Count(c)
  PROVE  TestsInv'
<1> USE TestsAssumption DEF TestsInv
<1>1. /\ at[c] = "outside" /\ left[c] \in {0, 3, 4} /\ prog[c] < StretchLength(left[c])
      /\ per_cpu_counters' = [per_cpu_counters EXCEPT ![c] = @ + 1]
      /\ prog' = [prog EXCEPT ![c] = @ + 1]
      /\ UNCHANGED <<barrierVars, at, left, total_sum, report>>
  BY DEF Count, Advance, InStretch, Barrier!Outside, barrierVars
<1>2. BarrierKept' /\ ProgInv'
  BY <1>1, ProgStep DEF Advance
<1>3. CounterInv'
  <2>1. /\ per_cpu_counters[c] \in Nat /\ prog[c] \in Nat
        /\ per_cpu_counters[c] = IF left[c] = 4 THEN Half + prog[c] ELSE prog[c]
    BY <1>1 DEF ProgInv, CounterInv
  <2>2. per_cpu_counters'[c] = IF left[c] = 4 THEN Half + prog'[c] ELSE prog'[c]
    BY <1>1, <2>1 DEF ProgInv, CounterInv
  <2>3. per_cpu_counters' \in [Cpu -> Nat]
    BY <1>1, <2>1 DEF CounterInv
  <2>4. \A d \in Cpu \ {c} : per_cpu_counters'[d] = per_cpu_counters[d] /\ prog'[d] = prog[d]
    BY <1>1 DEF ProgInv, CounterInv
  <2>5. left' = left
    BY <1>1
  <2> QED BY <1>1, <2>2, <2>3, <2>4, <2>5 DEF CounterInv
<1>4. ReportInv'
  BY <1>1, ReportKept, StretchLengths DEF ProgInv
<1> QED BY <1>2, <1>3, <1>4

(* The two steps of test_distributed_sum                                     *)
LEMMA SumStep ==
  ASSUME TestsInv, NEW c \in Cpu, StorePartial(c) \/ AddToTotal(c)
  PROVE  TestsInv'
<1> USE TestsAssumption, StretchLengths DEF TestsInv
<1>1. /\ at[c] = "outside" /\ left[c] = 1 /\ prog[c] < StretchLength(left[c])
      /\ prog' = [prog EXCEPT ![c] = @ + 1]
      /\ UNCHANGED <<barrierVars, at, left, per_cpu_counters, report>>
  BY DEF StorePartial, AddToTotal, Advance, InStretch, Barrier!Outside, barrierVars
<1>2. BarrierKept' /\ ProgInv'
  BY <1>1, ProgStep DEF Advance
<1>3. CounterInv'
  BY <1>1 DEF CounterInv
<1>4. left[BSP] # 4
  BY <1>1, FourthBarrier DEF BSP
<1>5. ReportInv'
  BY <1>1, <1>4, ReportKept DEF ProgInv
<1> QED BY <1>2, <1>3, <1>5

(* per_cpu_counters[my_id] = 0                                               *)
LEMMA ResetStep ==
  ASSUME TestsInv, NEW c \in Cpu, ResetCounter(c)
  PROVE  TestsInv'
<1> USE TestsAssumption, StretchLengths DEF TestsInv
<1>1. /\ at[c] = "outside" /\ left[c] = 2 /\ prog[c] = 0
      /\ prog[c] < StretchLength(left[c])
      /\ per_cpu_counters' = [per_cpu_counters EXCEPT ![c] = 0]
      /\ prog' = [prog EXCEPT ![c] = @ + 1]
      /\ UNCHANGED <<barrierVars, at, left, total_sum, report>>
  BY DEF ResetCounter, Advance, InStretch, Barrier!Outside, barrierVars
<1>2. BarrierKept' /\ ProgInv'
  BY <1>1, ProgStep DEF Advance
<1>3. CounterInv'
  BY <1>1 DEF ProgInv, CounterInv
<1>4. ReportInv'
  BY <1>1, ReportKept DEF ProgInv
<1> QED BY <1>2, <1>3, <1>4

--------------------------------------------------------------------------------
(* What a step of barrier_wait does to the CPU that makes it: it goes on     *)
(* inside, or returns to the start of the next stretch.                      *)
LEMMA WaitEffect ==
  ASSUME TestsInv, NEW c \in Present, Wait(c)
  PROVE  /\ B!Step(c)
         /\ left[c] < 4
         /\ at[c] = "outside" => prog[c] = StretchLength(left[c])
         /\ prog' = IF left'[c] = left[c] THEN prog ELSE [prog EXCEPT ![c] = 0]
         /\ UNCHANGED <<results, report>>
         /\ at' = [at EXCEPT ![c] = at'[c]]
         /\ \/ left' = left /\ at'[c] # "outside"
            \/ left' = [left EXCEPT ![c] = @ + 1] /\ at'[c] = "outside" /\ at[c] # "outside"
<1> USE TestsAssumption DEF TestsInv
<1>0. c \in Cpu
  OBVIOUS
<1>1. /\ B!Step(c)
      /\ left[c] < 4
      /\ at[c] = "outside" => prog[c] = StretchLength(left[c])
      /\ prog' = IF left'[c] = left[c] THEN prog ELSE [prog EXCEPT ![c] = 0]
      /\ UNCHANGED <<results, report>>
  BY DEF Wait, WaitStep, StretchDone,
         Barrier!Step, Barrier!ReadSense, Barrier!Arrive, Barrier!ArriveOf,
         Barrier!CloseRound, Barrier!StoreCount, Barrier!StoreSense, Barrier!MoveToClosing,
         Barrier!SpinExit, Barrier!SpinExitWhen, Barrier!Return, Barrier!shared,
         Barrier!Outside, Barrier!Entered, Barrier!Last, Barrier!Closing, Barrier!Spin,
         B!Step, B!ReadSense, B!Arrive, B!ArriveOf,
         B!CloseRound, B!StoreCount, B!StoreSense, B!MoveToClosing,
         B!SpinExit, B!SpinExitWhen, B!Return, B!shared,
         B!Outside, B!Entered, B!Last, B!Closing, B!Spin
<1>2. /\ at' = [at EXCEPT ![c] = at'[c]]
      /\ \/ left' = left /\ at'[c] # "outside"
         \/ left' = [left EXCEPT ![c] = @ + 1] /\ at'[c] = "outside" /\ at[c] # "outside"
  BY <1>0, <1>1
  DEF BarrierKept, B!TypeOK, B!Cpu, B!Step, B!ReadSense, B!Arrive, B!ArriveOf,
      B!CloseRound, B!StoreCount, B!StoreSense, B!MoveToClosing,
      B!SpinExit, B!SpinExitWhen, B!Return, B!shared,
      B!Outside, B!Entered, B!Last, B!Closing, B!Spin
<1> QED BY <1>1, <1>2

(* A step of barrier_wait at the end of a stretch: whoever returns is at the *)
(* start of the next stretch, and the counter is what that stretch expects.  *)
LEMMA WaitKept ==
  ASSUME TestsInv, NEW c \in Present, Wait(c)
  PROVE  TestsInv'
<1> USE TestsAssumption DEF TestsInv
<1>0. c \in Cpu
  OBVIOUS
<1>1. /\ B!Step(c)
      /\ left[c] < 4
      /\ at[c] = "outside" => prog[c] = StretchLength(left[c])
      /\ prog' = IF left'[c] = left[c] THEN prog ELSE [prog EXCEPT ![c] = 0]
      /\ UNCHANGED <<per_cpu_counters, total_sum, report>>
  BY WaitEffect DEF results
<1>2. BarrierKept'
  BY <1>1, BarrierAssumed, B!NextInv DEF BarrierKept, B!Next
<1>3. /\ at' = [at EXCEPT ![c] = at'[c]]
      /\ \/ left' = left /\ at'[c] # "outside"
         \/ left' = [left EXCEPT ![c] = @ + 1] /\ at'[c] = "outside" /\ at[c] # "outside"
  BY WaitEffect
<1>4. \A d \in Cpu \ {c} : left'[d] = left[d] /\ at'[d] = at[d] /\ prog'[d] = prog[d]
  BY <1>1, <1>3 DEF ProgInv, BarrierKept, B!TypeOK, B!Cpu
<1>5. prog[c] = StretchLength(left[c]) /\ left[c] \in {0, 1, 2, 3}
  BY <1>0, <1>1 DEF ProgInv
<1>6. left[c] \in 0 .. 4 /\ at \in [Cpu -> B!Place] /\ left \in [Cpu -> Nat]
  BY <1>0 DEF ProgInv, BarrierKept, B!TypeOK, B!Cpu
<1>7. ReportInv'
  BY <1>0, <1>1, <1>4, ReportKept
<1> DEFINE InPlace(d) == /\ left'[d] \in 0 .. 4 /\ prog'[d] <= StretchLength(left'[d])
                         /\ at'[d] # "outside" => prog'[d] = StretchLength(left'[d])
                         /\ left'[d] = 4 => at'[d] = "outside"
<1>8. \A d \in Cpu \ {c} : InPlace(d)
  BY <1>4 DEF ProgInv
<1>9. prog' \in [Cpu -> Nat] /\ InPlace(c) => ProgInv'
  BY <1>8 DEF ProgInv
<1>10. CASE left' = left /\ at'[c] # "outside"
  <2>1. prog' = prog
    BY <1>1, <1>10
  <2>2. ProgInv'
    <3>1. prog' \in [Cpu -> Nat] /\ prog'[c] \in Nat
      BY <1>0, <2>1 DEF ProgInv
    <3>2. left'[c] = left[c] /\ prog'[c] = prog[c]
      BY <1>10, <2>1
    <3> QED BY <1>5, <1>9, <3>1, <3>2
  <2>3. CounterInv'
    BY <1>1, <1>10, <2>1 DEF CounterInv
  <2> QED BY <1>2, <1>7, <2>2, <2>3
<1>11. CASE left' = [left EXCEPT ![c] = @ + 1] /\ at'[c] = "outside"
  <2>1. left'[c] = left[c] + 1
    BY <1>0, <1>6, <1>11
  <2>2. prog' = [prog EXCEPT ![c] = 0] /\ prog'[c] = 0
    BY <1>0, <1>1, <1>6, <2>1 DEF ProgInv
  <2>3. ProgInv'
    <3>1. prog' \in [Cpu -> Nat]
      BY <2>2 DEF ProgInv
    <3>2. left'[c] \in {1, 2, 3, 4} /\ 0 <= StretchLength(left'[c])
      BY <1>5, <2>1, StretchLengths
    <3>4. at'[c] = "outside" /\ prog'[c] <= StretchLength(left'[c]) /\ left'[c] \in 0 .. 4
      BY <1>11, <2>2, <3>2
    <3> QED BY <1>9, <3>1, <3>4
  <2>4. CounterInv'
    <3>1. /\ left'[c] = 1 => per_cpu_counters[c] = 2 * Half
          /\ left'[c] = 2 => per_cpu_counters[c] = 2 * Half
          /\ left'[c] = 3 => per_cpu_counters[c] = 0
          /\ left'[c] = 4 => per_cpu_counters[c] = Half
          /\ left'[c] # 0
      BY <1>0, <1>5, <2>1, StretchLengths DEF CounterInv
    <3>2. per_cpu_counters' = per_cpu_counters /\ prog'[c] = 0
      BY <1>1, <2>2
    <3>3. ASSUME NEW d \in Cpu \ {c}
          PROVE  left'[d] = left[d] /\ prog'[d] = prog[d]
      BY <1>4
    <3> DEFINE Fits(d) ==
          /\ left'[d] = 0 => per_cpu_counters'[d] = prog'[d]
          /\ left'[d] = 1 => per_cpu_counters'[d] = 2 * Half
          /\ left'[d] = 2 => per_cpu_counters'[d] = IF prog'[d] = 0 THEN 2 * Half ELSE 0
          /\ left'[d] = 3 => per_cpu_counters'[d] = prog'[d]
          /\ left'[d] = 4 => per_cpu_counters'[d] = Half + prog'[d]
    <3>4. \A d \in Cpu \ {c} : Fits(d)
      <4> SUFFICES ASSUME NEW d \in Cpu \ {c} PROVE Fits(d)
        OBVIOUS
      <4>1. /\ left'[d] = left[d] /\ prog'[d] = prog[d]
            /\ per_cpu_counters'[d] = per_cpu_counters[d]
        BY <3>2, <3>3
      <4> QED BY <4>1 DEF CounterInv
    <3>5. Fits(c)
      <4>1. left'[c] \in {1, 2, 3, 4}
        BY <1>5, <2>1
      <4> QED BY <3>1, <3>2, <4>1, TestsAssumption
    <3>6. \A d \in Cpu : Fits(d)
      BY <3>4, <3>5
    <3>7. per_cpu_counters' \in [Cpu -> Nat]
      BY <3>2 DEF CounterInv
    <3> QED BY <3>6, <3>7 DEF CounterInv
  <2> QED BY <1>2, <1>7, <2>3, <2>4
<1> QED BY <1>3, <1>10, <1>11

(* A read of the BSP's report finds a counter complete only if its CPU has   *)
(* ended the tests, since every CPU is at least in the last barrier.         *)
LEMMA ReportStep ==
  ASSUME TestsInv, Report
  PROVE  TestsInv'
<1> USE TestsAssumption DEF TestsInv
<1>1. /\ UNCHANGED <<barrierVars, at, left, per_cpu_counters, total_sum, prog>>
      /\ Reporting
  BY DEF Report, ShowTest1, ShowTest3, ShowVerdict, results, barrierVars
<1>2. BarrierKept' /\ ProgInv' /\ CounterInv' /\ Reporting'
  BY <1>1, UnchangedBarrier DEF ProgInv, CounterInv, Reporting, InStretch, StretchDone
<1>3. CASE ShowTest1
  BY <1>1, <1>2, <1>3 DEF ShowTest1, ReportInv, None
<1>4. CASE ShowTest3
  <2> DEFINE k == shown - CpuCount
  <2>1. k \in Cpu
    BY <1>4 DEF ShowTest3
  <2>2. per_cpu_counters[k] = 2 * Half =>
          left[k] = 4 /\ at[k] = "outside" /\ prog[k] = Half
    <3>1. left[k] = 4 \/ (left[k] = 3 /\ prog[k] = Half)
      BY <1>1, <2>1, FourthBarrier DEF Reporting, InStretch, BSP
    <3>2. prog[k] \in Nat
      BY <2>1 DEF ProgInv
    <3> QED BY <2>1, <3>1, <3>2 DEF ProgInv, CounterInv
  <2>3. barrier_ok' => barrier_ok /\ per_cpu_counters[k] = 2 * Half
    BY <1>4 DEF ShowTest3
  <2>4. shown' = shown + 1 /\ shown \in CpuCount .. 2 * CpuCount - 1 /\ verdict' = verdict
    BY <1>4 DEF ShowTest3
  <2>5. barrier_ok' => \A j \in Cpu : CpuCount + j < shown' =>
                     left[j] = 4 /\ at[j] = "outside" /\ prog[j] = Half
    BY <2>2, <2>3, <2>4 DEF ReportInv
  <2> QED BY <1>1, <1>2, <2>4, <2>5 DEF ReportInv
<1>5. CASE ShowVerdict
  BY <1>1, <1>2, <1>5 DEF ShowVerdict, ReportInv, ExpectedSum
<1> QED BY <1>3, <1>4, <1>5 DEF Report

(* Every step keeps the invariant.                                           *)
LEMMA TestsStep == TestsInv /\ [Next]_vars => TestsInv'
<1> SUFFICES ASSUME TestsInv, [Next]_vars PROVE TestsInv'
  OBVIOUS
<1>1. CASE UNCHANGED vars
  <2>1. UNCHANGED <<barrierVars, at, left, per_cpu_counters, total_sum, prog, report>>
    BY <1>1 DEF vars, results, barrierVars
  <2> QED BY <2>1, UnchangedBarrier
          DEF TestsInv, ProgInv, CounterInv, ReportInv, Reporting, InStretch, StretchDone,
              report, ExpectedSum
<1>2. ASSUME NEW c \in Present, CpuStep(c) PROVE TestsInv'
  BY <1>2, TestsAssumption, CountStep, SumStep, ResetStep, WaitKept, ReportStep DEF CpuStep
<1> QED BY <1>1, <1>2 DEF Next, Halted

(* The invariant holds in every reachable state.                             *)
LEMMA TestsInvariant == Spec => []TestsInv
<1> QED BY TestsInit, TestsStep, PTL DEF Spec

--------------------------------------------------------------------------------
(* "everyone starts together" (test_barrier_sync): while any CPU is in the   *)
(* second half of test 3 all have counted the whole first half, from a       *)
(* counter that was reset; for any number of CPUs and length of the loop.    *)
THEOREM TestsSecondHalfTogether == Spec => []SecondHalfTogether
<1>1. TestsInv => SecondHalfTogether
  <2> SUFFICES ASSUME TestsInv, NEW c \in Cpu, left[c] = 4, NEW d \in Cpu
               PROVE  per_cpu_counters[d] \in Half .. 2 * Half
    BY DEF SecondHalfTogether
  <2>1. left[d] = 4 \/ (left[d] = 3 /\ prog[d] = Half)
    BY FourthBarrier DEF TestsInv
  <2>2. prog[d] \in Nat /\ (left[d] = 4 => prog[d] <= Half)
    BY StretchLengths DEF TestsInv, ProgInv
  <2> QED BY <2>1, <2>2, TestsAssumption DEF TestsInv, CounterInv
<1> QED BY <1>1, TestsInvariant, PTL

(* kernel_main prints "All parallel tests passed!" only when the sum is      *)
(* right and every CPU has counted to the end, though it reads the counters  *)
(* one by one and with no barrier after test 3.                              *)
THEOREM TestsSuccessIsTrue == Spec => []SuccessIsTrue
<1>1. TestsInv => SuccessIsTrue
  <2> SUFFICES ASSUME TestsInv, verdict = "success"
               PROVE  /\ total_sum = ExpectedSum
                      /\ \A c \in Cpu : left[c] = 4 /\ per_cpu_counters[c] = 2 * Half
    BY DEF SuccessIsTrue
  <2>1. shown = 2 * CpuCount /\ barrier_ok /\ total_sum = ExpectedSum
    BY DEF TestsInv, ReportInv
  <2>2. \A c \in Cpu : left[c] = 4 /\ prog[c] = Half
    BY <2>1, TestsAssumption DEF TestsInv, ReportInv
  <2> QED BY <2>1, <2>2, TestsAssumption DEF TestsInv, CounterInv
<1> QED BY <1>1, TestsInvariant, PTL

--------------------------------------------------------------------------------
(* A step of the tests is one of barrier_wait or leaves its variables alone. *)
LEMMA TestsNextWaits == [Next]_vars => [B!Next]_(B!vars)
<1> SUFFICES ASSUME [Next]_vars PROVE [B!Next]_(B!vars)
  OBVIOUS
<1>1. ASSUME NEW c \in Present, Wait(c) PROVE B!Next
  <2>1. Barrier!Step(c)
    BY <1>1 DEF Wait, WaitStep
  <2>2. B!Step(c)
    BY <2>1
    DEF Barrier!Step, Barrier!ReadSense, Barrier!Arrive, Barrier!ArriveOf,
        Barrier!CloseRound, Barrier!StoreCount, Barrier!StoreSense, Barrier!MoveToClosing,
        Barrier!SpinExit, Barrier!SpinExitWhen, Barrier!Return, Barrier!shared,
        Barrier!Outside, Barrier!Entered, Barrier!Last, Barrier!Closing, Barrier!Spin,
        B!Step, B!ReadSense, B!Arrive, B!ArriveOf,
        B!CloseRound, B!StoreCount, B!StoreSense, B!MoveToClosing,
        B!SpinExit, B!SpinExitWhen, B!Return, B!shared,
        B!Outside, B!Entered, B!Last, B!Closing, B!Spin
  <2> QED BY <2>2 DEF B!Next
<1>2. CASE UNCHANGED barrierVars
  BY <1>2 DEF barrierVars, B!vars
<1>3. (\E c \in Present : Wait(c)) \/ UNCHANGED barrierVars
  BY DEF Next, Halted, vars, CpuStep, Count, StorePartial, AddToTotal, ResetCounter,
         Report, ShowTest1, ShowTest3, ShowVerdict
<1> QED BY <1>1, <1>2, <1>3

(* The tests use barrier_wait as BarrierWait describes its callers, four     *)
(* times on each CPU; so what is proved of the barrier holds of the tests.   *)
THEOREM TestsUseBarrier == Spec => B!Spec
<1>1. Init => B!Init
  BY DEF Init, Barrier!Init, Barrier!Cpu, Barrier!Outside, B!Init, B!Cpu, B!Outside
<1> QED BY <1>1, TestsNextWaits, PTL DEF Spec, B!Spec

(* The four barriers of the tests are a rendezvous of all CPUs: nobody goes  *)
(* on with the k-th stretch before all have been through the one before it.  *)
THEOREM TestsMeet == Spec => B!Abstract!Spec
BY TestsUseBarrier, B!BarrierRefinement, BarrierAssumed, PTL

(* Between test_parallel_counters and the report no CPU waits in a barrier   *)
(* for CPUs that all wait too.                                               *)
THEOREM TestsNobodyStuck == Spec => []B!NobodyStuck
BY TestsUseBarrier, B!BarrierNobodyStuck, BarrierAssumed, PTL

\* The report is over, or has not come to its last line.
VerdictLast == verdict # None => shown = 2 * CpuCount

LEMMA VerdictStep == VerdictLast /\ [Next]_vars => VerdictLast'
BY TestsAssumption
   DEF VerdictLast, Next, Halted, vars, report, CpuStep, Count, StorePartial, AddToTotal,
       ResetCounter, Wait, WaitStep, Report, ShowTest1, ShowTest3, ShowVerdict

(* kernel_main goes on when boot_all_aps has started fewer CPUs than the     *)
(* MADT lists ("may be normal in some environments"); then no line of the    *)
(* report is ever printed, whichever CPU is missing.                         *)
THEOREM TestsReportNeedsAll == Spec => []ReportNeedsAll
<1>1. Init => VerdictLast
  BY DEF Init, VerdictLast
<1>2. Spec => []VerdictLast
  BY <1>1, VerdictStep, PTL DEF Spec
<1>3. Spec => []B!AbsentHoldsAll
  BY TestsUseBarrier, B!BarrierAbsentHoldsAll, BarrierAssumed, PTL
<1>4. TestsInv /\ VerdictLast /\ B!AbsentHoldsAll => ReportNeedsAll
  <2> SUFFICES ASSUME TestsInv, VerdictLast, B!AbsentHoldsAll, Present # Cpu
               PROVE  shown = 0 /\ verdict = None
    BY DEF ReportNeedsAll
  <2>1. BSP \in Cpu
    BY TestsAssumption DEF BSP
  <2>2. left[BSP] = 0
    BY <2>1 DEF B!AbsentHoldsAll, B!Cpu
  <2>3. shown = 0
    BY <2>2 DEF TestsInv, ReportInv, Reporting, InStretch
  <2> QED BY <2>3, TestsAssumption DEF VerdictLast
<1> QED BY <1>2, <1>3, <1>4, TestsInvariant, PTL

--------------------------------------------------------------------------------
(* The sum of 1 to i. *)
Gauss == [i \in Nat |-> (i * (i + 1)) \div 2]

LEMMA GaussSteps ==
  \A i \in Nat : /\ Gauss[i] \in Nat
                 /\ i # 0 => i - 1 \in Nat /\ i = Gauss[i] - Gauss[i - 1]
<1> SUFFICES ASSUME NEW i \in Nat
             PROVE  /\ Gauss[i] \in Nat
                    /\ i # 0 => i - 1 \in Nat /\ i = Gauss[i] - Gauss[i - 1]
  OBVIOUS
<1>1. Gauss[i] = (i * (i + 1)) \div 2 /\ i * (i + 1) \in Nat
  BY DEF Gauss
<1>2. Gauss[i] \in Nat
  <2> DEFINE y == i * (i + 1)
  <2> HIDE DEF y
  <2>1. y \in Nat => y \div 2 \in Nat
    OBVIOUS
  <2> QED BY <1>1, <2>1 DEF y
<1>3. ASSUME i # 0 PROVE i - 1 \in Nat /\ i = Gauss[i] - Gauss[i - 1]
  <2> DEFINE x == (i - 1) * i
             y == i * (i + 1)
  <2>1. i - 1 \in Nat /\ Gauss[i - 1] = x \div 2
    BY <1>3 DEF Gauss
  <2>2. y = x + 2 * i /\ x \in Nat /\ y \in Nat
    BY <1>3
  <2>3. Gauss[i] = y \div 2
    BY <1>1
  <2> HIDE DEF x, y
  <2>4. y \div 2 = (x \div 2) + i /\ x \div 2 \in Nat
    BY <2>2
  <2> QED BY <2>1, <2>3, <2>4
<1> QED BY <1>2, <1>3

LEMMA GaussMonotone ==
  ASSUME NEW a \in Nat, NEW b \in Nat, a <= b
  PROVE  Gauss[a] <= Gauss[b]
<1> DEFINE x == a * (a + 1)
           y == b * (b + 1)
<1>1. Gauss[a] = x \div 2 /\ Gauss[b] = y \div 2
  BY DEF Gauss
<1>2. x \in Nat /\ y \in Nat /\ x <= y
  OBVIOUS
<1> HIDE DEF x, y
<1>3. x \div 2 <= y \div 2
  BY <1>2
<1> QED BY <1>1, <1>3

(* What the loop of test_distributed_sum adds up. *)
LEMMA RangeSum ==
  ASSUME NEW a \in Nat, NEW b \in Nat, a <= b
  PROVE  SumSet(a + 1 .. b) = Gauss[b] - Gauss[a]
<1> DEFINE D == a + 1 .. b
           id == [i \in D |-> i]
<1>1. IsFiniteSet(D) /\ D \subseteq Int /\ \A i \in D : id[i] = i
  BY FS_Interval
<1>2. SumSet(D) = SumOver(id, D)
  <2> HIDE DEF D, id
  <2> QED BY <1>1, SumSetOver
<1>3. \A i \in a .. b : Gauss[i] \in Int
  BY GaussSteps
<1>4. \A i \in D : id[i] = Gauss[i] - Gauss[i - 1]
  BY GaussSteps
<1>5. SumOver(id, a + 1 .. b) = Gauss[b] - Gauss[a]
  <2> HIDE DEF id
  <2> QED BY <1>3, <1>4, Telescope
<1> QED BY <1>2, <1>5

--------------------------------------------------------------------------------
(* The ranges of test_distributed_sum follow one another from 1 to           *)
(* SUM_TARGET, the last one with the remainder of the division.              *)
Work == [c \in Cpu |-> SumSet(WorkRange(c))]
PerCpu == SumTarget \div CpuCount
EndOf(c) == IF c = CpuCount - 1 THEN SumTarget ELSE (c + 1) * PerCpu

LEMMA Ranges ==
  ASSUME NEW c \in Cpu
  PROVE  /\ c * PerCpu \in Nat /\ EndOf(c) \in Nat
         /\ c * PerCpu <= EndOf(c) /\ EndOf(c) <= SumTarget
         /\ WorkRange(c) = c * PerCpu + 1 .. EndOf(c)
<1> USE TestsAssumption
<1>1. PerCpu \in Nat /\ CpuCount * PerCpu <= SumTarget
  <2> DEFINE r == SumTarget % CpuCount
  <2>1. PerCpu \in Nat
    BY DEF PerCpu
  <2>2. SumTarget = CpuCount * PerCpu + r /\ r \in 0 .. CpuCount - 1
    BY DEF PerCpu
  <2>3. CpuCount * PerCpu \in Nat
    BY <2>1
  <2> HIDE DEF r
  <2> QED BY <2>1, <2>2, <2>3
<1>2. c \in Nat /\ c + 1 <= CpuCount
  OBVIOUS
<1>3. /\ c * PerCpu \in Nat /\ (c + 1) * PerCpu \in Nat
      /\ c * PerCpu <= (c + 1) * PerCpu
      /\ (c + 1) * PerCpu <= CpuCount * PerCpu
  BY <1>1, <1>2
<1>4. CpuCount * PerCpu \in Nat
  BY <1>1
<1>5. WorkRange(c) = c * PerCpu + 1 .. EndOf(c)
  BY DEF WorkRange, PerCpu, EndOf
<1> QED BY <1>1, <1>3, <1>4, <1>5 DEF EndOf

LEMMA WorkIn ==
  ASSUME NEW c \in Cpu
  PROVE  /\ Work[c] = Gauss[EndOf(c)] - Gauss[c * PerCpu]
         /\ Work[c] \in Nat /\ Work[c] <= ExpectedSum
<1>1. Work[c] = Gauss[EndOf(c)] - Gauss[c * PerCpu]
  BY Ranges, RangeSum DEF Work
<1>2. /\ Gauss[EndOf(c)] \in Nat /\ Gauss[c * PerCpu] \in Nat /\ Gauss[SumTarget] \in Nat
      /\ Gauss[c * PerCpu] <= Gauss[EndOf(c)] /\ Gauss[EndOf(c)] <= Gauss[SumTarget]
  BY Ranges, GaussSteps, GaussMonotone, TestsAssumption
<1>3. Gauss[SumTarget] = ExpectedSum
  BY TestsAssumption DEF Gauss, ExpectedSum
<1> QED BY <1>1, <1>2, <1>3

(* Together they add up the numbers from 1 to SUM_TARGET. *)
LEMMA WorkAll == SumOver(Work, Cpu) = ExpectedSum
<1> USE TestsAssumption
<1> DEFINE total == [i \in -1 .. CpuCount - 1 |-> IF i = -1 THEN 0 ELSE Gauss[EndOf(i)]]
<1>1. Gauss[0] = 0 /\ Gauss[SumTarget] = ExpectedSum
  BY DEF Gauss, ExpectedSum
<1>2. \A i \in -1 .. CpuCount - 1 : total[i] \in Int
  <2> SUFFICES ASSUME NEW i \in -1 .. CpuCount - 1 PROVE total[i] \in Int
    OBVIOUS
  <2>1. CASE i = -1
    BY <2>1
  <2>2. CASE i # -1
    <3>1. i \in Cpu
      BY <2>2
    <3>2. Gauss[EndOf(i)] \in Nat
      BY <3>1, Ranges, GaussSteps
    <3> QED BY <2>2, <3>2
  <2> QED BY <2>1, <2>2
<1>3. \A i \in Cpu : Work[i] = total[i] - total[i - 1]
  <2> SUFFICES ASSUME NEW i \in Cpu PROVE Work[i] = total[i] - total[i - 1]
    OBVIOUS
  <2>1. i - 1 \in -1 .. CpuCount - 1 /\ total[i] = Gauss[EndOf(i)]
    OBVIOUS
  <2>2. total[i - 1] = Gauss[i * PerCpu]
    <3>1. CASE i = 0
      <4>1. i * PerCpu = 0
        BY <3>1 DEF PerCpu
      <4>2. total[i - 1] = 0
        BY <3>1
      <4> QED BY <1>1, <4>1, <4>2
    <3>2. CASE i # 0
      <4>1. total[i - 1] = Gauss[EndOf(i - 1)]
        BY <2>1, <3>2
      <4>2. EndOf(i - 1) = i * PerCpu
        BY <3>2 DEF EndOf
      <4> QED BY <4>1, <4>2
    <3> QED BY <3>1, <3>2
  <2> QED BY <2>1, <2>2, WorkIn
<1>4. SumOver(Work, -1 + 1 .. CpuCount - 1) = total[CpuCount - 1] - total[-1]
  <2>1. -1 \in Int /\ CpuCount - 1 \in Int /\ -1 <= CpuCount - 1
    OBVIOUS
  <2>2. \A i \in -1 + 1 .. CpuCount - 1 : Work[i] = total[i] - total[i - 1]
    BY <1>3
  <2>3. \A i \in -1 .. CpuCount - 1 : total[i] \in Int
    BY <1>2
  <2> HIDE DEF total
  <2> QED BY ONLY <2>1, <2>2, <2>3, Telescope
<1>5. -1 + 1 .. CpuCount - 1 = Cpu
  OBVIOUS
<1>6. total[CpuCount - 1] = ExpectedSum /\ total[-1] = 0
  <2>1. EndOf(CpuCount - 1) = SumTarget
    BY DEF EndOf
  <2> QED BY <1>1, <2>1
<1>7. ExpectedSum \in Int
  BY <1>1, GaussSteps
<1> HIDE DEF total
<1> QED BY <1>4, <1>5, <1>6, <1>7

--------------------------------------------------------------------------------
(* Who has stored its partial sum, and who has added it to the total.        *)
Stored(c) == left[c] >= 2 \/ (left[c] = 1 /\ prog[c] >= 1)
Added(c) == left[c] >= 2 \/ (left[c] = 1 /\ prog[c] = 2)
WorkAdded == [c \in Cpu |-> IF Added(c) THEN Work[c] ELSE 0]

SumInv ==
  /\ partial_sums = [c \in Cpu |-> IF Stored(c) THEN Work[c] ELSE 0]
  /\ total_sum = SumOver(WorkAdded, Cpu)

ReportTypes ==
  /\ test1_ok \in [Cpu -> {None, "ok", "fail"}]
  /\ barrier_ok \in BOOLEAN
  /\ verdict \in {None, "success", "warning"}

LEMMA CpuFinite == IsFiniteSet(Cpu)
  BY TestsAssumption, FS_Interval

LEMMA SumKept ==
  ASSUME SumInv, UNCHANGED <<partial_sums, total_sum>>,
         \A d \in Cpu : (Stored(d)' <=> Stored(d)) /\ (Added(d)' <=> Added(d))
  PROVE  SumInv'
<1>1. WorkAdded' = WorkAdded
  BY DEF WorkAdded
<1>2. partial_sums' = [c \in Cpu |-> IF Stored(c)' THEN Work[c] ELSE 0]
  BY DEF SumInv
<1> QED BY <1>1, <1>2 DEF SumInv

(* A step in another stretch than test 2 neither stores nor adds. *)
LEMMA AwayKept ==
  ASSUME SumInv, ProgInv, NEW c \in Cpu, left[c] # 1, left' = left,
         prog' = [prog EXCEPT ![c] = @ + 1], UNCHANGED <<partial_sums, total_sum>>
  PROVE  SumInv'
<1>1. \A d \in Cpu : (Stored(d)' <=> Stored(d)) /\ (Added(d)' <=> Added(d))
  BY DEF Stored, Added, ProgInv
<1> QED BY <1>1, SumKept

LEMMA StoreSum ==
  ASSUME SumInv, ProgInv, NEW c \in Cpu, StorePartial(c)
  PROVE  SumInv'
<1>1. /\ left[c] = 1 /\ prog[c] = 0 /\ prog' = [prog EXCEPT ![c] = prog[c] + 1]
      /\ partial_sums' = [partial_sums EXCEPT ![c] = Work[c]]
      /\ UNCHANGED <<left, total_sum>>
  BY DEF StorePartial, Advance, InStretch, barrierVars, Work
<1>2. \A d \in Cpu : /\ Stored(d)' <=> Stored(d) \/ d = c
                     /\ Added(d)' <=> Added(d)
  BY <1>1 DEF Stored, Added, ProgInv
<1>3. partial_sums' = [d \in Cpu |-> IF Stored(d)' THEN Work[d] ELSE 0]
  BY <1>1, <1>2 DEF SumInv
<1>4. WorkAdded' = WorkAdded
  BY <1>2 DEF WorkAdded
<1> QED BY <1>1, <1>3, <1>4 DEF SumInv

(* __atomic_add_fetch: one addition for each CPU, whatever the others do. *)
LEMMA AddSum ==
  ASSUME SumInv, ProgInv, NEW c \in Cpu, AddToTotal(c)
  PROVE  SumInv'
<1>1. /\ left[c] = 1 /\ prog[c] = 1 /\ prog' = [prog EXCEPT ![c] = prog[c] + 1]
      /\ total_sum' = total_sum + Work[c]
      /\ UNCHANGED <<left, partial_sums>>
  BY DEF AddToTotal, Advance, InStretch, barrierVars, Work
<1>2. \A d \in Cpu : /\ Stored(d)' <=> Stored(d)
                     /\ Added(d)' <=> Added(d) \/ d = c
  BY <1>1 DEF Stored, Added, ProgInv
<1>3. ~Added(c)
  BY <1>1 DEF Added
<1>4. \A d \in Cpu : /\ WorkAdded[d] \in Int
                     /\ WorkAdded'[d] = IF d = c THEN WorkAdded[d] + Work[c] ELSE WorkAdded[d]
  BY <1>2, <1>3, WorkIn DEF WorkAdded
<1>5. SumOver(WorkAdded', Cpu) = SumOver(WorkAdded, Cpu) + Work[c]
  <2>1. PICK D, d, f, g, k : D = Cpu /\ d = Work[c] /\ f = WorkAdded /\ g = WorkAdded' /\ k = c
    OBVIOUS
  <2>2. /\ IsFiniteSet(D) /\ k \in D
        /\ \A i \in D : f[i] \in Int /\ g[i] = IF i = k THEN f[i] + d ELSE f[i]
    BY <1>4, <2>1, CpuFinite
  <2>3. d \in Int
    BY <2>1, WorkIn
  <2>4. SumOver(g, D) = IF k \in D THEN SumOver(f, D) + d ELSE SumOver(f, D)
    BY ONLY <2>2, <2>3, SumChange
  <2> QED BY <2>1, <2>2, <2>4
<1>6. partial_sums' = [d \in Cpu |-> IF Stored(d)' THEN Work[d] ELSE 0]
  BY <1>1, <1>2 DEF SumInv
<1> QED BY <1>1, <1>5, <1>6 DEF SumInv

(* Whoever returns from a barrier has added its sum just if it has been      *)
(* through test 2.                                                           *)
LEMMA WaitSum ==
  ASSUME TestsInv, SumInv, NEW c \in Present, Wait(c)
  PROVE  SumInv'
<1>1. c \in Cpu
  BY TestsAssumption
<1>2. /\ prog' = IF left'[c] = left[c] THEN prog ELSE [prog EXCEPT ![c] = 0]
      /\ UNCHANGED <<partial_sums, total_sum>>
      /\ left' = left \/ (left' = [left EXCEPT ![c] = @ + 1] /\ at[c] # "outside")
  BY WaitEffect DEF results
<1>3. CASE left' = left
  BY <1>2, <1>3, SumKept DEF Stored, Added
<1>4. CASE left' = [left EXCEPT ![c] = @ + 1] /\ at[c] # "outside"
  <2>1. left \in [Cpu -> Nat]
    BY DEF TestsInv, BarrierKept, B!TypeOK, B!Cpu
  <2>2. left'[c] = left[c] + 1 /\ \A d \in Cpu \ {c} : left'[d] = left[d]
    BY <1>1, <1>4, <2>1
  <2>3. prog'[c] = 0 /\ \A d \in Cpu \ {c} : prog'[d] = prog[d]
    BY <1>1, <1>2, <2>1, <2>2 DEF TestsInv, ProgInv
  <2>4. left[c] = 1 => prog[c] = 2
    BY <1>1, <1>4, StretchLengths DEF TestsInv, ProgInv
  <2>5. ASSUME NEW d \in Cpu
        PROVE  (Stored(d)' <=> Stored(d)) /\ (Added(d)' <=> Added(d))
    <3>1. CASE d = c
      BY <2>1, <2>2, <2>3, <2>4, <3>1 DEF Stored, Added
    <3>2. CASE d # c
      BY <2>2, <2>3, <3>2 DEF Stored, Added
    <3> QED BY <3>1, <3>2
  <2> QED BY <1>2, <2>5, SumKept
<1> QED BY <1>2, <1>3, <1>4

LEMMA SumsStep ==
  ASSUME TestsInv, SumInv, ReportTypes, [Next]_vars
  PROVE  SumInv' /\ ReportTypes'
<1>1. CASE UNCHANGED vars
  <2>1. UNCHANGED <<left, prog, partial_sums, total_sum>>
    BY <1>1 DEF vars, barrierVars, results
  <2> QED BY <1>1, <2>1, SumKept DEF vars, report, ReportTypes, Stored, Added
<1>2. ASSUME NEW c \in Present, CpuStep(c) PROVE SumInv' /\ ReportTypes'
  <2>0. c \in Cpu
    BY TestsAssumption
  <2>1. CASE Count(c) \/ ResetCounter(c)
    <3>1. /\ left[c] # 1 /\ left' = left /\ prog' = [prog EXCEPT ![c] = @ + 1]
          /\ UNCHANGED <<partial_sums, total_sum, report>>
      BY <2>1 DEF Count, ResetCounter, InStretch, Advance, barrierVars
    <3> QED BY <2>0, <3>1, AwayKept DEF TestsInv, ReportTypes, report
  <2>2. CASE StorePartial(c)
    BY <2>0, <2>2, StoreSum DEF TestsInv, StorePartial, ReportTypes, report
  <2>3. CASE AddToTotal(c)
    BY <2>0, <2>3, AddSum DEF TestsInv, AddToTotal, ReportTypes, report
  <2>4. CASE Wait(c)
    BY <2>4, WaitSum, WaitEffect DEF ReportTypes, report
  <2>5. CASE Report
    <3>1. UNCHANGED <<left, prog, partial_sums, total_sum>>
      BY <2>5 DEF Report, ShowTest1, ShowTest3, ShowVerdict, barrierVars, results
    <3>2. SumInv'
      BY <3>1, SumKept DEF Stored, Added
    <3>3. test1_ok' \in [Cpu -> {None, "ok", "fail"}]
      BY <2>5 DEF ReportTypes, Report, ShowTest1, ShowTest3, ShowVerdict
    <3>4. barrier_ok' \in BOOLEAN
      BY <2>5 DEF ReportTypes, Report, ShowTest1, ShowTest3, ShowVerdict
    <3>5. verdict' \in {None, "success", "warning"}
      BY <2>5 DEF ReportTypes, Report, ShowTest1, ShowTest3, ShowVerdict
    <3> QED BY <3>2, <3>3, <3>4, <3>5 DEF ReportTypes
  <2> QED BY <1>2, <2>1, <2>2, <2>3, <2>4, <2>5 DEF CpuStep
<1> QED BY <1>1, <1>2 DEF Next, Halted

LEMMA SumsInit == Init => SumInv /\ ReportTypes
<1> SUFFICES ASSUME Init PROVE SumInv /\ ReportTypes
  OBVIOUS
<1>1. left = [c \in Cpu |-> 0]
  BY DEF Init, Barrier!Init, Barrier!Cpu
<1>2. \A c \in Cpu : ~Stored(c) /\ ~Added(c)
  BY <1>1 DEF Stored, Added
<1>3. \A c \in Cpu : WorkAdded[c] = 0
  BY <1>2 DEF WorkAdded
<1>4. SumOver(WorkAdded, Cpu) = 0
  BY <1>3, CpuFinite, SumZero
<1>5. partial_sums = [c \in Cpu |-> IF Stored(c) THEN Work[c] ELSE 0]
  BY <1>2 DEF Init
<1> QED BY <1>4, <1>5 DEF Init, SumInv, ReportTypes

LEMMA SumsInvariant == Spec => [](TestsInv /\ SumInv /\ ReportTypes)
<1>1. Init => TestsInv /\ SumInv /\ ReportTypes
  BY TestsInit, SumsInit
<1>2. TestsInv /\ SumInv /\ ReportTypes /\ [Next]_vars => (TestsInv /\ SumInv /\ ReportTypes)'
  BY TestsStep, SumsStep
<1> QED BY <1>1, <1>2, PTL DEF Spec

(* Past the barrier of test 2 every CPU has added its sum. *)
LEMMA AllAdded ==
  ASSUME TestsInv, NEW c \in Cpu, left[c] >= 2, NEW d \in Cpu
  PROVE  Stored(d) /\ Added(d)
<1>1. /\ at[d] = "outside" => arrived[d] = left[d]
      /\ arrived[d] <= left[d] + 1
      /\ left[d] \in Nat /\ arrived[d] \in Nat /\ left[c] <= arrived[d]
      /\ left[c] \in Nat
  BY Places DEF TestsInv
<1>2. left[d] >= 1
  BY <1>1
<1>3. left[d] = 1 => prog[d] = 2
  BY <1>1, StretchLengths DEF TestsInv, ProgInv
<1> QED BY <1>1, <1>2, <1>3 DEF Stored, Added

(* Once any CPU is past the barrier behind test_distributed_sum the total is *)
(* the sum of 1 to SUM_TARGET and that of the partial sums printed, for any  *)
(* number of CPUs and any target, divisible by it or not: the ranges cover   *)
(* the numbers once and no addition is lost or repeated.                     *)
THEOREM TestsSumComplete == Spec => []SumComplete
<1>1. TestsInv /\ SumInv => SumComplete
  <2> SUFFICES ASSUME TestsInv, SumInv, NEW c \in Cpu, left[c] >= 2
               PROVE  /\ total_sum = ExpectedSum
                      /\ total_sum = MapThenSumSet(LAMBDA i : partial_sums[i], Cpu)
    BY Zenon DEF SumComplete
  <2>1. \A d \in Cpu : /\ Work[d] \in Int
                       /\ WorkAdded[d] = Work[d] /\ partial_sums[d] = Work[d]
    BY AllAdded, WorkIn DEF SumInv, WorkAdded
  <2>2. SumOver(WorkAdded, Cpu) = SumOver(Work, Cpu)
    BY <2>1, CpuFinite, SumSame
  <2>3. SumOver(partial_sums, Cpu) = SumOver(Work, Cpu)
    BY <2>1, CpuFinite, SumSame
  <2>4. total_sum = ExpectedSum /\ total_sum = SumOver(partial_sums, Cpu)
    BY <2>2, <2>3, WorkAll DEF SumInv
  <2> QED BY <2>4, Zenon DEF SumOver
<1> QED BY <1>1, SumsInvariant, PTL

(* The types: no counter passes the end of its loop, and no sum passes the   *)
(* one expected.                                                             *)
THEOREM TestsTyped == Spec => []TypeOK
<1>1. TestsInv /\ SumInv /\ ReportTypes => TypeOK
  <2> SUFFICES ASSUME TestsInv, SumInv, ReportTypes PROVE TypeOK
    OBVIOUS
  <2> USE TestsAssumption
  <2>1. Barrier!TypeOK
    BY DEF TestsInv, BarrierKept, B!TypeOK, B!Cpu, B!Place, B!Outside, B!Entered, B!Last,
       B!Closing, B!Spin, Barrier!TypeOK, Barrier!Cpu, Barrier!Place, Barrier!Outside,
       Barrier!Entered, Barrier!Last, Barrier!Closing, Barrier!Spin
  <2>2. prog \in [Cpu -> 0 .. 2 * Half + 2] /\ per_cpu_counters \in [Cpu -> 0 .. 2 * Half]
    <3>1. ASSUME NEW c \in Cpu
          PROVE  prog[c] \in 0 .. 2 * Half + 2 /\ per_cpu_counters[c] \in 0 .. 2 * Half
      <4>1. left[c] \in {0, 1, 2, 3, 4} /\ prog[c] \in Nat /\ prog[c] <= StretchLength(left[c])
        BY DEF TestsInv, ProgInv
      <4> QED BY <4>1, StretchLengths DEF TestsInv, CounterInv
    <3> QED BY <3>1 DEF TestsInv, ProgInv, CounterInv
  <2>3. ExpectedSum \in Nat
    <3>1. ExpectedSum = Gauss[SumTarget]
      BY DEF Gauss, ExpectedSum
    <3> QED BY <3>1, GaussSteps
  <2>4. partial_sums \in [Cpu -> 0 .. ExpectedSum]
    <3>1. \A c \in Cpu : Work[c] \in 0 .. ExpectedSum /\ 0 \in 0 .. ExpectedSum
      BY <2>3, WorkIn
    <3> QED BY <3>1 DEF SumInv
  <2>5. total_sum \in 0 .. ExpectedSum
    <3> DEFINE zero == [c \in Cpu |-> 0]
    <3>1. \A c \in Cpu : /\ zero[c] = 0 /\ zero[c] \in Int /\ Work[c] \in Int
                         /\ WorkAdded[c] \in Int
                         /\ zero[c] <= WorkAdded[c] /\ WorkAdded[c] <= Work[c]
      BY WorkIn DEF WorkAdded
    <3> HIDE DEF zero
    <3>2. SumOver(zero, Cpu) = 0
      BY <3>1, CpuFinite, SumZero
    <3>3. SumOver(zero, Cpu) <= SumOver(WorkAdded, Cpu)
      BY <3>1, CpuFinite, SumMonotone
    <3>4. SumOver(WorkAdded, Cpu) <= SumOver(Work, Cpu)
      BY <3>1, CpuFinite, SumMonotone
    <3>5. SumOver(WorkAdded, Cpu) \in Int
      BY <3>1, CpuFinite, SumInt
    <3> QED BY <2>3, <3>2, <3>3, <3>4, <3>5, WorkAll DEF SumInv
  <2> QED BY <2>1, <2>2, <2>4, <2>5 DEF TypeOK, ReportTypes, TestsInv, ReportInv
<1> QED BY <1>1, SumsInvariant, PTL

================================================================================
