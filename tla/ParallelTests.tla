----------------------------- MODULE ParallelTests -----------------------------
(***************************************************************************)
(* The parallel tests every CPU of the C kernel runs once it is up         *)
(* (ap_entry on the APs, kernel_main on the BSP), over the barrier of      *)
(* BarrierWait, and the report the BSP prints from the shared results.     *)
(*                                                                         *)
(* The barrier is called four times, so the number of calls that returned, *)
(* left[c], says which stretch of code c is in:                            *)
(*    0  test_parallel_counters       3  first half of test_barrier_sync   *)
(*    1  test_distributed_sum         4  second half, then halt or report  *)
(*    2  reset of the counter                                              *)
(* The loops run to 2*Half and SumTarget where the code has 1,000,000 and  *)
(* SUM_TARGET = 10,000,000.                                                *)
(***************************************************************************)
EXTENDS Naturals, FiniteSetsExt

CONSTANTS CpuCount, Present, Half, SumTarget

ASSUME TestsAssumption ==
  /\ CpuCount \in Nat \ {0}
  /\ Present \subseteq 0 .. CpuCount - 1
  /\ 0 \in Present
  /\ Half \in Nat \ {0}
  /\ SumTarget \in Nat

VARIABLES
  barrier_count, barrier_sense, my_sense, at, arrived, left, flips,
  per_cpu_counters,
  partial_sums,
  total_sum,
  prog,        \* prog[c]: steps c has made in the stretch it is in
  test1_ok,    \* what the report says of each CPU under TEST 1
  barrier_ok,  \* barrier_ok of kernel_main
  shown,       \* how many of the report's reads are done
  verdict      \* the line the report ends with

Barrier == INSTANCE BarrierWait WITH Rounds <- 4

barrierVars == <<barrier_count, barrier_sense, my_sense, at, arrived, left, flips>>
results == <<per_cpu_counters, partial_sums, total_sum>>
report == <<test1_ok, barrier_ok, shown, verdict>>
vars == <<barrierVars, results, prog, report>>

Cpu == 0 .. CpuCount - 1
BSP == 0
None == "none"

Init ==
  /\ Barrier!Init
  /\ per_cpu_counters = [c \in Cpu |-> 0]
  /\ partial_sums = [c \in Cpu |-> 0]
  /\ total_sum = 0
  /\ prog = [c \in Cpu |-> 0]
  /\ test1_ok = [c \in Cpu |-> None]
  /\ barrier_ok = TRUE
  /\ shown = 0
  /\ verdict = None

InStretch(c, k) == at[c] = Barrier!Outside /\ left[c] = k

Advance(c) == prog' = [prog EXCEPT ![c] = @ + 1]

\* The number of steps in stretch k.
StretchLength(k) ==
  CASE k = 0 -> 2 * Half
    [] k = 1 -> 2
    [] k = 2 -> 1
    [] k \in {3, 4} -> Half

StretchDone(c) == at[c] = Barrier!Outside /\ prog[c] = StretchLength(left[c])

\* per_cpu_counters[cpu_id]++ of test_parallel_counters and test_barrier_sync
Count(c) ==
  /\ \E k \in {0, 3, 4} : InStretch(c, k) /\ prog[c] < StretchLength(k)
  /\ per_cpu_counters' = [per_cpu_counters EXCEPT ![c] = @ + 1]
  /\ Advance(c)
  /\ UNCHANGED <<barrierVars, partial_sums, total_sum, report>>

\* Faulty variant: the remainder of the division is nobody's.
WorkRangeNoRemainder(c) ==
  LET per_cpu_work == SumTarget \div CpuCount
  IN  (c * per_cpu_work + 1) .. ((c + 1) * per_cpu_work)

\* start .. end of test_distributed_sum
WorkRange(c) ==
  LET per_cpu_work == SumTarget \div CpuCount
      end == IF c = CpuCount - 1 THEN SumTarget ELSE (c + 1) * per_cpu_work
  IN  (c * per_cpu_work + 1) .. end

\* partial_sums[cpu_id] = local_sum;
StorePartial(c) ==
  /\ InStretch(c, 1) /\ prog[c] = 0
  /\ partial_sums' = [partial_sums EXCEPT ![c] = SumSet(WorkRange(c))]
  /\ Advance(c)
  /\ UNCHANGED <<barrierVars, per_cpu_counters, total_sum, report>>

\* __atomic_add_fetch(&total_sum, local_sum)
AddToTotal(c) ==
  /\ InStretch(c, 1) /\ prog[c] = 1
  /\ total_sum' = total_sum + SumSet(WorkRange(c))
  /\ Advance(c)
  /\ UNCHANGED <<barrierVars, per_cpu_counters, partial_sums, report>>

\* Faulty variant: the counter keeps what test 1 left in it.
KeepCounter(c) ==
  /\ InStretch(c, 2) /\ prog[c] = 0
  /\ Advance(c)
  /\ UNCHANGED <<barrierVars, results, report>>

\* per_cpu_counters[my_id] = 0;  before test 3
ResetCounter(c) ==
  /\ InStretch(c, 2) /\ prog[c] = 0
  /\ per_cpu_counters' = [per_cpu_counters EXCEPT ![c] = 0]
  /\ Advance(c)
  /\ UNCHANGED <<barrierVars, partial_sums, total_sum, report>>

\* A step of barrier_wait, called at the end of stretches 0 to 3
WaitStep(c) ==
  /\ left[c] < 4
  /\ at[c] = Barrier!Outside => StretchDone(c)
  /\ Barrier!Step(c)
  /\ prog' = IF left'[c] = left[c] THEN prog ELSE [prog EXCEPT ![c] = 0]
  /\ UNCHANGED <<results, report>>

\* Going on without calling barrier_wait at the end of stretch k
JumpPast(c, k) ==
  /\ left[c] = k /\ StretchDone(c)
  /\ left' = [left EXCEPT ![c] = k + 1]
  /\ arrived' = [arrived EXCEPT ![c] = k + 1]
  /\ prog' = [prog EXCEPT ![c] = 0]
  /\ UNCHANGED <<barrier_count, barrier_sense, my_sense, at, flips, results, report>>

\* Faulty variant: the second half of test 3 does not wait for the others.
SkipLastWait(c) ==
  IF left[c] = 3 /\ StretchDone(c) THEN JumpPast(c, 3) ELSE WaitStep(c)

\* Faulty variant: the BSP does not join the barrier after test 1.
BspSkipsWait(c) ==
  IF c = BSP /\ left[c] = 0 /\ StretchDone(c) THEN JumpPast(c, 0) ELSE WaitStep(c)

Wait(c) == WaitStep(c)

ExpectedSum == (SumTarget * (SumTarget + 1)) \div 2

Reporting == InStretch(BSP, 4) /\ StretchDone(BSP)

\* The loop under "TEST 1: Parallel Counters"
ShowTest1 ==
  /\ Reporting /\ shown < CpuCount
  /\ test1_ok' = [test1_ok EXCEPT ![shown] =
                    IF per_cpu_counters[shown] = 2 * Half THEN "ok" ELSE "fail"]
  /\ shown' = shown + 1
  /\ UNCHANGED <<barrierVars, results, prog, barrier_ok, verdict>>

\* The loop under "TEST 3: Barrier Synchronization"
ShowTest3 ==
  /\ Reporting /\ shown \in CpuCount .. 2 * CpuCount - 1
  /\ barrier_ok' = (barrier_ok /\ per_cpu_counters[shown - CpuCount] = 2 * Half)
  /\ shown' = shown + 1
  /\ UNCHANGED <<barrierVars, results, prog, test1_ok, verdict>>

\* Faulty variant: the final line is printed from the sum alone.
ShowVerdictFromSum ==
  /\ Reporting /\ shown = 2 * CpuCount /\ verdict = None
  /\ verdict' = IF total_sum = ExpectedSum THEN "success" ELSE "warning"
  /\ UNCHANGED <<barrierVars, results, prog, test1_ok, barrier_ok, shown>>

\* "[SUCCESS] All parallel tests passed!" or "[WARNING] Some tests failed"
ShowVerdict ==
  /\ Reporting /\ shown = 2 * CpuCount /\ verdict = None
  /\ verdict' = IF total_sum = ExpectedSum /\ barrier_ok THEN "success" ELSE "warning"
  /\ UNCHANGED <<barrierVars, results, prog, test1_ok, barrier_ok, shown>>

Report == ShowTest1 \/ ShowTest3 \/ ShowVerdict

CpuStep(c) ==
  \/ Count(c)
  \/ StorePartial(c)
  \/ AddToTotal(c)
  \/ ResetCounter(c)
  \/ Wait(c)
  \/ c = BSP /\ Report

\* All halted: while (1) hlt;
Halted ==
  /\ \A c \in Present : left[c] = 4 /\ StretchDone(c)
  /\ verdict # None
  /\ UNCHANGED vars

Next == (\E c \in Present : CpuStep(c)) \/ Halted

Spec == Init /\ [][Next]_vars

\* Every CPU that started executes its program; nothing in it yields.
FairSpec == Spec /\ \A c \in Present : WF_vars(CpuStep(c))

--------------------------------------------------------------------------------
(* Every variable holds a value it can have; no counter passes its loop's    *)
(* end, so a comparison with == on it is meaningful.                         *)
TypeOK ==
  /\ Barrier!TypeOK
  /\ per_cpu_counters \in [Cpu -> 0 .. 2 * Half]
  /\ partial_sums \in [Cpu -> 0 .. ExpectedSum]
  /\ total_sum \in 0 .. ExpectedSum
  /\ prog \in [Cpu -> 0 .. 2 * Half + 2]
  /\ test1_ok \in [Cpu -> {None, "ok", "fail"}]
  /\ barrier_ok \in BOOLEAN
  /\ shown \in 0 .. 2 * CpuCount
  /\ verdict \in {None, "success", "warning"}

(* Once any CPU is past the barrier that follows test 2, the total is        *)
(* complete and right, and is the sum of the partial sums the report prints. *)
SumComplete ==
  (\E c \in Cpu : left[c] >= 2) =>
    /\ total_sum = ExpectedSum
    /\ total_sum = MapThenSumSet(LAMBDA c : partial_sums[c], Cpu)

(* "everyone starts together": while a CPU runs the second half of test 3    *)
(* every CPU has counted the whole first half, from a counter that was reset. *)
SecondHalfTogether ==
  (\E c \in Cpu : left[c] = 4) =>
    \A d \in Cpu : per_cpu_counters[d] \in Half .. 2 * Half

(* The report never says "All parallel tests passed" of an unfinished or     *)
(* wrong test, though it reads the counters one by one while others write.   *)
SuccessIsTrue ==
  verdict = "success" =>
    /\ total_sum = ExpectedSum
    /\ \A c \in Cpu : left[c] = 4 /\ per_cpu_counters[c] = 2 * Half

(* If a CPU that the MADT lists did not start, the BSP reads no counter and  *)
(* prints no line of the report: it never gets through the first barrier.    *)
ReportNeedsAll == Present # Cpu => shown = 0 /\ verdict = None

(* With every CPU started, every CPU ends its tests and the BSP its report.  *)
TestsEnd ==
  /\ <>(verdict # None)
  /\ <>[](\A c \in Cpu : per_cpu_counters[c] = 2 * Half)

(* What the report's "[FAIL] Some CPUs didn't reach barrier" says: a CPU has *)
(* not arrived at the barrier of test 3.                                     *)
FailureIsTrue == ~barrier_ok => \E c \in Cpu : arrived[c] < 4

(* What going on after "[WARNING] Not all CPUs came online ... may be normal *)
(* in some environments" promises: the BSP gets through the tests.  It does  *)
(* not if a CPU is absent (README, section 3).                               *)
ReportComes == <>(verdict # None)
================================================================================
