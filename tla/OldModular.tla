------------------------------- MODULE OldModular -------------------------------
(***************************************************************************)
(* The modular kernel in archive/old-modular: the BSP starts the APs one   *)
(* by one (smp_boot_aps), then has a task run "on each CPU" (on_each_cpu)  *)
(* and judges the sum the tasks leave behind a spin lock (main.c).         *)
(*                                                                         *)
(* An AP looks at global_func once, in ap_boot_complete, and then halts    *)
(* with interrupts off.  One that halts before the BSP's delays and prints *)
(* are over never sees a task; a late one may see it at any point of       *)
(* on_each_cpu.  CPUs are named by their index in cpu_ids.                 *)
(*                                                                         *)
(* All APs run on one stack: kernel_main sets trampoline_stack once.  A    *)
(* call of an AP writes its return address there, and its return is a step *)
(* of its own, to whatever address it then finds.  But for spin_lock and   *)
(* atomic_read a callee has done its work when it has been called.  The    *)
(* BSP has a stack to itself, so its calls just return.  The arguments of  *)
(* the callees and the registers they save are on the stack as well and    *)
(* are not followed: once two APs have been in a call at the same time     *)
(* (clobbered), the model shows some of what can happen, and not all.      *)
(***************************************************************************)
EXTENDS Integers, FiniteSets

CONSTANTS
  CpuCount,       \* cpu_count, as acpi_get_cpu_count gives it
  Bsp,            \* the index of the CPU that boots
  MayFail,        \* the APs that may turn out not to start
  MayBeLate,      \* the APs that may outlast the delays of the BSP
  MaxOverwrites   \* bound: a run is followed to this many overwrites

Cpu == 0 .. CpuCount - 1
Ap == Cpu \ {Bsp}

ASSUME ModularAssumption ==
  /\ CpuCount \in 1 .. 16             \* MAX_CPUS
  /\ Bsp \in Cpu
  /\ MayFail \subseteq Ap /\ MayBeLate \subseteq Ap
  /\ MaxOverwrites \in Nat

VARIABLES
  pc,             \* where each CPU is
  idx,            \* the loops of smp_boot_aps and on_each_cpu
  cpus_booted,
  initial_count,  \* what smp_boot_aps waits to see changed
  global_func,    \* whether the pointer is set
  cpus_ready, cpus_finished,
  result_lock,
  local,          \* the shared_result a CPU has in a register
  shared_result,  \* in units of one task's result
  cores_done,
  additions,      \* how many results have been added to shared_result
  outcome,        \* what main.c prints at the end
  dead, late,     \* the APs that fail and that are late, fixed from the start
  stack,          \* the return addresses on the stack of the APs, by depth
  local_result,   \* by stack: 1 for the whole sum, 0 for any other
  overwrites      \* the calls APs have made while another AP was in a call

boot == <<cpus_booted, initial_count>>
call == <<global_func, cpus_ready, cpus_finished>>
task == <<result_lock, local, shared_result, cores_done, additions>>
chance == <<dead, late>>
frames == <<stack, local_result, overwrites>>
vars == <<pc, idx, boot, call, task, outcome, chance, frames>>

\* kernel_main: trampoline_stack = 0x7000, for every AP
StackOf(c) == IF c = Bsp THEN "bsp" ELSE "aps"

\* smp_init has counted the BSP.
Init ==
  /\ pc = [c \in Cpu |-> IF c = Bsp THEN "boot" ELSE "parked"]
  /\ idx = 0
  /\ cpus_booted = 1
  /\ initial_count = 0
  /\ global_func = FALSE
  /\ cpus_ready = 0
  /\ cpus_finished = 0
  /\ result_lock = 0
  /\ local = [c \in Cpu |-> 0]
  /\ shared_result = 0
  /\ cores_done = 0
  /\ additions = 0
  /\ outcome = "none"
  /\ dead \in SUBSET MayFail
  /\ late \in SUBSET MayBeLate
  /\ stack = [depth \in 1 .. 2 |-> "none"]
  /\ local_result = [s \in {"bsp", "aps"} |-> 0]
  /\ overwrites = 0

Goto(c, from, to) == pc[c] = from /\ pc' = [pc EXCEPT ![c] = to]

\* An AP here is in no call: it is in ap_boot_complete itself, or does not run.
AtTop == {"parked", "started", "identified", "look", "look_ready", "call", "finish",
          "unready", "clear", "halt", "halted"}

\* Two APs have been in a call at once: one has overwritten the frame of the other.
clobbered == overwrites > 0

\* A call from the place from, at depth 1 by ap_boot_complete and at depth 2 by
\* computation_task.  The BSP is alone on its stack and comes back to the call.
Call(c, depth, from, callee, back) ==
  IF c = Bsp THEN Goto(c, from, back) /\ UNCHANGED <<stack, overwrites>>
  ELSE /\ Goto(c, from, callee)
       /\ stack' = [stack EXCEPT ![depth] = back]
       /\ IF \E a \in Ap \ {c} : pc[a] \notin AtTop
          THEN overwrites' = overwrites + 1
          ELSE UNCHANGED overwrites

\* The ret of a call: to the test behind atomic_read, if that is what the stack
\* says, with the answer in a register, and to any other place as it is.
Resume(c, depth, answers) ==
  \E positive \in answers :
    pc' = [pc EXCEPT ![c] = IF stack[depth] # "ready" THEN stack[depth]
                            ELSE IF positive THEN "call" ELSE "halt"]

\* Where a callee has done its work, by depth; a register holds anything by then.
Returning == <<{"boot_id", "counted", "leave", "finished", "unreadied"},
               {"task_id", "locked", "unlocked", "done_counted", "printed"}>>

Return(c) ==
  /\ IF c = Bsp THEN Goto(c, "leave", "finish")
     ELSE \E depth \in 1 .. 2 : pc[c] \in Returning[depth] /\ Resume(c, depth, BOOLEAN)
  /\ UNCHANGED <<idx, boot, call, task, outcome, chance, frames>>

\* An AP that is in time has halted whenever the BSP's next delay is over.
InTimeHalted == \A a \in Ap : pc[a] = "parked" \/ a \in dead \cup late \/ pc[a] = "halted"

--------------------------------------------------------------------------------
(* smp_boot_aps                                                              *)

SkipBsp ==
  /\ pc[Bsp] = "boot" /\ idx = Bsp
  /\ idx' = idx + 1
  /\ UNCHANGED <<pc, boot, call, task, outcome, chance, frames>>

\* Faulty variant: the delays are left out, and the next AP is started at once.
StartApHasty ==
  /\ pc[Bsp] = "boot" /\ idx \in Ap
  /\ pc' = [pc EXCEPT ![Bsp] = "sent",
                      ![idx] = IF idx \in dead THEN "parked" ELSE "started"]
  /\ UNCHANGED <<idx, boot, call, task, outcome, chance, frames>>

\* INIT and two SIPIs start AP idx; only then is cpus_booted read.
StartAp ==
  /\ pc[Bsp] = "boot" /\ idx \in Ap
  /\ InTimeHalted
  /\ pc' = [pc EXCEPT ![Bsp] = "sent",
                      ![idx] = IF idx \in dead THEN "parked" ELSE "started"]
  /\ UNCHANGED <<idx, boot, call, task, outcome, chance, frames>>

ReadInitialCount ==
  /\ Goto(Bsp, "sent", "await")
  /\ initial_count' = cpus_booted
  /\ UNCHANGED <<idx, cpus_booted, call, task, outcome, chance, frames>>

\* The count has changed, or the polls have run out: an AP in time has halted
\* by then, before initial_count was read or after.
AwaitEnds ==
  /\ Goto(Bsp, "await", "boot")
  /\ cpus_booted # initial_count \/ InTimeHalted
  /\ idx' = idx + 1
  /\ UNCHANGED <<boot, call, task, outcome, chance, frames>>

BootComplete ==
  /\ idx = CpuCount /\ InTimeHalted
  /\ Goto(Bsp, "boot", "set_func")
  /\ UNCHANGED <<idx, boot, call, task, outcome, chance, frames>>

--------------------------------------------------------------------------------
(* on_each_cpu                                                               *)

SetFunc ==
  /\ Goto(Bsp, "set_func", "set_ready")
  /\ global_func' = TRUE
  /\ UNCHANGED <<idx, boot, cpus_ready, cpus_finished, task, outcome, chance, frames>>

SetReady ==
  /\ Goto(Bsp, "set_ready", "set_finished")
  /\ cpus_ready' = CpuCount
  /\ UNCHANGED <<idx, boot, global_func, cpus_finished, task, outcome, chance, frames>>

SetFinished ==
  /\ Goto(Bsp, "set_finished", "each")
  /\ cpus_finished' = 0
  /\ idx' = 0
  /\ UNCHANGED <<boot, global_func, cpus_ready, task, outcome, chance, frames>>

\* One turn of the loop: if (atomic_read(&cpus_ready) > 0) func(info)
EachTurn ==
  /\ pc[Bsp] = "each" /\ idx < CpuCount
  /\ pc' = [pc EXCEPT ![Bsp] = IF cpus_ready > 0 THEN "task" ELSE "each"]
  /\ idx' = idx + 1
  /\ UNCHANGED <<boot, call, task, outcome, chance, frames>>

\* Faulty variant: the wait is for one CPU too many.
EachEndsBeyond ==
  /\ idx = CpuCount /\ cpus_finished > CpuCount
  /\ Goto(Bsp, "each", "await_done")
  /\ UNCHANGED <<idx, boot, call, task, outcome, chance, frames>>

\* Faulty variant: the pointer is cleared when the wait is over.
EachEndsClearing ==
  /\ idx = CpuCount /\ cpus_finished >= CpuCount
  /\ Goto(Bsp, "each", "await_done")
  /\ global_func' = FALSE
  /\ UNCHANGED <<idx, boot, cpus_ready, cpus_finished, task, outcome, chance, frames>>

\* while (atomic_read(&cpus_finished) < cpu_count)
EachEnds ==
  /\ idx = CpuCount /\ cpus_finished >= CpuCount
  /\ Goto(Bsp, "each", "await_done")
  /\ UNCHANGED <<idx, boot, call, task, outcome, chance, frames>>

--------------------------------------------------------------------------------
(* computation_task                                                          *)

\* smp_processor_id(), for the output
TaskBegins(c) ==
  /\ Call(c, 2, "task", "task_id", "sum")
  /\ UNCHANGED <<idx, boot, call, task, outcome, chance, local_result>>

SumBegins(c) ==
  /\ Goto(c, "sum", "summing")
  /\ local_result' = [local_result EXCEPT ![StackOf(c)] = 0]
  /\ UNCHANGED <<idx, boot, call, task, outcome, chance, stack, overwrites>>

\* The counter of the loop is on the stack as well.
SumEnds(c) ==
  /\ Goto(c, "summing", "lock")
  /\ \E sum \in IF c # Bsp /\ clobbered THEN {0, 1} ELSE {1} :
       local_result' = [local_result EXCEPT ![StackOf(c)] = sum]
  /\ UNCHANGED <<idx, boot, call, task, outcome, chance, stack, overwrites>>

CallSpinLock(c) ==
  /\ c # Bsp
  /\ Call(c, 2, "lock", "spin", "load")
  /\ UNCHANGED <<idx, boot, call, task, outcome, chance, local_result>>

\* Faulty variant: the lock is taken without a look at its old value.
SpinLockBlind(c) ==
  /\ IF c = Bsp THEN Goto(c, "lock", "load") ELSE Goto(c, "spin", "locked")
  /\ result_lock' = 1
  /\ UNCHANGED <<idx, boot, call, local, shared_result, cores_done, additions, outcome, chance,
                 frames>>

\* spin_lock is done when test-and-set finds the lock free.
SpinLock(c) ==
  /\ IF c = Bsp THEN Goto(c, "lock", "load") ELSE Goto(c, "spin", "locked")
  /\ result_lock = 0
  /\ result_lock' = 1
  /\ UNCHANGED <<idx, boot, call, local, shared_result, cores_done, additions, outcome, chance,
                 frames>>

\* shared_result += local_result is a load and a store.
LoadResult(c) ==
  /\ Goto(c, "load", "store")
  /\ local' = [local EXCEPT ![c] = shared_result]
  /\ UNCHANGED <<idx, boot, call, result_lock, shared_result, cores_done, additions, outcome,
                 chance, frames>>

StoreResult(c) ==
  /\ Goto(c, "store", "unlock")
  /\ shared_result' = local[c] + local_result[StackOf(c)]
  /\ additions' = additions + 1
  /\ UNCHANGED <<idx, boot, call, result_lock, local, cores_done, outcome, chance, frames>>

SpinUnlock(c) ==
  /\ Call(c, 2, "unlock", "unlocked", "done")
  /\ result_lock' = 0
  /\ UNCHANGED <<idx, boot, call, local, shared_result, cores_done, additions, outcome, chance,
                 local_result>>

CoreDone(c) ==
  /\ Call(c, 2, "done", "done_counted", "print")
  /\ cores_done' = cores_done + 1
  /\ UNCHANGED <<idx, boot, call, result_lock, local, shared_result, additions, outcome, chance,
                 local_result>>

\* serial_printf, and the end of the task
PrintDone(c) ==
  /\ Call(c, 2, "print", "printed", "leave")
  /\ UNCHANGED <<idx, boot, call, task, outcome, chance, local_result>>

\* The caller's atomic_inc(&cpus_finished); atomic_dec(&cpus_ready)
Finish(c) ==
  /\ Call(c, 1, "finish", "finished", "unready")
  /\ cpus_finished' = cpus_finished + 1
  /\ UNCHANGED <<idx, boot, global_func, cpus_ready, task, outcome, chance, local_result>>

NoLongerReady(c) ==
  /\ Call(c, 1, "unready", "unreadied", IF c = Bsp THEN "each" ELSE "clear")
  /\ cpus_ready' = cpus_ready - 1
  /\ UNCHANGED <<idx, boot, global_func, cpus_finished, task, outcome, chance, local_result>>

Task(c) ==
  \/ TaskBegins(c) \/ SumBegins(c) \/ SumEnds(c)
  \/ CallSpinLock(c) \/ SpinLock(c) \/ LoadResult(c) \/ StoreResult(c) \/ SpinUnlock(c)
  \/ CoreDone(c) \/ PrintDone(c) \/ Finish(c) \/ NoLongerReady(c) \/ Return(c)

--------------------------------------------------------------------------------
(* ap_boot_complete                                                          *)

Identify(a) ==
  /\ Call(a, 1, "started", "boot_id", "identified")
  /\ UNCHANGED <<idx, boot, call, task, outcome, chance, local_result>>

Booted(a) ==
  /\ Call(a, 1, "identified", "counted", "look")
  /\ cpus_booted' = cpus_booted + 1
  /\ UNCHANGED <<idx, initial_count, call, task, outcome, chance, local_result>>

\* if (global_func && ...
LookForFunc(a) ==
  /\ Goto(a, "look", IF global_func THEN "look_ready" ELSE "halt")
  /\ UNCHANGED <<idx, boot, call, task, outcome, chance, frames>>

\* ... atomic_read(&cpus_ready) > 0)
LookForReady(a) ==
  /\ Call(a, 1, "look_ready", "reading", "ready")
  /\ UNCHANGED <<idx, boot, call, task, outcome, chance, local_result>>

ReadReady(a) ==
  /\ pc[a] = "reading" /\ Resume(a, 1, {cpus_ready > 0})
  /\ UNCHANGED <<idx, boot, call, task, outcome, chance, frames>>

\* global_func(global_info) reads the pointer again.
CallFunc(a) ==
  /\ Call(a, 1, "call", IF global_func THEN "task" ELSE "null_call", "finish")
  /\ UNCHANGED <<idx, boot, call, task, outcome, chance, local_result>>

ClearFunc(a) ==
  /\ Goto(a, "clear", "halt")
  /\ global_func' = FALSE
  /\ UNCHANGED <<idx, boot, cpus_ready, cpus_finished, task, outcome, chance, frames>>

\* cpu_halt is a call too; interrupts are off, and it does not return.
Halt(a) ==
  /\ Call(a, 1, "halt", "halted", "look")
  /\ UNCHANGED <<idx, boot, call, task, outcome, chance, local_result>>

ApStep(a) ==
  \/ Identify(a) \/ Booted(a) \/ LookForFunc(a) \/ LookForReady(a) \/ ReadReady(a)
  \/ CallFunc(a) \/ ClearFunc(a) \/ Halt(a)

--------------------------------------------------------------------------------
(* kernel_main                                                               *)

Report ==
  /\ cores_done >= CpuCount
  /\ Goto(Bsp, "await_done", "halted")
  /\ outcome' = IF shared_result = CpuCount THEN "success" ELSE "mismatch"
  /\ UNCHANGED <<idx, boot, call, task, chance, frames>>

BspStep ==
  \/ SkipBsp \/ StartAp \/ ReadInitialCount \/ AwaitEnds \/ BootComplete
  \/ SetFunc \/ SetReady \/ SetFinished \/ EachTurn \/ EachEnds \/ Report

CpuStep(c) ==
  /\ overwrites < MaxOverwrites
  /\ Task(c) \/ (c = Bsp /\ BspStep) \/ (c # Bsp /\ ApStep(c))

Next == \E c \in Cpu : CpuStep(c)

\* Every CPU that is not halted goes on executing.
Spec == Init /\ [][Next]_vars /\ \A c \in Cpu : WF_vars(CpuStep(c))

--------------------------------------------------------------------------------
(* Properties                                                                *)

(* "Add to shared result (protected by spinlock)" (main.c:28): whoever runs  *)
(* the task, shared_result is the number of results added.  It is violated:  *)
(* the spin lock orders the additions, but local_result and the return       *)
(* addresses of late APs are on one stack.                                   *)
NoLostUpdate == shared_result = additions

(* What the spin lock does achieve: the BSP and one AP at a time may run the *)
(* task side by side and no addition is lost, until an AP has overwritten    *)
(* the frame of another.                                                     *)
LockProtects == ~clobbered => shared_result = additions

(* The one stack is enough for APs that are in time: smp_boot_aps waits with *)
(* each for the one before, and in the task there is none of them.           *)
InTimeStack == late = {} => ~clobbered

(* Between its test of global_func and its call an AP can find the pointer   *)
(* cleared by another; that takes two late APs, one is safe.                 *)
NullCallNeedsTwo ==
  (\E a \in Ap : pc[a] = "null_call") => Cardinality(late \ dead) >= 2

(* If no AP is late, the BSP runs every task itself, the sum is right and    *)
(* success is printed, however many APs did not start.                       *)
InTimeSucceeds == (late = {}) ~> (outcome = "success")

(* If no AP is late, the BSP is never stuck in on_each_cpu: when its loop is *)
(* over it has counted as many tasks as it waits for, the lock is free when  *)
(* it takes it, and a report is one of success.                              *)
InTimeNeverStuck ==
  late = {} =>
    /\ pc[Bsp] = "lock" => result_lock = 0
    /\ pc[Bsp] = "each" /\ idx = CpuCount => cpus_finished >= CpuCount
    /\ pc[Bsp] = "await_done" => cores_done >= CpuCount
    /\ outcome # "none" => outcome = "success"

(* main.c judges the sum only when at least cpu_count results are in it,     *)
(* with a late AP in the task too, as long as no frame is overwritten: a     *)
(* mismatch is then a sum too large.                                         *)
ReportNotEarly == ~clobbered /\ outcome # "none" => additions >= CpuCount

(* "[SUCCESS] All APs booted and functional!" (main.c:110).  It does not     *)
(* hold: the BSP runs every task itself (README, section 3).                 *)
SuccessMeansBooted == (outcome = "success") => dead = {}
================================================================================
