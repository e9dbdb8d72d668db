------------------------------- MODULE KernelRun --------------------------------
(***************************************************************************)
(* What each CPU of each C kernel does from the end of the ACPI search to  *)
(* its last hlt, or to the division by zero with which the BSP of steps 6  *)
(* and 7 ends, with timer interrupts and exceptions in between: the steps  *)
(* 1 to 8 of archive/step1-8, c/kernel/minimal_step9.c and                 *)
(* hybrid/boot/init.c.                                                     *)
(*                                                                         *)
(* The kernels are made of the same phases, and differ in which of them    *)
(* the BSP (kernel_main) and the APs (ap_entry) go through, in which       *)
(* order.  A kernel is a pair of such programs and the gates of its IDT;   *)
(* CPU 0 is the BSP.  The phases:                                          *)
(*   gates lidt       idt_init: fill the IDT, load IDTR; idt_load on an AP *)
(*   apic             apic_init, or the APIC part of ap_entry              *)
(*   follow           the same, but only into x2APIC mode                  *)
(*   start claim      boot_all_aps; cpus_online++ in ap_entry              *)
(*   sti dcr before lvt icr                interrupts on, apic_timer_init  *)
(*   show             the BSP prints timer_init_debug                      *)
(*   barrier          barrier_wait, of which Rendezvous is all one sees    *)
(*   ticks            the BSP prints what the timers did                   *)
(*   divide           the BSP divides by zero, to show its exception       *)
(*                    handler, which does not come back                    *)
(* How the APs are woken is in SmpBoot, the tests between the barriers are *)
(* in ParallelTests, the processors in Acpi.                               *)
(***************************************************************************)
EXTENDS Naturals, Sequences, SequencesExt, FiniteSets, FiniteSetsExt

CONSTANTS
  CpuCount,
  MaxCpus,    \* MAX_CPUS, the length of timer_ticks
  Kernels,    \* the kernels looked at
  ApicIds,    \* the numberings of the local APICs looked at
  Vectors,    \* exceptions that may happen
  MaxFaults,  \* how many of them at most
  MaxTicks    \* how often a timer fires at most

Cpu == 0 .. CpuCount - 1
BSP == 0

ASSUME KernelRunAssumption ==
  /\ CpuCount \in Nat \ {0} /\ MaxCpus \in Nat /\ MaxFaults \in Nat /\ MaxTicks \in Nat
  /\ ApicIds \subseteq [Cpu -> Nat]
  /\ Vectors \subseteq 0 .. 31

--------------------------------------------------------------------------------
(* The kernels                                                               *)

NoGates == [exception |-> "absent", timer |-> "absent", other |-> "absent"]
Kernel(modes, gates, bsp, ap) == [modes |-> modes, gates |-> gates, bsp |-> bsp, ap |-> ap]

\* Until step 6 apic_init knows one mode.
XapicOnly == {"xapic"}

\* From step 5 on: a barrier after test 1, after test 2, after the reset and
\* between the halves of test 3.
Tests == <<"barrier", "barrier", "barrier", "barrier">>

\* Before step 4 there is one CPU, which only looks around.
Minimal == Kernel({"xapic"}, NoGates, <<>>, <<>>)
Step1 == Kernel({"xapic"}, NoGates, <<>>, <<>>)
Step2Main == <<"apic">>
Step2 == Kernel(XapicOnly, NoGates, Step2Main, <<>>)
Step3Main == <<"apic", "trampoline">>
Step3 == Kernel(XapicOnly, NoGates, Step3Main, <<>>)

\* Step 4 starts the APs: an AP counts itself and halts.
Step4Boot == <<"trampoline", "start">>
Step4Ap == <<"claim">>
Step4Main == <<"apic">> \o Step4Boot
Step4 == Kernel(XapicOnly, NoGates, Step4Main, Step4Ap)

\* Step 5 adds the barrier and the tests.
Step5Boot == <<"trampoline", "start">>
Step5Ap == <<"claim">> \o Tests
Step5Main == <<"apic">> \o Step5Boot \o Tests
Step5 == Kernel(XapicOnly, NoGates, Step5Main, Step5Ap)

\* Step 6 adds the IDT, its first 32 gates; the others are cleared.  Its
\* exception_handler halts the CPU for good.
Step6Handler == "halts"
Step6Gates == [exception |-> Step6Handler, timer |-> "absent", other |-> "absent"]
Step6Boot == <<"trampoline", "start">>
Step6Ap == <<"lidt", "claim">> \o Tests
Step6Main == <<"gates", "lidt", "apic">> \o Step6Boot \o Tests
Step6End == <<"divide">>
Step6 == Kernel(XapicOnly, Step6Gates, Step6Main \o Step6End, Step6Ap)

\* Step 7 adds x2APIC mode; an AP follows the BSP into it.
Step7Handler == "halts"
Step7Gates == [exception |-> Step7Handler, timer |-> "absent", other |-> "absent"]
Step7Modes == {"xapic", "x2apic"}
Step7Boot == <<"trampoline", "start">>
Step7Ap == <<"lidt", "follow", "claim">> \o Tests
Step7Main == <<"gates", "lidt", "apic">> \o Step7Boot \o Tests
Step7End == <<"divide">>
Step7 == Kernel(Step7Modes, Step7Gates, Step7Main \o Step7End, Step7Ap)

\* Step 8 adds the timer, on the BSP only, and a gate for every vector; a
\* breakpoint now resumes.
Step8Handler == "resumes"
Step8Irq == "irq"
Step8Gates == [exception |-> Step8Handler, timer |-> Step8Irq, other |-> "iretq"]
Step8Modes == {"xapic", "x2apic"}
Step8Boot == <<"trampoline", "start">>
Step8Timer == <<"dcr", "before", "lvt", "icr">>
Step8Ap == <<"claim", "lidt", "apic", "sti">> \o Tests
Step8Main == <<"gates", "lidt", "apic">> \o Step8Boot \o <<"sti">> \o Step8Timer
             \o <<"show">> \o Tests
Step8Report == <<"ticks">>
Step8 == Kernel(Step8Modes, Step8Gates, Step8Main \o Step8Report, Step8Ap)

\* Step 9, the C kernel, adds the timers of the APs.
CGates == [exception |-> "resumes", timer |-> "irq", other |-> "iretq"]
CModes == {"xapic", "x2apic"}
CTimer == <<"dcr", "before", "lvt", "icr">>

\* Faulty variant: an AP takes interrupts before it has loaded the IDT.
CApEarly == <<"claim", "apic", "sti">> \o CTimer \o <<"lidt">> \o Tests

\* Faulty variant: an AP leaves out the barrier after the reset.
CApShort == <<"claim", "lidt", "apic", "sti">> \o CTimer \o Tail(Tests)

CAp == <<"claim", "lidt", "apic", "sti">> \o CTimer \o Tests
CMain == <<"gates", "lidt", "apic", "trampoline", "start", "sti">> \o CTimer
         \o <<"show">> \o Tests
CKernel == Kernel(CModes, CGates, CMain \o <<"ticks">>, CAp)

\* The BSP of the hybrid kernel leaves the tests to its APs and goes to Zig.
HybridHandler == "resumes"
HybridIrq == "irq"
HybridGates == [exception |-> HybridHandler, timer |-> HybridIrq, other |-> "iretq"]
HybridModes == {"xapic", "x2apic"}
HybridTimer == <<"dcr", "before", "lvt", "icr">>
HybridAp == <<"claim", "lidt", "apic", "sti">> \o HybridTimer \o Tests
HybridMain == <<"gates", "lidt", "apic", "trampoline", "start", "sti">>
              \o HybridTimer \o <<"show">>
HybridKernel == Kernel(HybridModes, HybridGates, HybridMain, HybridAp)

--------------------------------------------------------------------------------
VARIABLES
  kernel, apic_id, apic_mode,   \* the machine, fixed from the start
  pc,                \* pc[c]: how far c is in its program
  mode,              \* whether c executes its program or a handler
  idt, idtr,         \* the gates, and who has loaded them
  apic,              \* the mode each local APIC is in
  timer,             \* the timer registers of each local APIC
  enabled,           \* RFLAGS.IF
  timer_init_debug, shown,
  cpus_online,
  arrived, left,     \* the barrier
  global_timer_calls, timer_ticks, fired,
  frame, cause,      \* the words on c's stack below an exception; the exception
  faults,
  printed            \* the report on the timers, line by line

machine == <<kernel, apic_id, apic_mode>>
setup == <<idt, idtr, apic, timer, enabled>>
debug == <<timer_init_debug, shown>>
barrier == <<arrived, left>>
counts == <<global_timer_calls, timer_ticks, fired>>
exception == <<frame, cause, faults>>
vars == <<machine, pc, mode, setup, debug, cpus_online, barrier, counts, exception, printed>>

Rdv == INSTANCE Rendezvous WITH Present <- Cpu, Rounds <- 4

Reset == [dcr |-> "div2", lvt |-> "masked", icr |-> "stopped"]

Init ==
  /\ kernel \in Kernels
  /\ apic_id \in ApicIds
  /\ apic_mode \in kernel.modes
  /\ pc = [c \in Cpu |-> 1]
  /\ mode = [c \in Cpu |-> IF c = BSP THEN "program" ELSE "parked"]
  /\ idt = NoGates
  /\ idtr = {}
  /\ apic = [c \in Cpu |-> "reset"]
  /\ timer = [c \in Cpu |-> Reset]
  /\ enabled = [c \in Cpu |-> FALSE]
  /\ timer_init_debug = <<"0", "0", "0", "0">>
  /\ shown = <<>>
  /\ cpus_online = 0
  /\ Rdv!Init
  /\ global_timer_calls = 0
  /\ timer_ticks = [i \in 0 .. MaxCpus - 1 |-> 0]
  /\ fired = [c \in Cpu |-> 0]
  /\ frame = [c \in Cpu |-> <<>>]
  /\ cause = [c \in Cpu |-> <<>>]
  /\ faults = 0
  /\ printed = <<>>

Program(c) == IF c = BSP THEN kernel.bsp ELSE kernel.ap

\* c is about to go through this phase of its program.
At(c, phase) ==
  /\ mode[c] = "program"
  /\ pc[c] <= Len(Program(c)) /\ Program(c)[pc[c]] = phase

Step(c) == pc' = [pc EXCEPT ![c] = @ + 1]

AtEnd(c) == mode[c] = "program" /\ pc[c] > Len(Program(c))

--------------------------------------------------------------------------------
(* Setting up                                                                *)

\* idt_init: idt_set_gate for every vector
FillGates(c) ==
  /\ At(c, "gates") /\ Step(c)
  /\ idt' = kernel.gates
  /\ UNCHANGED <<machine, mode, idtr, apic, timer, enabled, debug, cpus_online, barrier,
                 counts, exception, printed>>

\* lidt
LoadIdt(c) ==
  /\ At(c, "lidt") /\ Step(c)
  /\ idtr' = idtr \cup {c}
  /\ UNCHANGED <<machine, mode, idt, apic, timer, enabled, debug, cpus_online, barrier,
                 counts, exception, printed>>

EnableApic(c) ==
  /\ At(c, "apic") \/ At(c, "follow")
  /\ Step(c)
  /\ apic' = [apic EXCEPT ![c] = IF At(c, "follow") /\ apic_mode = "xapic" THEN @ ELSE apic_mode]
  /\ UNCHANGED <<machine, mode, idt, idtr, timer, enabled, debug, cpus_online, barrier,
                 counts, exception, printed>>

\* setup_trampoline: nothing that is seen here
SetupTrampoline(c) ==
  /\ At(c, "trampoline") /\ Step(c)
  /\ UNCHANGED <<machine, mode, setup, debug, cpus_online, barrier, counts, exception, printed>>

\* boot_all_aps, after which the APs run whenever they are ready
StartAps(c) ==
  /\ At(c, "start") /\ Step(c)
  /\ cpus_online' = 1
  /\ mode' = [d \in Cpu |-> "program"]
  /\ UNCHANGED <<machine, setup, debug, barrier, counts, exception, printed>>

Claim(c) ==
  /\ At(c, "claim") /\ Step(c)
  /\ cpus_online' = cpus_online + 1
  /\ UNCHANGED <<machine, mode, setup, debug, barrier, counts, exception, printed>>

Sti(c) ==
  /\ At(c, "sti") /\ Step(c)
  /\ enabled' = [enabled EXCEPT ![c] = TRUE]
  /\ UNCHANGED <<machine, mode, idt, idtr, apic, timer, debug, cpus_online, barrier,
                 counts, exception, printed>>

--------------------------------------------------------------------------------
(* apic_timer_init: the entries of timer_init_debug are shared by all CPUs   *)

WriteTimer(c, phase, register, value, entry) ==
  /\ At(c, phase) /\ Step(c)
  /\ timer' = [timer EXCEPT ![c][register] = value]
  /\ timer_init_debug' = [timer_init_debug EXCEPT ![entry] = value]
  /\ UNCHANGED <<machine, mode, idt, idtr, apic, enabled, shown, cpus_online, barrier,
                 counts, exception, printed>>

SetDivider(c) == WriteTimer(c, "dcr", "dcr", "div16", 3)

ReadLvtBefore(c) ==
  /\ At(c, "before") /\ Step(c)
  /\ timer_init_debug' = [timer_init_debug EXCEPT ![1] = timer[c].lvt]
  /\ UNCHANGED <<machine, mode, setup, shown, cpus_online, barrier, counts, exception, printed>>

SetLvt(c) == WriteTimer(c, "lvt", "lvt", "periodic", 2)

\* Faulty variant: the APs get an initial count of their own.
SetInitialCountOwn(c) ==
  WriteTimer(c, "icr", "icr", IF c = BSP THEN "10000000" ELSE "5000000", 4)

SetInitialCount(c) == WriteTimer(c, "icr", "icr", "10000000", 4)

\* kernel_main, "[DEBUG] BSP Timer Init"
ShowTimer(c) ==
  /\ At(c, "show") /\ Step(c)
  /\ shown' = timer_init_debug
  /\ UNCHANGED <<machine, mode, setup, timer_init_debug, cpus_online, barrier, counts,
                 exception, printed>>

TimerInit(c) ==
  SetDivider(c) \/ ReadLvtBefore(c) \/ SetLvt(c) \/ SetInitialCount(c) \/ ShowTimer(c)

--------------------------------------------------------------------------------
(* The barrier                                                               *)

EnterBarrier(c) ==
  /\ At(c, "barrier")
  /\ Rdv!Arrive(c)
  /\ UNCHANGED <<machine, pc, mode, setup, debug, cpus_online, counts, exception, printed>>

LeaveBarrier(c) ==
  /\ At(c, "barrier") /\ Step(c)
  /\ Rdv!Leave(c)
  /\ UNCHANGED <<machine, mode, setup, debug, cpus_online, counts, exception, printed>>

--------------------------------------------------------------------------------
(* timer_interrupt_handler                                                   *)

Running(c) == timer[c].lvt = "periodic" /\ timer[c].icr # "stopped"

\* The gate clears IF and the local APIC holds the next tick until the EOI, so
\* the handler does not nest.  Its first statement counts the call.
TimerFires(c) ==
  /\ mode[c] = "program" /\ enabled[c] /\ Running(c) /\ fired[c] < MaxTicks
  /\ mode' = [mode EXCEPT ![c] = "called"]
  /\ fired' = [fired EXCEPT ![c] = @ + 1]
  /\ global_timer_calls' = global_timer_calls + 1
  /\ UNCHANGED <<machine, pc, setup, debug, cpus_online, barrier, timer_ticks, exception, printed>>

\* Faulty variant: the index is not checked for the size of the table, but cut to it.
CountTickCut(c) ==
  /\ mode[c] = "called"
  /\ mode' = [mode EXCEPT ![c] = "counted"]
  /\ timer_ticks' = [timer_ticks EXCEPT ![apic_id[c] % MaxCpus] = @ + 1]
  /\ UNCHANGED <<machine, pc, setup, debug, cpus_online, barrier, global_timer_calls, fired,
                 exception, printed>>

\* timer_ticks is indexed by the APIC id.
CountTick(c) ==
  /\ mode[c] = "called"
  /\ mode' = [mode EXCEPT ![c] = "counted"]
  /\ timer_ticks' = IF apic_id[c] < MaxCpus
                    THEN [timer_ticks EXCEPT ![apic_id[c]] = @ + 1] ELSE timer_ticks
  /\ UNCHANGED <<machine, pc, setup, debug, cpus_online, barrier, global_timer_calls, fired,
                 exception, printed>>

\* send_eoi; iretq
EndOfInterrupt(c) ==
  /\ mode[c] = "counted"
  /\ mode' = [mode EXCEPT ![c] = "program"]
  /\ UNCHANGED <<machine, pc, setup, debug, cpus_online, barrier, counts, exception, printed>>

Handler(c) == CountTick(c) \/ EndOfInterrupt(c)

--------------------------------------------------------------------------------
(* Exceptions: what is on the stack, top first                               *)

\* The processor pushes these, and an error code for some vectors only (29 is
\* AMD's VMM communication exception).
PushesCode == {8, 10, 11, 12, 13, 14, 17, 21, 29, 30}
Pushed(v, rip) ==
  (IF v \in PushesCode THEN <<"code">> ELSE <<>>) \o <<rip, "cs", "rflags", "rsp", "ss">>

\* Faulty variant: every stub pushes an error code of its own.
StubNoErr(v) == <<v, "0">>

\* EXCEPTION_STUB_ERR pushes the vector, EXCEPTION_STUB_NOERR a 0 before it.
Stub(v) == IF v \in {8, 10, 11, 12, 13, 14, 17, 21, 30} THEN <<v>> ELSE <<v, "0">>

\* exception_common saves 15 registers and reads its arguments behind them; it
\* drops the registers and two words before the iretq.
Saved == [i \in 1 .. 15 |-> "register"]
Arguments(stack) == [vector |-> stack[16], error_code |-> stack[17], rip |-> stack[18]]
ReturnsTo(stack) == stack[18]

Raise(c, v) ==
  /\ mode[c] = "program" /\ c \in idtr /\ idt.exception # "absent"
  /\ mode' = [mode EXCEPT ![c] = "exception"]
  /\ frame' = [frame EXCEPT ![c] = Saved \o Stub(v) \o Pushed(v, pc[c])]
  /\ cause' = [cause EXCEPT ![c] = [vector |-> v, rip |-> pc[c],
                            error_code |-> IF v \in PushesCode THEN "code" ELSE "0"]]
  /\ UNCHANGED <<machine, pc, setup, debug, cpus_online, barrier, counts, printed>>

\* An exception nobody wrote down, anywhere in the program.
Exception(c) == faults < MaxFaults /\ faults' = faults + 1 /\ \E v \in Vectors : Raise(c, v)

\* 42 / zero, vector 0: the last thing the BSP of steps 6 and 7 does.
Divide(c) == At(c, "divide") /\ Raise(c, 0) /\ UNCHANGED faults

\* exception_handler: from step 8 on a breakpoint resumes; anything else halts
\* this CPU for good, with interrupts off.
ExceptionHandler(c) ==
  /\ mode[c] = "exception"
  /\ IF idt.exception = "resumes" /\ Arguments(frame[c]).vector \in {3, 255}
     THEN /\ mode' = [mode EXCEPT ![c] = "program"]
          /\ pc' = [pc EXCEPT ![c] = ReturnsTo(frame[c])]
     ELSE mode' = [mode EXCEPT ![c] = "stopped"] /\ UNCHANGED pc
  /\ frame' = [frame EXCEPT ![c] = <<>>]
  /\ cause' = [cause EXCEPT ![c] = <<>>]
  /\ UNCHANGED <<machine, setup, debug, cpus_online, barrier, counts, faults, printed>>

--------------------------------------------------------------------------------
(* The report on the timers: the calls of the handler, a line per CPU, and   *)
(* the ticks read once more for the sum                                      *)

ReportLength == 1 + 2 * CpuCount

ReportLine ==
  LET k == Len(printed)
  IN  IF k = 0 THEN global_timer_calls ELSE timer_ticks[(k - 1) % CpuCount]

ReportTicks(c) ==
  /\ At(c, "ticks")
  /\ printed' = Append(printed, ReportLine)
  /\ IF Len(printed) + 1 = ReportLength THEN Step(c) ELSE UNCHANGED pc
  /\ UNCHANGED <<machine, mode, setup, debug, cpus_online, barrier, counts, exception>>

--------------------------------------------------------------------------------
CpuStep(c) ==
  \/ FillGates(c) \/ LoadIdt(c) \/ EnableApic(c) \/ SetupTrampoline(c) \/ StartAps(c)
  \/ Claim(c) \/ Sti(c) \/ TimerInit(c)
  \/ EnterBarrier(c) \/ LeaveBarrier(c)
  \/ Handler(c) \/ ExceptionHandler(c) \/ ReportTicks(c) \/ Divide(c)

Next == \E c \in Cpu : CpuStep(c) \/ TimerFires(c) \/ Exception(c)

\* A CPU goes on with its program and comes back from its handlers; no timer
\* and no exception has to happen.
Spec == Init /\ [][Next]_vars /\ \A c \in Cpu : WF_vars(CpuStep(c))

--------------------------------------------------------------------------------
(* Properties                                                                *)

In(m) == {c \in Cpu : mode[c] = m}

\* c has come to where its program ends: the last hlt, or the division by zero
\* in whose handler it halts.
AtDivide(c) == pc[c] <= Len(Program(c)) /\ Program(c)[pc[c]] = "divide"
Ended(c) == AtEnd(c) \/ (mode[c] = "stopped" /\ AtDivide(c))

\* An exception has stopped c before that.
Struck == {c \in In("stopped") : ~AtDivide(c)}

(* Every tick is counted once, whoever is in the handler at the same time:   *)
(* the calls are the ticks of timer_ticks, the calls that have not come to   *)
(* it and the ticks of CPUs whose APIC id is behind the table.               *)
TickAccounting ==
  global_timer_calls = MapThenSumSet(LAMBDA i : timer_ticks[i], DOMAIN timer_ticks)
                       + Cardinality({c \in In("called") : apic_id[c] < MaxCpus})
                       + MapThenSumSet(LAMBDA c : fired[c], {c \in Cpu : apic_id[c] >= MaxCpus})

(* A CPU that takes a timer interrupt has loaded an IDT with a gate for it,  *)
(* and its APIC is in the mode in which send_eoi writes: the order of sti,   *)
(* idt_load, the APIC and the timer in ap_entry and kernel_main.             *)
HandlerReady ==
  \A c \in In("called") \cup In("counted") :
    c \in idtr /\ idt.timer = "irq" /\ apic[c] = apic_mode

(* What kernel_main prints about the timers is true although they go on and  *)
(* the APs write to the same entries of timer_init_debug: the set-up shown   *)
(* is the BSP's own, and the total is not below the lines above it.          *)
ReportTrue ==
  /\ shown # <<>> => shown = <<"masked", "periodic", "div16", "10000000">>
  /\ Len(printed) = ReportLength =>
       \A i \in 1 .. CpuCount : printed[1 + i] <= printed[1 + CpuCount + i]

(* exception_handler is told the vector, the error code and the address of   *)
(* the exception that happened, and a breakpoint returns to that address,    *)
(* error code or not.  Vector 29 is left out: its stub is one for exceptions *)
(* without an error code, but the processor pushes one.                      *)
ExceptionSeesFault ==
  \A c \in In("exception") :
    LET told == Arguments(frame[c])
        true == cause[c]
    IN  true.vector # 29 => /\ told.vector = true.vector
                            /\ told.error_code = true.error_code
                            /\ told.rip = true.rip

(* c has arrived at a barrier that another CPU has yet to come to.           *)
Held(c) == At(c, "barrier") /\ left[c] < arrived[c] /\ \E d \in Cpu : arrived[d] < arrived[c]

(* The barriers of kernel_main and ap_entry match: while a CPU is held at    *)
(* one, and no exception has struck another, there is a CPU that is neither  *)
(* held, nor at the end of its program, nor still parked.                    *)
NobodyStuck ==
  kernel # HybridKernel /\ Struck = {} /\ (\E c \in Cpu : Held(c)) =>
    \E d \in Cpu : ~Held(d) /\ ~Ended(d) /\ mode[d] # "parked"

(* Whoever is past a barrier runs with all CPUs online: every AP counts      *)
(* itself once, after the BSP has set cpus_online to 1 and before it arrives. *)
MetMeansOnline == (\E c \in Cpu : left[c] > 0) => cpus_online = CpuCount

(* Whatever kernel runs, when all CPUs are at the end of their programs (the *)
(* last hlt, or the division by zero of steps 6 and 7), or never left the    *)
(* reset, cpus_online is the number of all, or 0 where no AP is started.     *)
EndMeansOnline ==
  (\A c \in Cpu : Ended(c) \/ mode[c] = "parked") => cpus_online \in {0, CpuCount}

(* Every CPU of every kernel comes to the end of its program with all of     *)
(* them online, whatever the timers do, unless an exception struck one       *)
(* earlier: ap_entry and kernel_main meet at the same barriers.  That end is *)
(* the last hlt, but for the BSP of steps 6 and 7 the handler of its         *)
(* division by zero.  The hybrid kernel is left out: its BSP never joins the *)
(* barriers (HybridHandoff).                                                 *)
RunEnds ==
  kernel # HybridKernel ~>
    \/ Struck # {}
    \/ /\ \A c \in Cpu : Ended(c) \/ mode[c] = "parked"
       /\ cpus_online \in {0, CpuCount}
================================================================================
