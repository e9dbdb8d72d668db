----------------------------- MODULE KernelRunProofs -----------------------------
(***************************************************************************)
(* Proofs about KernelRun for the eleven kernels on any number of CPUs,    *)
(* with any APIC ids, any number of ticks and any exceptions: a timer      *)
(* interrupt finds its handler, exception_handler sees the exception that  *)
(* happened, every tick is counted once, the report on the timers is true, *)
(* and the CPUs meet at the same barriers with all of them online.         *)
(*                                                                         *)
(* All the argument needs of a kernel is the order of a few of its phases  *)
(* (OrderedKernel, and MeetingKernel for the barriers), which is shown of  *)
(* every kernel.                                                           *)
(***************************************************************************)
EXTENDS KernelRun, FoldLemmas

TheKernels == {Minimal, Step1, Step2, Step3, Step4, Step5, Step6, Step7, Step8, CKernel,
               HybridKernel}

Position(p) == 1 .. Len(p)
Before(p, a, b) == \A j \in Position(p) : p[j] = b => \E i \in 1 .. j - 1 : p[i] = a
Lacks(p, a) == \A j \in Position(p) : p[j] # a

(* A CPU loads the IDT and enables its APIC before it enables interrupts,    *)
(* prints what apic_timer_init noted after it has run, and reads the LVT     *)
(* register before it writes it.                                             *)
Ordered(p) ==
  /\ Len(p) \in Nat
  /\ Before(p, "lidt", "sti") /\ Before(p, "apic", "sti")
  /\ Before(p, "dcr", "show") /\ Before(p, "before", "show")
  /\ Before(p, "lvt", "show") /\ Before(p, "icr", "show")
  /\ \A i, j \in Position(p) : p[i] = "before" /\ p[j] = "lvt" => i < j
  /\ \A i, j \in Position(p) : p[i] = "start" /\ p[j] = "start" => i = j

(* Where anybody takes interrupts the gates are filled before the APs start. *)
OrderedKernel(k) ==
  /\ Ordered(k.bsp) /\ Ordered(k.ap)
  /\ Lacks(k.ap, "start")
  /\ \/ /\ k.gates.timer = "irq"
        /\ Before(k.bsp, "gates", "sti") /\ Before(k.bsp, "gates", "start")
     \/ Lacks(k.bsp, "sti") /\ Lacks(k.ap, "sti")

--------------------------------------------------------------------------------
(* The kernels until step 7 never enable interrupts. *)
Quiet(p) ==
  /\ Len(p) \in Nat
  /\ Lacks(p, "sti") /\ Lacks(p, "show") /\ Lacks(p, "lvt")
  /\ \A i, j \in Position(p) : p[i] = "start" /\ p[j] = "start" => i = j

LEMMA QuietOrdered ==
  ASSUME NEW k, Quiet(k.bsp), Quiet(k.ap), Lacks(k.ap, "start")
  PROVE  OrderedKernel(k)
  BY DEF Quiet, OrderedKernel, Ordered, Before, Lacks, Position

LEMMA EmptyQuiet == Quiet(<< >>) /\ Lacks(<< >>, "start")
  BY DEF Quiet, Lacks, Position

LEMMA Step2Quiet == Quiet(Step2Main)
  BY DEF Step2Main, Quiet, Lacks, Position

LEMMA Step3Quiet == Quiet(Step3Main)
  BY DEF Step3Main, Quiet, Lacks, Position

LEMMA Step4Quiet == Quiet(Step4Main) /\ Quiet(Step4Ap) /\ Lacks(Step4Ap, "start")
  BY DEF Step4Main, Step4Boot, Step4Ap, Quiet, Lacks, Position

LEMMA Step5Quiet == Quiet(Step5Main) /\ Quiet(Step5Ap) /\ Lacks(Step5Ap, "start")
  BY DEF Step5Main, Step5Boot, Step5Ap, Tests, Quiet, Lacks, Position

LEMMA Step6Quiet ==
  Quiet(Step6Main \o Step6End) /\ Quiet(Step6Ap) /\ Lacks(Step6Ap, "start")
  BY DEF Step6Main, Step6End, Step6Boot, Step6Ap, Tests, Quiet, Lacks, Position

LEMMA Step7Quiet ==
  Quiet(Step7Main \o Step7End) /\ Quiet(Step7Ap) /\ Lacks(Step7Ap, "start")
  BY DEF Step7Main, Step7End, Step7Boot, Step7Ap, Tests, Quiet, Lacks, Position

(* kernel_main of step 8 *)
LEMMA Step8BspOrdered ==
  ASSUME NEW p, p = Step8Main \o Step8Report
  PROVE  Ordered(p) /\ Before(p, "gates", "sti") /\ Before(p, "gates", "start")
<1> USE DEF Step8Main, Step8Boot, Step8Timer, Step8Report, Tests
<1>1. Len(p) = 16
  OBVIOUS
<1>2. /\ p[1] = "gates" /\ p[2] = "lidt" /\ p[3] = "apic" /\ p[7] = "dcr"
      /\ p[8] = "before" /\ p[9] = "lvt" /\ p[10] = "icr"
  OBVIOUS
<1>3. \A j \in 1 .. 16 : p[j] = "sti" => j = 6
  OBVIOUS
<1>4. \A j \in 1 .. 16 : p[j] = "show" => j = 11
  OBVIOUS
<1>5. \A j \in 1 .. 16 : p[j] = "before" => j = 8
  OBVIOUS
<1>6. \A j \in 1 .. 16 : p[j] = "lvt" => j = 9
  OBVIOUS
<1>7. \A j \in 1 .. 16 : p[j] = "start" => j = 5
  OBVIOUS
<1> QED BY ONLY <1>1, <1>2, <1>3, <1>4, <1>5, <1>6, <1>7 DEF Ordered, Before, Lacks, Position

(* ap_entry of step 8, which sets up no timer *)
LEMMA Step8ApOrdered ==
  ASSUME NEW p, p = Step8Ap
  PROVE  Ordered(p) /\ Lacks(p, "start")
<1> USE DEF Step8Ap, Tests
<1>1. Len(p) = 8
  OBVIOUS
<1>2. /\ p[2] = "lidt" /\ p[3] = "apic"
  OBVIOUS
<1>3. \A j \in 1 .. 8 : p[j] = "sti" => j = 4
  OBVIOUS
<1>4. \A j \in 1 .. 8 : p[j] # "show"
  OBVIOUS
<1>5. \A j \in 1 .. 8 : p[j] # "before"
  OBVIOUS
<1>6. \A j \in 1 .. 8 : p[j] # "lvt"
  OBVIOUS
<1>7. \A j \in 1 .. 8 : p[j] # "start"
  OBVIOUS
<1> QED BY ONLY <1>1, <1>2, <1>3, <1>4, <1>5, <1>6, <1>7 DEF Ordered, Before, Lacks, Position

(* kernel_main of the C kernel *)
LEMMA CBspOrdered ==
  ASSUME NEW p, p = CMain \o <<"ticks">>
  PROVE  Ordered(p) /\ Before(p, "gates", "sti") /\ Before(p, "gates", "start")
<1> USE DEF CMain, CTimer, Tests
<1>1. Len(p) = 16
  OBVIOUS
<1>2. /\ p[1] = "gates" /\ p[2] = "lidt" /\ p[3] = "apic" /\ p[7] = "dcr"
      /\ p[8] = "before" /\ p[9] = "lvt" /\ p[10] = "icr"
  OBVIOUS
<1>3. \A j \in 1 .. 16 : p[j] = "sti" => j = 6
  OBVIOUS
<1>4. \A j \in 1 .. 16 : p[j] = "show" => j = 11
  OBVIOUS
<1>5. \A j \in 1 .. 16 : p[j] = "before" => j = 8
  OBVIOUS
<1>6. \A j \in 1 .. 16 : p[j] = "lvt" => j = 9
  OBVIOUS
<1>7. \A j \in 1 .. 16 : p[j] = "start" => j = 5
  OBVIOUS
<1> QED BY ONLY <1>1, <1>2, <1>3, <1>4, <1>5, <1>6, <1>7 DEF Ordered, Before, Lacks, Position

(* ap_entry of the C kernel *)
LEMMA CApOrdered ==
  ASSUME NEW p, p = CAp
  PROVE  Ordered(p) /\ Lacks(p, "start")
<1> USE DEF CAp, CTimer, Tests
<1>1. Len(p) = 12
  OBVIOUS
<1>2. /\ p[2] = "lidt" /\ p[3] = "apic" /\ p[5] = "dcr" /\ p[6] = "before"
      /\ p[7] = "lvt" /\ p[8] = "icr"
  OBVIOUS
<1>3. \A j \in 1 .. 12 : p[j] = "sti" => j = 4
  OBVIOUS
<1>4. \A j \in 1 .. 12 : p[j] # "show"
  OBVIOUS
<1>5. \A j \in 1 .. 12 : p[j] = "before" => j = 6
  OBVIOUS
<1>6. \A j \in 1 .. 12 : p[j] = "lvt" => j = 7
  OBVIOUS
<1>7. \A j \in 1 .. 12 : p[j] # "start"
  OBVIOUS
<1> QED BY ONLY <1>1, <1>2, <1>3, <1>4, <1>5, <1>6, <1>7 DEF Ordered, Before, Lacks, Position

(* kernel_main of the hybrid kernel, which does not go to the tests *)
LEMMA HybridBspOrdered ==
  ASSUME NEW p, p = HybridMain
  PROVE  Ordered(p) /\ Before(p, "gates", "sti") /\ Before(p, "gates", "start")
<1> USE DEF HybridMain, HybridTimer
<1>1. Len(p) = 11
  OBVIOUS
<1>2. /\ p[1] = "gates" /\ p[2] = "lidt" /\ p[3] = "apic" /\ p[7] = "dcr"
      /\ p[8] = "before" /\ p[9] = "lvt" /\ p[10] = "icr"
  OBVIOUS
<1>3. \A j \in 1 .. 11 : p[j] = "sti" => j = 6
  OBVIOUS
<1>4. \A j \in 1 .. 11 : p[j] = "show" => j = 11
  OBVIOUS
<1>5. \A j \in 1 .. 11 : p[j] = "before" => j = 8
  OBVIOUS
<1>6. \A j \in 1 .. 11 : p[j] = "lvt" => j = 9
  OBVIOUS
<1>7. \A j \in 1 .. 11 : p[j] = "start" => j = 5
  OBVIOUS
<1> QED BY ONLY <1>1, <1>2, <1>3, <1>4, <1>5, <1>6, <1>7 DEF Ordered, Before, Lacks, Position

(* ap_entry of the hybrid kernel *)
LEMMA HybridApOrdered ==
  ASSUME NEW p, p = HybridAp
  PROVE  Ordered(p) /\ Lacks(p, "start")
<1> USE DEF HybridAp, HybridTimer, Tests
<1>1. Len(p) = 12
  OBVIOUS
<1>2. /\ p[2] = "lidt" /\ p[3] = "apic" /\ p[5] = "dcr" /\ p[6] = "before"
      /\ p[7] = "lvt" /\ p[8] = "icr"
  OBVIOUS
<1>3. \A j \in 1 .. 12 : p[j] = "sti" => j = 4
  OBVIOUS
<1>4. \A j \in 1 .. 12 : p[j] # "show"
  OBVIOUS
<1>5. \A j \in 1 .. 12 : p[j] = "before" => j = 6
  OBVIOUS
<1>6. \A j \in 1 .. 12 : p[j] = "lvt" => j = 7
  OBVIOUS
<1>7. \A j \in 1 .. 12 : p[j] # "start"
  OBVIOUS
<1> QED BY ONLY <1>1, <1>2, <1>3, <1>4, <1>5, <1>6, <1>7 DEF Ordered, Before, Lacks, Position

LEMMA KernelsOrdered == \A k \in TheKernels : OrderedKernel(k)
<1>1. OrderedKernel(Minimal) /\ OrderedKernel(Step1)
  BY EmptyQuiet, QuietOrdered DEF Minimal, Step1, Kernel
<1>2. OrderedKernel(Step2) /\ OrderedKernel(Step3)
  BY EmptyQuiet, Step2Quiet, Step3Quiet, QuietOrdered DEF Step2, Step3, Kernel
<1>3. OrderedKernel(Step4) /\ OrderedKernel(Step5)
  BY Step4Quiet, Step5Quiet, QuietOrdered DEF Step4, Step5, Kernel
<1>4. OrderedKernel(Step6) /\ OrderedKernel(Step7)
  BY Step6Quiet, Step7Quiet, QuietOrdered DEF Step6, Step7, Kernel
<1>5. OrderedKernel(Step8)
  BY Step8BspOrdered, Step8ApOrdered DEF OrderedKernel, Step8, Kernel, Step8Gates, Step8Irq
<1>6. OrderedKernel(CKernel)
  BY CBspOrdered, CApOrdered DEF OrderedKernel, CKernel, Kernel, CGates
<1>7. OrderedKernel(HybridKernel)
  BY HybridBspOrdered, HybridApOrdered
     DEF OrderedKernel, HybridKernel, Kernel, HybridGates, HybridIrq
<1> QED BY <1>1, <1>2, <1>3, <1>4, <1>5, <1>6, <1>7 DEF TheKernels

--------------------------------------------------------------------------------
(* The inductive invariant.                                                  *)
Modes == {"parked", "program", "called", "counted", "exception", "stopped"}

Types ==
  /\ OrderedKernel(kernel)
  /\ pc \in [Cpu -> Nat \ {0}]
  /\ mode \in [Cpu -> Modes]
  /\ apic = [c \in Cpu |-> apic[c]]
  /\ enabled \in [Cpu -> BOOLEAN]
  /\ frame = [c \in Cpu |-> frame[c]] /\ cause = [c \in Cpu |-> cause[c]]

(* c has been through this phase. *)
Passed(c, phase) == \E i \in 1 .. pc[c] - 1 : i \in Position(Program(c)) /\ Program(c)[i] = phase

(* An AP stays where it is until the BSP has started the APs, which it does  *)
(* once: the modes boot_all_aps sets are those of CPUs that have no other.   *)
Parked ==
  /\ mode[BSP] # "parked"
  /\ \A c \in Cpu \ {BSP} : /\ mode[c] = "parked" <=> ~Passed(BSP, "start")
                            /\ mode[c] = "parked" => pc[c] = 1

(* What the phases a CPU has been through have left. *)
SetUp ==
  /\ Passed(BSP, "gates") => idt = kernel.gates
  /\ \A c \in Cpu :
       /\ Passed(c, "lidt") => c \in idtr
       /\ Passed(c, "apic") => apic[c] = apic_mode
       /\ enabled[c] => Passed(c, "sti")
       /\ mode[c] \in {"called", "counted"} => enabled[c]

(* The stack an exception leaves: exception_handler returns to where c was.  *)
Code(v) == IF v \in PushesCode THEN "code" ELSE "0"
Stack(v, rip) == Saved \o Stub(v) \o Pushed(v, rip)
Frame(c, v) ==
  /\ frame[c] = Stack(v, pc[c])
  /\ cause[c] = [vector |-> v, rip |-> pc[c],
                 error_code |-> Code(v)]

Frames == \A c \in Cpu : mode[c] = "exception" => \E v \in 0 .. 31 : Frame(c, v)

IInv == Types /\ Parked /\ SetUp /\ Frames

LEMMA BspIn == BSP \in Cpu
  BY KernelRunAssumption DEF Cpu, BSP

(* Where the words of three sequences are in their concatenation. *)
LEMMA Concat ==
  ASSUME NEW S, NEW s \in Seq(S), NEW t \in Seq(S), NEW u \in Seq(S),
         NEW n \in Nat, n = Len(s), NEW m \in Nat, m = Len(t),
         NEW st, st = s \o t \o u
  PROVE  /\ \A i \in 1 .. m : st[n + i] = t[i]
         /\ \A i \in 1 .. Len(u) : st[(n + m) + i] = u[i]
<1>1. /\ s \o t \in Seq(S) /\ Len(s \o t) = n + m
      /\ \A i \in 1 .. m : (s \o t)[n + i] = t[i]
  OBVIOUS
<1>2. ASSUME NEW i \in 1 .. m PROVE st[n + i] = t[i]
  <2>1. n + i \in 1 .. Len(s \o t)
    BY <1>1
  <2>2. st[n + i] = (s \o t)[n + i]
    BY <1>1, <2>1
  <2> QED BY <1>1, <2>2
<1>3. ASSUME NEW i \in 1 .. Len(u) PROVE st[(n + m) + i] = u[i]
  BY <1>1
<1> QED BY <1>2, <1>3

(* The words exception_handler reads are the vector, the error code and the  *)
(* address, for each vector but 29: stub and processor together push as many *)
(* words with an error code as without.                                      *)
LEMMA Layout ==
  ASSUME NEW v \in 0 .. 31, NEW r
  PROVE  /\ Arguments(Stack(v, r)).vector = v
         /\ v # 29 => /\ Arguments(Stack(v, r)).rip = r /\ ReturnsTo(Stack(v, r)) = r
                      /\ Arguments(Stack(v, r)).error_code = Code(v)
<1> DEFINE st == Stack(v, r)
           Word == {"register", "code", "0", "cs", "rflags", "rsp", "ss", v, r}
           low == Pushed(v, r)
           stub == Stub(v)
           code == IF v \in PushesCode THEN "code" ELSE "0"
           n == 15
           m == Len(stub)
           k == Len(low)
<1>1. Saved \in Seq(Word) /\ n = Len(Saved) /\ n \in Nat
  BY DEF Saved
<1>2. /\ stub \in Seq(Word) /\ stub[1] = v /\ m \in Nat
      /\ low \in Seq(Word) /\ k \in Nat /\ k >= 2
      /\ \/ v = 29 /\ m = 2
         \/ low[1] = r /\ stub[2] = code /\ m = 2
         \/ low[1] = code /\ low[2] = r /\ m = 1
  <2>1. CASE v = 29
    <3>1. stub = <<v, "0">> /\ low = <<"code">> \o <<r, "cs", "rflags", "rsp", "ss">>
      BY <2>1 DEF Stub, Pushed, PushesCode
    <3>2. /\ stub \in Seq(Word) /\ stub[1] = v /\ m = 2
          /\ low \in Seq(Word) /\ k \in Nat /\ k >= 2
      BY ONLY <3>1
    <3> QED BY <2>1, <3>2
  <2>2. CASE v # 29 /\ v \in PushesCode
    <3>1. stub = <<v>> /\ low = <<"code">> \o <<r, "cs", "rflags", "rsp", "ss">> /\ code = "code"
      BY <2>2 DEF Stub, Pushed, PushesCode
    <3> QED BY <3>1
  <2>3. CASE v \notin PushesCode
    <3>1. stub = <<v, "0">> /\ low = << >> \o <<r, "cs", "rflags", "rsp", "ss">> /\ code = "0"
      BY <2>3 DEF Stub, Pushed, PushesCode
    <3> QED BY <3>1
  <2> QED BY <2>1, <2>2, <2>3
<1>3. st = Saved \o stub \o low /\ m = Len(stub) /\ k = Len(low)
  BY DEF Stack
<1> HIDE DEF st, Word, low, stub, code, n, m, k
<1>4. /\ \A i \in 1 .. m : st[n + i] = stub[i]
      /\ \A i \in 1 .. k : st[(n + m) + i] = low[i]
  <2>1. stub \in Seq(Word) /\ low \in Seq(Word) /\ m \in Nat
    BY <1>2
  <2> QED BY <1>1, <1>3, <2>1, Concat
<1>5. m \in 1 .. 2 /\ 1 \in 1 .. m /\ 1 \in 1 .. k /\ 2 \in 1 .. k
  BY <1>2
<1>6. st[16] = v
  <2>1. st[n + 1] = v
    BY <1>2, <1>4, <1>5
  <2>2. n + 1 = 16
    BY DEF n
  <2> QED BY ONLY <2>1, <2>2
<1>7. v = 29 \/ (st[17] = code /\ st[18] = r)
  <2>1. CASE low[1] = r /\ stub[2] = code /\ m = 2
    <3>1. st[n + 2] = code /\ st[(n + m) + 1] = r
      BY <1>4, <1>5, <2>1
    <3>2. n + 2 = 17 /\ (n + m) + 1 = 18
      BY <2>1 DEF n
    <3> QED BY ONLY <3>1, <3>2
  <2>2. CASE low[1] = code /\ low[2] = r /\ m = 1
    <3>1. st[(n + m) + 1] = code /\ st[(n + m) + 2] = r
      BY <1>4, <1>5, <2>2
    <3>2. (n + m) + 1 = 17 /\ (n + m) + 2 = 18
      BY <2>2 DEF n
    <3> QED BY ONLY <3>1, <3>2
  <2> QED BY <1>2, <2>1, <2>2
<1>8. /\ Arguments(st).vector = st[16] /\ Arguments(st).error_code = st[17]
      /\ Arguments(st).rip = st[18] /\ ReturnsTo(st) = st[18]
  BY DEF Arguments, ReturnsTo
<1>9. code = Code(v)
  BY DEF code, Code
<1> QED BY <1>6, <1>7, <1>8, <1>9 DEF st

(* Going through a phase adds that phase to those a CPU has been through. *)
LEMMA StepPasses ==
  ASSUME Types, NEW c \in Cpu, NEW phase, At(c, phase), Step(c), kernel' = kernel
  PROVE  /\ pc' \in [Cpu -> Nat \ {0}]
         /\ pc'[c] = pc[c] + 1 /\ \A d \in Cpu \ {c} : pc'[d] = pc[d]
         /\ \A x : Passed(c, x)' <=> Passed(c, x) \/ x = phase
         /\ \A d \in Cpu \ {c} : \A x : Passed(d, x)' <=> Passed(d, x)
<1>1. pc' = [pc EXCEPT ![c] = pc[c] + 1]
  BY DEF Step
<1>2. /\ pc' \in [Cpu -> Nat \ {0}]
      /\ pc'[c] = pc[c] + 1 /\ \A d \in Cpu \ {c} : pc'[d] = pc[d]
  BY <1>1 DEF Types
<1>3. \A d \in Cpu : Program(d)' = Program(d)
  BY DEF Program
<1>4. pc[c] \in Position(Program(c)) /\ Program(c)[pc[c]] = phase
  BY DEF At, Position, Types, OrderedKernel, Ordered, Program
<1>5. \A x : Passed(c, x)' <=> Passed(c, x) \/ x = phase
  BY <1>2, <1>3, <1>4 DEF Passed, Types
<1>6. \A d \in Cpu \ {c} : \A x : Passed(d, x)' <=> Passed(d, x)
  BY <1>2, <1>3 DEF Passed
<1> QED BY <1>2, <1>5, <1>6

LEMMA StayPasses ==
  ASSUME pc' = pc, kernel' = kernel
  PROVE  \A d, x : Passed(d, x)' <=> Passed(d, x)
  BY DEF Passed, Program

(* Going through any phase but boot_all_aps: all a phase must do for the     *)
(* invariant is to leave what its name says, and what others left.           *)
LEMMA PhaseInv ==
  ASSUME IInv, NEW c \in Cpu, NEW phase, At(c, phase), Step(c), phase # "start",
         UNCHANGED <<machine, mode, frame, cause>>,
         idt' = IF phase = "gates" THEN kernel.gates ELSE idt,
         idtr' = IF phase = "lidt" THEN idtr \cup {c} ELSE idtr,
         apic' = [d \in Cpu |-> apic'[d]],
         \A d \in Cpu : apic'[d] = apic[d] \/ apic'[d] = apic_mode,
         phase = "apic" => apic'[c] = apic_mode,
         enabled' = IF phase = "sti" THEN [enabled EXCEPT ![c] = TRUE] ELSE enabled
  PROVE  IInv'
<1> USE DEF IInv, machine
<1>1. /\ pc' \in [Cpu -> Nat \ {0}]
      /\ pc'[c] = pc[c] + 1 /\ \A d \in Cpu \ {c} : pc'[d] = pc[d]
      /\ \A x : Passed(c, x)' <=> Passed(c, x) \/ x = phase
      /\ \A d \in Cpu \ {c} : \A x : Passed(d, x)' <=> Passed(d, x)
  BY StepPasses
<1>2. Types'
  BY <1>1 DEF Types
<1>3. mode[c] = "program"
  BY DEF At
<1>4. Parked'
  <2>1. Passed(BSP, "start")' <=> Passed(BSP, "start")
    BY <1>1, BspIn
  <2> QED BY <1>1, <1>3, <2>1 DEF Parked
<1>5. SetUp'
  <2>1. Passed(BSP, "gates")' => idt' = kernel.gates
    BY <1>1, BspIn DEF SetUp
  <2>2. ASSUME NEW d \in Cpu
        PROVE  /\ Passed(d, "lidt")' => d \in idtr'
               /\ Passed(d, "apic")' => apic'[d] = apic_mode
               /\ enabled'[d] => Passed(d, "sti")'
               /\ mode'[d] \in {"called", "counted"} => enabled'[d]
    <3>1. CASE d = c
      BY <1>1, <3>1 DEF SetUp, Types
    <3>2. CASE d # c
      BY <1>1, <3>2 DEF SetUp, Types
    <3> QED BY <3>1, <3>2
  <2> QED BY <2>1, <2>2 DEF SetUp
<1>6. Frames'
  BY <1>1, <1>3 DEF Frames, Frame
<1> QED BY <1>2, <1>4, <1>5, <1>6

(* boot_all_aps: the APs begin, and none of them was doing anything. *)
LEMMA StartInv ==
  ASSUME IInv, NEW c \in Cpu, StartAps(c)
  PROVE  IInv'
<1> USE DEF IInv, machine, setup, exception, StartAps
<1>1. /\ pc' \in [Cpu -> Nat \ {0}]
      /\ pc'[c] = pc[c] + 1 /\ \A d \in Cpu \ {c} : pc'[d] = pc[d]
      /\ \A x : Passed(c, x)' <=> Passed(c, x) \/ x = "start"
      /\ \A d \in Cpu \ {c} : \A x : Passed(d, x)' <=> Passed(d, x)
  BY StepPasses
<1>2. c = BSP
  BY DEF At, Program, Types, OrderedKernel, Ordered, Lacks, Position
<1>3. Types'
  BY <1>1 DEF Types, Modes
<1>4. Parked'
  BY <1>1, <1>2 DEF Parked
<1>5. SetUp'
  BY <1>1, BspIn DEF SetUp
<1>6. Frames'
  BY DEF Frames
<1> QED BY <1>3, <1>4, <1>5, <1>6

(* A step that leaves every program where it is. *)
LEMMA StayInv ==
  ASSUME IInv, UNCHANGED <<machine, pc, idt, idtr, apic, enabled>>,
         mode' \in [Cpu -> Modes],
         \A c \in Cpu : mode'[c] = "parked" <=> mode[c] = "parked",
         \A c \in Cpu : mode'[c] \in {"called", "counted"} => enabled[c],
         frame' = [c \in Cpu |-> frame'[c]], cause' = [c \in Cpu |-> cause'[c]],
         \A c \in Cpu : mode'[c] = "exception" => \E v \in 0 .. 31 : Frame(c, v)'
  PROVE  IInv'
<1> USE DEF IInv, machine
<1>1. \A d, x : Passed(d, x)' <=> Passed(d, x)
  BY StayPasses
<1>2. Types'
  BY DEF Types
<1>3. Parked'
  BY <1>1, BspIn DEF Parked
<1>4. SetUp'
  BY <1>1 DEF SetUp
<1>5. Frames'
  BY DEF Frames
<1> QED BY <1>2, <1>3, <1>4, <1>5

(* exception_handler returns to the instruction that c was about to execute. *)
LEMMA HandlerReturns ==
  ASSUME IInv, NEW c \in Cpu, ExceptionHandler(c)
  PROVE  pc' = pc
<1>1. PICK v \in 0 .. 31 : Frame(c, v)
  BY DEF ExceptionHandler, IInv, Frames
<1>2. /\ Arguments(frame[c]).vector = v
      /\ v # 29 => ReturnsTo(frame[c]) = pc[c]
  <2>1. frame[c] = Stack(v, pc[c])
    BY <1>1 DEF Frame
  <2> QED BY ONLY <2>1, Layout
<1>3. CASE idt.exception = "resumes" /\ Arguments(frame[c]).vector \in {3, 255}
  <2>1. v # 29
    BY <1>2, <1>3
  <2>2. pc' = [pc EXCEPT ![c] = pc[c]]
    BY <1>2, <1>3, <2>1 DEF ExceptionHandler
  <2> QED BY <2>2 DEF IInv, Types
<1>4. CASE ~(idt.exception = "resumes" /\ Arguments(frame[c]).vector \in {3, 255})
  BY <1>4 DEF ExceptionHandler
<1> QED BY <1>3, <1>4

LEMMA SetUpStepInv ==
  ASSUME IInv, NEW c \in Cpu,
         \/ FillGates(c) \/ LoadIdt(c) \/ EnableApic(c) \/ SetupTrampoline(c)
         \/ Claim(c) \/ Sti(c)
  PROVE  IInv'
<1> USE DEF machine, setup, exception
<1>0. apic = [d \in Cpu |-> apic[d]]
  BY DEF IInv, Types
<1>1. CASE FillGates(c)
  BY <1>0, <1>1, PhaseInv DEF FillGates
<1>2. CASE LoadIdt(c)
  BY <1>0, <1>2, PhaseInv DEF LoadIdt
<1>3. CASE EnableApic(c)
  <2>1. PICK phase \in {"apic", "follow"} : At(c, phase)
    BY <1>3 DEF EnableApic
  <2>2. At(c, "follow") <=> phase = "follow"
    BY <2>1 DEF At
  <2>3. apic' = [apic EXCEPT ![c] = IF phase = "follow" /\ apic_mode = "xapic"
                                    THEN apic[c] ELSE apic_mode]
    BY <1>3, <2>2 DEF EnableApic
  <2>4. /\ apic' = [d \in Cpu |-> apic'[d]]
        /\ \A d \in Cpu : apic'[d] = apic[d] \/ apic'[d] = apic_mode
        /\ phase = "apic" => apic'[c] = apic_mode
    BY <1>0, <2>3
  <2> QED BY <1>3, <2>1, <2>4, PhaseInv DEF EnableApic
<1>4. CASE SetupTrampoline(c)
  BY <1>0, <1>4, PhaseInv DEF SetupTrampoline
<1>5. CASE Claim(c)
  BY <1>0, <1>5, PhaseInv DEF Claim
<1>6. CASE Sti(c)
  BY <1>0, <1>6, PhaseInv DEF Sti
<1> QED BY <1>1, <1>2, <1>3, <1>4, <1>5, <1>6

LEMMA TimerStepInv ==
  ASSUME IInv, NEW c \in Cpu, TimerInit(c)
  PROVE  IInv'
<1> USE DEF machine, setup, exception
<1>0. apic = [d \in Cpu |-> apic[d]]
  BY DEF IInv, Types
<1>1. CASE SetDivider(c)
  BY <1>0, <1>1, PhaseInv DEF SetDivider, WriteTimer
<1>2. CASE ReadLvtBefore(c)
  BY <1>0, <1>2, PhaseInv DEF ReadLvtBefore
<1>3. CASE SetLvt(c)
  BY <1>0, <1>3, PhaseInv DEF SetLvt, WriteTimer
<1>4. CASE SetInitialCount(c)
  BY <1>0, <1>4, PhaseInv DEF SetInitialCount, WriteTimer
<1>5. CASE ShowTimer(c)
  BY <1>0, <1>5, PhaseInv DEF ShowTimer
<1> QED BY <1>1, <1>2, <1>3, <1>4, <1>5 DEF TimerInit

LEMMA BarrierStepInv ==
  ASSUME IInv, NEW c \in Cpu, EnterBarrier(c) \/ LeaveBarrier(c)
  PROVE  IInv'
<1> USE DEF machine, setup, exception
<1>1. CASE EnterBarrier(c)
  BY <1>1, StayInv DEF EnterBarrier, IInv, Types, SetUp, Frames, Frame
<1>2. CASE LeaveBarrier(c)
  <2>1. apic = [d \in Cpu |-> apic[d]]
    BY DEF IInv, Types
  <2> QED BY <1>2, <2>1, PhaseInv DEF LeaveBarrier
<1> QED BY <1>1, <1>2

(* An exception, foreseen or not, has one of the processor's vectors. *)
LEMMA Raises ==
  ASSUME NEW c \in Cpu, Exception(c) \/ Divide(c)
  PROVE  \E v \in 0 .. 31 : Raise(c, v)
  BY KernelRunAssumption DEF Exception, Divide

LEMMA RaiseInv ==
  ASSUME IInv, NEW c \in Cpu, NEW v \in 0 .. 31, Raise(c, v)
  PROVE  IInv'
<1> USE DEF machine, setup
<1>1. /\ frame' = [frame EXCEPT ![c] = Stack(v, pc[c])]
      /\ cause' = [cause EXCEPT ![c] = [vector |-> v, rip |-> pc[c],
                                error_code |-> Code(v)]]
  BY DEF Raise, Code, Stack
<1>2. pc' = pc
  BY DEF Raise
<1>3. Frame(c, v)'
  BY <1>1, <1>2 DEF Frame, IInv, Types
<1>4. \A d \in Cpu \ {c} : \A w : Frame(d, w)' <=> Frame(d, w)
  BY <1>1, <1>2 DEF Frame, IInv, Types
<1> QED BY <1>1, <1>2, <1>3, <1>4, StayInv DEF Raise, IInv, Types, SetUp, Frames, Modes

LEMMA HandlerStepInv ==
  ASSUME IInv, NEW c \in Cpu,
         TimerFires(c) \/ Handler(c) \/ ExceptionHandler(c) \/ Exception(c) \/ Divide(c)
  PROVE  IInv'
<1> USE DEF machine, setup, exception
<1>1. CASE TimerFires(c)
  BY <1>1, StayInv DEF TimerFires, IInv, Types, SetUp, Frames, Frame, Modes
<1>2. CASE CountTick(c)
  BY <1>2, StayInv DEF CountTick, IInv, Types, SetUp, Frames, Frame, Modes
<1>3. CASE EndOfInterrupt(c)
  BY <1>3, StayInv DEF EndOfInterrupt, IInv, Types, SetUp, Frames, Frame, Modes
<1>4. CASE ExceptionHandler(c)
  <2>1. pc' = pc
    BY <1>4, HandlerReturns
  <2>2. PICK m \in {"program", "stopped"} : mode' = [mode EXCEPT ![c] = m]
    BY <1>4 DEF ExceptionHandler
  <2>3. /\ mode' \in [Cpu -> Modes] /\ mode'[c] \in {"program", "stopped"}
        /\ \A d \in Cpu \ {c} : mode'[d] = mode[d]
        /\ mode[c] = "exception"
    <3>1. mode \in [Cpu -> Modes] /\ mode[c] = "exception"
      BY <1>4 DEF ExceptionHandler, IInv, Types
    <3>2. {"program", "stopped"} \subseteq Modes
      BY DEF Modes
    <3> QED BY <2>2, <3>1, <3>2
  <2>4. /\ frame' = [frame EXCEPT ![c] = <<>>] /\ cause' = [cause EXCEPT ![c] = <<>>]
        /\ UNCHANGED <<machine, idt, idtr, apic, enabled>>
    BY <1>4 DEF ExceptionHandler
  <2>5. \A d \in Cpu \ {c} : \A v : Frame(d, v)' <=> Frame(d, v)
    BY <2>1, <2>4 DEF Frame, IInv, Types
  <2>6. \A d \in Cpu : mode'[d] = "exception" => \E v \in 0 .. 31 : Frame(d, v)'
    BY <2>3, <2>5 DEF IInv, Frames
  <2>7. \A d \in Cpu : /\ mode'[d] = "parked" <=> mode[d] = "parked"
                      /\ mode'[d] \in {"called", "counted"} => enabled[d]
    BY <2>3 DEF IInv, SetUp
  <2>8. frame' = [d \in Cpu |-> frame'[d]] /\ cause' = [d \in Cpu |-> cause'[d]]
    BY <2>4 DEF IInv, Types
  <2> QED BY <2>1, <2>3, <2>4, <2>6, <2>7, <2>8, StayInv
<1>5. CASE Exception(c) \/ Divide(c)
  BY <1>5, Raises, RaiseInv
<1> QED BY <1>1, <1>2, <1>3, <1>4, <1>5 DEF Handler

LEMMA ReportStepInv ==
  ASSUME IInv, NEW c \in Cpu, ReportTicks(c)
  PROVE  IInv'
<1> USE DEF machine, setup, exception
<1>1. CASE Step(c)
  <2>1. apic = [d \in Cpu |-> apic[d]]
    BY DEF IInv, Types
  <2> QED BY <1>1, <2>1, PhaseInv DEF ReportTicks
<1>2. CASE UNCHANGED pc
  BY <1>2, StayInv DEF ReportTicks, IInv, Types, SetUp, Frames, Frame
<1> QED BY <1>1, <1>2 DEF ReportTicks

LEMMA NextInv == IInv /\ [Next]_vars => IInv'
<1> SUFFICES ASSUME IInv, [Next]_vars PROVE IInv'
  OBVIOUS
<1>1. ASSUME NEW c \in Cpu, CpuStep(c) \/ TimerFires(c) \/ Exception(c) PROVE IInv'
  BY <1>1, SetUpStepInv, StartInv, TimerStepInv, BarrierStepInv, HandlerStepInv, ReportStepInv
     DEF CpuStep
<1>2. CASE UNCHANGED vars
  BY <1>2, StayInv DEF vars, machine, setup, exception, IInv, Types, SetUp, Frames, Frame
<1> QED BY <1>1, <1>2 DEF Next

LEMMA InitInv == ASSUME Kernels \subseteq TheKernels PROVE Init => IInv
<1> SUFFICES ASSUME Init PROVE IInv
  OBVIOUS
<1>1. Types
  BY KernelsOrdered DEF Init, Types, Modes
<1>2. \A c \in Cpu : \A x : ~Passed(c, x)
  BY DEF Init, Passed
<1>3. Parked /\ SetUp /\ Frames
  BY <1>2, BspIn DEF Init, Parked, SetUp, Frames
<1> QED BY <1>1, <1>3 DEF IInv

LEMMA Invariant == ASSUME Kernels \subseteq TheKernels PROVE Spec => []IInv
  BY InitInv, NextInv, PTL DEF Spec

LEMMA PassedBefore ==
  ASSUME Types, NEW c \in Cpu, NEW a, NEW b, Passed(c, b), Before(Program(c), a, b)
  PROVE  Passed(c, a)
<1>1. PICK j \in 1 .. pc[c] - 1 : j \in Position(Program(c)) /\ Program(c)[j] = b
  BY DEF Passed
<1>2. PICK i \in 1 .. j - 1 : Program(c)[i] = a
  BY <1>1 DEF Before
<1>3. pc[c] \in Nat /\ Len(Program(c)) \in Nat
  BY DEF Types, OrderedKernel, Ordered, Program
<1>4. i \in 1 .. pc[c] - 1 /\ i \in Position(Program(c))
  BY <1>1, <1>3 DEF Position
<1> QED BY <1>2, <1>4 DEF Passed

(* A CPU takes a timer interrupt only when it has loaded an IDT whose gate   *)
(* for it is filled, and when its APIC is in the mode send_eoi writes to: a  *)
(* CPU enables interrupts after both, and the BSP fills the gates before any *)
(* AP runs.                                                                  *)
THEOREM RunHandlerReady == ASSUME Kernels \subseteq TheKernels PROVE Spec => []HandlerReady
<1>1. IInv => HandlerReady
  <2> SUFFICES ASSUME IInv, NEW c \in In("called") \cup In("counted")
               PROVE  c \in idtr /\ idt.timer = "irq" /\ apic[c] = apic_mode
    BY DEF HandlerReady
  <2> USE DEF IInv
  <2>1. c \in Cpu /\ mode[c] \in {"called", "counted"}
    BY DEF In
  <2>2. Passed(c, "sti")
    BY <2>1 DEF SetUp
  <2>3. Ordered(Program(c))
    BY DEF Types, OrderedKernel, Program
  <2>4. Passed(c, "lidt") /\ Passed(c, "apic")
    BY <2>1, <2>2, <2>3, PassedBefore DEF Ordered
  <2>5. /\ kernel.gates.timer = "irq"
        /\ Before(kernel.bsp, "gates", "sti") /\ Before(kernel.bsp, "gates", "start")
    BY <2>2 DEF Types, OrderedKernel, Lacks, Passed, Program
  <2>6. Passed(BSP, "sti") \/ Passed(BSP, "start")
    BY <2>1, <2>2 DEF Parked
  <2>7. Passed(BSP, "gates")
    BY <2>5, <2>6, BspIn, PassedBefore DEF Program
  <2> QED BY <2>1, <2>4, <2>5, <2>7 DEF SetUp
<1> QED BY <1>1, Invariant, PTL

(* exception_handler gets the vector, the error code and the address of the  *)
(* exception that happened, for every vector of the processor but 29.        *)
THEOREM RunExceptionSeesFault ==
  ASSUME Kernels \subseteq TheKernels PROVE Spec => []ExceptionSeesFault
<1>1. IInv => ExceptionSeesFault
  <2> SUFFICES ASSUME IInv, NEW c \in In("exception"), cause[c].vector # 29
               PROVE  /\ Arguments(frame[c]).vector = cause[c].vector
                      /\ Arguments(frame[c]).error_code = cause[c].error_code
                      /\ Arguments(frame[c]).rip = cause[c].rip
    BY DEF ExceptionSeesFault
  <2>1. PICK v \in 0 .. 31 : Frame(c, v)
    BY DEF IInv, Frames, In
  <2>2. cause[c].vector = v /\ cause[c].rip = pc[c]
        /\ cause[c].error_code = Code(v)
    BY <2>1 DEF Frame
  <2>3. /\ Arguments(frame[c]).vector = v
        /\ v # 29 => /\ Arguments(frame[c]).rip = pc[c]
                     /\ Arguments(frame[c]).error_code = Code(v)
    <3>1. frame[c] = Stack(v, pc[c])
      BY <2>1 DEF Frame
    <3> QED BY ONLY <3>1, Layout
  <2> QED BY <2>2, <2>3
<1> QED BY <1>1, Invariant, PTL

--------------------------------------------------------------------------------
(* The report on the timers.                                                 *)
TimerRegisters ==
  [dcr : {"div2", "div16"}, lvt : {"masked", "periodic"}, icr : {"stopped", "10000000"}]

Values == {"0", "masked", "periodic", "div16", "10000000"}

(* Every CPU notes the same in timer_init_debug, since each finds its own    *)
(* timer masked; so an entry is right from its first writing on, whoever     *)
(* wrote it.                                                                 *)
Noted ==
  /\ timer \in [Cpu -> TimerRegisters]
  /\ timer_init_debug \in [1 .. 4 -> Values]
  /\ \A c \in Cpu :
       /\ timer[c].lvt = "masked" \/ Passed(c, "lvt")
       /\ Passed(c, "before") => timer_init_debug[1] = "masked"
       /\ Passed(c, "lvt") => timer_init_debug[2] = "periodic"
       /\ Passed(c, "dcr") => timer_init_debug[3] = "div16"
       /\ Passed(c, "icr") => timer_init_debug[4] = "10000000"

Shown == shown # <<>> => shown = <<"masked", "periodic", "div16", "10000000">>

Entry(phase, e, value) ==
  \/ phase = "before" /\ e = 1 /\ value = "masked"
  \/ phase = "lvt" /\ e = 2 /\ value = "periodic"
  \/ phase = "dcr" /\ e = 3 /\ value = "div16"
  \/ phase = "icr" /\ e = 4 /\ value = "10000000"

OwnLvt(c, phase) ==
  \A d \in Cpu : timer'[d].lvt = timer[d].lvt \/ (d = c /\ phase = "lvt")

LEMMA EntryNoted ==
  ASSUME IInv, Noted, NEW c \in Cpu, NEW phase, At(c, phase), Step(c), kernel' = kernel,
         NEW e, NEW value,
         timer_init_debug' = [timer_init_debug EXCEPT ![e] = value],
         Entry(phase, e, value),
         timer' \in [Cpu -> TimerRegisters], OwnLvt(c, phase)
  PROVE  Noted'
<1>1. /\ \A x : Passed(c, x)' <=> Passed(c, x) \/ x = phase
      /\ \A d \in Cpu \ {c} : \A x : Passed(d, x)' <=> Passed(d, x)
  BY StepPasses DEF IInv
<1>2. /\ timer_init_debug' \in [1 .. 4 -> Values]
      /\ timer_init_debug'[e] = value
      /\ \A i \in 1 .. 4 : i # e => timer_init_debug'[i] = timer_init_debug[i]
  <2>1. e \in 1 .. 4 /\ value \in Values
    BY DEF Values, Entry
  <2> QED BY <2>1 DEF Noted
<1>3. ASSUME NEW d \in Cpu
      PROVE  /\ timer'[d].lvt = "masked" \/ Passed(d, "lvt")'
             /\ Passed(d, "before")' => timer_init_debug'[1] = "masked"
             /\ Passed(d, "lvt")' => timer_init_debug'[2] = "periodic"
             /\ Passed(d, "dcr")' => timer_init_debug'[3] = "div16"
             /\ Passed(d, "icr")' => timer_init_debug'[4] = "10000000"
  <2>1. CASE d = c
    BY <1>1, <1>2, <2>1 DEF Noted, Entry, OwnLvt
  <2>2. CASE d # c
    BY <1>1, <1>2, <2>2 DEF Noted, Entry, OwnLvt
  <2> QED BY <2>1, <2>2
<1> QED BY <1>2, <1>3 DEF Noted

LEMMA TimerNoted ==
  ASSUME IInv, Noted, NEW c \in Cpu,
         SetDivider(c) \/ ReadLvtBefore(c) \/ SetLvt(c) \/ SetInitialCount(c)
  PROVE  Noted'
<1> USE DEF machine, setup
<1>0. timer \in [Cpu -> TimerRegisters]
  BY DEF Noted
<1>1. CASE SetDivider(c)
  <2>1. timer' = [timer EXCEPT ![c]["dcr"] = "div16"]
    BY <1>1 DEF SetDivider, WriteTimer
  <2>2. timer' \in [Cpu -> TimerRegisters] /\ OwnLvt(c, "dcr")
    BY <1>0, <2>1 DEF TimerRegisters, OwnLvt
  <2>3. /\ At(c, "dcr") /\ Step(c) /\ kernel' = kernel
        /\ timer_init_debug' = [timer_init_debug EXCEPT ![3] = "div16"]
        /\ Entry("dcr", 3, "div16")
    BY <1>1 DEF SetDivider, WriteTimer, Entry
  <2> QED BY <2>2, <2>3, EntryNoted
<1>2. CASE ReadLvtBefore(c)
  <2>1. timer[c].lvt = "masked"
    <3>1. ~ Passed(c, "lvt")
      <4>1. /\ \A i, j \in Position(Program(c)) :
                 Program(c)[i] = "before" /\ Program(c)[j] = "lvt" => i < j
            /\ Len(Program(c)) \in Nat
        BY DEF IInv, Types, OrderedKernel, Ordered, Program
      <4>2. pc[c] \in Position(Program(c)) /\ Program(c)[pc[c]] = "before"
        BY <1>2, <4>1 DEF ReadLvtBefore, At, Position, IInv, Types
      <4> QED BY <4>1, <4>2 DEF Passed, Position, IInv, Types
    <3> QED BY <3>1 DEF Noted
  <2>2. /\ At(c, "before") /\ Step(c) /\ kernel' = kernel
        /\ timer_init_debug' = [timer_init_debug EXCEPT ![1] = "masked"]
        /\ Entry("before", 1, "masked")
        /\ timer' = timer /\ OwnLvt(c, "before")
    BY <1>2, <2>1 DEF ReadLvtBefore, Entry, OwnLvt
  <2> QED BY <1>0, <2>2, EntryNoted
<1>3. CASE SetLvt(c)
  <2>1. timer' = [timer EXCEPT ![c]["lvt"] = "periodic"]
    BY <1>3 DEF SetLvt, WriteTimer
  <2>2. timer' \in [Cpu -> TimerRegisters] /\ OwnLvt(c, "lvt")
    BY <1>0, <2>1 DEF TimerRegisters, OwnLvt
  <2>3. /\ At(c, "lvt") /\ Step(c) /\ kernel' = kernel
        /\ timer_init_debug' = [timer_init_debug EXCEPT ![2] = "periodic"]
        /\ Entry("lvt", 2, "periodic")
    BY <1>3 DEF SetLvt, WriteTimer, Entry
  <2> QED BY <2>2, <2>3, EntryNoted
<1>4. CASE SetInitialCount(c)
  <2>1. timer' = [timer EXCEPT ![c]["icr"] = "10000000"]
    BY <1>4 DEF SetInitialCount, WriteTimer
  <2>2. timer' \in [Cpu -> TimerRegisters] /\ OwnLvt(c, "icr")
    BY <1>0, <2>1 DEF TimerRegisters, OwnLvt
  <2>3. /\ At(c, "icr") /\ Step(c) /\ kernel' = kernel
        /\ timer_init_debug' = [timer_init_debug EXCEPT ![4] = "10000000"]
        /\ Entry("icr", 4, "10000000")
    BY <1>4 DEF SetInitialCount, WriteTimer, Entry
  <2> QED BY <2>2, <2>3, EntryNoted
<1> QED BY <1>1, <1>2, <1>3, <1>4

(* A step that goes through any other phase, or none, and leaves the timers. *)
LEMMA StayNoted ==
  ASSUME IInv, Noted, UNCHANGED <<kernel, timer, timer_init_debug>>,
         \A d \in Cpu : \A x \in {"before", "lvt", "dcr", "icr"} : Passed(d, x)' <=> Passed(d, x)
  PROVE  Noted'
  BY DEF Noted

(* The BSP has been through apic_timer_init when it shows the entries. *)
LEMMA ShowTimerShown ==
  ASSUME IInv, Noted, NEW c \in Cpu, ShowTimer(c)
  PROVE  Shown'
<1>1. /\ \A x : Passed(c, x)' <=> Passed(c, x) \/ x = "show"
      /\ pc' \in [Cpu -> Nat \ {0}] /\ kernel' = kernel
  BY StepPasses DEF ShowTimer, IInv, machine
<1>2. Types'
  BY <1>1 DEF IInv, Types, ShowTimer, machine, setup, exception
<1>3. Passed(c, "dcr")' /\ Passed(c, "before")' /\ Passed(c, "lvt")' /\ Passed(c, "icr")'
  <2>1. Ordered(Program(c))
    BY DEF IInv, Types, OrderedKernel, Program
  <2>2. Passed(c, "show")'
    BY <1>1
  <2>3. PICK j \in 1 .. pc'[c] - 1 : j \in Position(Program(c)) /\ Program(c)[j] = "show"
    BY <1>1, <2>2 DEF Passed, Program
  <2>4. ASSUME NEW a, Before(Program(c), a, "show") PROVE Passed(c, a)'
    <3>1. PICK i \in 1 .. j - 1 : Program(c)[i] = a
      BY <2>3, <2>4 DEF Before
    <3>2. pc'[c] \in Nat /\ Len(Program(c)) \in Nat
      BY <1>1, <2>1 DEF Ordered
    <3>3. i \in 1 .. pc'[c] - 1 /\ i \in Position(Program(c))
      BY <2>3, <3>1, <3>2 DEF Position
    <3> QED BY <1>1, <3>1, <3>3 DEF Passed, Program
  <2> QED BY <2>1, <2>4 DEF Ordered
<1>4. Passed(c, "dcr") /\ Passed(c, "before") /\ Passed(c, "lvt") /\ Passed(c, "icr")
  BY <1>1, <1>3
<1>5. /\ timer_init_debug \in [1 .. 4 -> Values]
      /\ timer_init_debug[1] = "masked" /\ timer_init_debug[2] = "periodic"
      /\ timer_init_debug[3] = "div16" /\ timer_init_debug[4] = "10000000"
  BY <1>4 DEF Noted
<1>6. timer_init_debug = <<"masked", "periodic", "div16", "10000000">>
  <2> DEFINE right == <<"masked", "periodic", "div16", "10000000">>
  <2>1. /\ right = [i \in 1 .. 4 |-> right[i]]
        /\ right[1] = "masked" /\ right[2] = "periodic"
        /\ right[3] = "div16" /\ right[4] = "10000000"
    OBVIOUS
  <2>2. timer_init_debug = [i \in 1 .. 4 |-> timer_init_debug[i]]
    BY <1>5
  <2> HIDE DEF right
  <2>3. \A i \in 1 .. 4 : timer_init_debug[i] = right[i]
    BY <1>5, <2>1
  <2>4. timer_init_debug = right
    BY <2>1, <2>2, <2>3
  <2> QED BY <2>4 DEF right
<1> QED BY <1>6 DEF ShowTimer, Shown

LEMMA PhaseKeeps ==
  ASSUME IInv, NEW c \in Cpu, NEW phase, At(c, phase), Step(c), kernel' = kernel,
         phase \notin {"before", "lvt", "dcr", "icr"}
  PROVE  \A d \in Cpu : \A x \in {"before", "lvt", "dcr", "icr"} : Passed(d, x)' <=> Passed(d, x)
<1>1. /\ \A x : Passed(c, x)' <=> Passed(c, x) \/ x = phase
      /\ \A d \in Cpu \ {c} : \A x : Passed(d, x)' <=> Passed(d, x)
  BY StepPasses DEF IInv
<1> QED BY <1>1

(* No other step of a CPU touches its timer or goes through one of the four  *)
(* phases of apic_timer_init.                                                *)
LEMMA OtherNoted ==
  ASSUME IInv, Noted, NEW c \in Cpu,
         \/ FillGates(c) \/ LoadIdt(c) \/ EnableApic(c) \/ SetupTrampoline(c) \/ StartAps(c)
         \/ Claim(c) \/ Sti(c) \/ ShowTimer(c) \/ EnterBarrier(c) \/ LeaveBarrier(c)
         \/ Handler(c) \/ ExceptionHandler(c) \/ ReportTicks(c)
         \/ TimerFires(c) \/ Exception(c) \/ Divide(c)
  PROVE  Noted'
<1> USE DEF machine, setup, debug
<1>1. CASE FillGates(c)
  BY <1>1, PhaseKeeps, StayNoted DEF FillGates
<1>2. CASE LoadIdt(c)
  BY <1>2, PhaseKeeps, StayNoted DEF LoadIdt
<1>3. CASE EnableApic(c)
  <2>1. PICK phase \in {"apic", "follow"} : At(c, phase)
    BY <1>3 DEF EnableApic
  <2> QED BY <1>3, <2>1, PhaseKeeps, StayNoted DEF EnableApic
<1>4. CASE SetupTrampoline(c)
  BY <1>4, PhaseKeeps, StayNoted DEF SetupTrampoline
<1>5. CASE StartAps(c)
  BY <1>5, PhaseKeeps, StayNoted DEF StartAps
<1>6. CASE Claim(c)
  BY <1>6, PhaseKeeps, StayNoted DEF Claim
<1>7. CASE Sti(c)
  BY <1>7, PhaseKeeps, StayNoted DEF Sti
<1>8. CASE ShowTimer(c)
  BY <1>8, PhaseKeeps, StayNoted DEF ShowTimer
<1>9. CASE EnterBarrier(c)
  BY <1>9, StayPasses, StayNoted DEF EnterBarrier
<1>10. CASE LeaveBarrier(c)
  BY <1>10, PhaseKeeps, StayNoted DEF LeaveBarrier
<1>11. CASE Handler(c)
  BY <1>11, StayPasses, StayNoted DEF Handler, CountTick, EndOfInterrupt
<1>12. CASE ExceptionHandler(c)
  <2>1. pc' = pc
    BY <1>12, HandlerReturns
  <2> QED BY <1>12, <2>1, StayPasses, StayNoted DEF ExceptionHandler
<1>13. CASE ReportTicks(c)
  <2>1. CASE Step(c)
    BY <1>13, <2>1, PhaseKeeps, StayNoted DEF ReportTicks
  <2>2. CASE UNCHANGED pc
    BY <1>13, <2>2, StayPasses, StayNoted DEF ReportTicks
  <2> QED BY <1>13, <2>1, <2>2 DEF ReportTicks
<1>14. CASE TimerFires(c)
  BY <1>14, StayPasses, StayNoted DEF TimerFires
<1>15. CASE Exception(c) \/ Divide(c)
  BY <1>15, Raises, StayPasses, StayNoted DEF Raise
<1> QED BY <1>1, <1>2, <1>3, <1>4, <1>5, <1>6, <1>7, <1>8, <1>9, <1>10, <1>11, <1>12, <1>13,
           <1>14, <1>15

LEMMA NotedStep ==
  ASSUME IInv, Noted, Shown, [Next]_vars
  PROVE  Noted' /\ Shown'
<1>1. ASSUME NEW c \in Cpu, CpuStep(c) \/ TimerFires(c) \/ Exception(c)
      PROVE  Noted' /\ (shown' = shown \/ ShowTimer(c))
  <2>1. Noted'
    BY <1>1, TimerNoted, OtherNoted DEF CpuStep, TimerInit
  <2>2. shown' = shown \/ ShowTimer(c)
    BY <1>1 DEF CpuStep, TimerInit, debug, FillGates, LoadIdt, EnableApic, SetupTrampoline,
       StartAps, Claim, Sti, SetDivider, SetLvt, SetInitialCount, WriteTimer, ReadLvtBefore,
       EnterBarrier, LeaveBarrier, Handler, CountTick, EndOfInterrupt, ExceptionHandler,
       ReportTicks, TimerFires, Exception, Divide, Raise
  <2> QED BY <2>1, <2>2
<1>2. CASE UNCHANGED vars
  BY <1>2, StayPasses, StayNoted DEF vars, machine, setup, debug, Shown
<1> QED BY <1>1, <1>2, ShowTimerShown DEF Next, Shown

--------------------------------------------------------------------------------
(* The lines of the report: what the first loop printed for a CPU is not     *)
(* above what the counter has come to, and the second loop prints that.      *)
Lines ==
  /\ timer_ticks \in [0 .. MaxCpus - 1 -> Nat] /\ global_timer_calls \in Nat
  /\ printed \in Seq(Nat)
  /\ \A i \in 1 .. CpuCount :
       /\ 1 + i <= Len(printed) => printed[1 + i] <= timer_ticks[i - 1]
       /\ 1 + CpuCount + i <= Len(printed) => printed[1 + i] <= printed[1 + CpuCount + i]

LEMMA Modulo ==
  ASSUME NEW n \in Nat \ {0}, NEW a \in Nat
  PROVE  a % n \in 0 .. n - 1 /\ (a < n => a % n = a /\ (n + a) % n = a)
OBVIOUS

LEMMA AppendLines ==
  ASSUME Lines, NEW c \in Cpu, ReportTicks(c), CpuCount <= MaxCpus
  PROVE  Lines'
<1> DEFINE k == Len(printed)
<1>1. k \in Nat /\ CpuCount \in Nat \ {0} /\ MaxCpus \in Nat
  BY KernelRunAssumption DEF Lines
<1>2. printed' = Append(printed, ReportLine) /\ UNCHANGED <<timer_ticks, global_timer_calls>>
  BY DEF ReportTicks, counts
<1>3. ReportLine \in Nat
  <2>1. CASE k = 0
    BY <2>1 DEF ReportLine, Lines
  <2>2. CASE k # 0
    <3>1. (k - 1) % CpuCount \in 0 .. MaxCpus - 1
      BY <1>1, <2>2, Modulo
    <3> QED BY <2>2, <3>1 DEF ReportLine, Lines
  <2> QED BY <2>1, <2>2
<1>4. /\ printed' \in Seq(Nat) /\ Len(printed)' = k + 1
      /\ \A j \in 1 .. k : printed'[j] = printed[j]
      /\ printed'[k + 1] = ReportLine
  BY <1>2, <1>3 DEF Lines
<1>5. ASSUME NEW i \in 1 .. CpuCount
      PROVE  /\ 1 + i <= Len(printed)' => printed'[1 + i] <= timer_ticks'[i - 1]
             /\ 1 + CpuCount + i <= Len(printed)' => printed'[1 + i] <= printed'[1 + CpuCount + i]
  <2>1. i - 1 \in Nat /\ i - 1 < CpuCount /\ i - 1 \in 0 .. MaxCpus - 1
    BY <1>1
  <2>2. (i - 1) % CpuCount = i - 1 /\ (CpuCount + (i - 1)) % CpuCount = i - 1
    BY <1>1, <2>1, Modulo
  <2>3. k = i \/ k = CpuCount + i => ReportLine = timer_ticks[i - 1]
    <3>1. k = CpuCount + i => k - 1 = CpuCount + (i - 1)
      BY <1>1
    <3> QED BY <1>1, <2>2, <3>1 DEF ReportLine
  <2>4. timer_ticks[i - 1] \in Nat
    BY <2>1 DEF Lines
  <2>5. 1 + i <= k + 1 => printed'[1 + i] <= timer_ticks[i - 1]
    <3>1. CASE k = i
      BY <1>4, <2>3, <2>4, <3>1
    <3>2. CASE 1 + i <= k
      BY <1>1, <1>4, <3>2 DEF Lines
    <3> QED BY <1>1, <3>1, <3>2
  <2>6. 1 + CpuCount + i <= k + 1 => printed'[1 + i] <= printed'[1 + CpuCount + i]
    <3>1. CASE k = CpuCount + i
      <4>1. printed'[1 + CpuCount + i] = timer_ticks[i - 1]
        BY <1>1, <1>4, <2>3, <3>1
      <4> QED BY <1>1, <2>5, <3>1, <4>1
    <3>2. CASE 1 + CpuCount + i <= k
      <4>1. 1 + i \in 1 .. k /\ 1 + CpuCount + i \in 1 .. k
        BY <1>1, <3>2
      <4>2. printed[1 + i] <= printed[1 + CpuCount + i]
        BY <3>2 DEF Lines
      <4>3. printed'[1 + i] = printed[1 + i] /\ printed'[1 + CpuCount + i] = printed[1 + CpuCount + i]
        BY <1>4, <4>1
      <4> QED BY <4>2, <4>3
    <3> QED BY <1>1, <3>1, <3>2
  <2> QED BY <1>2, <1>4, <2>5, <2>6
<1> QED BY <1>2, <1>4, <1>5 DEF Lines

(* Counters only grow, and nothing else touches them. *)
LEMMA GrowLines ==
  ASSUME Lines, UNCHANGED printed, CpuCount <= MaxCpus,
         timer_ticks' \in [0 .. MaxCpus - 1 -> Nat], global_timer_calls' \in Nat,
         \A j \in 0 .. MaxCpus - 1 : timer_ticks[j] <= timer_ticks'[j]
  PROVE  Lines'
<1>1. CpuCount \in Nat /\ MaxCpus \in Nat
  BY KernelRunAssumption
<1>2. ASSUME NEW i \in 1 .. CpuCount, 1 + i <= Len(printed)
      PROVE  printed[1 + i] <= timer_ticks'[i - 1]
  <2>1. i - 1 \in 0 .. MaxCpus - 1 /\ 1 + i \in 1 .. Len(printed)
    BY <1>1, <1>2 DEF Lines
  <2>2. printed[1 + i] \in Nat /\ timer_ticks[i - 1] \in Nat /\ timer_ticks'[i - 1] \in Nat
    BY <2>1 DEF Lines
  <2> QED BY <1>2, <2>1, <2>2 DEF Lines
<1> QED BY <1>2 DEF Lines

LEMMA LinesStep ==
  ASSUME Lines, [Next]_vars, CpuCount <= MaxCpus
  PROVE  Lines'
<1>1. ASSUME NEW c \in Cpu, ReportTicks(c) PROVE Lines'
  BY <1>1, AppendLines
<1>2. ASSUME NEW c \in Cpu, CountTick(c) PROVE Lines'
  <2>1. PICK a : \/ timer_ticks' = timer_ticks
                 \/ timer_ticks' = [timer_ticks EXCEPT ![a] = timer_ticks[a] + 1]
    BY <1>2 DEF CountTick
  <2>2. /\ timer_ticks' \in [0 .. MaxCpus - 1 -> Nat]
        /\ \A j \in 0 .. MaxCpus - 1 : timer_ticks[j] <= timer_ticks'[j]
    <3>1. timer_ticks \in [0 .. MaxCpus - 1 -> Nat] /\ MaxCpus \in Nat
      BY KernelRunAssumption DEF Lines
    <3>2. CASE a \in 0 .. MaxCpus - 1
      <4>1. timer_ticks[a] \in Nat
        BY <3>1, <3>2
      <4> QED BY <2>1, <3>1, <3>2, <4>1
    <3>3. CASE a \notin 0 .. MaxCpus - 1
      BY <2>1, <3>1, <3>3
    <3> QED BY <3>2, <3>3
  <2> QED BY <1>2, <2>2, GrowLines DEF CountTick, Lines
<1>3. ASSUME NEW c \in Cpu, TimerFires(c) PROVE Lines'
  BY <1>3, GrowLines DEF TimerFires, Lines
<1>4. CASE UNCHANGED <<timer_ticks, global_timer_calls, printed>>
  BY <1>4 DEF Lines
<1>5. ASSUME NEW c \in Cpu, CpuStep(c) \/ TimerFires(c) \/ Exception(c),
             ~ReportTicks(c), ~CountTick(c), ~TimerFires(c)
      PROVE  UNCHANGED <<timer_ticks, global_timer_calls, printed>>
  BY <1>5 DEF CpuStep, TimerInit, counts, FillGates, LoadIdt, EnableApic, SetupTrampoline,
     StartAps, Claim, Sti, SetDivider, SetLvt, SetInitialCount, WriteTimer, ReadLvtBefore,
     ShowTimer, EnterBarrier, LeaveBarrier, Handler, EndOfInterrupt, ExceptionHandler, Exception,
     Divide, Raise
<1>6. CASE UNCHANGED vars
  BY <1>4, <1>6 DEF vars, counts
<1> QED BY <1>1, <1>2, <1>3, <1>4, <1>5, <1>6 DEF Next

(* The set-up the BSP shows is its own although every CPU writes to the same *)
(* entries, and the total of the ticks is not below the lines above it, for  *)
(* any number of CPUs that timer_ticks has room for.                         *)
THEOREM RunReportTrue ==
  ASSUME Kernels \subseteq TheKernels, CpuCount <= MaxCpus PROVE Spec => []ReportTrue
<1> DEFINE RInv == IInv /\ Noted /\ Shown /\ Lines
<1>1. Init => RInv
  <2> SUFFICES ASSUME Init PROVE RInv
    OBVIOUS
  <2>1. IInv
    BY InitInv
  <2>2. \A c \in Cpu : \A x : ~Passed(c, x)
    BY DEF Init, Passed
  <2>3. timer \in [Cpu -> TimerRegisters] /\ \A c \in Cpu : timer[c].lvt = "masked"
    BY DEF Init, Reset, TimerRegisters
  <2>4. timer_init_debug \in [1 .. 4 -> Values]
    BY DEF Init, Values
  <2>5. Noted
    BY <2>2, <2>3, <2>4 DEF Noted
  <2>6. Shown /\ Lines
    BY KernelRunAssumption DEF Init, Shown, Lines
  <2> QED BY <2>1, <2>5, <2>6
<1>2. RInv /\ [Next]_vars => RInv'
  BY NextInv, NotedStep, LinesStep
<1>3. RInv => ReportTrue
  BY KernelRunAssumption DEF Lines, Shown, ReportTrue, ReportLength
<1> QED BY <1>1, <1>2, <1>3, PTL DEF Spec

--------------------------------------------------------------------------------
(* The ticks: those in the table, those of CPUs in the handler that have not *)
(* come to the table, and those of CPUs whose APIC id has no entry.          *)
Low == {c \in Cpu : apic_id[c] < MaxCpus}
High == {c \in Cpu : apic_id[c] >= MaxCpus}
Called == In("called") \cap Low

Ticks ==
  /\ apic_id \in [Cpu -> Nat] /\ fired \in [Cpu -> Nat]
  /\ timer_ticks \in [0 .. MaxCpus - 1 -> Nat]
  /\ global_timer_calls = SumOver(timer_ticks, 0 .. MaxCpus - 1) + Cardinality(Called)
                          + SumOver(fired, High)

LEMMA CpusFinite ==
  /\ IsFiniteSet(Cpu) /\ IsFiniteSet(Called) /\ IsFiniteSet(High)
  /\ IsFiniteSet(0 .. MaxCpus - 1)
  /\ Cardinality(Called) \in Nat
<1>1. CpuCount \in Nat /\ MaxCpus \in Nat
  BY KernelRunAssumption
<1>2. IsFiniteSet(Cpu) /\ IsFiniteSet(0 .. MaxCpus - 1)
  BY <1>1, FS_Interval DEF Cpu
<1>3. Called \in SUBSET Cpu /\ High \in SUBSET Cpu
  BY DEF Called, Low, High
<1> QED BY <1>2, <1>3, FS_Subset, FS_CardinalityType

LEMMA SumsInt ==
  ASSUME Ticks
  PROVE  SumOver(timer_ticks, 0 .. MaxCpus - 1) \in Int /\ SumOver(fired, High) \in Int
<1>1. \A i \in 0 .. MaxCpus - 1 : timer_ticks[i] \in Int
  BY DEF Ticks
<1>2. \A c \in High : fired[c] \in Int
  BY DEF Ticks, High
<1> QED BY <1>1, <1>2, CpusFinite, SumInt

(* A call of the handler: of a CPU with an entry, or of one without. *)
LEMMA FiresTicks ==
  ASSUME IInv, Ticks, NEW c \in Cpu, TimerFires(c)
  PROVE  Ticks'
<1>1. /\ mode[c] = "program" /\ mode' = [mode EXCEPT ![c] = "called"]
      /\ fired' = [fired EXCEPT ![c] = fired[c] + 1]
      /\ global_timer_calls' = global_timer_calls + 1
      /\ timer_ticks' = timer_ticks /\ apic_id' = apic_id
  BY DEF TimerFires, machine
<1>2. Low' = Low /\ High' = High
  BY <1>1 DEF Low, High
<1>3. Called' = IF c \in Low THEN Called \cup {c} ELSE Called
  BY <1>1, <1>2 DEF Called, In, IInv, Types, Low
<1>4. c \notin Called
  BY <1>1 DEF Called, In
<1>5. fired' \in [Cpu -> Nat]
  BY <1>1 DEF Ticks
<1>6. SumOver(fired', High) = IF c \in High THEN SumOver(fired, High) + 1 ELSE SumOver(fired, High)
  <2>1. \A i \in High : fired[i] \in Int /\ fired'[i] = IF i = c THEN fired[i] + 1 ELSE fired[i]
    BY <1>1 DEF Ticks, High
  <2> QED BY <2>1, CpusFinite, SumChange
<1>7. Cardinality(Called') = IF c \in Low THEN Cardinality(Called) + 1 ELSE Cardinality(Called)
  BY <1>3, <1>4, CpusFinite, FS_AddElement
<1>8. c \in Low <=> c \notin High
  BY KernelRunAssumption DEF Low, High, Ticks
<1>9. global_timer_calls' = SumOver(timer_ticks', 0 .. MaxCpus - 1) + Cardinality(Called')
                            + SumOver(fired', High')
  BY <1>1, <1>2, <1>6, <1>7, <1>8, SumsInt, CpusFinite DEF Ticks
<1> QED BY <1>1, <1>5, <1>9 DEF Ticks

(* The table entry of a CPU that has one. *)
LEMMA CountTicks ==
  ASSUME IInv, Ticks, NEW c \in Cpu, CountTick(c)
  PROVE  Ticks'
<1>1. /\ mode[c] = "called" /\ mode' = [mode EXCEPT ![c] = "counted"]
      /\ timer_ticks' = IF apic_id[c] < MaxCpus
                        THEN [timer_ticks EXCEPT ![apic_id[c]] = timer_ticks[apic_id[c]] + 1]
                        ELSE timer_ticks
      /\ fired' = fired /\ global_timer_calls' = global_timer_calls /\ apic_id' = apic_id
  BY DEF CountTick, machine
<1>2. Low' = Low /\ High' = High
  BY <1>1 DEF Low, High
<1>3. Called' = Called \ {c}
  BY <1>1, <1>2 DEF Called, In, IInv, Types, Low
<1>4. CASE apic_id[c] < MaxCpus
  <2> DEFINE a == apic_id[c]
  <2>1. a \in 0 .. MaxCpus - 1
    BY <1>4, KernelRunAssumption DEF Ticks
  <2>2. timer_ticks' = [timer_ticks EXCEPT ![a] = timer_ticks[a] + 1]
    BY <1>1, <1>4
  <2> HIDE DEF a
  <2>3. timer_ticks' \in [0 .. MaxCpus - 1 -> Nat]
    BY <2>1, <2>2 DEF Ticks
  <2>4. \A i \in 0 .. MaxCpus - 1 :
          timer_ticks[i] \in Int /\ timer_ticks'[i] = IF i = a THEN timer_ticks[i] + 1 ELSE timer_ticks[i]
    BY <2>1, <2>2 DEF Ticks
  <2>5. SumOver(timer_ticks', 0 .. MaxCpus - 1) = SumOver(timer_ticks, 0 .. MaxCpus - 1) + 1
    <3> DEFINE D == 0 .. MaxCpus - 1
    <3>1. /\ IsFiniteSet(D) /\ a \in D
          /\ \A i \in D : timer_ticks[i] \in Int
                          /\ timer_ticks'[i] = IF i = a THEN timer_ticks[i] + 1 ELSE timer_ticks[i]
      BY <2>1, <2>4, CpusFinite
    <3> HIDE DEF D
    <3>2. SumOver(timer_ticks', D) = IF a \in D THEN SumOver(timer_ticks, D) + 1 ELSE SumOver(timer_ticks, D)
      BY ONLY <3>1, 1 \in Int, SumChange
    <3> QED BY <3>1, <3>2 DEF D
  <2>6. c \in Called
    BY <1>1, <1>4 DEF Called, In, Low
  <2>7. Cardinality(Called') = Cardinality(Called) - 1
    BY <1>3, <2>6, CpusFinite, FS_RemoveElement
  <2>8. global_timer_calls' = SumOver(timer_ticks', 0 .. MaxCpus - 1) + Cardinality(Called')
                              + SumOver(fired', High')
    BY <1>1, <1>2, <2>5, <2>7, SumsInt, CpusFinite DEF Ticks
  <2> QED BY <1>1, <2>3, <2>8 DEF Ticks
<1>5. CASE ~(apic_id[c] < MaxCpus)
  <2>1. Called' = Called
    BY <1>3, <1>5 DEF Called, Low
  <2> QED BY <1>1, <1>2, <1>5, <2>1 DEF Ticks
<1> QED BY <1>4, <1>5

(* No other step calls the handler or counts, or ends a call: boot_all_aps   *)
(* finds nobody in it.                                                       *)
LEMMA OtherTicks ==
  ASSUME IInv, Ticks, UNCHANGED <<apic_id, counts>>,
         \A c \in Cpu : mode'[c] = "called" <=> mode[c] = "called"
  PROVE  Ticks'
<1>1. Called' = Called /\ High' = High
  BY DEF Called, In, Low, High
<1> QED BY <1>1 DEF Ticks, counts

LEMMA NobodyCalled ==
  ASSUME IInv, NEW c \in Cpu, StartAps(c)
  PROVE  \A d \in Cpu : mode[d] # "called"
<1>1. mode[c] = "program" /\ pc[c] \in Position(Program(c)) /\ Program(c)[pc[c]] = "start"
  BY DEF StartAps, At, Position, IInv, Types, OrderedKernel, Ordered, Program
<1>2. c = BSP
  BY <1>1 DEF Program, IInv, Types, OrderedKernel, Lacks
<1>3. ~Passed(BSP, "start")
  BY <1>1, <1>2 DEF Passed, IInv, Types, OrderedKernel, Ordered, Program, Position
<1>4. \A d \in Cpu \ {BSP} : mode[d] = "parked"
  BY <1>3 DEF IInv, Parked
<1> QED BY <1>1, <1>2, <1>4

LEMMA TicksStep ==
  ASSUME IInv, Ticks, [Next]_vars
  PROVE  Ticks'
<1>1. ASSUME NEW c \in Cpu, TimerFires(c) PROVE Ticks'
  BY <1>1, FiresTicks
<1>2. ASSUME NEW c \in Cpu, CountTick(c) PROVE Ticks'
  BY <1>2, CountTicks
<1>3. ASSUME NEW c \in Cpu, StartAps(c) PROVE Ticks'
  <2>1. \A d \in Cpu : mode[d] # "called" /\ mode'[d] # "called"
    BY <1>3, NobodyCalled DEF StartAps
  <2>2. UNCHANGED <<apic_id, counts>>
    BY <1>3 DEF StartAps, machine
  <2> QED BY <2>1, <2>2, OtherTicks
<1>4. ASSUME NEW c \in Cpu,
             EndOfInterrupt(c) \/ Exception(c) \/ Divide(c) \/ ExceptionHandler(c)
      PROVE  Ticks'
  <2>1. PICK m \in {"program", "exception", "stopped"} : mode' = [mode EXCEPT ![c] = m]
    BY <1>4 DEF EndOfInterrupt, Exception, Divide, Raise, ExceptionHandler
  <2>2. mode[c] # "called"
    BY <1>4 DEF EndOfInterrupt, Exception, Divide, Raise, ExceptionHandler
  <2>3. \A d \in Cpu : mode'[d] = "called" <=> mode[d] = "called"
    BY <2>1, <2>2 DEF IInv, Types
  <2>4. UNCHANGED <<apic_id, counts>>
    BY <1>4 DEF EndOfInterrupt, Exception, Divide, Raise, ExceptionHandler, machine
  <2> QED BY <2>3, <2>4, OtherTicks
<1>5. ASSUME NEW c \in Cpu,
             \/ FillGates(c) \/ LoadIdt(c) \/ EnableApic(c) \/ SetupTrampoline(c)
             \/ Claim(c) \/ Sti(c) \/ TimerInit(c)
             \/ EnterBarrier(c) \/ LeaveBarrier(c) \/ ReportTicks(c)
      PROVE  Ticks'
  <2>1. UNCHANGED <<mode, apic_id, counts>>
    BY <1>5 DEF FillGates, LoadIdt, EnableApic, SetupTrampoline, Claim, Sti, TimerInit,
       SetDivider, SetLvt, SetInitialCount, WriteTimer, ReadLvtBefore, ShowTimer,
       EnterBarrier, LeaveBarrier, ReportTicks, machine
  <2> QED BY <2>1, OtherTicks
<1>6. CASE UNCHANGED vars
  BY <1>6, OtherTicks DEF vars, machine
<1> QED BY <1>1, <1>2, <1>3, <1>4, <1>5, <1>6 DEF Next, CpuStep, Handler

LEMMA InitTicks == Init => Ticks
<1> SUFFICES ASSUME Init PROVE Ticks
  OBVIOUS
<1>1. apic_id \in [Cpu -> Nat] /\ fired = [c \in Cpu |-> 0]
  BY KernelRunAssumption DEF Init
<1>2. timer_ticks = [i \in 0 .. MaxCpus - 1 |-> 0] /\ global_timer_calls = 0
  BY DEF Init
<1>3. Called = {}
  BY DEF Init, Called, In
<1>4. Cardinality(Called) = 0
  BY <1>3, FS_EmptySet
<1>5. SumOver(timer_ticks, 0 .. MaxCpus - 1) = 0
  <2>1. \A i \in 0 .. MaxCpus - 1 : timer_ticks[i] = 0
    BY <1>2
  <2> QED BY <2>1, CpusFinite, SumZero
<1>6. SumOver(fired, High) = 0
  <2>1. \A c \in High : fired[c] = 0
    BY <1>1 DEF High
  <2> QED BY <2>1, CpusFinite, SumZero
<1> QED BY <1>1, <1>2, <1>4, <1>5, <1>6 DEF Ticks

(* Every tick is counted once, whoever is in timer_interrupt_handler at the  *)
(* same time: none is lost between global_timer_calls and timer_ticks, and   *)
(* the ticks of CPUs whose APIC id is behind the table are just those that   *)
(* the table leaves out.                                                     *)
THEOREM RunTickAccounting ==
  ASSUME Kernels \subseteq TheKernels PROVE Spec => []TickAccounting
<1> DEFINE RInv == IInv /\ Ticks
<1>1. Init => RInv
  BY InitInv, InitTicks
<1>2. RInv /\ [Next]_vars => RInv'
  BY NextInv, TicksStep
<1>3. RInv => TickAccounting
  <2> SUFFICES ASSUME RInv PROVE TickAccounting
    OBVIOUS
  <2>1. DOMAIN timer_ticks = 0 .. MaxCpus - 1
    BY DEF Ticks
  <2>2. Called = {c \in In("called") : apic_id[c] < MaxCpus}
    BY DEF Called, Low, In
  <2>3. global_timer_calls = SumOver(timer_ticks, DOMAIN timer_ticks)
                             + Cardinality({c \in In("called") : apic_id[c] < MaxCpus})
                             + SumOver(fired, {c \in Cpu : apic_id[c] >= MaxCpus})
    BY <2>1, <2>2 DEF Ticks, High
  <2> QED BY <2>3, Zenon DEF SumOver, TickAccounting
<1> QED BY <1>1, <1>2, <1>3, PTL DEF Spec

--------------------------------------------------------------------------------
(* The barriers.  The four of a program follow one another behind position b; *)
(* start and claim come before them, a division by zero behind them.         *)
Block(p, b) ==
  /\ Len(p) \in Nat /\ b + 4 <= Len(p)
  /\ \A j \in Position(p) : p[j] = "barrier" <=> j \in b + 1 .. b + 4
  /\ \A j \in Position(p) : p[j] = "divide" => j > b + 4

Matched(k) ==
  \/ Lacks(k.bsp, "barrier") /\ Lacks(k.ap, "barrier")
  \/ (\E b \in Nat : Block(k.bsp, b)) /\ (\E b \in Nat : Block(k.ap, b))

MeetingKernel(k) ==
  /\ Before(k.bsp, "start", "barrier") /\ Before(k.ap, "claim", "barrier")
  /\ Lacks(k.bsp, "claim")
  /\ \A i, j \in Position(k.ap) : k.ap[i] = "claim" /\ k.ap[j] = "claim" => i = j
  /\ k = HybridKernel \/ Matched(k)

(* A program with one "claim" at n, before the barriers. *)
ApMeets(p, n, b) ==
  /\ Block(p, b) /\ n \in 1 .. b /\ b \in Nat /\ p[n] = "claim"
  /\ \A j \in Position(p) : p[j] = "claim" => j = n

(* A program with a "start" at n, before the barriers, and no "claim". *)
BspMeets(p, n, b) ==
  /\ Block(p, b) /\ n \in 1 .. b /\ b \in Nat /\ p[n] = "start"
  /\ Lacks(p, "claim")

LEMMA BothMeet ==
  ASSUME NEW k, NEW n, NEW m, NEW b, NEW d, BspMeets(k.bsp, n, b), ApMeets(k.ap, m, d)
  PROVE  MeetingKernel(k)
<1> USE DEF BspMeets, ApMeets, Block
<1>1. Before(k.bsp, "start", "barrier")
  BY DEF Before, Position
<1>2. Before(k.ap, "claim", "barrier")
  BY DEF Before, Position
<1>3. Matched(k)
  BY DEF Matched
<1> QED BY <1>1, <1>2, <1>3 DEF MeetingKernel

LEMMA NobodyMeets ==
  ASSUME NEW k, Lacks(k.bsp, "barrier"), Lacks(k.ap, "barrier"), Lacks(k.bsp, "claim"),
         \A i, j \in Position(k.ap) : k.ap[i] = "claim" /\ k.ap[j] = "claim" => i = j
  PROVE  MeetingKernel(k)
  BY DEF MeetingKernel, Matched, Before, Lacks

LEMMA EmptyMeets == Lacks(<< >>, "barrier") /\ Lacks(<< >>, "claim") /\ Position(<< >>) = {}
  BY DEF Lacks, Position

LEMMA EarlyMeet == MeetingKernel(Minimal) /\ MeetingKernel(Step1)
  BY EmptyMeets, NobodyMeets DEF Minimal, Step1, Kernel

LEMMA Step2Meets == MeetingKernel(Step2)
<1>1. Lacks(Step2Main, "barrier") /\ Lacks(Step2Main, "claim")
  BY DEF Step2Main, Lacks, Position
<1> QED BY <1>1, EmptyMeets, NobodyMeets DEF Step2, Kernel

LEMMA Step3Meets == MeetingKernel(Step3)
<1>1. Lacks(Step3Main, "barrier") /\ Lacks(Step3Main, "claim")
  BY DEF Step3Main, Lacks, Position
<1> QED BY <1>1, EmptyMeets, NobodyMeets DEF Step3, Kernel

LEMMA Step4Meets == MeetingKernel(Step4)
<1>1. Lacks(Step4Main, "barrier") /\ Lacks(Step4Main, "claim") /\ Lacks(Step4Ap, "barrier")
  BY DEF Step4Main, Step4Boot, Step4Ap, Lacks, Position
<1>2. \A i, j \in Position(Step4Ap) : i = j
  BY DEF Step4Ap, Position
<1> QED BY <1>1, <1>2, NobodyMeets DEF Step4, Kernel

LEMMA Step5Meets == MeetingKernel(Step5)
<1>1. ASSUME NEW p, p = Step5Ap PROVE ApMeets(p, 1, 1)
  <2>1. Len(p) = 5 /\ p[1] = "claim" /\ \A j \in 1 .. 5 : p[j] = "claim" => j = 1
    BY <1>1 DEF Step5Ap, Tests
  <2>2. \A j \in 1 .. 5 : p[j] = "barrier" <=> j \in 2 .. 5
    BY <1>1 DEF Step5Ap, Tests
  <2>3. \A j \in 1 .. 5 : p[j] # "divide"
    BY <1>1 DEF Step5Ap, Tests
  <2> QED BY ONLY <2>1, <2>2, <2>3 DEF ApMeets, Block, Position
<1>2. ASSUME NEW p, p = Step5Main PROVE BspMeets(p, 3, 3)
  <2>1. Len(p) = 7 /\ p[3] = "start" /\ \A j \in 1 .. 7 : p[j] # "claim"
    BY <1>2 DEF Step5Main, Step5Boot, Tests
  <2>2. \A j \in 1 .. 7 : p[j] = "barrier" <=> j \in 4 .. 7
    BY <1>2 DEF Step5Main, Step5Boot, Tests
  <2>3. \A j \in 1 .. 7 : p[j] # "divide"
    BY <1>2 DEF Step5Main, Step5Boot, Tests
  <2> QED BY ONLY <2>1, <2>2, <2>3 DEF BspMeets, Block, Position, Lacks
<1> QED BY <1>1, <1>2, BothMeet DEF Step5, Kernel

LEMMA Step6Meets == MeetingKernel(Step6)
<1>1. ASSUME NEW p, p = Step6Ap PROVE ApMeets(p, 2, 2)
  <2>1. Len(p) = 6 /\ p[2] = "claim" /\ \A j \in 1 .. 6 : p[j] = "claim" => j = 2
    BY <1>1 DEF Step6Ap, Tests
  <2>2. \A j \in 1 .. 6 : p[j] = "barrier" <=> j \in 3 .. 6
    BY <1>1 DEF Step6Ap, Tests
  <2>3. \A j \in 1 .. 6 : p[j] # "divide"
    BY <1>1 DEF Step6Ap, Tests
  <2> QED BY ONLY <2>1, <2>2, <2>3 DEF ApMeets, Block, Position
<1>2. ASSUME NEW p, p = Step6Main \o Step6End PROVE BspMeets(p, 5, 5)
  <2>1. Len(p) = 10 /\ p[5] = "start" /\ \A j \in 1 .. 10 : p[j] # "claim"
    BY <1>2 DEF Step6Main, Step6End, Step6Boot, Tests
  <2>2. \A j \in 1 .. 10 : p[j] = "barrier" <=> j \in 6 .. 9
    BY <1>2 DEF Step6Main, Step6End, Step6Boot, Tests
  <2>3. \A j \in 1 .. 10 : p[j] = "divide" => j = 10
    BY <1>2 DEF Step6Main, Step6End, Step6Boot, Tests
  <2> QED BY ONLY <2>1, <2>2, <2>3 DEF BspMeets, Block, Position, Lacks
<1> QED BY <1>1, <1>2, BothMeet DEF Step6, Kernel

LEMMA Step7Meets == MeetingKernel(Step7)
<1>1. ASSUME NEW p, p = Step7Ap PROVE ApMeets(p, 3, 3)
  <2>1. Len(p) = 7 /\ p[3] = "claim" /\ \A j \in 1 .. 7 : p[j] = "claim" => j = 3
    BY <1>1 DEF Step7Ap, Tests
  <2>2. \A j \in 1 .. 7 : p[j] = "barrier" <=> j \in 4 .. 7
    BY <1>1 DEF Step7Ap, Tests
  <2>3. \A j \in 1 .. 7 : p[j] # "divide"
    BY <1>1 DEF Step7Ap, Tests
  <2> QED BY ONLY <2>1, <2>2, <2>3 DEF ApMeets, Block, Position
<1>2. ASSUME NEW p, p = Step7Main \o Step7End PROVE BspMeets(p, 5, 5)
  <2>1. Len(p) = 10 /\ p[5] = "start" /\ \A j \in 1 .. 10 : p[j] # "claim"
    BY <1>2 DEF Step7Main, Step7End, Step7Boot, Tests
  <2>2. \A j \in 1 .. 10 : p[j] = "barrier" <=> j \in 6 .. 9
    BY <1>2 DEF Step7Main, Step7End, Step7Boot, Tests
  <2>3. \A j \in 1 .. 10 : p[j] = "divide" => j = 10
    BY <1>2 DEF Step7Main, Step7End, Step7Boot, Tests
  <2> QED BY ONLY <2>1, <2>2, <2>3 DEF BspMeets, Block, Position, Lacks
<1> QED BY <1>1, <1>2, BothMeet DEF Step7, Kernel

LEMMA Step8Meets == MeetingKernel(Step8)
<1>1. ASSUME NEW p, p = Step8Ap PROVE ApMeets(p, 1, 4)
  <2>1. Len(p) = 8 /\ p[1] = "claim" /\ \A j \in 1 .. 8 : p[j] = "claim" => j = 1
    BY <1>1 DEF Step8Ap, Tests
  <2>2. \A j \in 1 .. 8 : p[j] = "barrier" <=> j \in 5 .. 8
    BY <1>1 DEF Step8Ap, Tests
  <2>3. \A j \in 1 .. 8 : p[j] # "divide"
    BY <1>1 DEF Step8Ap, Tests
  <2> QED BY ONLY <2>1, <2>2, <2>3 DEF ApMeets, Block, Position
<1>2. ASSUME NEW p, p = Step8Main \o Step8Report PROVE BspMeets(p, 5, 11)
  <2> USE <1>2 DEF Step8Main, Step8Boot, Step8Timer, Step8Report, Tests
  <2>1. Len(p) = 16 /\ p[5] = "start"
    OBVIOUS
  <2>2. \A j \in 1 .. 16 : p[j] # "claim"
    OBVIOUS
  <2>3. \A j \in 1 .. 16 : p[j] = "barrier" <=> j \in 12 .. 15
    OBVIOUS
  <2>4. \A j \in 1 .. 16 : p[j] # "divide"
    OBVIOUS
  <2> QED BY ONLY <2>1, <2>2, <2>3, <2>4 DEF BspMeets, Block, Position, Lacks
<1> QED BY <1>1, <1>2, BothMeet DEF Step8, Kernel

LEMMA CMeets == MeetingKernel(CKernel)
<1>1. ASSUME NEW p, p = CAp PROVE ApMeets(p, 1, 8)
  <2> USE <1>1 DEF CAp, CTimer, Tests
  <2>1. Len(p) = 12 /\ p[1] = "claim"
    OBVIOUS
  <2>2. \A j \in 1 .. 12 : p[j] = "claim" => j = 1
    OBVIOUS
  <2>3. \A j \in 1 .. 12 : p[j] = "barrier" <=> j \in 9 .. 12
    OBVIOUS
  <2>4. \A j \in 1 .. 12 : p[j] # "divide"
    OBVIOUS
  <2> QED BY ONLY <2>1, <2>2, <2>3, <2>4 DEF ApMeets, Block, Position
<1>2. ASSUME NEW p, p = CMain \o <<"ticks">> PROVE BspMeets(p, 5, 11)
  <2> USE <1>2 DEF CMain, CTimer, Tests
  <2>1. Len(p) = 16 /\ p[5] = "start"
    OBVIOUS
  <2>2. \A j \in 1 .. 16 : p[j] # "claim"
    OBVIOUS
  <2>3. \A j \in 1 .. 16 : p[j] = "barrier" <=> j \in 12 .. 15
    OBVIOUS
  <2>4. \A j \in 1 .. 16 : p[j] # "divide"
    OBVIOUS
  <2> QED BY ONLY <2>1, <2>2, <2>3, <2>4 DEF BspMeets, Block, Position, Lacks
<1> QED BY <1>1, <1>2, BothMeet DEF CKernel, Kernel

(* The BSP of the hybrid kernel joins no barrier, its APs do. *)
LEMMA HybridMeets == MeetingKernel(HybridKernel)
<1>1. ASSUME NEW p, p = HybridAp PROVE ApMeets(p, 1, 8)
  <2> USE <1>1 DEF HybridAp, HybridTimer, Tests
  <2>1. Len(p) = 12 /\ p[1] = "claim"
    OBVIOUS
  <2>2. \A j \in 1 .. 12 : p[j] = "claim" => j = 1
    OBVIOUS
  <2>3. \A j \in 1 .. 12 : p[j] = "barrier" <=> j \in 9 .. 12
    OBVIOUS
  <2>4. \A j \in 1 .. 12 : p[j] # "divide"
    OBVIOUS
  <2> QED BY ONLY <2>1, <2>2, <2>3, <2>4 DEF ApMeets, Block, Position
<1>2. ASSUME NEW p, p = HybridMain PROVE Lacks(p, "barrier") /\ Lacks(p, "claim")
  <2> USE <1>2 DEF HybridMain, HybridTimer
  <2>1. Len(p) = 11
    OBVIOUS
  <2>2. \A j \in 1 .. 11 : p[j] # "barrier"
    OBVIOUS
  <2>3. \A j \in 1 .. 11 : p[j] # "claim"
    OBVIOUS
  <2> QED BY ONLY <2>1, <2>2, <2>3 DEF Lacks, Position
<1>3. Before(HybridMain, "start", "barrier")
  BY <1>2 DEF Before, Lacks
<1>4. /\ Before(HybridAp, "claim", "barrier")
      /\ \A i, j \in Position(HybridAp) :
           HybridAp[i] = "claim" /\ HybridAp[j] = "claim" => i = j
  BY <1>1 DEF ApMeets, Block, Before, Position
<1>5. HybridKernel.bsp = HybridMain /\ HybridKernel.ap = HybridAp
  BY DEF HybridKernel, Kernel
<1> QED BY <1>2, <1>3, <1>4, <1>5 DEF MeetingKernel

LEMMA KernelsMeet == \A k \in TheKernels : MeetingKernel(k)
  BY EarlyMeet, Step2Meets, Step3Meets, Step4Meets, Step5Meets, Step6Meets, Step7Meets,
     Step8Meets, CMeets, HybridMeets DEF TheKernels

(* The calls that have returned to a CPU at position q of a program whose    *)
(* barriers follow position b.                                               *)
Returned(q, b, n) ==
  /\ q <= b + 1 => n = 0
  /\ q \in b + 1 .. b + 5 => n = q - b - 1
  /\ q > b + 5 => n = 4

(* Who has arrived without returning is at a barrier, and how often a CPU    *)
(* has been through one is how far it is in its program.                     *)
MeetInv ==
  /\ MeetingKernel(kernel)
  /\ arrived \in [Cpu -> 0 .. 4] /\ left \in [Cpu -> 0 .. 4]
  /\ \A c \in Cpu :
       /\ arrived[c] = left[c] \/ (arrived[c] = left[c] + 1 /\ pc[c] \in Position(Program(c))
                                   /\ Program(c)[pc[c]] = "barrier")
       /\ left[c] > 0 => Passed(c, "barrier")
       /\ \A b \in Nat : Block(Program(c), b) => Returned(pc[c], b, left[c])
       /\ \A d \in Cpu : left[c] <= arrived[d]

LEMMA AtPosition ==
  ASSUME Types, NEW c \in Cpu, NEW phase, At(c, phase)
  PROVE  pc[c] \in Position(Program(c)) /\ Program(c)[pc[c]] = phase
  BY DEF At, Position, Types, OrderedKernel, Ordered, Program

(* A step through any phase but a barrier. *)
LEMMA PhaseMeets ==
  ASSUME IInv, MeetInv, NEW c \in Cpu, NEW phase, At(c, phase), Step(c), phase # "barrier",
         kernel' = kernel, UNCHANGED barrier
  PROVE  MeetInv'
<1>1. /\ pc' \in [Cpu -> Nat \ {0}]
      /\ pc'[c] = pc[c] + 1 /\ \A d \in Cpu \ {c} : pc'[d] = pc[d]
      /\ \A x : Passed(c, x)' <=> Passed(c, x) \/ x = phase
      /\ \A d \in Cpu \ {c} : \A x : Passed(d, x)' <=> Passed(d, x)
  BY StepPasses DEF IInv
<1>2. pc[c] \in Position(Program(c)) /\ Program(c)[pc[c]] = phase
  BY AtPosition DEF IInv
<1>3. \A d \in Cpu : Program(d)' = Program(d)
  BY DEF Program
<1>4. arrived' = arrived /\ left' = left
  BY DEF barrier
<1>5. ASSUME NEW b \in Nat, Block(Program(c), b) PROVE Returned(pc'[c], b, left[c])
  <2>1. Returned(pc[c], b, left[c]) /\ pc[c] \in Nat
    BY <1>5 DEF MeetInv, IInv, Types
  <2>2. pc[c] \notin b + 1 .. b + 4
    BY <1>2, <1>5 DEF Block
  <2> QED BY <1>1, <2>1, <2>2 DEF Returned
<1>6. arrived[c] = left[c]
  BY <1>2 DEF MeetInv
<1>7. ASSUME NEW d \in Cpu
      PROVE  /\ arrived[d] = left[d] \/ (arrived[d] = left[d] + 1 /\ pc'[d] \in Position(Program(d))
                                         /\ Program(d)[pc'[d]] = "barrier")
             /\ left[d] > 0 => Passed(d, "barrier")'
             /\ \A b \in Nat : Block(Program(d), b) => Returned(pc'[d], b, left[d])
  <2>1. CASE d = c
    BY <1>1, <1>5, <1>6, <2>1 DEF MeetInv
  <2>2. CASE d # c
    BY <1>1, <2>2 DEF MeetInv
  <2> QED BY <2>1, <2>2
<1> QED BY <1>3, <1>4, <1>7 DEF MeetInv

(* A step that leaves programs and barrier where they are. *)
LEMMA StayMeets ==
  ASSUME MeetInv, pc' = pc, kernel' = kernel, UNCHANGED barrier
  PROVE  MeetInv'
<1>1. \A d, x : Passed(d, x)' <=> Passed(d, x)
  BY StayPasses
<1>2. \A d \in Cpu : Program(d)' = Program(d)
  BY DEF Program
<1> QED BY <1>1, <1>2 DEF MeetInv, barrier

LEMMA EnterMeets ==
  ASSUME IInv, MeetInv, NEW c \in Cpu, EnterBarrier(c)
  PROVE  MeetInv' /\ Rdv!Arrive(c)
<1>1. /\ At(c, "barrier") /\ pc' = pc /\ kernel' = kernel /\ left' = left
      /\ arrived[c] = left[c] /\ arrived[c] < 4
      /\ arrived' = [arrived EXCEPT ![c] = @ + 1]
  BY DEF EnterBarrier, Rdv!Arrive, machine
<1>2. pc[c] \in Position(Program(c)) /\ Program(c)[pc[c]] = "barrier"
  BY <1>1, AtPosition DEF IInv
<1>3. \A d, x : Passed(d, x)' <=> Passed(d, x)
  BY <1>1, StayPasses
<1>4. \A d \in Cpu : Program(d)' = Program(d)
  BY <1>1 DEF Program
<1>5. /\ arrived' \in [Cpu -> 0 .. 4] /\ arrived'[c] = left[c] + 1
      /\ \A d \in Cpu \ {c} : arrived'[d] = arrived[d]
      /\ \A d \in Cpu : arrived[d] <= arrived'[d] /\ arrived[d] \in 0 .. 4 /\ left[d] \in 0 .. 4
  BY <1>1 DEF MeetInv
<1>6. \A d, e \in Cpu : left[d] <= arrived'[e]
  <2> SUFFICES ASSUME NEW d \in Cpu, NEW e \in Cpu PROVE left[d] <= arrived'[e]
    OBVIOUS
  <2>1. left[d] <= arrived[e]
    BY DEF MeetInv
  <2>2. arrived'[e] \in 0 .. 4
    BY <1>5
  <2> QED BY <1>5, <2>1, <2>2
<1>7. ASSUME NEW d \in Cpu
      PROVE  /\ arrived'[d] = left[d] \/ (arrived'[d] = left[d] + 1 /\ pc[d] \in Position(Program(d))
                                          /\ Program(d)[pc[d]] = "barrier")
             /\ left[d] > 0 => Passed(d, "barrier")
             /\ \A b \in Nat : Block(Program(d), b) => Returned(pc[d], b, left[d])
  BY <1>2, <1>5 DEF MeetInv
<1>8. MeetingKernel(kernel') /\ left' \in [Cpu -> 0 .. 4]
  BY <1>1 DEF MeetInv
<1>9. MeetInv'
  BY <1>1, <1>3, <1>4, <1>5, <1>6, <1>7, <1>8 DEF MeetInv
<1> QED BY <1>9 DEF EnterBarrier

LEMMA LeaveMeets ==
  ASSUME IInv, MeetInv, NEW c \in Cpu, LeaveBarrier(c)
  PROVE  MeetInv' /\ Rdv!Leave(c)
<1>1. /\ At(c, "barrier") /\ Step(c) /\ kernel' = kernel /\ arrived' = arrived
      /\ left[c] < arrived[c] /\ \A d \in Cpu : arrived[c] <= arrived[d]
      /\ left' = [left EXCEPT ![c] = @ + 1]
  BY DEF LeaveBarrier, Rdv!Leave, machine
<1>2. /\ pc' \in [Cpu -> Nat \ {0}]
      /\ pc'[c] = pc[c] + 1 /\ \A d \in Cpu \ {c} : pc'[d] = pc[d]
      /\ Passed(c, "barrier")'
      /\ \A d \in Cpu \ {c} : \A x : Passed(d, x)' <=> Passed(d, x)
  BY <1>1, StepPasses DEF IInv
<1>3. pc[c] \in Position(Program(c)) /\ Program(c)[pc[c]] = "barrier" /\ pc[c] \in Nat
  BY <1>1, AtPosition DEF IInv, Types
<1>4. \A d \in Cpu : Program(d)' = Program(d)
  BY <1>1 DEF Program
<1>5. /\ arrived[c] \in 0 .. 4 /\ left[c] \in 0 .. 4 /\ arrived[c] = left[c] + 1
      /\ left'[c] = left[c] + 1 /\ left' \in [Cpu -> 0 .. 4]
      /\ \A d \in Cpu \ {c} : left'[d] = left[d]
  BY <1>1 DEF MeetInv
<1>6. ASSUME NEW b \in Nat, Block(Program(c), b) PROVE Returned(pc'[c], b, left'[c])
  <2>1. Returned(pc[c], b, left[c])
    BY <1>6 DEF MeetInv
  <2>2. pc[c] \in b + 1 .. b + 4
    BY <1>3, <1>6 DEF Block
  <2> QED BY <1>2, <1>3, <1>5, <2>1, <2>2 DEF Returned
<1>7. ASSUME NEW d \in Cpu
      PROVE  /\ arrived[d] = left'[d] \/ (arrived[d] = left'[d] + 1 /\ pc'[d] \in Position(Program(d))
                                          /\ Program(d)[pc'[d]] = "barrier")
             /\ left'[d] > 0 => Passed(d, "barrier")'
             /\ \A b \in Nat : Block(Program(d), b) => Returned(pc'[d], b, left'[d])
             /\ \A e \in Cpu : left'[d] <= arrived[e]
  <2>1. CASE d = c
    BY <1>1, <1>2, <1>5, <1>6, <2>1
  <2>2. CASE d # c
    BY <1>2, <1>5, <2>2 DEF MeetInv
  <2> QED BY <2>1, <2>2
<1>8. MeetingKernel(kernel') /\ arrived' \in [Cpu -> 0 .. 4]
  BY <1>1 DEF MeetInv
<1>9. MeetInv'
  BY <1>1, <1>4, <1>5, <1>7, <1>8 DEF MeetInv
<1> QED BY <1>9 DEF LeaveBarrier

LEMMA MeetInit == ASSUME Kernels \subseteq TheKernels PROVE Init => MeetInv
<1> SUFFICES ASSUME Init PROVE MeetInv
  OBVIOUS
<1>1. MeetingKernel(kernel)
  BY KernelsMeet DEF Init
<1>2. arrived = [c \in Cpu |-> 0] /\ left = [c \in Cpu |-> 0] /\ pc = [c \in Cpu |-> 1]
  BY DEF Init, Rdv!Init
<1> QED BY <1>1, <1>2 DEF MeetInv, Returned

(* Each step goes through one phase, or stays: what it then does to the      *)
(* barrier and to cpus_online.                                               *)
LEMMA StepKinds ==
  ASSUME IInv, NEW c \in Cpu, CpuStep(c) \/ TimerFires(c) \/ Exception(c)
  PROVE  \/ EnterBarrier(c) \/ LeaveBarrier(c) \/ StartAps(c) \/ Claim(c)
         \/ /\ kernel' = kernel /\ UNCHANGED <<barrier, cpus_online>>
            /\ \/ pc' = pc
               \/ \E phase : At(c, phase) /\ Step(c) /\ phase \notin {"barrier", "start", "claim"}
<1> USE DEF machine
<1>1. CASE FillGates(c)
  BY <1>1 DEF FillGates
<1>2. CASE LoadIdt(c)
  BY <1>2 DEF LoadIdt
<1>3. CASE EnableApic(c)
  BY <1>3 DEF EnableApic
<1>4. CASE SetupTrampoline(c)
  BY <1>4 DEF SetupTrampoline
<1>5. CASE Sti(c)
  BY <1>5 DEF Sti
<1>6. CASE TimerInit(c)
  BY <1>6 DEF TimerInit, SetDivider, ReadLvtBefore, SetLvt, SetInitialCount, ShowTimer, WriteTimer
<1>7. CASE Handler(c) \/ TimerFires(c) \/ Exception(c) \/ Divide(c)
  BY <1>7 DEF Handler, CountTick, EndOfInterrupt, TimerFires, Exception, Divide, Raise
<1>8. CASE ExceptionHandler(c)
  BY <1>8, HandlerReturns DEF ExceptionHandler
<1>9. CASE ReportTicks(c)
  <2>1. At(c, "ticks") /\ (Step(c) \/ pc' = pc)
    BY <1>9 DEF ReportTicks
  <2> QED BY <1>9, <2>1 DEF ReportTicks
<1> QED BY <1>1, <1>2, <1>3, <1>4, <1>5, <1>6, <1>7, <1>8, <1>9 DEF CpuStep

LEMMA MeetStep ==
  ASSUME IInv, MeetInv, [Next]_vars
  PROVE  MeetInv' /\ [Rdv!Next]_(Rdv!vars)
<1>1. CASE UNCHANGED vars
  BY <1>1, StayMeets DEF vars, machine, barrier, Rdv!vars
<1>2. ASSUME NEW c \in Cpu, CpuStep(c) \/ TimerFires(c) \/ Exception(c)
      PROVE  MeetInv' /\ [Rdv!Next]_(Rdv!vars)
  <2>1. CASE EnterBarrier(c)
    BY <2>1, EnterMeets DEF Rdv!Next
  <2>2. CASE LeaveBarrier(c)
    BY <2>2, LeaveMeets DEF Rdv!Next
  <2>3. CASE StartAps(c)
    BY <2>3, PhaseMeets DEF StartAps, machine, barrier, Rdv!vars
  <2>4. CASE Claim(c)
    BY <2>4, PhaseMeets DEF Claim, machine, barrier, Rdv!vars
  <2>5. CASE /\ kernel' = kernel /\ UNCHANGED <<barrier, cpus_online>>
             /\ \/ pc' = pc
                \/ \E phase : At(c, phase) /\ Step(c) /\ phase \notin {"barrier", "start", "claim"}
    BY <2>5, StayMeets, PhaseMeets DEF barrier, Rdv!vars
  <2> QED BY <1>2, <2>1, <2>2, <2>3, <2>4, <2>5, StepKinds
<1> QED BY <1>1, <1>2 DEF Next

(* The phases called barrier_wait are a rendezvous of all CPUs, whichever    *)
(* kernel runs and whatever timers and exceptions do in between.             *)
THEOREM RunMeets == ASSUME Kernels \subseteq TheKernels PROVE Spec => Rdv!Spec
<1>1. Init => IInv /\ MeetInv /\ Rdv!Init
  BY InitInv, MeetInit DEF Init
<1>2. IInv /\ MeetInv /\ [Next]_vars => (IInv /\ MeetInv)' /\ [Rdv!Next]_(Rdv!vars)
  BY NextInv, MeetStep
<1> QED BY <1>1, <1>2, PTL DEF Spec, Rdv!Spec

LEMMA MeetInvariant ==
  ASSUME Kernels \subseteq TheKernels PROVE Spec => [](IInv /\ MeetInv)
<1>1. IInv /\ MeetInv /\ [Next]_vars => (IInv /\ MeetInv)'
  BY NextInv, MeetStep
<1> QED BY <1>1, InitInv, MeetInit, PTL DEF Spec

LEMMA AtPassed ==
  ASSUME Types, NEW c \in Cpu, NEW a, NEW b, Before(Program(c), a, b),
         pc[c] \in Position(Program(c)), Program(c)[pc[c]] = b
  PROVE  Passed(c, a)
<1>1. PICK i \in 1 .. pc[c] - 1 : Program(c)[i] = a
  BY DEF Before
<1>2. i \in Position(Program(c))
  BY DEF Position, Types, OrderedKernel, Ordered, Program
<1> QED BY <1>1, <1>2 DEF Passed

(* Of the CPUs that have arrived least often none is held, and if one of     *)
(* them had ended or never started nobody could have arrived once more.      *)
LEMMA InvImpliesNobodyStuck == IInv /\ MeetInv => NobodyStuck
<1> SUFFICES ASSUME IInv, MeetInv, kernel # HybridKernel, NEW c \in Cpu, Held(c),
                    Struck = {}
             PROVE  \E d \in Cpu : ~Held(d) /\ ~Ended(d) /\ mode[d] # "parked"
  BY DEF NobodyStuck
<1>1. PICK d \in Cpu : \A e \in Cpu : arrived[d] <= arrived[e]
  <2> DEFINE S == {arrived[e] : e \in Cpu}
  <2>1. S \subseteq 0 .. 4 /\ S # {}
    BY DEF MeetInv
  <2>2. \E m \in S : \A n \in S : m <= n
    <3>1. \A m \in S : m \in {0, 1, 2, 3, 4}
      BY <2>1
    <3> HIDE DEF S
    <3>2. S # {} /\ \A m \in S : m = 0 \/ m = 1 \/ m = 2 \/ m = 3 \/ m = 4
      BY <2>1, <3>1
    <3> QED BY ONLY <3>2
  <2> QED BY <2>2
<1>2. PICK e \in Cpu : arrived[e] < arrived[c]
  BY DEF Held
<1>3. /\ arrived[d] < arrived[c] /\ arrived[c] \in 0 .. 4
      /\ arrived[d] \in 0 .. 4 /\ left[d] \in 0 .. 4
  <2>1. arrived[c] \in 0 .. 4 /\ arrived[d] \in 0 .. 4 /\ arrived[e] \in 0 .. 4
    BY DEF MeetInv
  <2>2. arrived[d] <= arrived[e]
    BY <1>1
  <2> QED BY <1>2, <2>1, <2>2 DEF MeetInv
<1>4. ~Held(d)
  BY <1>1 DEF Held, MeetInv
<1>5. pc[c] \in Position(Program(c)) /\ Program(c)[pc[c]] = "barrier" /\ mode[c] = "program"
  BY AtPosition DEF Held, At, IInv
<1>6. \E b \in Nat : Block(Program(d), b)
  <2>1. Matched(kernel)
    BY DEF MeetInv, MeetingKernel
  <2>2. ~(Lacks(kernel.bsp, "barrier") /\ Lacks(kernel.ap, "barrier"))
    BY <1>5 DEF Lacks, Program
  <2> QED BY <2>1, <2>2 DEF Matched, Program
<1>7. ~Ended(d)
  <2> SUFFICES ASSUME Ended(d) PROVE FALSE
    OBVIOUS
  <2>1. PICK b \in Nat : Block(Program(d), b)
    BY <1>6
  <2>2. pc[d] > b + 4 /\ pc[d] \in Nat
    <3>1. pc[d] \in Nat \ {0} /\ Len(Program(d)) \in Nat /\ b + 4 <= Len(Program(d))
      BY <2>1 DEF IInv, Types, Block
    <3>2. CASE AtEnd(d)
      BY <3>1, <3>2 DEF AtEnd
    <3>3. CASE AtDivide(d)
      BY <2>1, <3>1, <3>3 DEF AtDivide, Block, Position
    <3> QED BY <3>2, <3>3 DEF Ended
  <2>3. Returned(pc[d], b, left[d])
    BY <2>1 DEF MeetInv
  <2>4. left[d] = 4
    BY <2>2, <2>3 DEF Returned
  <2>5. left[d] <= arrived[d]
    BY DEF MeetInv
  <2> QED BY <1>3, <2>4, <2>5
<1>8. mode[d] # "parked"
  <2> SUFFICES ASSUME mode[d] = "parked" PROVE FALSE
    OBVIOUS
  <2>1. d # BSP /\ ~Passed(BSP, "start")
    BY DEF IInv, Parked
  <2>2. c = BSP
    BY <1>5, <2>1 DEF IInv, Parked
  <2>3. Before(Program(c), "start", "barrier")
    BY <2>2 DEF MeetInv, MeetingKernel, Program
  <2> QED BY <1>5, <2>1, <2>2, <2>3, AtPassed DEF IInv
<1> QED BY <1>4, <1>7, <1>8

(* No kernel but the hybrid one can come to a stop in its barriers: while a  *)
(* CPU is held, and no exception has struck one, another has some way to go. *)
(* kernel_main and ap_entry call barrier_wait equally often, and the division *)
(* by zero of steps 6 and 7 comes when the BSP has done with it.             *)
THEOREM RunNobodyStuck == ASSUME Kernels \subseteq TheKernels PROVE Spec => []NobodyStuck
  BY MeetInvariant, InvImpliesNobodyStuck, PTL

--------------------------------------------------------------------------------
\* The APs that have counted themselves.
Claimed == {c \in Cpu \ {BSP} : Passed(c, "claim")}

\* cpus_online counts them and the BSP, once boot_all_aps has set it to 1.
OnlineInv ==
  /\ ~Passed(BSP, "start") => cpus_online = 0
  /\ Passed(BSP, "start") => cpus_online = 1 + Cardinality(Claimed)

LEMMA ApsFinite ==
  /\ IsFiniteSet(Cpu \ {BSP}) /\ Cardinality(Cpu \ {BSP}) = CpuCount - 1
  /\ IsFiniteSet(Claimed)
<1>1. IsFiniteSet(Cpu) /\ Cardinality(Cpu) = CpuCount
  BY KernelRunAssumption, FS_Interval DEF Cpu
<1>2. IsFiniteSet(Cpu \ {BSP}) /\ Cardinality(Cpu \ {BSP}) = CpuCount - 1
  BY <1>1, BspIn, FS_RemoveElement
<1> QED BY <1>2, FS_Subset DEF Claimed

(* A step that neither starts nor counts CPUs. *)
LEMMA OnlineStay ==
  ASSUME OnlineInv, cpus_online' = cpus_online,
         \A d \in Cpu : \A x \in {"start", "claim"} : Passed(d, x)' <=> Passed(d, x)
  PROVE  OnlineInv'
<1>1. Claimed' = Claimed
  BY DEF Claimed
<1> QED BY <1>1, BspIn DEF OnlineInv

LEMMA OnlineStart ==
  ASSUME IInv, MeetInv, OnlineInv, NEW c \in Cpu, StartAps(c)
  PROVE  OnlineInv'
<1>1. At(c, "start") /\ Step(c) /\ kernel' = kernel /\ cpus_online' = 1
  BY DEF StartAps, machine
<1>2. /\ \A x : Passed(c, x)' <=> Passed(c, x) \/ x = "start"
      /\ \A d \in Cpu \ {c} : \A x : Passed(d, x)' <=> Passed(d, x)
  BY <1>1, StepPasses DEF IInv
<1>3. pc[c] \in Position(Program(c)) /\ Program(c)[pc[c]] = "start"
  BY <1>1, AtPosition DEF IInv
<1>4. c = BSP
  BY <1>3 DEF IInv, Types, OrderedKernel, Lacks, Program
<1>5. ~Passed(BSP, "start")
  <2> SUFFICES ASSUME NEW i \in 1 .. pc[c] - 1, i \in Position(Program(c)),
                      Program(c)[i] = "start"
               PROVE  FALSE
    BY <1>4 DEF Passed
  <2>1. \A m, n \in Position(Program(c)) :
          Program(c)[m] = "start" /\ Program(c)[n] = "start" => m = n
    BY DEF IInv, Types, OrderedKernel, Ordered, Program
  <2>2. i = pc[c] /\ pc[c] \in Nat
    BY <1>3, <2>1 DEF IInv, Types
  <2> QED BY <2>2
<1>6. \A d \in Cpu \ {BSP} : pc[d] = 1
  BY <1>5 DEF IInv, Parked
<1>7. \A d \in Cpu \ {BSP} : ~Passed(d, "claim")
  BY <1>6 DEF Passed
<1>8. Claimed' = {}
  BY <1>2, <1>4, <1>7 DEF Claimed
<1> QED BY <1>1, <1>2, <1>4, <1>8, FS_EmptySet DEF OnlineInv

LEMMA OnlineClaim ==
  ASSUME IInv, MeetInv, OnlineInv, NEW c \in Cpu, Claim(c)
  PROVE  OnlineInv'
<1>1. At(c, "claim") /\ Step(c) /\ kernel' = kernel /\ cpus_online' = cpus_online + 1
  BY DEF Claim, machine
<1>2. /\ \A x : Passed(c, x)' <=> Passed(c, x) \/ x = "claim"
      /\ \A d \in Cpu \ {c} : \A x : Passed(d, x)' <=> Passed(d, x)
  BY <1>1, StepPasses DEF IInv
<1>3. pc[c] \in Position(Program(c)) /\ Program(c)[pc[c]] = "claim"
  BY <1>1, AtPosition DEF IInv
<1>4. c # BSP
  BY <1>3 DEF MeetInv, MeetingKernel, Lacks, Program
<1>5. ~Passed(c, "claim")
  <2> SUFFICES ASSUME NEW i \in 1 .. pc[c] - 1, i \in Position(Program(c)),
                      Program(c)[i] = "claim"
               PROVE  FALSE
    BY DEF Passed
  <2>1. \A m, n \in Position(Program(c)) :
          Program(c)[m] = "claim" /\ Program(c)[n] = "claim" => m = n
    BY <1>4 DEF MeetInv, MeetingKernel, Program
  <2>2. i = pc[c] /\ pc[c] \in Nat
    BY <1>3, <2>1 DEF IInv, Types
  <2> QED BY <2>2
<1>6. Passed(BSP, "start")
  BY <1>1, <1>4 DEF At, IInv, Parked
<1>7. c \notin Claimed /\ Claimed' = Claimed \cup {c}
  BY <1>2, <1>4, <1>5 DEF Claimed
<1>8. Cardinality(Claimed') = Cardinality(Claimed) + 1
  BY <1>7, ApsFinite, FS_AddElement
<1>9. Passed(BSP, "start")'
  BY <1>2, <1>4, <1>6, BspIn
<1>10. Cardinality(Claimed) \in Nat
  BY ApsFinite, FS_CardinalityType
<1> QED BY <1>1, <1>6, <1>8, <1>9, <1>10 DEF OnlineInv

LEMMA OnlineStep ==
  ASSUME IInv, MeetInv, OnlineInv, [Next]_vars
  PROVE  OnlineInv'
<1>1. CASE UNCHANGED vars
  BY <1>1, StayPasses, OnlineStay DEF vars, machine
<1>2. ASSUME NEW c \in Cpu, CpuStep(c) \/ TimerFires(c) \/ Exception(c)
      PROVE  OnlineInv'
  <2>1. ASSUME NEW phase, At(c, phase), Step(c), kernel' = kernel, cpus_online' = cpus_online,
               phase \notin {"start", "claim"}
        PROVE  OnlineInv'
    <3>1. /\ \A x : Passed(c, x)' <=> Passed(c, x) \/ x = phase
          /\ \A d \in Cpu \ {c} : \A x : Passed(d, x)' <=> Passed(d, x)
      BY <2>1, StepPasses DEF IInv
    <3> QED BY <2>1, <3>1, OnlineStay
  <2>2. ASSUME pc' = pc, kernel' = kernel, cpus_online' = cpus_online PROVE OnlineInv'
    BY <2>2, StayPasses, OnlineStay
  <2>3. CASE EnterBarrier(c)
    BY <2>2, <2>3 DEF EnterBarrier, machine
  <2>4. CASE LeaveBarrier(c)
    BY <2>1, <2>4 DEF LeaveBarrier, machine
  <2>5. CASE StartAps(c) \/ Claim(c)
    BY <2>5, OnlineStart, OnlineClaim
  <2>6. CASE /\ kernel' = kernel /\ UNCHANGED <<barrier, cpus_online>>
             /\ \/ pc' = pc
                \/ \E phase : At(c, phase) /\ Step(c) /\ phase \notin {"barrier", "start", "claim"}
    BY <2>1, <2>2, <2>6
  <2> QED BY <1>2, <2>3, <2>4, <2>5, <2>6, StepKinds
<1> QED BY <1>1, <1>2 DEF Next

LEMMA OnlineInit == Init => OnlineInv
<1> SUFFICES ASSUME Init PROVE OnlineInv
  OBVIOUS
<1>1. ~Passed(BSP, "start")
  BY BspIn DEF Init, Passed
<1> QED BY <1>1 DEF OnlineInv, Init

(* When a CPU has been through its first barrier all CPUs are online: each   *)
(* arrived there after it had counted itself, once, and after cpus_online    *)
(* had been set to 1; no count is lost to a start that comes late.           *)
THEOREM RunMetMeansOnline == ASSUME Kernels \subseteq TheKernels PROVE Spec => []MetMeansOnline
<1>1. Init => IInv /\ MeetInv /\ OnlineInv
  BY InitInv, MeetInit, OnlineInit
<1>2. IInv /\ MeetInv /\ OnlineInv /\ [Next]_vars => (IInv /\ MeetInv /\ OnlineInv)'
  BY NextInv, MeetStep, OnlineStep
<1>3. IInv /\ MeetInv /\ OnlineInv => MetMeansOnline
  <2> SUFFICES ASSUME IInv, MeetInv, OnlineInv, NEW c \in Cpu, left[c] > 0
               PROVE  cpus_online = CpuCount
    BY DEF MetMeansOnline
  <2>1. ASSUME NEW d \in Cpu, NEW a, Before(Program(d), a, "barrier") PROVE Passed(d, a)
    <3>1. /\ left[c] \in 0 .. 4 /\ left[d] \in 0 .. 4 /\ arrived[d] \in 0 .. 4
          /\ left[c] <= arrived[d]
      BY DEF MeetInv
    <3>2. CASE left[d] > 0
      BY <2>1, <3>2, PassedBefore DEF MeetInv, IInv
    <3>3. CASE arrived[d] # left[d]
      BY <2>1, <3>3, AtPassed DEF MeetInv, IInv
    <3> QED BY <3>1, <3>2, <3>3
  <2>2. Passed(BSP, "start")
    BY <2>1, BspIn DEF MeetInv, MeetingKernel, Program
  <2>3. \A d \in Cpu \ {BSP} : Passed(d, "claim")
    BY <2>1 DEF MeetInv, MeetingKernel, Program
  <2>4. Claimed = Cpu \ {BSP}
    BY <2>3 DEF Claimed
  <2> QED BY <2>2, <2>4, ApsFinite, KernelRunAssumption DEF OnlineInv
<1> QED BY <1>1, <1>2, <1>3, PTL DEF Spec

--------------------------------------------------------------------------------
(* A kernel that starts the APs has them count themselves; none divides. *)
Counting(k) == Lacks(k.bsp, "start") \/ (~Lacks(k.ap, "claim") /\ Lacks(k.ap, "divide"))

LEMMA HasClaim ==
  ASSUME NEW p, NEW j, j \in Position(p) /\ p[j] = "claim"
  PROVE  ~Lacks(p, "claim")
  BY DEF Lacks

LEMMA EarlyCount == Counting(Minimal) /\ Counting(Step1) /\ Counting(Step2) /\ Counting(Step3)
<1>1. Lacks(<< >>, "start") /\ Lacks(Step2Main, "start") /\ Lacks(Step3Main, "start")
  BY DEF Lacks, Position, Step2Main, Step3Main
<1> QED BY <1>1 DEF Counting, Minimal, Step1, Step2, Step3, Kernel

LEMMA LaterCount ==
  /\ Counting(Step4) /\ Counting(Step5) /\ Counting(Step6) /\ Counting(Step7)
  /\ Counting(Step8) /\ Counting(CKernel) /\ Counting(HybridKernel)
<1>1. 1 \in Position(Step4Ap) /\ Step4Ap[1] = "claim"
  BY DEF Position, Step4Ap
<1>2. 1 \in Position(Step5Ap) /\ Step5Ap[1] = "claim"
  BY DEF Position, Step5Ap, Tests
<1>3. 2 \in Position(Step6Ap) /\ Step6Ap[2] = "claim"
  BY DEF Position, Step6Ap, Tests
<1>4. 3 \in Position(Step7Ap) /\ Step7Ap[3] = "claim"
  BY DEF Position, Step7Ap, Tests
<1>5. 1 \in Position(Step8Ap) /\ Step8Ap[1] = "claim"
  BY DEF Position, Step8Ap, Tests
<1>6. 1 \in Position(CAp) /\ CAp[1] = "claim"
  BY DEF Position, CAp, CTimer, Tests
<1>7. 1 \in Position(HybridAp) /\ HybridAp[1] = "claim"
  BY DEF Position, HybridAp, HybridTimer, Tests
<1>8. /\ ~Lacks(Step4Ap, "claim") /\ ~Lacks(Step5Ap, "claim") /\ ~Lacks(Step6Ap, "claim")
      /\ ~Lacks(Step7Ap, "claim") /\ ~Lacks(Step8Ap, "claim") /\ ~Lacks(CAp, "claim")
      /\ ~Lacks(HybridAp, "claim")
  BY ONLY <1>1, <1>2, <1>3, <1>4, <1>5, <1>6, <1>7, HasClaim
<1>9. /\ Lacks(Step4Ap, "divide") /\ Lacks(Step5Ap, "divide") /\ Lacks(Step6Ap, "divide")
      /\ Lacks(Step7Ap, "divide")
  BY DEF Lacks, Position, Step4Ap, Step5Ap, Step6Ap, Step7Ap, Tests
<1>10. Lacks(Step8Ap, "divide")
  BY DEF Lacks, Position, Step8Ap, Tests
<1>11. Lacks(CAp, "divide")
  BY DEF Lacks, Position, CAp, CTimer, Tests
<1>12. Lacks(HybridAp, "divide")
  BY DEF Lacks, Position, HybridAp, HybridTimer, Tests
<1> QED BY ONLY <1>8, <1>9, <1>10, <1>11, <1>12
        DEF Counting, Step4, Step5, Step6, Step7, Step8, CKernel, HybridKernel, Kernel

LEMMA KernelsCount == \A k \in TheKernels : Counting(k)
  BY EarlyCount, LaterCount DEF TheKernels

LEMMA CountingInvariant ==
  ASSUME Kernels \subseteq TheKernels
  PROVE  Spec => [](IInv /\ MeetInv /\ OnlineInv /\ Counting(kernel))
<1>1. Init => IInv /\ MeetInv /\ OnlineInv /\ Counting(kernel)
  <2>1. Init => Counting(kernel)
    BY KernelsCount DEF Init
  <2> QED BY <2>1, InitInv, MeetInit, OnlineInit
<1>2. ASSUME IInv /\ MeetInv /\ OnlineInv /\ Counting(kernel), [Next]_vars
      PROVE  (IInv /\ MeetInv /\ OnlineInv /\ Counting(kernel))'
  <2>1. kernel' = kernel
    <3>1. CASE UNCHANGED vars
      BY <3>1 DEF vars, machine
    <3>2. ASSUME NEW c \in Cpu, CpuStep(c) \/ TimerFires(c) \/ Exception(c)
          PROVE  kernel' = kernel
      <4>1. CASE EnterBarrier(c) \/ LeaveBarrier(c) \/ StartAps(c) \/ Claim(c)
        BY <4>1 DEF EnterBarrier, LeaveBarrier, StartAps, Claim, machine
      <4> QED BY <1>2, <3>2, <4>1, StepKinds
    <3> QED BY <1>2, <3>1, <3>2 DEF Next
  <2>2. Counting(kernel)'
    BY <1>2, <2>1 DEF Counting, Lacks, Position
  <2> QED BY <1>2, <2>2, NextInv, MeetStep, OnlineStep
<1> QED BY <1>1, <1>2, PTL DEF Spec

(* When all CPUs have come to their last hlt, or the BSP of steps 6 and 7 to *)
(* its division by zero, each AP has counted itself once in ap_entry and the *)
(* BSP itself in boot_all_aps, in the kernels with barriers and in step 4,   *)
(* whose APs halt at once; before that no AP runs.                           *)
THEOREM RunEndMeansOnline == ASSUME Kernels \subseteq TheKernels PROVE Spec => []EndMeansOnline
<1>1. IInv /\ MeetInv /\ OnlineInv /\ Counting(kernel) => EndMeansOnline
  <2> SUFFICES ASSUME IInv, MeetInv, OnlineInv, Counting(kernel),
                      \A c \in Cpu : Ended(c) \/ mode[c] = "parked"
               PROVE  cpus_online \in {0, CpuCount}
    BY DEF EndMeansOnline
  <2>1. CASE ~Passed(BSP, "start")
    BY <2>1 DEF OnlineInv
  <2>2. CASE Passed(BSP, "start")
    <3>1. ~Lacks(kernel.ap, "claim") /\ Lacks(kernel.ap, "divide")
      BY <2>2 DEF Passed, Counting, Lacks, Program
    <3>2. ASSUME NEW c \in Cpu \ {BSP} PROVE Passed(c, "claim")
      <4>1. Program(c) = kernel.ap /\ Len(kernel.ap) \in Nat /\ pc[c] \in Nat \ {0}
        BY DEF Program, IInv, Types, OrderedKernel, Ordered
      <4>2. AtEnd(c)
        <5>1. Ended(c)
          BY <2>2 DEF IInv, Parked
        <5>2. ~AtDivide(c)
          BY <3>1, <4>1 DEF AtDivide, Lacks, Position
        <5> QED BY <5>1, <5>2 DEF Ended
      <4>3. PICK j \in Position(kernel.ap) : kernel.ap[j] = "claim"
        BY <3>1 DEF Lacks
      <4>4. j \in 1 .. pc[c] - 1
        BY <4>1, <4>2, <4>3 DEF AtEnd, Position
      <4> QED BY <4>1, <4>3, <4>4 DEF Passed
    <3>3. Claimed = Cpu \ {BSP}
      BY <3>2 DEF Claimed
    <3> QED BY <2>2, <3>3, ApsFinite, KernelRunAssumption DEF OnlineInv
  <2> QED BY <2>1, <2>2
<1> QED BY <1>1, CountingInvariant, PTL

================================================================================
