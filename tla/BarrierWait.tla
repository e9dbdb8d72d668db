------------------------------ MODULE BarrierWait ------------------------------
(***************************************************************************)
(* barrier_wait of c/kernel/minimal_step9.c: a central, sense-reversing    *)
(* barrier in shared memory.  Every CPU keeps the sense it read on entry   *)
(* in a local variable, the last one to increment barrier_count resets it  *)
(* and inverts barrier_sense, the others spin on barrier_sense.  There is  *)
(* one action for each access to shared memory, in program order: the      *)
(* accesses are volatile or __atomic, and on x86 the plain store of 0 is   *)
(* visible before the sequentially consistent store that follows it.       *)
(*                                                                         *)
(* The barrier counts up to cpu_count, the number of CPUs the MADT lists;  *)
(* Present is the set of those that did start.                             *)
(***************************************************************************)
EXTENDS Naturals, FiniteSets

CONSTANTS
  CpuCount,  \* cpu_count
  Present,   \* the CPUs that execute code
  Rounds     \* calls of barrier_wait each CPU makes

Cpu == 0 .. CpuCount - 1

ASSUME BarrierAssumption ==
  /\ CpuCount \in Nat \ {0}
  /\ Present \subseteq Cpu
  /\ Rounds \in Nat

VARIABLES
  barrier_count,
  barrier_sense,
  my_sense,  \* my_sense[c]: the local variable of c's current or last call
  at,        \* at[c]: where c is in barrier_wait
  arrived,   \* history: how many times c has incremented barrier_count
  left,      \* history: how many times c has returned
  flips      \* history: how many times barrier_sense has been inverted

shared == <<barrier_count, barrier_sense>>
vars == <<barrier_count, barrier_sense, my_sense, at, arrived, left, flips>>

Outside == "outside"  \* not in barrier_wait
Entered == "entered"  \* my_sense is read
Last == "last"        \* found arrived = cpu_count, both stores still to come
Closing == "closing"  \* one of the two stores done
Spin == "spin"        \* in the while loop

Place == {Outside, Entered, Last, Closing, Spin}

Init ==
  /\ barrier_count = 0
  /\ barrier_sense = 0
  /\ my_sense = [c \in Cpu |-> 0]
  /\ at = [c \in Cpu |-> Outside]
  /\ arrived = [c \in Cpu |-> 0]
  /\ left = [c \in Cpu |-> 0]
  /\ flips = 0

Return(c) ==
  /\ at' = [at EXCEPT ![c] = Outside]
  /\ left' = [left EXCEPT ![c] = @ + 1]

\* uint32_t my_sense = barrier_sense;
ReadSense(c) ==
  /\ at[c] = Outside
  /\ left[c] < Rounds
  /\ my_sense' = [my_sense EXCEPT ![c] = barrier_sense]
  /\ at' = [at EXCEPT ![c] = Entered]
  /\ UNCHANGED <<shared, arrived, left, flips>>

\* arrived = __atomic_add_fetch(&barrier_count, 1); if (arrived == cpu_count)
ArriveOf(c, total) ==
  /\ at[c] = Entered
  /\ barrier_count' = barrier_count + 1
  /\ at' = [at EXCEPT ![c] = IF barrier_count' = total THEN Last ELSE Spin]
  /\ arrived' = [arrived EXCEPT ![c] = @ + 1]
  /\ UNCHANGED <<barrier_sense, my_sense, left, flips>>

\* Faulty variant: one CPU fewer than cpu_count closes the barrier.
ArriveOneShort(c) == ArriveOf(c, CpuCount - 1)

Arrive(c) == ArriveOf(c, CpuCount)

StoreCount(c, from) ==
  /\ at[c] = from
  /\ barrier_count' = 0
  /\ UNCHANGED <<barrier_sense, my_sense, arrived, flips>>

StoreSense(c, from) ==
  /\ at[c] = from
  /\ barrier_sense' = 1 - my_sense[c]
  /\ flips' = flips + 1
  /\ UNCHANGED <<barrier_count, my_sense, arrived>>

MoveToClosing(c) ==
  /\ at' = [at EXCEPT ![c] = Closing]
  /\ UNCHANGED left

\* Faulty variant: the sense is inverted before the count is reset.
SenseThenCount(c) ==
  \/ StoreSense(c, Last) /\ MoveToClosing(c)
  \/ StoreCount(c, Closing) /\ Return(c)

\* Faulty variant: the count is never reset.
SenseOnly(c) ==
  \/ at[c] = Last /\ MoveToClosing(c) /\ UNCHANGED <<shared, my_sense, arrived, flips>>
  \/ StoreSense(c, Closing) /\ Return(c)

\* barrier_count = 0; __atomic_store_n(&barrier_sense, !my_sense);
CloseRound(c) ==
  \/ StoreCount(c, Last) /\ MoveToClosing(c)
  \/ StoreSense(c, Closing) /\ Return(c)

SpinExitWhen(c, released) ==
  /\ at[c] = Spin
  /\ released
  /\ Return(c)
  /\ UNCHANGED <<shared, my_sense, arrived, flips>>

\* Faulty variant: waits for the sense to become 1 instead of to change.
SpinExitOnOne(c) == SpinExitWhen(c, barrier_sense = 1)

\* Faulty variant: waits for the count to drop to 0 instead of for the sense.
SpinExitOnCount(c) == SpinExitWhen(c, barrier_count = 0)

\* while (barrier_sense == my_sense) pause; -- the iteration that ends the loop
SpinExit(c) == SpinExitWhen(c, barrier_sense # my_sense[c])

Step(c) == ReadSense(c) \/ Arrive(c) \/ CloseRound(c) \/ SpinExit(c)

\* Every call has returned: the callers go on to code outside the barrier.
Finished ==
  /\ \A c \in Present : at[c] = Outside /\ left[c] = Rounds
  /\ UNCHANGED vars

Next == (\E c \in Present : Step(c)) \/ Finished

Spec == Init /\ [][Next]_vars

\* Every CPU that runs keeps running: barrier_wait is executed with nothing
\* that could stop a CPU for ever, interrupts return to it.
FairSpec == Spec /\ \A c \in Present : WF_vars(Step(c))

--------------------------------------------------------------------------------
(* Every variable holds a value of its C type; barrier_count never passes    *)
(* cpu_count, so the comparison with == cannot be jumped over.               *)
TypeOK ==
  /\ barrier_count \in 0 .. CpuCount
  /\ barrier_sense \in {0, 1}
  /\ my_sense \in [Cpu -> {0, 1}]
  /\ at \in [Cpu -> Place]
  /\ arrived \in [Cpu -> Nat]
  /\ left \in [Cpu -> Nat]
  /\ flips \in Nat

(* The barrier property of barrier_wait: when a CPU returns from its k-th    *)
(* call every CPU, started or not, has arrived k times.                      *)
NoEarlyExit == \A c, d \in Cpu : left[c] <= arrived[d]

\* A CPU outside is up to date, and one that has entered holds this round's sense.
OutsideInv ==
  \A c \in Cpu : at[c] \in {Outside, Entered} =>
    /\ arrived[c] = flips
    /\ left[c] = flips
    /\ at[c] = Entered => my_sense[c] = barrier_sense /\ left[c] < Rounds

\* A spinning CPU waits in the open round with its sense, or the round is over
\* and the sense is the other one: it cannot miss the inversion.
SpinInv ==
  \A c \in Cpu : at[c] = Spin =>
    /\ arrived[c] = left[c] + 1
    /\ \/ arrived[c] = flips + 1 /\ my_sense[c] = barrier_sense
       \/ arrived[c] = flips /\ my_sense[c] # barrier_sense

\* Only one CPU closes a round, when everyone else spins in it.
CloseInv ==
  \A c \in Cpu : at[c] \in {Last, Closing} =>
    /\ arrived[c] = flips + 1
    /\ left[c] = flips
    /\ my_sense[c] = barrier_sense
    /\ \A d \in Cpu \ {c} : at[d] = Spin /\ arrived[d] = flips + 1

InRound == {c \in Cpu : arrived[c] = flips + 1}

\* barrier_count counts the arrivals of the open round.
CountInv ==
  IF \E c \in Cpu : at[c] = Closing
    THEN barrier_count = 0
    ELSE barrier_count = Cardinality(InRound)

(* The relation between the counter, the sense and the CPUs' places that     *)
(* makes re-use of the barrier safe: nobody lags a round behind without the  *)
(* sense telling it so, and the reset cannot wipe out an arrival.            *)
BarrierInv == OutsideInv /\ SpinInv /\ CloseInv /\ CountInv

Abstract == INSTANCE Rendezvous

(* barrier_wait implements the rendezvous: no step of it releases a CPU      *)
(* early, and when all have come nobody is left spinning.                    *)
ImplementsRendezvous == Abstract!FairSpec

(* When every CPU has started, every call of barrier_wait returns.           *)
EveryCallReturns == \A c \in Cpu : <>(left[c] = Rounds)

\* c spins in the open round; c has made all its calls.
Waits(c) == at[c] = Spin /\ barrier_sense = my_sense[c]
Ended(c) == at[c] = Outside /\ left[c] = Rounds

(* Not everyone waits for everyone: while a CPU spins in the open round      *)
(* there is one that has yet to arrive or is about to close the round.  It   *)
(* can go on, if it has started at all.                                      *)
NobodyStuck == (\E c \in Cpu : Waits(c)) => \E d \in Cpu : ~Waits(d) /\ ~Ended(d)

(* A round that is over stays over for a CPU that has not noticed: however   *)
(* far the others get, the sense it looks at differs until it returns.       *)
ReleaseStays ==
  [][\A c \in Cpu : at[c] = Spin /\ ~Waits(c) => (~Waits(c))' /\ at'[c] \in {Spin, Outside}]_vars

(* A CPU that never starts holds all others in their first call for ever.    *)
AbsentHoldsAll == Present # Cpu => \A c \in Cpu : left[c] = 0
================================================================================
