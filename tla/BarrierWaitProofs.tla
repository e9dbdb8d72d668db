--------------------------- MODULE BarrierWaitProofs ---------------------------
(***************************************************************************)
(* Proofs about BarrierWait for any number of CPUs, any set of CPUs that   *)
(* start and any number of calls: its types, the invariant that makes      *)
(* re-use of the barrier safe, the barrier property, and the safety part   *)
(* of the refinement of Rendezvous.                                        *)
(***************************************************************************)
EXTENDS BarrierWait, FiniteSetTheorems, TLAPS

USE DEF Place, Outside, Entered, Last, Closing, Spin

(* The set of CPUs is finite and has cpu_count members.                      *)
LEMMA CpuFinite == IsFiniteSet(Cpu) /\ Cardinality(Cpu) = CpuCount
<1>1. CpuCount \in Nat \ {0}
  BY BarrierAssumption
<1>2. 0 \in Int /\ CpuCount - 1 \in Int
  BY <1>1
<1>3. IsFiniteSet(0 .. CpuCount - 1)
      /\ Cardinality(0 .. CpuCount - 1) = CpuCount - 1 - 0 + 1
  BY <1>1, <1>2, FS_Interval
<1> QED BY <1>1, <1>3 DEF Cpu

(* The CPUs that have arrived in the open round are finitely many, at most   *)
(* cpu_count, and all of them when there are cpu_count.                      *)
LEMMA InRoundFinite ==
  /\ InRound \in SUBSET Cpu
  /\ IsFiniteSet(InRound)
  /\ Cardinality(InRound) \in 0 .. CpuCount
  /\ Cardinality(InRound) = CpuCount => InRound = Cpu
<1>1. InRound \in SUBSET Cpu
  BY DEF InRound
<1>2. /\ IsFiniteSet(InRound)
      /\ Cardinality(InRound) <= CpuCount
      /\ Cardinality(InRound) = CpuCount => InRound = Cpu
  BY <1>1, CpuFinite, FS_Subset
<1>3. Cardinality(InRound) \in Nat
  BY <1>2, FS_CardinalityType
<1> QED BY <1>1, <1>2, <1>3, BarrierAssumption

(* The static initial values of barrier_count and barrier_sense (lines 257   *)
(* and 258) satisfy the invariant.                                           *)
LEMMA InitInv == Init => TypeOK /\ BarrierInv
<1> SUFFICES ASSUME Init PROVE TypeOK /\ BarrierInv
  OBVIOUS
<1> USE BarrierAssumption DEF Init
<1>1. TypeOK
  BY DEF TypeOK
<1>2. OutsideInv /\ SpinInv /\ CloseInv
  BY DEF OutsideInv, SpinInv, CloseInv
<1>3. CountInv
  <2>1. InRound = {}
    BY DEF InRound
  <2>2. Cardinality(InRound) = 0
    BY <2>1, FS_EmptySet
  <2> QED BY <2>2 DEF CountInv
<1> QED BY <1>1, <1>2, <1>3 DEF BarrierInv

(* ReadSense touches only the caller's local state: the sense it copies is   *)
(* this round's.                                                             *)
LEMMA ReadSenseInv ==
  ASSUME TypeOK, BarrierInv, NEW c \in Present, ReadSense(c)
  PROVE  TypeOK' /\ BarrierInv'
<1> USE BarrierAssumption DEF ReadSense, shared, TypeOK
<1>0. c \in Cpu
  OBVIOUS
<1>1. TypeOK'
  BY <1>0
<1>2. OutsideInv'
  BY <1>0 DEF BarrierInv, OutsideInv
<1>3. SpinInv'
  BY <1>0 DEF BarrierInv, SpinInv
<1>4. CloseInv'
  BY <1>0 DEF BarrierInv, CloseInv
<1>5. CountInv'
  <2>1. InRound' = InRound
    BY DEF InRound
  <2>2. (\E d \in Cpu : at'[d] = Closing) <=> (\E d \in Cpu : at[d] = Closing)
    BY <1>0
  <2> QED BY <2>1, <2>2 DEF CountInv, BarrierInv
<1> QED BY <1>1, <1>2, <1>3, <1>4, <1>5 DEF BarrierInv

(* An arrival adds its CPU to the open round; the one that completes the     *)
(* count is the last, and finds everyone else spinning in the same round.    *)
LEMMA ArriveInv ==
  ASSUME TypeOK, BarrierInv, NEW c \in Present, Arrive(c)
  PROVE  TypeOK' /\ BarrierInv'
<1> USE BarrierAssumption DEF Arrive, ArriveOf, TypeOK
<1>0. c \in Cpu /\ at[c] = Entered
  OBVIOUS
<1>1. /\ arrived[c] = flips
      /\ left[c] = flips
      /\ my_sense[c] = barrier_sense
  BY <1>0 DEF BarrierInv, OutsideInv
<1>2. \A d \in Cpu : at[d] \notin {Last, Closing}
  BY <1>0 DEF BarrierInv, CloseInv
<1>3. barrier_count = Cardinality(InRound)
  BY <1>2 DEF BarrierInv, CountInv
<1>4. InRound' = InRound \cup {c} /\ c \notin InRound
  BY <1>0, <1>1 DEF InRound
<1>5. Cardinality(InRound') = barrier_count'
  BY <1>3, <1>4, InRoundFinite, FS_AddElement
<1>6. barrier_count' \in 0 .. CpuCount
  <2>1. InRound' \in SUBSET Cpu
    BY DEF InRound
  <2>2. Cardinality(InRound') <= CpuCount
    BY <2>1, CpuFinite, FS_Subset
  <2> QED BY <1>5, <2>2
<1>7. TypeOK'
  BY <1>0, <1>6
<1>8. OutsideInv'
  BY <1>0 DEF BarrierInv, OutsideInv
<1>9. SpinInv'
  BY <1>0, <1>1 DEF BarrierInv, SpinInv
<1>10. CloseInv'
  <2> SUFFICES ASSUME NEW d \in Cpu, at'[d] \in {Last, Closing}
               PROVE  /\ arrived'[d] = flips' + 1
                      /\ left'[d] = flips'
                      /\ my_sense'[d] = barrier_sense'
                      /\ \A e \in Cpu \ {d} : at'[e] = Spin /\ arrived'[e] = flips' + 1
    BY DEF CloseInv
  <2>1. d = c /\ barrier_count' = CpuCount
    BY <1>0, <1>2
  <2>2. InRound' = Cpu
    <3>1. InRound' \in SUBSET Cpu
      BY DEF InRound
    <3> QED BY <3>1, <2>1, <1>5, CpuFinite, FS_Subset
  <2>3. \A e \in Cpu : arrived'[e] = flips' + 1
    BY <2>2 DEF InRound
  <2>4. \A e \in Cpu \ {c} : at'[e] = Spin
    <3> SUFFICES ASSUME NEW e \in Cpu \ {c} PROVE at[e] = Spin
      BY <1>0
    <3>1. arrived[e] = flips + 1
      BY <2>3, <1>0
    <3>2. at[e] \notin {Outside, Entered}
      BY <3>1 DEF BarrierInv, OutsideInv
    <3> QED BY <3>2, <1>2
  <2> QED BY <2>1, <2>3, <2>4, <1>0, <1>1
<1>11. CountInv'
  <2>1. ~ \E d \in Cpu : at'[d] = Closing
    BY <1>0, <1>2
  <2> QED BY <2>1, <1>5 DEF CountInv
<1> QED BY <1>7, <1>8, <1>9, <1>10, <1>11 DEF BarrierInv

(* The last arriver resets the count, with nobody left to arrive, then       *)
(* inverts the sense: all others spin in the round it ends.                  *)
LEMMA CloseRoundInv ==
  ASSUME TypeOK, BarrierInv, NEW c \in Present, CloseRound(c)
  PROVE  TypeOK' /\ BarrierInv'
<1> USE BarrierAssumption DEF TypeOK
<1>0. c \in Cpu /\ at[c] \in {Last, Closing}
  BY DEF CloseRound, StoreCount, StoreSense
<1>1. /\ arrived[c] = flips + 1
      /\ left[c] = flips
      /\ my_sense[c] = barrier_sense
      /\ \A d \in Cpu \ {c} : at[d] = Spin /\ arrived[d] = flips + 1
  BY <1>0 DEF BarrierInv, CloseInv
<1>2. CASE StoreCount(c, Last) /\ MoveToClosing(c)
  <2> USE <1>2 DEF StoreCount, MoveToClosing
  <2>1. TypeOK'
    BY <1>0
  <2>2. OutsideInv'
    BY <1>0, <1>1 DEF OutsideInv
  <2>3. SpinInv'
    BY <1>0 DEF BarrierInv, SpinInv
  <2>4. CloseInv'
    BY <1>0, <1>1 DEF CloseInv
  <2>5. CountInv'
    BY <1>0 DEF CountInv
  <2> QED BY <2>1, <2>2, <2>3, <2>4, <2>5 DEF BarrierInv
<1>3. CASE StoreSense(c, Closing) /\ Return(c)
  <2> USE <1>3 DEF StoreSense, Return
  <2>1. TypeOK'
    BY <1>0
  <2>2. OutsideInv'
    BY <1>0, <1>1 DEF OutsideInv
  <2>3. SpinInv'
    BY <1>0, <1>1 DEF BarrierInv, SpinInv
  <2>4. CloseInv'
    BY <1>0, <1>1 DEF CloseInv
  <2>5. CountInv'
    <3>1. barrier_count' = 0
      BY <1>0 DEF BarrierInv, CountInv
    <3>2. InRound' = {}
      BY <1>0, <1>1 DEF InRound
    <3>3. Cardinality(InRound') = 0
      BY <3>2, FS_EmptySet
    <3> QED BY <3>1, <3>3, <1>0, <1>1 DEF CountInv
  <2> QED BY <2>1, <2>2, <2>3, <2>4, <2>5 DEF BarrierInv
<1> QED BY <1>2, <1>3 DEF CloseRound

(* A CPU that sees the other sense was waiting for the round just closed.    *)
LEMMA SpinExitInv ==
  ASSUME TypeOK, BarrierInv, NEW c \in Present, SpinExit(c)
  PROVE  TypeOK' /\ BarrierInv'
<1> USE BarrierAssumption DEF SpinExit, SpinExitWhen, Return, shared, TypeOK
<1>0. c \in Cpu /\ at[c] = Spin
  OBVIOUS
<1>1. arrived[c] = flips /\ left[c] + 1 = flips
  BY <1>0 DEF BarrierInv, SpinInv
<1>2. TypeOK'
  BY <1>0
<1>3. OutsideInv'
  BY <1>0, <1>1 DEF BarrierInv, OutsideInv
<1>4. SpinInv'
  BY <1>0 DEF BarrierInv, SpinInv
<1>5. CloseInv'
  BY <1>0, <1>1 DEF BarrierInv, CloseInv
<1>6. CountInv'
  <2>1. InRound' = InRound
    BY DEF InRound
  <2>2. (\E d \in Cpu : at'[d] = Closing) <=> (\E d \in Cpu : at[d] = Closing)
    BY <1>0
  <2> QED BY <2>1, <2>2 DEF CountInv, BarrierInv
<1> QED BY <1>2, <1>3, <1>4, <1>5, <1>6 DEF BarrierInv

(* No step of a caller of barrier_wait breaks the invariant.                 *)
LEMMA NextInv == TypeOK /\ BarrierInv /\ [Next]_vars => TypeOK' /\ BarrierInv'
<1> SUFFICES ASSUME TypeOK, BarrierInv, [Next]_vars
             PROVE  TypeOK' /\ BarrierInv'
  OBVIOUS
<1>1. ASSUME NEW c \in Present, Step(c)
      PROVE  TypeOK' /\ BarrierInv'
  BY <1>1, ReadSenseInv, ArriveInv, CloseRoundInv, SpinExitInv DEF Step
<1>2. CASE UNCHANGED vars
  BY <1>2 DEF vars, TypeOK, BarrierInv, OutsideInv, SpinInv, CloseInv, CountInv, InRound
<1> QED BY <1>1, <1>2 DEF Next, Finished

(* The variables of barrier_wait keep their types; in particular             *)
(* barrier_count never exceeds cpu_count, whatever CPUs start and when.      *)
THEOREM TypeCorrect == Spec => []TypeOK
<1> QED BY InitInv, NextInv, PTL DEF Spec

(* The counter, the sense and the places of the CPUs stay related as         *)
(* re-use of the barrier needs (minimal_step9.c 1178-1194).                  *)
THEOREM BarrierInvariant == Spec => []BarrierInv
<1> QED BY InitInv, NextInv, PTL DEF Spec

(* With the invariant, no CPU has returned more often than another arrived.  *)
LEMMA InvImpliesNoEarlyExit == TypeOK /\ BarrierInv => NoEarlyExit
<1> SUFFICES ASSUME TypeOK, BarrierInv, NEW c \in Cpu, NEW d \in Cpu
             PROVE  left[c] <= arrived[d]
  BY DEF NoEarlyExit
<1> USE DEF TypeOK
<1>1. left[c] <= flips
  BY DEF BarrierInv, OutsideInv, SpinInv, CloseInv
<1>2. flips <= arrived[d]
  BY DEF BarrierInv, OutsideInv, SpinInv, CloseInv
<1> QED BY <1>1, <1>2

(* The barrier property: no call of barrier_wait returns for the k-th time   *)
(* on any CPU before every one of the cpu_count CPUs has arrived k times.    *)
THEOREM BarrierSafety == Spec => []NoEarlyExit
<1> QED BY TypeCorrect, BarrierInvariant, InvImpliesNoEarlyExit, PTL

--------------------------------------------------------------------------------
(* A step of a caller of barrier_wait is a step of the rendezvous: an arrival, *)
(* a departure once all have arrived, or nothing.                            *)
LEMMA StepRefines ==
  TypeOK /\ BarrierInv /\ [Next]_vars => [Abstract!Next]_<<arrived, left>>
<1> SUFFICES ASSUME TypeOK, BarrierInv, [Next]_vars
             PROVE  Abstract!Next \/ UNCHANGED <<arrived, left>>
  OBVIOUS
<1> USE BarrierAssumption DEF TypeOK
<1>1. ASSUME NEW c \in Present, ReadSense(c)
      PROVE  UNCHANGED <<arrived, left>>
  BY <1>1 DEF ReadSense
<1>2. ASSUME NEW c \in Present, Arrive(c)
      PROVE  Abstract!Arrive(c)
  <2>1. c \in Cpu /\ arrived[c] = left[c] /\ left[c] < Rounds
    BY <1>2 DEF Arrive, ArriveOf, BarrierInv, OutsideInv
  <2> QED BY <1>2, <2>1 DEF Arrive, ArriveOf, Abstract!Arrive
<1>3. ASSUME NEW c \in Present, CloseRound(c)
      PROVE  Abstract!Leave(c) \/ UNCHANGED <<arrived, left>>
  <2>1. CASE StoreCount(c, Last) /\ MoveToClosing(c)
    BY <2>1 DEF StoreCount, MoveToClosing
  <2>2. CASE StoreSense(c, Closing) /\ Return(c)
    <3>1. c \in Cpu /\ left[c] = flips /\ \A d \in Cpu : arrived[d] = flips + 1
      BY <2>2 DEF StoreSense, BarrierInv, CloseInv
    <3> QED BY <2>2, <3>1 DEF StoreSense, Return, Abstract!Leave
  <2> QED BY <1>3, <2>1, <2>2 DEF CloseRound
<1>4. ASSUME NEW c \in Present, SpinExit(c)
      PROVE  Abstract!Leave(c)
  <2>1. c \in Cpu /\ arrived[c] = flips /\ left[c] + 1 = flips
    BY <1>4 DEF SpinExit, SpinExitWhen, BarrierInv, SpinInv
  <2>2. \A d \in Cpu : flips <= arrived[d]
    BY DEF BarrierInv, OutsideInv, SpinInv, CloseInv
  <2> QED BY <1>4, <2>1, <2>2 DEF SpinExit, SpinExitWhen, Return, Abstract!Leave
<1>5. CASE UNCHANGED vars
  BY <1>5 DEF vars
<1> QED BY <1>1, <1>2, <1>3, <1>4, <1>5 DEF Next, Step, Finished, Abstract!Next

(* Every behaviour of barrier_wait is one of the rendezvous: the safety part *)
(* of ImplementsRendezvous, for any number of CPUs and calls.                *)
THEOREM BarrierRefinement == Spec => Abstract!Spec
<1>1. Init => Abstract!Init
  BY DEF Init, Abstract!Init
<1>2. TypeOK /\ BarrierInv /\ [Next]_vars => [Abstract!Next]_(Abstract!vars)
  BY StepRefines DEF Abstract!vars
<1> QED BY <1>1, <1>2, TypeCorrect, BarrierInvariant, PTL DEF Spec, Abstract!Spec

--------------------------------------------------------------------------------
(* What keeps the barrier going.  A CPU arrives once for each call it may    *)
(* make, a complete count has found its last arriver, and a CPU that has not *)
(* started has not arrived.                                                  *)
ProgressInv ==
  /\ \A c \in Cpu : arrived[c] <= Rounds
  /\ barrier_count = CpuCount => \E c \in Cpu : at[c] = Last
  /\ \A c \in Cpu \ Present : at[c] = Outside /\ arrived[c] = 0

LEMMA ProgressInit == Init => ProgressInv
  BY BarrierAssumption DEF Init, ProgressInv

LEMMA ProgressNext == TypeOK /\ BarrierInv /\ ProgressInv /\ [Next]_vars => ProgressInv'
<1> SUFFICES ASSUME TypeOK, BarrierInv, ProgressInv, [Next]_vars PROVE ProgressInv'
  OBVIOUS
<1> USE BarrierAssumption DEF TypeOK
<1>1. ASSUME NEW c \in Present, ReadSense(c) PROVE ProgressInv'
  BY <1>1 DEF ReadSense, shared, ProgressInv
<1>2. ASSUME NEW c \in Present, Arrive(c) PROVE ProgressInv'
  <2>1. c \in Cpu /\ arrived[c] < Rounds
    BY <1>2 DEF Arrive, ArriveOf, BarrierInv, OutsideInv
  <2> QED BY <1>2, <2>1 DEF Arrive, ArriveOf, ProgressInv
<1>3. ASSUME NEW c \in Present, CloseRound(c) PROVE ProgressInv'
  <2>1. CASE StoreCount(c, Last) /\ MoveToClosing(c)
    BY <2>1 DEF StoreCount, MoveToClosing, ProgressInv
  <2>2. CASE StoreSense(c, Closing) /\ Return(c)
    <3>1. c \in Cpu /\ barrier_count = 0
      BY <2>2 DEF StoreSense, BarrierInv, CountInv
    <3> QED BY <2>2, <3>1 DEF StoreSense, Return, ProgressInv
  <2> QED BY <1>3, <2>1, <2>2 DEF CloseRound
<1>4. ASSUME NEW c \in Present, SpinExit(c) PROVE ProgressInv'
  BY <1>4 DEF SpinExit, SpinExitWhen, Return, shared, ProgressInv
<1>5. CASE UNCHANGED vars
  BY <1>5 DEF vars, ProgressInv
<1> QED BY <1>1, <1>2, <1>3, <1>4, <1>5 DEF Next, Step, Finished

LEMMA ProgressInvariant == Spec => [](TypeOK /\ BarrierInv /\ ProgressInv)
  BY TypeCorrect, BarrierInvariant, ProgressInit, ProgressNext, PTL DEF Spec

(* If everyone waited or had ended, the round would be complete: with all    *)
(* waiting the count is cpu_count, and nobody who has ended lacks a round.   *)
LEMMA InvImpliesNobodyStuck == TypeOK /\ BarrierInv /\ ProgressInv => NobodyStuck
<1> SUFFICES ASSUME TypeOK, BarrierInv, ProgressInv, NEW c \in Cpu, Waits(c),
                    \A d \in Cpu : Waits(d) \/ Ended(d)
             PROVE  FALSE
  BY DEF NobodyStuck
<1> USE BarrierAssumption DEF TypeOK
<1>1. \A d \in Cpu : Waits(d) => arrived[d] = flips + 1
  BY DEF Waits, BarrierInv, SpinInv
<1>2. flips + 1 <= Rounds
  BY <1>1 DEF ProgressInv
<1>3. \A d \in Cpu : ~Ended(d)
  BY <1>2 DEF Ended, BarrierInv, OutsideInv
<1>4. InRound = Cpu
  BY <1>1, <1>3 DEF InRound
<1>5. \A d \in Cpu : at[d] = Spin
  BY <1>3 DEF Waits
<1>6. barrier_count = CpuCount
  BY <1>4, <1>5, CpuFinite DEF BarrierInv, CountInv
<1> QED BY <1>5, <1>6 DEF ProgressInv

(* "while (barrier_sense == my_sense)" is never the place of everybody: a    *)
(* CPU that waits waits for one that can go on if it has started, for any    *)
(* number of CPUs and calls.                                                 *)
THEOREM BarrierNobodyStuck == Spec => []NobodyStuck
<1> QED BY ProgressInvariant, InvImpliesNobodyStuck, PTL

(* A CPU late to notice the end of a round cannot miss it: until it returns  *)
(* nobody closes another round, so the sense keeps differing from its own.   *)
THEOREM BarrierReleaseStays == Spec => ReleaseStays
<1> DEFINE Stays == \A c \in Cpu : at[c] = Spin /\ ~Waits(c) =>
                      (~Waits(c))' /\ at'[c] \in {Spin, Outside}
<1>1. TypeOK /\ BarrierInv /\ [Next]_vars => [Stays]_vars
  <2> SUFFICES ASSUME TypeOK, BarrierInv, Next, NEW c \in Cpu, at[c] = Spin, ~Waits(c)
               PROVE  (~Waits(c))' /\ at'[c] \in {Spin, Outside}
    OBVIOUS
  <2> USE BarrierAssumption DEF TypeOK
  <2>1. my_sense[c] # barrier_sense /\ arrived[c] = flips
    BY DEF Waits, BarrierInv, SpinInv
  <2>2. ASSUME NEW d \in Present, ReadSense(d) PROVE (~Waits(c))' /\ at'[c] \in {Spin, Outside}
    BY <2>1, <2>2 DEF ReadSense, shared, Waits
  <2>3. ASSUME NEW d \in Present, Arrive(d) PROVE (~Waits(c))' /\ at'[c] \in {Spin, Outside}
    BY <2>1, <2>3 DEF Arrive, ArriveOf, Waits
  <2>4. ASSUME NEW d \in Present, CloseRound(d) PROVE FALSE
    <3>1. d \in Cpu /\ at[d] \in {Last, Closing}
      BY <2>4 DEF CloseRound, StoreCount, StoreSense
    <3>2. arrived[c] = flips + 1
      BY <3>1 DEF BarrierInv, CloseInv
    <3> QED BY <2>1, <3>2
  <2>5. ASSUME NEW d \in Present, SpinExit(d) PROVE (~Waits(c))' /\ at'[c] \in {Spin, Outside}
    BY <2>1, <2>5 DEF SpinExit, SpinExitWhen, Return, shared, Waits
  <2>6. CASE UNCHANGED vars
    BY <2>1, <2>6 DEF vars, Waits
  <2> QED BY <2>2, <2>3, <2>4, <2>5, <2>6 DEF Next, Step, Finished
<1> QED BY <1>1, TypeCorrect, BarrierInvariant, PTL DEF Spec, ReleaseStays

(* With a CPU absent nobody has returned: that CPU has not arrived.          *)
LEMMA InvImpliesAbsentHolds == TypeOK /\ BarrierInv /\ ProgressInv => AbsentHoldsAll
<1> SUFFICES ASSUME TypeOK, BarrierInv, ProgressInv, Present # Cpu, NEW c \in Cpu
             PROVE  left[c] = 0
  BY DEF AbsentHoldsAll
<1>1. PICK d \in Cpu : arrived[d] = 0
  BY BarrierAssumption DEF ProgressInv
<1>2. left[c] <= arrived[d]
  BY InvImpliesNoEarlyExit DEF NoEarlyExit
<1> QED BY <1>1, <1>2 DEF TypeOK

(* One CPU that the MADT lists and that never starts holds all the others in *)
(* their first call for ever: the count is to cpu_count.                     *)
THEOREM BarrierAbsentHoldsAll == Spec => []AbsentHoldsAll
<1> QED BY ProgressInvariant, InvImpliesAbsentHolds, PTL
================================================================================
