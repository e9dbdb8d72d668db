------------------------------ MODULE Rendezvous ------------------------------
(***************************************************************************)
(* What a barrier promises to its callers, with no algorithm in it: a CPU  *)
(* that has arrived for the k-th time may leave for the k-th time only     *)
(* when every CPU has arrived at least k times.  barrier_wait of the C     *)
(* kernel and of the Zig kernel both claim to provide this; BarrierWait    *)
(* is shown to implement it.                                               *)
(***************************************************************************)
EXTENDS Naturals

CONSTANTS
  Cpu,      \* the CPUs the barrier is for: 0 .. cpu_count - 1
  Present,  \* those that really execute code (a CPU may fail to start)
  Rounds    \* how many times each CPU calls the barrier

VARIABLES
  arrived,  \* arrived[c]: how many times c has entered the barrier
  left      \* left[c]: how many times c has returned from it

vars == <<arrived, left>>

Init ==
  /\ arrived = [c \in Cpu |-> 0]
  /\ left = [c \in Cpu |-> 0]

Arrive(c) ==
  /\ arrived[c] = left[c]
  /\ arrived[c] < Rounds
  /\ arrived' = [arrived EXCEPT ![c] = @ + 1]
  /\ UNCHANGED left

Leave(c) ==
  /\ left[c] < arrived[c]
  /\ \A d \in Cpu : arrived[c] <= arrived[d]
  /\ left' = [left EXCEPT ![c] = @ + 1]
  /\ UNCHANGED arrived

Next == \E c \in Present : Arrive(c) \/ Leave(c)

Spec == Init /\ [][Next]_vars

(* Nobody is held once everybody has come. *)
FairSpec == Spec /\ \A c \in Present : WF_vars(Leave(c))
===============================================================================
