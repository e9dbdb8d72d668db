---------------------------- MODULE OldModularProofs ----------------------------
(***************************************************************************)
(* Proofs about OldModular for any number of CPUs up to MAX_CPUS, any BSP  *)
(* and any APs dead or late: one stack is enough for APs that are in time; *)
(* until two APs have been in a call at once the spin lock loses no        *)
(* addition; and a call through the cleared pointer takes two late APs.    *)
(***************************************************************************)
EXTENDS OldModular, FiniteSetTheorems, TLAPS

\* Where the ret of each callee leads if nobody has written over its address
Site ==
  [boot_id |-> "identified", counted |-> "look", reading |-> "ready",
   leave |-> "finish", finished |-> "unready", unreadied |-> "clear",
   task_id |-> "sum", spin |-> "load", locked |-> "load", unlocked |-> "done",
   done_counted |-> "print", printed |-> "leave"]

InTask ==
  {"task", "task_id", "sum", "summing", "lock", "spin", "locked", "load", "store", "unlock",
   "unlocked", "done", "done_counted", "print", "printed", "leave"}

ApPlaces ==
  AtTop \cup InTask \cup {"boot_id", "counted", "reading", "null_call", "finished", "unreadied"}

BspPlaces ==
  {"boot", "sent", "await", "set_func", "set_ready", "set_finished", "each", "await_done",
   "halted", "task", "sum", "summing", "lock", "load", "store", "unlock", "done", "print",
   "leave", "finish", "unready"}

Addresses ==
  {"none", "identified", "look", "ready", "finish", "unready", "clear", "sum", "load", "done",
   "print", "leave"}

Typed ==
  /\ pc \in [Cpu -> ApPlaces \cup BspPlaces \cup Addresses]
  /\ pc[Bsp] \in BspPlaces
  /\ local \in [Cpu -> Int] /\ shared_result \in Int /\ additions \in Int
  /\ overwrites \in Nat
  /\ stack \in [1 .. 2 -> Addresses]
  /\ local_result \in [{"bsp", "aps"} -> {0, 1}]

--------------------------------------------------------------------------------
(* The initial state is typed.                                               *)
LEMMA TypedInit == Init => Typed
BY ModularAssumption DEF Init, Typed, ApPlaces, AtTop, BspPlaces, Addresses

(* What a step of the BSP's loops leaves alone.                              *)
LEMMA BspKeeps ==
  ASSUME BspStep
  PROVE  UNCHANGED <<task, chance, frames>>
BY DEF BspStep, SkipBsp, StartAp, ReadInitialCount, AwaitEnds, BootComplete, SetFunc, SetReady,
       SetFinished, EachTurn, EachEnds, Report

(* A call of an AP, and what it leaves on the stack.                         *)
LEMMA ApCall ==
  ASSUME Typed, NEW c \in Ap, NEW depth \in 1 .. 2, NEW from, NEW callee, NEW back,
         Call(c, depth, from, callee, back)
  PROVE  /\ pc[c] = from
         /\ pc' = [pc EXCEPT ![c] = callee]
         /\ stack' = [stack EXCEPT ![depth] = back]
         /\ overwrites' \in {overwrites, overwrites + 1}
         /\ overwrites' = 0 => \A a \in Ap \ {c} : pc[a] \in AtTop
BY DEF Call, Goto, Typed, Ap

(* It keeps the types it has to do with.                                     *)
Calls == {"boot_id", "counted", "reading", "task", "null_call", "finished", "unreadied",
          "halted", "task_id", "spin", "unlocked", "done_counted", "printed"}

LEMMA ApCallTyped ==
  ASSUME Typed, NEW c \in Ap, NEW depth \in 1 .. 2, NEW from, NEW callee \in Calls,
         NEW back \in Addresses, Call(c, depth, from, callee, back),
         UNCHANGED <<local, shared_result, additions, local_result>>
  PROVE  Typed'
<1>1. callee \in ApPlaces
  BY DEF Calls, ApPlaces, InTask, AtTop
<1>2. /\ pc' = [pc EXCEPT ![c] = callee]
      /\ stack' = [stack EXCEPT ![depth] = back]
      /\ overwrites' \in {overwrites, overwrites + 1}
  BY ApCall
<1> QED BY <1>1, <1>2, ModularAssumption DEF Typed, Ap

(* A return of an AP.                                                        *)
LEMMA ApReturn ==
  ASSUME Typed, NEW c \in Ap, Return(c)
  PROVE  \E depth \in 1 .. 2, to \in Addresses \cup {"call", "halt"} :
           /\ pc[c] \in Returning[depth]
           /\ pc' = [pc EXCEPT ![c] = to]
           /\ stack[depth] # "ready" => to = stack[depth]
           /\ stack[depth] = "ready" => to \in {"call", "halt"}
<1>1. c # Bsp
  BY DEF Ap
<1>2. PICK depth \in 1 .. 2 : pc[c] \in Returning[depth] /\ Resume(c, depth, BOOLEAN)
  BY <1>1 DEF Return
<1>3. PICK positive \in BOOLEAN :
        pc' = [pc EXCEPT ![c] = IF stack[depth] # "ready" THEN stack[depth]
                                ELSE IF positive THEN "call" ELSE "halt"]
  BY <1>2 DEF Resume
<1>4. stack[depth] \in Addresses
  BY DEF Typed
<1>5. CASE stack[depth] # "ready"
  BY <1>2, <1>3, <1>4, <1>5
<1>6. CASE stack[depth] = "ready" /\ positive
  BY <1>2, <1>3, <1>6
<1>7. CASE stack[depth] = "ready" /\ ~positive
  BY <1>2, <1>3, <1>7
<1> QED BY <1>5, <1>6, <1>7

(* What ReadReady does is a return of the same kind.                         *)
LEMMA ApReads ==
  ASSUME Typed, NEW c \in Ap, ReadReady(c)
  PROVE  \E to \in Addresses \cup {"call", "halt"} :
           /\ pc[c] = "reading"
           /\ pc' = [pc EXCEPT ![c] = to]
           /\ stack[1] # "ready" => to = stack[1]
           /\ stack[1] = "ready" => to \in {"call", "halt"}
<1>1. PICK positive \in {cpus_ready > 0} :
        pc' = [pc EXCEPT ![c] = IF stack[1] # "ready" THEN stack[1]
                                ELSE IF positive THEN "call" ELSE "halt"]
  BY DEF ReadReady, Resume
<1>2. pc[c] = "reading" /\ stack[1] \in Addresses
  BY DEF ReadReady, Typed
<1>3. CASE stack[1] # "ready"
  BY <1>1, <1>2, <1>3
<1>4. CASE stack[1] = "ready" /\ cpus_ready > 0
  BY <1>1, <1>2, <1>4
<1>5. CASE stack[1] = "ready" /\ ~(cpus_ready > 0)
  BY <1>1, <1>2, <1>5
<1> QED BY <1>3, <1>4, <1>5

(* Every step keeps the types.                                               *)
LEMMA TypedTask ==
  ASSUME Typed, NEW c \in Cpu, Task(c)
  PROVE  Typed'
<1> USE ModularAssumption
<1>1. CASE c = Bsp
  <2> USE <1>1 DEF Typed, Goto, Call, StackOf, BspPlaces
  <2>1. CASE TaskBegins(c) \/ SumBegins(c) \/ SumEnds(c) \/ CallSpinLock(c)
    BY <2>1 DEF TaskBegins, SumBegins, SumEnds, CallSpinLock, task
  <2>2. CASE SpinLock(c) \/ LoadResult(c) \/ StoreResult(c)
    BY <2>2 DEF SpinLock, LoadResult, StoreResult, frames
  <2>3. CASE SpinUnlock(c) \/ CoreDone(c) \/ PrintDone(c)
    BY <2>3 DEF SpinUnlock, CoreDone, PrintDone, task
  <2>4. CASE Finish(c) \/ NoLongerReady(c) \/ Return(c)
    BY <2>4 DEF Finish, NoLongerReady, Return, task, frames
  <2> QED BY <2>1, <2>2, <2>3, <2>4 DEF Task
<1>2. CASE c # Bsp
  <2>0. c \in Ap
    BY <1>2 DEF Ap
  <2>1. CASE TaskBegins(c)
    BY <2>0, <2>1, ApCallTyped DEF TaskBegins, Calls, Addresses, task
  <2>2. CASE SumBegins(c) \/ SumEnds(c)
    BY <1>2, <2>2 DEF SumBegins, SumEnds, Typed, ApPlaces, InTask, Goto, StackOf, task
  <2>3. CASE CallSpinLock(c)
    BY <2>0, <2>3, ApCallTyped DEF CallSpinLock, Calls, Addresses, task
  <2>4. CASE SpinLock(c) \/ LoadResult(c) \/ StoreResult(c)
    BY <1>2, <2>4 DEF SpinLock, LoadResult, StoreResult, Typed, ApPlaces, InTask, Goto, StackOf,
                      frames
  <2>5. CASE SpinUnlock(c)
    BY <2>0, <2>5, ApCallTyped DEF SpinUnlock, Calls, Addresses, task
  <2>6. CASE CoreDone(c)
    BY <2>0, <2>6, ApCallTyped DEF CoreDone, Calls, Addresses, task
  <2>7. CASE PrintDone(c)
    BY <2>0, <2>7, ApCallTyped DEF PrintDone, Calls, Addresses, task
  <2>8. CASE Finish(c)
    BY <2>0, <2>8, ApCallTyped DEF Finish, Calls, Addresses, task
  <2>9. CASE NoLongerReady(c)
    BY <1>2, <2>0, <2>9, ApCallTyped DEF NoLongerReady, Calls, Addresses, task
  <2>10. CASE Return(c)
    <3>1. UNCHANGED <<task, frames>>
      BY <2>10 DEF Return
    <3> QED BY <2>0, <2>10, <3>1, ApReturn DEF Typed, ApPlaces, AtTop, Ap, task, frames
  <2> QED BY <2>1, <2>2, <2>3, <2>4, <2>5, <2>6, <2>7, <2>8, <2>9, <2>10 DEF Task
<1> QED BY <1>1, <1>2

LEMMA TypedAp ==
  ASSUME Typed, NEW a \in Ap, ApStep(a)
  PROVE  Typed'
<1> USE ModularAssumption DEF Ap
<1>1. CASE Identify(a)
  BY <1>1, ApCallTyped DEF Identify, Calls, Addresses, task
<1>2. CASE Booted(a)
  BY <1>2, ApCallTyped DEF Booted, Calls, Addresses, task
<1>3. CASE LookForFunc(a) \/ ClearFunc(a)
  BY <1>3 DEF LookForFunc, ClearFunc, Goto, Typed, ApPlaces, AtTop, task, frames
<1>4. CASE LookForReady(a)
  BY <1>4, ApCallTyped DEF LookForReady, Calls, Addresses, task
<1>5. CASE ReadReady(a)
  <2>1. UNCHANGED <<task, frames>>
    BY <1>5 DEF ReadReady
  <2> QED BY <1>5, <2>1, ApReads DEF Typed, ApPlaces, AtTop, task, frames
<1>6. CASE CallFunc(a)
  <2>1. (IF global_func THEN "task" ELSE "null_call") \in {"task", "null_call"}
    OBVIOUS
  <2> QED BY <1>6, <2>1, ApCallTyped DEF CallFunc, Calls, Addresses, task
<1>7. CASE Halt(a)
  BY <1>7, ApCallTyped DEF Halt, Calls, Addresses, task
<1> QED BY <1>1, <1>2, <1>3, <1>4, <1>5, <1>6, <1>7 DEF ApStep

LEMMA TypedStep == Typed /\ [Next]_vars => Typed'
<1> SUFFICES ASSUME Typed, [Next]_vars PROVE Typed'
  OBVIOUS
<1>1. CASE UNCHANGED vars
  BY <1>1 DEF Typed, vars, task, frames
<1>2. ASSUME NEW c \in Cpu, Task(c) PROVE Typed'
  BY <1>2, TypedTask
<1>3. CASE BspStep
  <2>1. /\ pc' \in [Cpu -> ApPlaces \cup BspPlaces \cup Addresses]
        /\ pc'[Bsp] \in BspPlaces
    BY <1>3, ModularAssumption
    DEF BspStep, SkipBsp, StartAp, ReadInitialCount, AwaitEnds, BootComplete, SetFunc, SetReady,
        SetFinished, EachTurn, EachEnds, Report, Goto, Typed, BspPlaces, ApPlaces, AtTop, Ap
  <2> QED BY <1>3, <2>1, BspKeeps DEF Typed, task, frames
<1>4. ASSUME NEW a \in Cpu, a # Bsp, ApStep(a) PROVE Typed'
  BY <1>4, TypedAp DEF Ap
<1> QED BY <1>1, <1>2, <1>3, <1>4 DEF Next, CpuStep

--------------------------------------------------------------------------------
(* As long as no two APs have been in a call at once.                        *)

\* One AP at most is in a call, and its returns lead to where it came from.
Frames ==
  /\ \A a, b \in Ap : pc[a] \notin AtTop /\ pc[b] \notin AtTop => a = b
  /\ \A a \in Ap : pc[a] \in Returning[1] \cup {"reading"} => stack[1] = Site[pc[a]]
  /\ \A a \in Ap : pc[a] \in Returning[2] \cup {"spin"} => stack[2] = Site[pc[a]]
  /\ \A a \in Ap : pc[a] \in InTask => stack[1] = "finish"

FramesInv == ~clobbered => Frames

\* The calls of an AP: from where, the callee, the depth, and where it comes back
CallSites ==
  {<<"started", "boot_id", 1, "identified">>, <<"identified", "counted", 1, "look">>,
   <<"look_ready", "reading", 1, "ready">>, <<"call", "task", 1, "finish">>,
   <<"call", "null_call", 1, "finish">>, <<"task", "task_id", 2, "sum">>,
   <<"lock", "spin", 2, "load">>, <<"unlock", "unlocked", 2, "done">>,
   <<"done", "done_counted", 2, "print">>, <<"print", "printed", 2, "leave">>,
   <<"finish", "finished", 1, "unready">>, <<"unready", "unreadied", 1, "clear">>,
   <<"halt", "halted", 1, "look">>}

\* Its steps within a function
Within ==
  {<<"look", "look_ready">>, <<"look", "halt">>, <<"sum", "summing">>, <<"summing", "lock">>,
   <<"spin", "locked">>, <<"load", "store">>, <<"store", "unlock">>, <<"clear", "halt">>}

\* Its returns, each to where the call came from
Returns ==
  {<<"reading", "call">>, <<"reading", "halt">>, <<"boot_id", "identified">>,
   <<"counted", "look">>, <<"task_id", "sum">>, <<"locked", "load">>, <<"unlocked", "done">>,
   <<"done_counted", "print">>, <<"printed", "leave">>, <<"leave", "finish">>,
   <<"finished", "unready">>, <<"unreadied", "clear">>}

Edges == Within \cup Returns \cup {<<site[1], site[2]>> : site \in CallSites}

LEMMA Unclobbered ==
  ASSUME Typed, overwrites' \in {overwrites, overwrites + 1}, ~clobbered'
  PROVE  ~clobbered
BY DEF Typed, clobbered

LEMMA CallFrames ==
  ASSUME Typed, FramesInv, ~clobbered', NEW c \in Ap, NEW depth \in 1 .. 2, NEW from,
         NEW callee, NEW back, Call(c, depth, from, callee, back),
         <<from, callee, depth, back>> \in CallSites
  PROVE  /\ <<pc[c], pc'[c]>> \in Edges
         /\ pc' = [pc EXCEPT ![c] = pc'[c]]
         /\ Frames'
<1>1. /\ pc[c] = from /\ pc' = [pc EXCEPT ![c] = callee]
      /\ stack' = [stack EXCEPT ![depth] = back]
      /\ Frames /\ \A a \in Ap \ {c} : pc[a] \in AtTop
  <2>1. overwrites' \in {overwrites, overwrites + 1}
    BY ApCall
  <2>2. ~clobbered /\ overwrites' = 0
    BY <2>1, Unclobbered DEF Typed, clobbered
  <2> QED BY <2>2, ApCall DEF FramesInv
<1>2. pc'[c] = callee /\ \A a \in Ap \ {c} : pc'[a] = pc[a]
  BY <1>1 DEF Typed, Ap
<1>3. <<pc[c], pc'[c]>> \in Edges
  <2> DEFINE site == <<from, callee, depth, back>>
  <2>1. site \in CallSites /\ <<pc[c], pc'[c]>> = <<site[1], site[2]>>
    BY <1>1, <1>2
  <2> QED BY <2>1 DEF Edges
<1>4. Frames'
  <2>1. \A a, b \in Ap : pc'[a] \notin AtTop /\ pc'[b] \notin AtTop => a = b
    BY <1>1, <1>2
  <2>2. \A a \in Ap \ {c} : pc'[a] \notin Returning[1] \cup Returning[2] \cup InTask
                               /\ pc'[a] \notin {"reading", "spin"}
    BY <1>1, <1>2 DEF AtTop, Returning, InTask
  <2>3. stack'[depth] = back /\ \A d \in 1 .. 2 : d # depth => stack'[d] = stack[d]
    BY <1>1 DEF Typed
  <2>4. callee \in Returning[1] \cup {"reading"} => stack'[1] = Site[callee]
    BY <1>1, <2>3 DEF CallSites, Returning, Site
  <2>5. callee \in Returning[2] \cup {"spin"} => stack'[2] = Site[callee]
    BY <2>3 DEF CallSites, Returning, Site
  <2>6. callee \in InTask => stack'[1] = "finish"
    BY <1>1, <2>3 DEF CallSites, InTask, Frames
  <2> QED BY <1>2, <2>1, <2>2, <2>4, <2>5, <2>6 DEF Frames
<1> QED BY <1>1, <1>2, <1>3, <1>4

LEMMA WithinFrames ==
  ASSUME Typed, FramesInv, ~clobbered', NEW c \in Ap, UNCHANGED <<stack, overwrites>>,
         NEW from, NEW to, <<from, to>> \in Within, Goto(c, from, to)
  PROVE  /\ <<pc[c], pc'[c]>> \in Edges
         /\ pc' = [pc EXCEPT ![c] = pc'[c]]
         /\ Frames'
<1>1. Frames
  BY Unclobbered DEF FramesInv
<1>2. pc[c] = from /\ pc'[c] = to /\ \A a \in Ap \ {c} : pc'[a] = pc[a]
  BY DEF Goto, Typed, Ap
<1>3. Frames'
  <2>1. to \notin AtTop => from \notin AtTop
    BY DEF Within, AtTop
  <2>2. to \notin Returning[1] \cup {"reading", "spin"}
    BY DEF Within, Returning
  <2>3. to \in Returning[2] => from = "spin" /\ to = "locked"
    BY DEF Within, Returning
  <2>4. to \in InTask => from \in InTask
    BY DEF Within, InTask
  <2> QED BY <1>1, <1>2, <2>1, <2>2, <2>3, <2>4 DEF Frames, Site
<1> QED BY <1>2, <1>3 DEF Goto, Edges

LEMMA ReturnFrames ==
  ASSUME Typed, FramesInv, ~clobbered', NEW c \in Ap, Return(c) \/ ReadReady(c)
  PROVE  /\ <<pc[c], pc'[c]>> \in Edges
         /\ pc' = [pc EXCEPT ![c] = pc'[c]]
         /\ Frames'
<1>1. UNCHANGED <<stack, overwrites>>
  BY DEF Return, ReadReady, frames
<1>2. Frames
  BY <1>1, Unclobbered DEF FramesInv
<1>3. PICK to : pc' = [pc EXCEPT ![c] = to] /\ <<pc[c], to>> \in Returns
  <2>1. CASE Return(c)
    <3>1. PICK depth \in 1 .. 2, to \in Addresses \cup {"call", "halt"} :
            /\ pc[c] \in Returning[depth]
            /\ pc' = [pc EXCEPT ![c] = to]
            /\ stack[depth] # "ready" => to = stack[depth]
      BY <2>1, ApReturn
    <3>2. stack[depth] = Site[pc[c]]
      BY <1>2, <3>1 DEF Frames
    <3>3. <<pc[c], Site[pc[c]]>> \in Returns /\ Site[pc[c]] # "ready"
      BY <3>1 DEF Returning, Site, Returns
    <3> QED BY <3>1, <3>2, <3>3
  <2>2. CASE ReadReady(c)
    <3>1. PICK to \in Addresses \cup {"call", "halt"} :
            /\ pc[c] = "reading"
            /\ pc' = [pc EXCEPT ![c] = to]
            /\ stack[1] = "ready" => to \in {"call", "halt"}
      BY <2>2, ApReads
    <3>2. stack[1] = "ready"
      BY <1>2, <3>1 DEF Frames, Site
    <3> QED BY <3>1, <3>2 DEF Returns
  <2> QED BY <2>1, <2>2
<1>4. pc'[c] = to /\ \A a \in Ap \ {c} : pc'[a] = pc[a]
  BY <1>3 DEF Typed, Ap
<1>5. Frames'
  <2>1. pc[c] \notin AtTop
    BY <1>3 DEF Returns, AtTop
  <2>2. to \notin Returning[1] \cup Returning[2] \cup {"reading", "spin"} \/ to = "leave"
    BY <1>3 DEF Returns, Returning
  <2>3. to \in InTask => pc[c] \in InTask
    BY <1>3 DEF Returns, InTask
  <2> QED BY <1>1, <1>2, <1>4, <2>1, <2>2, <2>3 DEF Frames, Site, InTask, Returning
<1> QED BY <1>3, <1>4, <1>5 DEF Edges

(* Whatever step an AP takes, it is one of these.                            *)
LEMMA ApSteps ==
  ASSUME Typed, FramesInv, ~clobbered', NEW c \in Ap, Task(c) \/ ApStep(c)
  PROVE  /\ <<pc[c], pc'[c]>> \in Edges
         /\ pc' = [pc EXCEPT ![c] = pc'[c]]
         /\ Frames'
<1>0. c # Bsp
  BY DEF Ap
<1>1. CASE TaskBegins(c) \/ CallSpinLock(c) \/ SpinUnlock(c) \/ CoreDone(c) \/ PrintDone(c)
  BY <1>1, CallFrames DEF TaskBegins, CallSpinLock, SpinUnlock, CoreDone, PrintDone, CallSites
<1>2. CASE Finish(c) \/ NoLongerReady(c)
  BY <1>0, <1>2, CallFrames DEF Finish, NoLongerReady, CallSites
<1>3. CASE Identify(c) \/ Booted(c) \/ LookForReady(c) \/ Halt(c)
  BY <1>3, CallFrames DEF Identify, Booted, LookForReady, Halt, CallSites
<1>4. CASE CallFunc(c)
  <2>1. (IF global_func THEN "task" ELSE "null_call") \in {"task", "null_call"}
    OBVIOUS
  <2> QED BY <1>4, <2>1, CallFrames DEF CallFunc, CallSites
<1>5. CASE SumBegins(c) \/ SumEnds(c)
  BY <1>5, WithinFrames DEF SumBegins, SumEnds, Within
<1>6. CASE SpinLock(c) \/ LoadResult(c) \/ StoreResult(c)
  BY <1>0, <1>6, WithinFrames DEF SpinLock, LoadResult, StoreResult, Within, frames
<1>7. CASE LookForFunc(c) \/ ClearFunc(c)
  BY <1>7, WithinFrames DEF LookForFunc, ClearFunc, Within, frames
<1>8. CASE Return(c) \/ ReadReady(c)
  BY <1>8, ReturnFrames
<1> QED BY <1>1, <1>2, <1>3, <1>4, <1>5, <1>6, <1>7, <1>8 DEF Task, ApStep

(* A step of the loops of the BSP does not disturb them.                     *)
LEMMA FramesBsp ==
  ASSUME Typed, Frames, BspStep
  PROVE  Frames'
<1>1. \A a \in Ap : pc'[a] = pc[a] \/ pc'[a] \in {"parked", "started"}
  BY ModularAssumption
  DEF BspStep, SkipBsp, StartAp, ReadInitialCount, AwaitEnds, BootComplete, SetFunc, SetReady,
      SetFinished, EachTurn, EachEnds, Report, Goto, Typed, Ap
<1>2. stack' = stack
  BY BspKeeps DEF frames
<1> QED BY <1>1, <1>2 DEF Frames, AtTop, Returning, InTask

(* What the BSP does in the task, alone on its stack.                        *)
LEMMA BspTask ==
  ASSUME Typed, Task(Bsp)
  PROVE  /\ pc' = [pc EXCEPT ![Bsp] = pc'[Bsp]]
         /\ UNCHANGED <<stack, overwrites>>
         /\ <<pc[Bsp], pc'[Bsp]>> \in
              {<<"task", "sum">>, <<"sum", "summing">>, <<"summing", "lock">>,
               <<"lock", "load">>, <<"load", "store">>, <<"store", "unlock">>,
               <<"unlock", "done">>, <<"done", "print">>, <<"print", "leave">>,
               <<"leave", "finish">>, <<"finish", "unready">>, <<"unready", "each">>}
<1> USE ModularAssumption DEF Goto, Call, Typed
<1>1. CASE TaskBegins(Bsp) \/ SumBegins(Bsp) \/ SumEnds(Bsp) \/ CallSpinLock(Bsp)
  BY <1>1 DEF TaskBegins, SumBegins, SumEnds, CallSpinLock
<1>2. CASE SpinLock(Bsp) \/ LoadResult(Bsp) \/ StoreResult(Bsp)
  BY <1>2 DEF SpinLock, LoadResult, StoreResult, frames
<1>3. CASE SpinUnlock(Bsp) \/ CoreDone(Bsp) \/ PrintDone(Bsp)
  BY <1>3 DEF SpinUnlock, CoreDone, PrintDone
<1>4. CASE Finish(Bsp) \/ NoLongerReady(Bsp) \/ Return(Bsp)
  BY <1>4 DEF Finish, NoLongerReady, Return, frames
<1> QED BY <1>1, <1>2, <1>3, <1>4 DEF Task

LEMMA FramesStep ==
  ASSUME Typed, FramesInv, [Next]_vars, ~clobbered'
  PROVE  Frames /\ Frames' /\ ~clobbered
<1>1. overwrites' \in {overwrites, overwrites + 1}
  <2>1. ASSUME NEW c \in Ap, Task(c) \/ ApStep(c)
        PROVE  overwrites' \in {overwrites, overwrites + 1}
    BY <2>1, ApCall
    DEF Task, TaskBegins, SumBegins, SumEnds, CallSpinLock, SpinLock, LoadResult, StoreResult,
        SpinUnlock, CoreDone, PrintDone, Finish, NoLongerReady, Return, ApStep, Identify, Booted,
        LookForFunc, LookForReady, ReadReady, CallFunc, ClearFunc, Halt, frames
  <2>2. CASE Task(Bsp)
    BY <2>2, BspTask
  <2>3. CASE BspStep
    BY <2>3, BspKeeps DEF frames
  <2> QED BY <2>1, <2>2, <2>3 DEF Next, CpuStep, Ap, vars, frames
<1>2. ~clobbered /\ Frames
  BY <1>1, Unclobbered DEF FramesInv
<1>3. Frames'
  <2>1. CASE UNCHANGED vars
    BY <1>2, <2>1 DEF vars, frames, Frames
  <2>2. CASE Task(Bsp)
    <3>1. stack' = stack /\ \A a \in Ap : pc'[a] = pc[a]
      BY <2>2, BspTask DEF Typed, Ap
    <3> QED BY <1>2, <3>1 DEF Frames
  <2>3. CASE BspStep
    BY <1>2, <2>3, FramesBsp
  <2>4. ASSUME NEW c \in Ap, Task(c) \/ ApStep(c) PROVE Frames'
    BY <2>4, ApSteps
  <2> QED BY <2>1, <2>2, <2>3, <2>4 DEF Next, CpuStep, Ap
<1> QED BY <1>2, <1>3

--------------------------------------------------------------------------------
(* The critical section.                                                     *)
InSection == {"locked", "load", "store", "unlock"}
Summed == {"lock", "spin", "locked", "load", "store"}

\* One CPU at most is between spin_lock and spin_unlock, the lock is set while
\* it is, what it has read is still there when it adds to it, and so is its sum.
Locked ==
  /\ \A c \in Cpu : pc[c] \in InSection => result_lock = 1
  /\ \A c, d \in Cpu : pc[c] \in InSection /\ pc[d] \in InSection => c = d
  /\ \A c \in Cpu : pc[c] = "store" => local[c] = shared_result
  /\ \A c \in Cpu : pc[c] \in Summed => local_result[StackOf(c)] = 1
  /\ shared_result = additions

LockInv == ~clobbered => Locked

(* A step elsewhere keeps it.                                                *)
LEMMA LockElsewhere ==
  ASSUME Locked, UNCHANGED <<task, local_result>>,
         \A c \in Cpu : /\ pc'[c] \in InSection => pc[c] \in InSection
                        /\ pc'[c] = "store" => pc[c] = "store"
                        /\ pc'[c] \in Summed => pc[c] \in Summed
  PROVE  Locked'
BY DEF Locked, task, StackOf

(* How a CPU comes to these places.                                          *)
LEMMA CpuMoves ==
  ASSUME Typed, FramesInv, ~clobbered', NEW c \in Cpu,
         Task(c) \/ (c # Bsp /\ ApStep(c))
  PROVE  /\ pc' = [pc EXCEPT ![c] = pc'[c]]
         /\ pc'[c] \in InSection => pc[c] \in InSection \cup {"spin", "lock"}
         /\ pc'[c] \in Summed => pc[c] \in Summed \cup {"summing"}
         /\ pc'[c] = "store" => pc[c] = "load"
<1>1. CASE c = Bsp
  BY <1>1, BspTask DEF InSection, Summed
<1>2. CASE c # Bsp
  BY <1>2, ApSteps DEF Ap, Edges, Within, Returns, CallSites, InSection, Summed
<1> QED BY <1>1, <1>2

LEMMA LockTask ==
  ASSUME Typed, FramesInv, Locked, ~clobbered, ~clobbered', NEW c \in Cpu, Task(c)
  PROVE  Locked'
<1>0. /\ pc' = [pc EXCEPT ![c] = pc'[c]]
      /\ pc'[c] \in InSection => pc[c] \in InSection \cup {"spin", "lock"}
      /\ pc'[c] \in Summed => pc[c] \in Summed \cup {"summing"}
      /\ pc'[c] = "store" => pc[c] = "load"
  BY CpuMoves
<1>1. \A d \in Cpu : d # c => pc'[d] = pc[d]
  BY <1>0 DEF Typed
<1>2. CASE SumBegins(c) \/ SumEnds(c)
  <2>1. /\ pc'[c] \notin InSection /\ pc'[c] # "store" /\ UNCHANGED task
        /\ pc[c] \in {"sum", "summing"}
        /\ \A s \in {"bsp", "aps"} : s # StackOf(c) => local_result'[s] = local_result[s]
    BY <1>2 DEF SumBegins, SumEnds, Goto, Typed, InSection
  <2>2. pc'[c] \in Summed => local_result'[StackOf(c)] = 1
    BY <1>2 DEF SumBegins, SumEnds, Goto, Typed, Summed, StackOf
  <2>3. ASSUME NEW d \in Cpu, d # c, pc[d] \in Summed PROVE StackOf(d) # StackOf(c)
    <3>1. CASE c \in Ap /\ d \in Ap
      BY <2>1, <2>3, <3>1 DEF FramesInv, Frames, AtTop, Summed
    <3>2. CASE c = Bsp \/ d = Bsp
      BY <2>3, <3>2 DEF StackOf
    <3> QED BY <3>1, <3>2 DEF Ap
  <2>4. \A d \in Cpu : StackOf(d) \in {"bsp", "aps"} /\ StackOf(d)' = StackOf(d)
    BY DEF StackOf
  <2>5. \A d \in Cpu : pc'[d] \in Summed => local_result'[StackOf(d)] = 1
    BY <1>1, <2>1, <2>2, <2>3, <2>4 DEF Locked
  <2>6. \A d \in Cpu : /\ pc'[d] \in InSection => pc[d] \in InSection
                       /\ pc'[d] = "store" => pc[d] = "store"
    BY <1>1, <2>1
  <2> QED BY <2>1, <2>4, <2>5, <2>6 DEF Locked, task
<1>3. CASE SpinLock(c)
  <2>1. /\ result_lock = 0 /\ result_lock' = 1 /\ pc[c] \in {"spin", "lock"}
        /\ pc'[c] \in {"locked", "load"}
        /\ UNCHANGED <<local, shared_result, additions, local_result>>
    BY <1>3 DEF SpinLock, Goto, Typed, frames
  <2>2. \A d \in Cpu : pc[d] \notin InSection
    BY <2>1 DEF Locked
  <2> QED BY <1>1, <2>1, <2>2 DEF Locked, InSection, Summed, StackOf
<1>4. CASE LoadResult(c)
  <2>1. /\ pc[c] = "load" /\ pc'[c] = "store" /\ local'[c] = shared_result
        /\ \A d \in Cpu : d # c => local'[d] = local[d]
        /\ UNCHANGED <<result_lock, shared_result, additions, local_result>>
    BY <1>4 DEF LoadResult, Goto, Typed, frames
  <2> QED BY <1>1, <2>1 DEF Locked, InSection, Summed, StackOf
<1>5. CASE StoreResult(c)
  <2>1. /\ pc[c] = "store" /\ pc'[c] = "unlock" /\ additions' = additions + 1
        /\ shared_result' = local[c] + local_result[StackOf(c)]
        /\ UNCHANGED <<result_lock, local, local_result>>
    BY <1>5 DEF StoreResult, Goto, Typed, frames
  <2>2. shared_result' = additions'
    BY <2>1 DEF Locked, Summed
  <2>3. \A d \in Cpu : d # c => pc'[d] # "store"
    BY <1>1, <2>1 DEF Locked, InSection
  <2> QED BY <1>1, <2>1, <2>2, <2>3 DEF Locked, InSection, Summed, StackOf
<1>6. CASE SpinUnlock(c)
  <2>1. /\ pc[c] = "unlock" /\ pc'[c] \in {"unlocked", "done"}
        /\ UNCHANGED <<local, shared_result, additions, local_result>>
    <3>1. pc[c] = "unlock" /\ pc'[c] \in {"unlocked", "done"}
      BY <1>6 DEF SpinUnlock, Call, Goto, Typed
    <3> QED BY <1>6, <3>1 DEF SpinUnlock
  <2>2. \A d \in Cpu : pc'[d] \notin InSection
    BY <1>1, <2>1 DEF Locked, InSection
  <2> QED BY <1>1, <2>1, <2>2 DEF Locked, InSection, Summed, StackOf
<1>7. CASE CoreDone(c)
  <2>1. /\ pc[c] = "done" /\ pc'[c] \in {"done_counted", "print"}
    BY <1>7 DEF CoreDone, Call, Goto, Typed
  <2>2. UNCHANGED <<result_lock, local, shared_result, additions, local_result>>
    BY <1>7 DEF CoreDone
  <2> QED BY <1>1, <2>1, <2>2 DEF Locked, InSection, Summed, StackOf
<1>8. CASE TaskBegins(c) \/ CallSpinLock(c) \/ PrintDone(c) \/ Finish(c) \/ NoLongerReady(c)
           \/ Return(c)
  <2>1. UNCHANGED <<task, local_result>>
    BY <1>8 DEF TaskBegins, CallSpinLock, PrintDone, Finish, NoLongerReady, Return, frames
  <2>2. pc[c] \in {"spin", "lock"} => pc'[c] = "spin"
    BY <1>8 DEF TaskBegins, CallSpinLock, PrintDone, Finish, NoLongerReady, Return, Returning,
                Call, Goto, Typed
  <2>3. pc[c] \notin {"summing"}
    BY <1>8 DEF TaskBegins, CallSpinLock, PrintDone, Finish, NoLongerReady, Return, Returning,
                Call, Goto
  <2>4. pc[c] # "load"
    BY <1>8 DEF TaskBegins, CallSpinLock, PrintDone, Finish, NoLongerReady, Return, Returning,
                Call, Goto
  <2> QED BY <1>0, <1>1, <2>1, <2>2, <2>3, <2>4, LockElsewhere DEF InSection
<1> QED BY <1>2, <1>3, <1>4, <1>5, <1>6, <1>7, <1>8 DEF Task

LEMMA LockStep ==
  ASSUME Typed, FramesInv, LockInv, [Next]_vars
  PROVE  LockInv'
<1> SUFFICES ASSUME ~clobbered' PROVE Locked'
  BY DEF LockInv
<1>1. ~clobbered /\ Locked /\ Frames
  BY FramesStep DEF LockInv
<1>2. CASE UNCHANGED vars
  BY <1>1, <1>2, LockElsewhere DEF vars, frames
<1>3. ASSUME NEW c \in Cpu, Task(c) PROVE Locked'
  BY <1>1, <1>3, LockTask
<1>4. CASE BspStep
  <2>1. \A c \in Cpu : pc'[c] \in InSection \cup Summed => pc'[c] = pc[c]
    BY <1>4, ModularAssumption
    DEF BspStep, SkipBsp, StartAp, ReadInitialCount, AwaitEnds, BootComplete, SetFunc, SetReady,
        SetFinished, EachTurn, EachEnds, Report, Goto, Typed, InSection, Summed
  <2>2. UNCHANGED <<task, local_result>>
    BY <1>4, BspKeeps DEF frames
  <2>3. \A c \in Cpu : /\ pc'[c] \in InSection => pc[c] \in InSection
                       /\ pc'[c] = "store" => pc[c] = "store"
                       /\ pc'[c] \in Summed => pc[c] \in Summed
    BY <2>1 DEF Summed
  <2> QED BY <1>1, <2>2, <2>3, LockElsewhere
<1>5. ASSUME NEW a \in Ap, ApStep(a) PROVE Locked'
  <2>1. UNCHANGED <<task, local_result>>
    BY <1>5 DEF ApStep, Identify, Booted, LookForFunc, LookForReady, ReadReady, CallFunc,
                ClearFunc, Halt, frames
  <2>2. /\ pc' = [pc EXCEPT ![a] = pc'[a]]
        /\ <<pc[a], pc'[a]>> \in Edges
    BY <1>5, ApSteps
  <2>3. pc[a] \in {"started", "identified", "look", "look_ready", "reading", "call", "clear",
                   "halt"}
    BY <1>5 DEF ApStep, Identify, Booted, LookForFunc, LookForReady, ReadReady, CallFunc,
                ClearFunc, Halt, Call, Goto
  <2>4. pc'[a] \notin InSection \cup Summed
    BY <2>2, <2>3 DEF Edges, Within, Returns, CallSites, InSection, Summed
  <2>5. \A c \in Cpu : c # a => pc'[c] = pc[c]
    BY <2>2 DEF Typed
  <2>6. \A c \in Cpu : /\ pc'[c] \in InSection => pc[c] \in InSection
                       /\ pc'[c] = "store" => pc[c] = "store"
                       /\ pc'[c] \in Summed => pc[c] \in Summed
    BY <2>4, <2>5 DEF Summed
  <2> QED BY <1>1, <2>1, <2>6, LockElsewhere
<1> QED BY <1>2, <1>3, <1>4, <1>5 DEF Next, CpuStep, Ap

--------------------------------------------------------------------------------
(* The APs and the pointer, whatever has been overwritten.                   *)
Booting == pc[Bsp] \in {"boot", "sent", "await"}
Starting == Booting \/ pc[Bsp] = "set_func"
Idle == {"parked", "started", "boot_id", "identified", "counted", "look", "halt", "halted"}
Off == {"parked", "halted"}

\* The pointer is 0 until on_each_cpu sets it, and APs in time have halted by
\* then.  Once it is 0 again a late AP has cleared it, and halts.  APs that
\* boot at once only send each other back to where they boot.
LateInv ==
  /\ dead \subseteq Ap /\ late \subseteq Ap
  /\ \A a \in dead : pc[a] = "parked"
  /\ Starting =>
       /\ ~global_func
       /\ \A a \in Ap : pc[a] \in Idle
       /\ \A a \in Ap : pc[a] \in {"boot_id", "counted"} => stack[1] \in {"identified", "look"}
  /\ ~Booting => \A a \in Ap : pc[a] \in Off \/ a \in late \ dead
  /\ \A a \in Ap : pc[a] = "null_call" => ~global_func
  /\ ~Starting /\ ~global_func => \E b \in late \ dead : pc[b] \in {"halt", "halted"}

LEMMA LateInit == Init => LateInv
BY ModularAssumption DEF Init, LateInv, Starting, Booting, Idle, Ap

(* What an AP does to what the others rely on.                               *)
LEMMA ApMoves ==
  ASSUME Typed, NEW a \in Ap, Task(a) \/ ApStep(a)
  PROVE  /\ pc' = [pc EXCEPT ![a] = pc'[a]]
         /\ pc[a] \notin Off \cup {"null_call"}
         /\ pc[a] = "halt" => pc'[a] = "halted"
         /\ UNCHANGED chance
         /\ pc'[a] = "null_call" => ~global_func
         /\ \/ UNCHANGED global_func
            \/ ~global_func' /\ pc'[a] = "halt" /\ pc[a] = "clear"
<1> USE ModularAssumption
<1>0. a \in Cpu /\ a # Bsp
  BY DEF Ap
<1>1. CASE TaskBegins(a) \/ CallSpinLock(a) \/ SpinUnlock(a) \/ CoreDone(a) \/ PrintDone(a)
  <2>1. UNCHANGED <<chance, global_func>>
    BY <1>1 DEF TaskBegins, CallSpinLock, SpinUnlock, CoreDone, PrintDone, call
  <2>2. \E from \in {"task", "lock", "unlock", "done", "print"},
           to \in {"task_id", "spin", "unlocked", "done_counted", "printed"} : Goto(a, from, to)
    BY <1>0, <1>1 DEF TaskBegins, CallSpinLock, SpinUnlock, CoreDone, PrintDone, Call
  <2> QED BY <1>0, <2>1, <2>2 DEF Goto, Typed, Off
<1>2. CASE SumBegins(a) \/ SumEnds(a)
  BY <1>0, <1>2 DEF SumBegins, SumEnds, Goto, Typed, Off, call
<1>3. CASE SpinLock(a) \/ LoadResult(a) \/ StoreResult(a)
  BY <1>0, <1>3 DEF SpinLock, LoadResult, StoreResult, Goto, Typed, Off, call
<1>4. CASE Finish(a) \/ NoLongerReady(a)
  <2>1. UNCHANGED <<chance, global_func>>
    BY <1>4 DEF Finish, NoLongerReady
  <2>2. \E from \in {"finish", "unready"}, to \in {"finished", "unreadied"} : Goto(a, from, to)
    BY <1>0, <1>4 DEF Finish, NoLongerReady, Call
  <2> QED BY <1>0, <2>1, <2>2 DEF Goto, Typed, Off
<1>5. CASE Return(a)
  <2>1. UNCHANGED <<chance, global_func>>
    BY <1>5 DEF Return, call
  <2> QED BY <1>0, <1>5, <2>1, ApReturn DEF Typed, Returning, Off, Addresses
<1>6. CASE Identify(a) \/ Booted(a) \/ LookForReady(a) \/ Halt(a)
  <2>1. UNCHANGED <<chance, global_func>>
    BY <1>6 DEF Identify, Booted, LookForReady, Halt, call
  <2>2. \/ \E from \in {"started", "identified", "look_ready"},
              to \in {"boot_id", "counted", "reading"} : Goto(a, from, to)
        \/ Goto(a, "halt", "halted")
    BY <1>0, <1>6 DEF Identify, Booted, LookForReady, Halt, Call
  <2> QED BY <1>0, <2>1, <2>2 DEF Goto, Typed, Off
<1>7. CASE LookForFunc(a) \/ ClearFunc(a)
  BY <1>0, <1>7 DEF LookForFunc, ClearFunc, Goto, Typed, Off, call
<1>8. CASE ReadReady(a)
  <2>1. UNCHANGED <<chance, global_func>>
    BY <1>8 DEF ReadReady, call
  <2> QED BY <1>0, <1>8, <2>1, ApReads DEF Typed, Off, Addresses
<1>9. CASE CallFunc(a)
  <2>1. UNCHANGED <<chance, global_func>>
    BY <1>9 DEF CallFunc, call
  <2>2. Goto(a, "call", IF global_func THEN "task" ELSE "null_call")
    BY <1>0, <1>9 DEF CallFunc, Call
  <2> QED BY <1>0, <2>1, <2>2 DEF Goto, Typed, Off
<1> QED BY <1>1, <1>2, <1>3, <1>4, <1>5, <1>6, <1>7, <1>8, <1>9 DEF Task, ApStep

(* While the pointer is not set yet an AP boots and halts.                   *)
LEMMA ApBoots ==
  ASSUME Typed, LateInv, Starting, NEW a \in Ap, Task(a) \/ ApStep(a)
  PROVE  /\ pc'[a] \in Idle
         /\ \A b \in Ap : pc'[b] \in {"boot_id", "counted"} => stack'[1] \in {"identified", "look"}
         /\ UNCHANGED <<idx, call, task, outcome, local_result>>
<1> USE ModularAssumption
<1>0. /\ a \in Cpu /\ a # Bsp /\ pc[a] \in Idle /\ ~global_func
      /\ \A b \in Ap : pc[b] \in {"boot_id", "counted"} => stack[1] \in {"identified", "look"}
  BY DEF LateInv, Ap
<1>1. CASE Identify(a)
  <2>1. pc' = [pc EXCEPT ![a] = "boot_id"] /\ stack' = [stack EXCEPT ![1] = "identified"]
    BY <1>1, ApCall DEF Identify
  <2> QED BY <1>0, <1>1, <2>1 DEF Identify, Typed, Idle
<1>2. CASE Booted(a)
  <2>1. pc' = [pc EXCEPT ![a] = "counted"] /\ stack' = [stack EXCEPT ![1] = "look"]
    BY <1>2, ApCall DEF Booted
  <2> QED BY <1>0, <1>2, <2>1 DEF Booted, Typed, Idle
<1>3. CASE LookForFunc(a)
  <2>1. pc' = [pc EXCEPT ![a] = "halt"]
    BY <1>0, <1>3 DEF LookForFunc, Goto
  <2> QED BY <1>0, <1>3, <2>1 DEF LookForFunc, Typed, Idle, frames, Ap
<1>4. CASE Halt(a)
  <2>1. pc' = [pc EXCEPT ![a] = "halted"] /\ stack' = [stack EXCEPT ![1] = "look"]
    BY <1>4, ApCall DEF Halt
  <2> QED BY <1>0, <1>4, <2>1 DEF Halt, Typed, Idle
<1>5. CASE Return(a)
  <2>1. PICK depth \in 1 .. 2, to \in Addresses \cup {"call", "halt"} :
          /\ pc[a] \in Returning[depth]
          /\ pc' = [pc EXCEPT ![a] = to]
          /\ stack[depth] # "ready" => to = stack[depth]
    BY <1>5, ApReturn
  <2>2. depth = 1 /\ pc[a] \in {"boot_id", "counted"}
    BY <1>0, <2>1 DEF Returning, Idle
  <2>3. to \in {"identified", "look"}
    BY <1>0, <2>1, <2>2
  <2>4. UNCHANGED <<stack, idx, call, task, outcome, local_result>>
    BY <1>5 DEF Return, frames
  <2> QED BY <1>0, <2>1, <2>3, <2>4 DEF Typed, Idle, Ap
<1>6. ~ (TaskBegins(a) \/ CallSpinLock(a) \/ SpinUnlock(a) \/ CoreDone(a) \/ PrintDone(a)
         \/ Finish(a) \/ NoLongerReady(a))
  BY <1>0 DEF TaskBegins, CallSpinLock, SpinUnlock, CoreDone, PrintDone, Finish, NoLongerReady,
              Call, Goto, Idle
<1>7. ~ (SumBegins(a) \/ SumEnds(a) \/ SpinLock(a) \/ LoadResult(a) \/ StoreResult(a)
         \/ ClearFunc(a) \/ ReadReady(a))
  BY <1>0 DEF SumBegins, SumEnds, SpinLock, LoadResult, StoreResult, ClearFunc, ReadReady, Goto,
              Idle
<1>8. ~ (LookForReady(a) \/ CallFunc(a))
  BY <1>0 DEF LookForReady, CallFunc, Call, Goto, Idle
<1> QED BY <1>1, <1>2, <1>3, <1>4, <1>5, <1>6, <1>7, <1>8 DEF Task, ApStep

LEMMA LateAp ==
  ASSUME Typed, LateInv, NEW a \in Ap, Task(a) \/ ApStep(a)
  PROVE  LateInv'
<1>0. a \in Cpu /\ a # Bsp
  BY DEF Ap
<1>1. /\ pc' = [pc EXCEPT ![a] = pc'[a]]
      /\ pc[a] \notin Off \cup {"null_call"}
      /\ pc[a] = "halt" => pc'[a] = "halted"
      /\ UNCHANGED chance
      /\ pc'[a] = "null_call" => ~global_func
      /\ \/ UNCHANGED global_func
         \/ ~global_func' /\ pc'[a] = "halt" /\ pc[a] = "clear"
  BY ApMoves
<1>2. pc'[Bsp] = pc[Bsp] /\ \A b \in Ap : b # a => pc'[b] = pc[b]
  BY <1>0, <1>1, ModularAssumption DEF Typed, Ap
<1>3. dead' = dead /\ late' = late /\ a \notin dead
  BY <1>1 DEF chance, LateInv, Off
<1>4. CASE Starting
  <2>1. /\ pc'[a] \in Idle /\ global_func' = global_func
        /\ \A b \in Ap : pc'[b] \in {"boot_id", "counted"} => stack'[1] \in {"identified", "look"}
    BY <1>4, ApBoots DEF call
  <2> QED BY <1>1, <1>2, <1>3, <1>4, <2>1 DEF LateInv, Starting, Booting, Idle, Off
<1>5. CASE ~Starting
  <2>1. a \in late \ dead
    BY <1>1, <1>5 DEF LateInv, Starting, Off
  <2>2. ~global_func' => \E b \in late \ dead : pc'[b] \in {"halt", "halted"}
    <3>1. CASE global_func' = global_func
      BY <1>1, <1>2, <1>5, <3>1 DEF LateInv, Off
    <3>2. CASE pc'[a] = "halt"
      BY <2>1, <3>2
    <3> QED BY <1>1, <3>1, <3>2
  <2>3. \A b \in Ap : pc'[b] = "null_call" => ~global_func'
    BY <1>1, <1>2 DEF LateInv
  <2> QED BY <1>2, <1>3, <1>5, <2>1, <2>2, <2>3 DEF LateInv, Starting, Booting
<1> QED BY <1>4, <1>5

LEMMA LateBspTask ==
  ASSUME Typed, LateInv, Task(Bsp)
  PROVE  LateInv'
<1>1. /\ pc[Bsp] \notin {"boot", "sent", "await", "set_func"}
      /\ pc'[Bsp] \notin {"boot", "sent", "await", "set_func"}
      /\ \A a \in Ap : pc'[a] = pc[a]
  BY BspTask DEF Ap, Typed
<1>2. UNCHANGED <<global_func, chance>>
  BY DEF Task, TaskBegins, SumBegins, SumEnds, CallSpinLock, SpinLock, LoadResult, StoreResult,
         SpinUnlock, CoreDone, PrintDone, Finish, NoLongerReady, Return, call
<1> QED BY <1>1, <1>2 DEF LateInv, Starting, Booting, chance

LEMMA LateBsp ==
  ASSUME Typed, LateInv, BspStep
  PROVE  LateInv'
<1> USE ModularAssumption DEF Goto, Starting
<1>0. stack' = stack
  BY BspKeeps DEF frames
<1>1. CASE SkipBsp
  BY <1>0, <1>1 DEF SkipBsp, LateInv, Booting, call, chance
<1>2. CASE StartAp
  <2>1. /\ pc[Bsp] = "boot" /\ pc'[Bsp] = "sent" /\ idx \in Ap
        /\ pc'[idx] = (IF idx \in dead THEN "parked" ELSE "started")
        /\ \A a \in Ap : a # idx => pc'[a] = pc[a]
        /\ UNCHANGED <<global_func, dead, late>>
    BY <1>2 DEF StartAp, Typed, Ap, call, chance
  <2> QED BY <1>0, <2>1 DEF LateInv, Booting, Idle
<1>3. CASE ReadInitialCount \/ AwaitEnds
  BY <1>0, <1>3 DEF ReadInitialCount, AwaitEnds, LateInv, Booting, Typed, Ap, call, chance
<1>4. CASE BootComplete
  <2>1. \A a \in Ap : pc[a] \in Off \/ a \in late \ dead
    BY <1>4 DEF BootComplete, InTimeHalted, LateInv, Off
  <2>2. /\ pc'[Bsp] = "set_func" /\ pc[Bsp] = "boot" /\ \A a \in Ap : pc'[a] = pc[a]
        /\ UNCHANGED <<global_func, dead, late>>
    BY <1>4 DEF BootComplete, Typed, Ap, call, chance
  <2> QED BY <1>0, <2>1, <2>2 DEF LateInv, Booting
<1>5. CASE SetFunc
  BY <1>0, <1>5 DEF SetFunc, LateInv, Booting, Idle, Typed, Ap, chance
<1>6. CASE SetReady \/ SetFinished \/ EachTurn \/ EachEnds \/ Report
  <2>1. /\ pc' = [pc EXCEPT ![Bsp] = pc'[Bsp]]
        /\ pc'[Bsp] \notin {"boot", "sent", "await", "set_func"}
    BY <1>6 DEF SetReady, SetFinished, EachTurn, EachEnds, Report, Typed
  <2>2. UNCHANGED <<global_func, chance>> /\ ~Booting /\ pc[Bsp] # "set_func"
    BY <1>6 DEF SetReady, SetFinished, EachTurn, EachEnds, Report, Booting, call
  <2> QED BY <1>0, <2>1, <2>2 DEF LateInv, Booting, Typed, Ap, chance
<1> QED BY <1>1, <1>2, <1>3, <1>4, <1>5, <1>6 DEF BspStep

LEMMA LateStep ==
  ASSUME Typed, LateInv, [Next]_vars
  PROVE  LateInv'
<1>1. CASE UNCHANGED vars
  BY <1>1 DEF vars, call, chance, frames, LateInv, Starting, Booting
<1>2. CASE Task(Bsp)
  BY <1>2, LateBspTask
<1>3. CASE BspStep
  BY <1>3, LateBsp
<1>4. ASSUME NEW a \in Ap, Task(a) \/ ApStep(a) PROVE LateInv'
  BY <1>4, LateAp
<1> QED BY <1>1, <1>2, <1>3, <1>4 DEF Next, CpuStep, Ap

--------------------------------------------------------------------------------
ModularInv == Typed /\ FramesInv /\ LockInv /\ LateInv

(* The initial state satisfies the invariant.                                *)
LEMMA ModularInit == Init => ModularInv
<1> SUFFICES ASSUME Init PROVE ModularInv
  OBVIOUS
<1>1. Typed /\ LateInv
  BY TypedInit, LateInit
<1>2. FramesInv
  BY DEF Init, FramesInv, Frames, AtTop, Returning, InTask, Ap
<1>3. LockInv
  BY DEF Init, LockInv, Locked, InSection, Summed
<1> QED BY <1>1, <1>2, <1>3 DEF ModularInv

(* Every step keeps the invariant.                                           *)
LEMMA ModularStep == ModularInv /\ [Next]_vars => ModularInv'
<1> SUFFICES ASSUME ModularInv, [Next]_vars PROVE ModularInv'
  OBVIOUS
<1>1. Typed'
  BY TypedStep DEF ModularInv
<1>2. FramesInv'
  BY FramesStep DEF ModularInv, FramesInv
<1>3. LockInv'
  BY LockStep DEF ModularInv
<1>4. LateInv'
  BY LateStep DEF ModularInv
<1> QED BY <1>1, <1>2, <1>3, <1>4 DEF ModularInv

(* The invariant holds in every reachable state.                             *)
LEMMA ModularInvariant == Spec => []ModularInv
<1> QED BY ModularInit, ModularStep, PTL DEF Spec

--------------------------------------------------------------------------------
(* The spin lock of sync.c loses no addition to shared_result, whichever APs *)
(* run computation_task beside the BSP, until two of them have been in a     *)
(* call at once on the one stack main.c gives them.                          *)
THEOREM ModularLockProtects == Spec => []LockProtects
<1>1. ModularInv => LockProtects
  BY DEF ModularInv, LockInv, Locked, LockProtects
<1> QED BY <1>1, ModularInvariant, PTL

(* An AP calls through the cleared global_func of ap_boot_complete only if   *)
(* two working APs outlast the delays of smp_boot_aps: itself, and the one   *)
(* that has cleared it.                                                      *)
THEOREM ModularNullCallNeedsTwo == Spec => []NullCallNeedsTwo
<1>1. ModularInv => NullCallNeedsTwo
  <2> SUFFICES ASSUME ModularInv, NEW a \in Ap, pc[a] = "null_call"
               PROVE  Cardinality(late \ dead) >= 2
    BY DEF NullCallNeedsTwo
  <2>1. a \in late \ dead /\ ~Starting /\ ~global_func
    BY DEF ModularInv, LateInv, Starting, Idle, Off
  <2>2. PICK b \in late \ dead : pc[b] \in {"halt", "halted"}
    BY <2>1 DEF ModularInv, LateInv
  <2>3. IsFiniteSet(late \ dead)
    <3>1. IsFiniteSet(Cpu)
      BY FS_Interval, ModularAssumption DEF Cpu
    <3>2. late \ dead \in SUBSET Cpu
      BY DEF ModularInv, LateInv, Ap
    <3> QED BY <3>1, <3>2, FS_Subset
  <2>4. Cardinality({a, b}) = 2
    <3>1. {a, b} = {a} \cup {b} /\ b \notin {a}
      BY <2>2
    <3>2. IsFiniteSet({a}) /\ Cardinality({a}) = 1
      BY FS_Singleton
    <3>3. Cardinality({a} \cup {b}) = Cardinality({a}) + 1
      BY <3>1, <3>2, FS_AddElement
    <3> QED BY <3>1, <3>2, <3>3
  <2>5. Cardinality({a, b}) <= Cardinality(late \ dead)
    BY <2>1, <2>2, <2>3, FS_Subset
  <2>6. Cardinality(late \ dead) \in Nat
    BY <2>3, FS_CardinalityType
  <2> QED BY <2>4, <2>5, <2>6
<1> QED BY <1>1, ModularInvariant, PTL

--------------------------------------------------------------------------------
(* Nobody late: one AP runs at a time.                                       *)
OneRuns ==
  late = {} =>
    /\ overwrites = 0
    /\ \A a, b \in Ap : pc[a] \notin Off /\ pc[b] \notin Off => a = b

LEMMA OneRunsStep ==
  ASSUME ModularInv, OneRuns, [Next]_vars
  PROVE  OneRuns'
<1> SUFFICES ASSUME late' = {} PROVE OneRuns'
  BY DEF OneRuns
<1> USE ModularAssumption DEF ModularInv
<1>1. CASE UNCHANGED vars
  BY <1>1 DEF vars, chance, frames, OneRuns
<1>2. CASE Task(Bsp)
  <2>1. UNCHANGED chance
    BY <1>2 DEF Task, TaskBegins, SumBegins, SumEnds, CallSpinLock, SpinLock, LoadResult,
                StoreResult, SpinUnlock, CoreDone, PrintDone, Finish, NoLongerReady, Return
  <2>2. overwrites' = overwrites /\ \A a \in Ap : pc'[a] = pc[a]
    BY <1>2, BspTask DEF Typed, Ap
  <2> QED BY <2>1, <2>2 DEF OneRuns, chance
<1>3. CASE BspStep
  <2>1. UNCHANGED <<chance, overwrites>>
    BY <1>3, BspKeeps DEF frames
  <2>2. CASE StartAp
    <3>1. \A a \in Ap : pc[a] \in Off
      BY <2>1, <2>2 DEF StartAp, InTimeHalted, LateInv, Off, chance
    <3>2. \A a \in Ap : a # idx => pc'[a] = pc[a]
      BY <2>2 DEF StartAp, Typed, Ap
    <3> QED BY <2>1, <3>1, <3>2 DEF OneRuns, chance
  <2>3. CASE ~StartAp
    <3>1. \A a \in Ap : pc'[a] = pc[a]
      BY <1>3, <2>3
      DEF BspStep, SkipBsp, ReadInitialCount, AwaitEnds, BootComplete, SetFunc, SetReady,
          SetFinished, EachTurn, EachEnds, Report, Goto, Typed, Ap
    <3> QED BY <2>1, <3>1 DEF OneRuns, chance
  <2> QED BY <2>2, <2>3
<1>4. ASSUME NEW a \in Ap, Task(a) \/ ApStep(a) PROVE OneRuns'
  <2>1. /\ pc' = [pc EXCEPT ![a] = pc'[a]] /\ pc[a] \notin Off /\ UNCHANGED chance
    BY <1>4, ApMoves
  <2>2. \A b \in Ap : b # a => pc'[b] = pc[b] /\ pc[b] \in Off
    BY <2>1 DEF OneRuns, Typed, Ap, chance
  <2>3. \A b \in Ap \ {a} : pc[b] \in AtTop
    BY <2>2 DEF Off, AtTop
  <2>4. ASSUME NEW depth \in 1 .. 2, NEW from, NEW callee, NEW back,
               Call(a, depth, from, callee, back)
        PROVE  overwrites' = overwrites
    BY <2>3, <2>4 DEF Call, Ap
  <2>5. overwrites' = overwrites
    BY <1>4, <2>4
    DEF Task, TaskBegins, SumBegins, SumEnds, CallSpinLock, SpinLock, LoadResult, StoreResult,
        SpinUnlock, CoreDone, PrintDone, Finish, NoLongerReady, Return, ApStep, Identify, Booted,
        LookForFunc, LookForReady, ReadReady, CallFunc, ClearFunc, Halt, frames
  <2> QED BY <2>1, <2>2, <2>5 DEF OneRuns, chance
<1> QED BY <1>1, <1>2, <1>3, <1>4 DEF Next, CpuStep, Ap

LEMMA OneRunsInit == Init => OneRuns
BY DEF Init, OneRuns, Off, Ap

(* One stack for all APs is enough if smp_boot_aps has waited with each for  *)
(* the one before it to halt: no AP then finds the frame of another on it.   *)
THEOREM ModularInTimeStack == Spec => []InTimeStack
<1>1. OneRuns => InTimeStack
  BY DEF OneRuns, InTimeStack, clobbered
<1> QED BY <1>1, ModularInit, ModularStep, OneRunsInit, OneRunsStep, PTL DEF Spec

--------------------------------------------------------------------------------
(* Nobody late: the BSP goes through the task cpu_count times, alone.        *)

Setting == {"boot", "sent", "await", "set_func", "set_ready", "set_finished"}

\* The BSP's places in a turn, up to each of the things it counts
ToAdd == {"task", "sum", "summing", "lock", "load", "store"}
ToDone == ToAdd \cup {"unlock", "done"}
ToFinish == ToDone \cup {"print", "leave", "finish"}
Turn == ToFinish \cup {"unready"}

\* The turns of the loop whose task is past these places
Through(places) == IF pc[Bsp] \in places THEN idx - 1 ELSE idx

Before ==
  /\ pc[Bsp] \in Setting
  /\ shared_result = 0 /\ cores_done = 0 /\ result_lock = 0 /\ outcome = "none"
  /\ pc[Bsp] = "set_finished" => cpus_ready = CpuCount

Calling ==
  /\ pc[Bsp] \in Turn \cup {"each", "await_done", "halted"}
  /\ idx \in 0 .. CpuCount
  /\ pc[Bsp] \in {"await_done", "halted"} => idx = CpuCount
  /\ shared_result = Through(ToAdd)
  /\ cores_done = Through(ToDone)
  /\ cpus_finished = Through(ToFinish)
  /\ cpus_ready = CpuCount - Through(Turn)
  /\ result_lock = IF pc[Bsp] \in InSection THEN 1 ELSE 0
  /\ outcome = IF pc[Bsp] = "halted" THEN "success" ELSE "none"

InTimeInv == late = {} => Before \/ Calling

LEMMA InTimeTask ==
  ASSUME Typed, Locked, Calling, Task(Bsp)
  PROVE  Calling'
<1> USE ModularAssumption DEF Through, Turn, ToFinish, ToDone, ToAdd, InSection
<1>0. pc' = [pc EXCEPT ![Bsp] = pc'[Bsp]]
  BY BspTask
<1>1. CASE TaskBegins(Bsp) \/ SumBegins(Bsp) \/ SumEnds(Bsp) \/ CallSpinLock(Bsp)
           \/ PrintDone(Bsp) \/ Return(Bsp)
  <2>1. UNCHANGED <<idx, call, task, outcome>>
    BY <1>1 DEF TaskBegins, SumBegins, SumEnds, CallSpinLock, PrintDone, Return
  <2>2. <<pc[Bsp], pc'[Bsp]>> \in {<<"task", "sum">>, <<"sum", "summing">>, <<"summing", "lock">>,
                                  <<"print", "leave">>, <<"leave", "finish">>}
    BY <1>1 DEF TaskBegins, SumBegins, SumEnds, CallSpinLock, PrintDone, Return, Call, Goto, Typed
  <2> QED BY <2>1, <2>2 DEF Calling, call, task
<1>2. CASE SpinLock(Bsp)
  BY <1>2 DEF SpinLock, Calling, Goto, Typed, call
<1>3. CASE LoadResult(Bsp)
  BY <1>3 DEF LoadResult, Calling, Goto, Typed, call
<1>4. CASE StoreResult(Bsp)
  <2>1. shared_result' = shared_result + 1
    BY <1>4 DEF StoreResult, Goto, Locked, Summed, Typed
  <2> QED BY <1>4, <2>1 DEF StoreResult, Calling, Goto, Typed, call
<1>5. CASE SpinUnlock(Bsp)
  <2>1. pc[Bsp] = "unlock" /\ pc'[Bsp] = "done"
    BY <1>5 DEF SpinUnlock, Call, Goto, Typed
  <2> QED BY <1>5, <2>1 DEF SpinUnlock, Calling, call
<1>6. CASE CoreDone(Bsp)
  <2>1. pc[Bsp] = "done" /\ pc'[Bsp] = "print"
    BY <1>6 DEF CoreDone, Call, Goto, Typed
  <2> QED BY <1>6, <2>1 DEF CoreDone, Calling, call
<1>7. CASE Finish(Bsp)
  <2>1. pc[Bsp] = "finish" /\ pc'[Bsp] = "unready"
    BY <1>7 DEF Finish, Call, Goto, Typed
  <2> QED BY <1>7, <2>1 DEF Finish, Calling, task
<1>8. CASE NoLongerReady(Bsp)
  <2>1. pc[Bsp] = "unready" /\ pc'[Bsp] = "each"
    BY <1>8 DEF NoLongerReady, Call, Goto, Typed
  <2> QED BY <1>8, <2>1 DEF NoLongerReady, Calling, task
<1> QED BY <1>1, <1>2, <1>3, <1>4, <1>5, <1>6, <1>7, <1>8 DEF Task

LEMMA InTimeBsp ==
  ASSUME Typed, BspStep, Before \/ Calling
  PROVE  (Before \/ Calling)'
<1> USE ModularAssumption DEF Goto, Typed, Turn, ToFinish, ToDone, ToAdd
<1>1. CASE SkipBsp \/ StartAp \/ ReadInitialCount \/ AwaitEnds \/ BootComplete \/ SetFunc
  <2>1. /\ pc[Bsp] \in {"boot", "sent", "await", "set_func"}
        /\ pc'[Bsp] \in {"boot", "sent", "await", "set_func", "set_ready"}
        /\ UNCHANGED <<task, outcome>>
    BY <1>1 DEF SkipBsp, StartAp, ReadInitialCount, AwaitEnds, BootComplete, SetFunc, Ap
  <2> QED BY <2>1 DEF Before, Calling, Setting, task
<1>2. CASE SetReady
  BY <1>2 DEF SetReady, Before, Calling, Setting, task
<1>3. CASE SetFinished
  BY <1>3 DEF SetFinished, Before, Calling, Setting, InSection, Through, task
<1>4. CASE EachTurn
  <2>1. Calling /\ cpus_ready = CpuCount - idx /\ idx < CpuCount /\ idx \in Nat
    BY <1>4 DEF EachTurn, Before, Calling, Setting, Through
  <2>2. pc'[Bsp] = "task" /\ idx' = idx + 1 /\ pc[Bsp] = "each" /\ UNCHANGED <<call, task, outcome>>
    BY <1>4, <2>1 DEF EachTurn
  <2> QED BY ONLY <2>1, <2>2, ModularAssumption
           DEF Turn, ToFinish, ToDone, ToAdd, Calling, Through, InSection, call, task
<1>5. CASE EachEnds
  <2>1. Calling /\ pc[Bsp] = "each" /\ pc'[Bsp] = "await_done" /\ idx = CpuCount
        /\ UNCHANGED <<idx, call, task, outcome>>
    BY <1>5 DEF EachEnds, Before, Setting
  <2> QED BY ONLY <2>1 DEF Turn, ToFinish, ToDone, ToAdd, Calling, Through, InSection, call, task
<1>6. CASE Report
  <2>1. Calling /\ pc[Bsp] = "await_done" /\ pc'[Bsp] = "halted"
        /\ outcome' = (IF shared_result = CpuCount THEN "success" ELSE "mismatch")
        /\ UNCHANGED <<idx, call, task>>
    BY <1>6 DEF Report, Before, Setting
  <2>2. idx = CpuCount /\ shared_result = CpuCount
    BY <2>1 DEF Calling, Through
  <2> QED BY ONLY <2>1, <2>2
           DEF Turn, ToFinish, ToDone, ToAdd, Calling, Through, InSection, call, task
<1> QED BY <1>1, <1>2, <1>3, <1>4, <1>5, <1>6 DEF BspStep

LEMMA InTimeStep ==
  ASSUME ModularInv, OneRuns, InTimeInv, [Next]_vars
  PROVE  InTimeInv'
<1> SUFFICES ASSUME late' = {} PROVE (Before \/ Calling)'
  BY DEF InTimeInv
<1>1. CASE UNCHANGED vars
  BY <1>1 DEF vars, call, task, chance, InTimeInv, Before, Calling, Through
<1>2. CASE Task(Bsp)
  <2>1. late' = late
    BY <1>2 DEF Task, TaskBegins, SumBegins, SumEnds, CallSpinLock, SpinLock, LoadResult,
                StoreResult, SpinUnlock, CoreDone, PrintDone, Finish, NoLongerReady, Return, chance
  <2>2. pc[Bsp] \in Turn
    BY <1>2, BspTask DEF ModularInv, Turn, ToFinish, ToDone, ToAdd
  <2>3. Calling
    BY <2>1, <2>2 DEF InTimeInv, Before, Setting, Turn, ToFinish, ToDone, ToAdd
  <2>4. Locked
    BY <2>1 DEF OneRuns, ModularInv, LockInv, clobbered
  <2> QED BY <1>2, <2>3, <2>4, InTimeTask DEF ModularInv
<1>3. CASE BspStep
  <2>1. late' = late
    BY <1>3, BspKeeps DEF chance
  <2> QED BY <1>3, <2>1, InTimeBsp DEF ModularInv, InTimeInv
<1>4. ASSUME NEW a \in Ap, Task(a) \/ ApStep(a) PROVE (Before \/ Calling)'
  <2>1. /\ pc' = [pc EXCEPT ![a] = pc'[a]] /\ pc[a] \notin Off /\ late' = late
    BY <1>4, ApMoves DEF ModularInv, chance
  <2>2. Starting
    BY <2>1 DEF ModularInv, LateInv, Starting, Off
  <2>3. UNCHANGED <<idx, call, task, outcome>>
    BY <1>4, <2>2, ApBoots DEF ModularInv
  <2>4. pc'[Bsp] = pc[Bsp]
    BY <2>1, ModularAssumption DEF ModularInv, Typed, Ap
  <2>5. Before \/ Calling
    BY <2>1 DEF InTimeInv
  <2> QED BY ONLY <2>3, <2>4, <2>5 DEF Before, Calling, Through, call, task
<1> QED BY <1>1, <1>2, <1>3, <1>4 DEF Next, CpuStep, Ap

(* With no AP late, on_each_cpu has the BSP run all tasks itself; none of its *)
(* waits lasts for ever, and main.c reports success, whichever APs failed.   *)
THEOREM ModularInTime == Spec => []InTimeNeverStuck
<1>1. Init => InTimeInv
  BY ModularAssumption DEF Init, InTimeInv, Before, Setting
<1>2. ModularInv /\ OneRuns /\ InTimeInv /\ [Next]_vars => (ModularInv /\ OneRuns /\ InTimeInv)'
  BY ModularStep, OneRunsStep, InTimeStep
<1>3. InTimeInv => InTimeNeverStuck
  <2> SUFFICES ASSUME late = {}, Before \/ Calling
               PROVE  /\ pc[Bsp] = "lock" => result_lock = 0
                      /\ pc[Bsp] = "each" /\ idx = CpuCount => cpus_finished >= CpuCount
                      /\ pc[Bsp] = "await_done" => cores_done >= CpuCount
                      /\ outcome # "none" => outcome = "success"
    BY DEF InTimeInv, InTimeNeverStuck
  <2>1. CASE Before
    BY <2>1 DEF Before, Setting
  <2>2. CASE Calling
    BY <2>2, ModularAssumption DEF Calling, Through, InSection, ToDone, ToFinish, ToAdd
  <2> QED BY <2>1, <2>2
<1> QED BY <1>1, <1>2, <1>3, ModularInit, OneRunsInit, PTL DEF Spec

--------------------------------------------------------------------------------
(* The two counters of the task: what is added is soon counted as done.      *)
AddedAt == {"unlock", "unlocked", "done"}
Added == {c \in Cpu : pc[c] \in AddedAt}

Counted ==
  /\ cores_done \in Int
  /\ additions = cores_done + Cardinality(Added)
  /\ outcome # "none" => additions >= CpuCount

DoneInv == ~clobbered => Counted

LEMMA AddedFinite == IsFiniteSet(Added) /\ Cardinality(Added) \in Nat
<1>1. IsFiniteSet(Cpu) /\ Added \subseteq Cpu
  BY FS_Interval, ModularAssumption DEF Cpu, Added
<1> QED BY <1>1, FS_Subset, FS_CardinalityType

(* A step that neither adds nor counts keeps them.                           *)
LEMMA DoneStays ==
  ASSUME Typed, Counted, UNCHANGED <<additions, cores_done>>,
         \A c \in Cpu : pc'[c] \in AddedAt <=> pc[c] \in AddedAt,
         outcome' = outcome \/ cores_done >= CpuCount
  PROVE  Counted'
<1>1. Added' = Added
  BY DEF Added
<1>2. cores_done <= additions
  BY AddedFinite DEF Counted, Typed
<1> QED BY <1>1, <1>2, ModularAssumption DEF Counted, Typed

\* One CPU moves between two places, both before or both behind an addition.
LEMMA DoneMoves ==
  ASSUME Typed, Counted, NEW c \in Cpu, pc' = [pc EXCEPT ![c] = pc'[c]],
         pc'[c] \in AddedAt <=> pc[c] \in AddedAt,
         UNCHANGED <<additions, cores_done, outcome>>
  PROVE  Counted'
<1>1. \A d \in Cpu : pc'[d] \in AddedAt <=> pc[d] \in AddedAt
  BY DEF Typed
<1> QED BY <1>1, DoneStays

LEMMA DoneTask ==
  ASSUME Typed, FramesInv, Counted, ~clobbered', NEW c \in Cpu,
         Task(c) \/ (c # Bsp /\ ApStep(c))
  PROVE  Counted'
<1>0. /\ pc' = [pc EXCEPT ![c] = pc'[c]]
      /\ <<pc[c], pc'[c]>> \in Edges \cup
           {<<"task", "sum">>, <<"sum", "summing">>, <<"summing", "lock">>,
            <<"lock", "load">>, <<"load", "store">>, <<"store", "unlock">>,
            <<"unlock", "done">>, <<"done", "print">>, <<"print", "leave">>,
            <<"leave", "finish">>, <<"finish", "unready">>, <<"unready", "each">>}
  <2>1. CASE c = Bsp
    BY <2>1, BspTask
  <2>2. CASE c # Bsp
    BY <2>2, ApSteps DEF Ap
  <2> QED BY <2>1, <2>2
<1>1. CASE StoreResult(c)
  <2>1. pc[c] = "store" /\ pc'[c] = "unlock"
    BY <1>1 DEF StoreResult, Goto, Typed
  <2>2. c \notin Added /\ Added' = Added \cup {c}
    BY <1>0, <2>1 DEF Added, AddedAt, Typed
  <2>3. Cardinality(Added') = Cardinality(Added) + 1
    BY <2>2, AddedFinite, FS_AddElement
  <2>4. additions' = additions + 1 /\ cores_done' = cores_done /\ outcome' = outcome
    BY <1>1 DEF StoreResult
  <2> QED BY <2>3, <2>4, AddedFinite, ModularAssumption DEF Counted, Typed
<1>2. CASE CoreDone(c)
  <2>1. pc[c] = "done" /\ pc'[c] \in {"done_counted", "print"}
    BY <1>2 DEF CoreDone, Call, Goto, Typed
  <2>2. c \in Added /\ Added' = Added \ {c}
    BY <1>0, <2>1 DEF Added, AddedAt, Typed
  <2>3. Cardinality(Added') = Cardinality(Added) - 1
    BY <2>2, AddedFinite, FS_RemoveElement
  <2>4. additions' = additions /\ cores_done' = cores_done + 1 /\ outcome' = outcome
    BY <1>2 DEF CoreDone
  <2> QED BY <2>3, <2>4, AddedFinite DEF Counted, Typed
<1>3. CASE Task(c) /\ ~StoreResult(c) /\ ~CoreDone(c)
  <2>1. UNCHANGED <<additions, cores_done, outcome>>
    BY <1>3 DEF Task, TaskBegins, SumBegins, SumEnds, CallSpinLock, SpinLock, LoadResult,
                SpinUnlock, PrintDone, Finish, NoLongerReady, Return, task
  <2>2. pc[c] \notin {"store", "done"}
    BY <1>3 DEF Task, TaskBegins, SumBegins, SumEnds, CallSpinLock, SpinLock, LoadResult,
                SpinUnlock, PrintDone, Finish, NoLongerReady, Return, Returning, Call, Goto
  <2>3. pc'[c] \in AddedAt <=> pc[c] \in AddedAt
    BY <1>0, <2>2 DEF Edges, Within, Returns, CallSites, AddedAt
  <2> QED BY <1>0, <2>1, <2>3, DoneMoves
<1>4. CASE c # Bsp /\ ApStep(c)
  <2>1. UNCHANGED <<additions, cores_done, outcome>>
    BY <1>4 DEF ApStep, Identify, Booted, LookForFunc, LookForReady, ReadReady, CallFunc,
                ClearFunc, Halt, task
  <2>2. pc[c] \notin {"store", "done"}
    BY <1>4 DEF ApStep, Identify, Booted, LookForFunc, LookForReady, ReadReady, CallFunc,
                ClearFunc, Halt, Call, Goto
  <2>3. pc'[c] \in AddedAt <=> pc[c] \in AddedAt
    BY <1>0, <2>2 DEF Edges, Within, Returns, CallSites, AddedAt
  <2> QED BY <1>0, <2>1, <2>3, DoneMoves
<1> QED BY <1>1, <1>2, <1>3, <1>4

LEMMA DoneStep ==
  ASSUME ModularInv, DoneInv, [Next]_vars
  PROVE  DoneInv'
<1> SUFFICES ASSUME ~clobbered' PROVE Counted'
  BY DEF DoneInv
<1>1. Counted /\ Typed /\ FramesInv /\ LateInv
  BY FramesStep DEF ModularInv, DoneInv
<1>2. CASE UNCHANGED vars
  BY <1>1, <1>2, DoneStays DEF vars, task
<1>3. ASSUME NEW c \in Cpu, Task(c) \/ (c # Bsp /\ ApStep(c)) PROVE Counted'
  BY <1>1, <1>3, DoneTask
<1>4. CASE BspStep
  <2>1. UNCHANGED <<additions, cores_done>>
    BY <1>4, BspKeeps DEF task
  <2>2. outcome' = outcome \/ cores_done >= CpuCount
    BY <1>4 DEF BspStep, SkipBsp, StartAp, ReadInitialCount, AwaitEnds, BootComplete, SetFunc,
                SetReady, SetFinished, EachTurn, EachEnds, Report
  <2>3. \A c \in Cpu : pc'[c] \in AddedAt <=> pc[c] \in AddedAt
    <3>1. CASE StartAp
      <4>1. idx \in Ap /\ idx \in Cpu /\ idx # Bsp /\ pc[Bsp] = "boot"
        BY <3>1 DEF StartAp, Ap
      <4>2. pc[idx] \notin AddedAt
        BY <1>1, <4>1 DEF LateInv, Starting, Booting, Idle, AddedAt
      <4>3. pc'[idx] \in {"parked", "started"} /\ pc'[Bsp] = "sent"
            /\ \A d \in Cpu \ {idx, Bsp} : pc'[d] = pc[d]
        BY <1>1, <3>1, <4>1, ModularAssumption DEF StartAp, Typed
      <4> QED BY ONLY <4>1, <4>2, <4>3 DEF AddedAt
    <3>2. CASE ~StartAp
      BY <1>1, <1>4, <3>2, ModularAssumption
      DEF BspStep, SkipBsp, ReadInitialCount, AwaitEnds, BootComplete, SetFunc, SetReady,
          SetFinished, EachTurn, EachEnds, Report, Typed, Goto, AddedAt
    <3> QED BY <3>1, <3>2
  <2> QED BY <1>1, <2>1, <2>2, <2>3, DoneStays
<1> QED BY <1>2, <1>3, <1>4 DEF Next, CpuStep

(* cores_done is counted behind the addition, so that main.c finds at least  *)
(* cpu_count results in the sum it judges, whoever else runs the task, until *)
(* two APs have been in a call at once on their one stack.                   *)
THEOREM ModularReportNotEarly == Spec => []ReportNotEarly
<1>1. Init => DoneInv
  <2> SUFFICES ASSUME Init PROVE DoneInv
    OBVIOUS
  <2>1. Added = {}
    BY DEF Init, Added, AddedAt
  <2>2. Cardinality(Added) = 0
    BY <2>1, FS_EmptySet
  <2> QED BY <2>2 DEF Init, DoneInv, Counted
<1>2. ModularInv /\ DoneInv /\ [Next]_vars => (ModularInv /\ DoneInv)'
  BY ModularStep, DoneStep
<1>3. DoneInv => ReportNotEarly
  BY DEF DoneInv, Counted, ReportNotEarly
<1> QED BY <1>1, <1>2, <1>3, ModularInit, PTL DEF Spec
================================================================================
