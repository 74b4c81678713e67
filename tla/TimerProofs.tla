---------------------------- MODULE TimerProofs ----------------------------
(***************************************************************************)
(* The safety properties of Timer, for every set of timers, every set of   *)
(* requested intervals, every tick rate and every width of the counter.    *)
(*                                                                         *)
(* IInv (TimerInduction) holds initially and is preserved by every step,   *)
(* one lemma per step and in it one leaf per part that the step disturbs;  *)
(* the parts a step carries over share the last leaf. Each property        *)
(* follows from IInv in one step.                                          *)
(***************************************************************************)
EXTENDS TimerInduction, TLAPS

USE TimersAssumption, RequestsAssumption, TicksAssumption, CountModAssumption

\* Counters wrap, and wrapping back undoes it: TIMER_INTERRUPTS' arithmetic.
LEMMA Counting ==
    ASSUME NEW n \in 0 .. CountMod - 1
    PROVE  /\ Bump(n) \in 0 .. CountMod - 1
           /\ Unbump(n) \in 0 .. CountMod - 1
           /\ Unbump(Bump(n)) = n
           /\ Bump(n) # n
BY DEF Bump, Unbump

\* An accepted interval fits the 32-bit interval register (arm()).
LEMMA Ticks ==
    ASSUME NEW us \in Requests, ValidRequest(us)
    PROVE  TicksFromUs(us) - 1 \in 0 .. MaxTicks - 1
<1>1. us * TicksPerUs \in Nat
  OBVIOUS
<1> QED
  BY <1>1 DEF ValidRequest, TicksFromUs

\* What each kind of call carries.
LEMMA CallTypes ==
    ASSUME NEW c \in Calls
    PROVE  /\ c.timer \in Timers \cup {NoTimer}
           /\ c.op \in StartOps \cup {"stop", "initialize", "switch", "none"}
           /\ c.op \in StartOps => c.timer \in Timers /\ c.us \in Requests
           /\ c.op \in StartOps \cup {"stop"} <=> c \in TimerCalls
           /\ c.op \in {"stop", "initialize"} => c.timer \in Timers
           /\ c.op = "none" <=> c = NoCall
           /\ c.op = "switch" <=> c = Switch
           /\ c.timer = NoTimer <=> c \in {NoCall, Switch}
BY DEF Calls, TimerCalls, Construct, Switch, NoCall, NoTimer, StartOps

\* No two timers have their priorities in the same byte.
LEMMA Lanes ==
    /\ \A i \in Timers : /\ Irq(i) \div 4 \in IprWords /\ Irq(i) % 4 \in 0 .. 3
                        /\ Irq(i) < IRQ_COUNT
    /\ \A i, j \in Timers :
           i = j \/ Irq(i) \div 4 # Irq(j) \div 4 \/ Irq(i) % 4 # Irq(j) % 4
<1>1. /\ Irq(0) \div 4 = 3 /\ Irq(1) \div 4 = 4 /\ Irq(2) \div 4 = 4 /\ Irq(3) \div 4 = 5
      /\ Irq(0) % 4 = 3 /\ Irq(1) % 4 = 1 /\ Irq(2) % 4 = 3 /\ Irq(3) % 4 = 1
      /\ Irq(0) < 47 /\ Irq(1) < 47 /\ Irq(2) < 47 /\ Irq(3) < 47
  BY DEF Irq
<1>2. \A i \in Timers : i \in {0, 1, 2, 3}
  OBVIOUS
<1> QED
  BY <1>1, <1>2 DEF IprWords, IRQ_COUNT

\* set_priority changes one timer's priority and preserves the others' (the
\* read-modify-write of the shared word).
LEMMA OnePriorityChanges ==
    ASSUME ipr \in [IprWords -> [0 .. 3 -> 0 .. PRIORITY_LEVELS - 1]],
           NEW i \in Timers, SetPriority(Irq(i), 2)
    PROVE  /\ ipr' \in [IprWords -> [0 .. 3 -> 0 .. PRIORITY_LEVELS - 1]]
           /\ \A j \in Timers : Priority(j)' = IF j = i THEN 2 ELSE Priority(j)
<1> DEFINE word == Irq(i) \div 4
           lane == Irq(i) % 4
<1>1. word \in IprWords /\ lane \in 0 .. 3
  BY Lanes
<1>2. ipr' = [ipr EXCEPT ![word] = [ipr[word] EXCEPT ![lane] = 2]]
  BY DEF SetPriority
<1>3. \A j \in Timers : j = i \/ Irq(j) \div 4 # word \/ Irq(j) % 4 # lane
  BY Lanes
<1> HIDE DEF word, lane
<1>4. 2 \in 0 .. PRIORITY_LEVELS - 1
  BY DEF PRIORITY_LEVELS
<1>5. ipr' \in [IprWords -> [0 .. 3 -> 0 .. PRIORITY_LEVELS - 1]]
  BY <1>1, <1>2, <1>4
<1>6. \A w \in IprWords, l \in 0 .. 3 :
          ipr'[w][l] = IF w = word /\ l = lane THEN 2 ELSE ipr[w][l]
  BY <1>1, <1>2
<1>7. ASSUME NEW j \in Timers
      PROVE  ipr'[Irq(j) \div 4][Irq(j) % 4]
                 = IF j = i THEN 2 ELSE ipr[Irq(j) \div 4][Irq(j) % 4]
  <2>1. Irq(j) \div 4 \in IprWords /\ Irq(j) % 4 \in 0 .. 3
    BY Lanes
  <2>2. j = i => Irq(j) \div 4 = word /\ Irq(j) % 4 = lane
    BY DEF word, lane
  <2> QED
    BY <1>3, <1>6, <2>1, <2>2
<1> QED
  BY <1>5, <1>7 DEF Priority

\* The reset state.
LEMMA InitInv == Init => IInv
<1>1. Init => ipr \in [IprWords -> [0 .. 3 -> 0 .. PRIORITY_LEVELS - 1]]
  BY DEF Init, PRIORITY_LEVELS
<1> QED
  BY <1>1, CallTypes DEF Init, IInv, TypeOK, CallOK, BoardOK, HandlerOK, QuietOK,
     CleanOK, SignalOK, OneShotOK, TimeoutsAccounted, Uncounted, Reconfiguring,
     CallAt, Steps, Quieting, Arming, Calls, TimerCalls, NoCall, Switch,
     StartOps, NoTimer, ONE_SHOT, PERIODIC

\* The vocabulary of the steps.
USE DEF NoTimer, ONE_SHOT, PERIODIC, StartOps, Quieting, Arming, CallAt,
        At, Goto, Finish, Begin, Priority, gpt, nvic, cpu, fg, mem

-----------------------------------------------------------------------------
(* The hardware. *)

LEMMA TimeoutInv ==
    ASSUME IInv, NEW i \in Timers, Timeout(i)
    PROVE  IInv'
<1>1. TypeOK'
  BY Counting DEF IInv, Timeout, TypeOK
<1>2. OneShotOK'
  BY DEF IInv, Timeout, OneShotOK, TypeOK
<1>3. TimeoutsAccounted'
  BY DEF IInv, Timeout, TimeoutsAccounted, TypeOK, Uncounted
<1>4. CallOK' /\ BoardOK' /\ HandlerOK' /\ QuietOK' /\ CleanOK' /\ SignalOK'
  BY DEF IInv, Timeout, CallOK, BoardOK, HandlerOK, QuietOK, CleanOK,
     SignalOK, Reconfiguring
<1> QED
  BY <1>1, <1>2, <1>3, <1>4 DEF IInv

LEMMA PropagateInv ==
    ASSUME IInv, NEW i \in Timers, Propagate(i)
    PROVE  IInv'
<1>1. HandlerOK'
  BY DEF IInv, Propagate, HandlerOK, TypeOK, QuietOK, CleanOK, Mis,
     Reconfiguring
<1>2. QuietOK'
  BY DEF IInv, Propagate, QuietOK, TypeOK, Mis
<1>3. CleanOK'
  BY DEF IInv, Propagate, CleanOK, TypeOK, Mis, Reconfiguring
<1>4. SignalOK'
  BY DEF IInv, Propagate, SignalOK, TypeOK, QuietOK, Mis
<1>5. CallOK' /\ BoardOK' /\ OneShotOK' /\ TimeoutsAccounted'
  BY CallTypes DEF IInv, Propagate, CallOK, BoardOK, OneShotOK,
     TimeoutsAccounted, Uncounted
<1>6. TypeOK'
  BY DEF IInv, Propagate, TypeOK, Mis
<1> QED
  BY <1>1, <1>2, <1>3, <1>4, <1>5, <1>6 DEF IInv

LEMMA LandInv ==
    ASSUME IInv, NEW i \in Timers, Land(i)
    PROVE  IInv'
<1>1. QuietOK'
  BY DEF IInv, Land, QuietOK, TypeOK
<1>2. TypeOK' /\ CallOK' /\ BoardOK' /\ HandlerOK' /\ CleanOK' /\ SignalOK'
   /\ OneShotOK' /\ TimeoutsAccounted'
  BY DEF IInv, Land, TypeOK, CallOK, BoardOK, HandlerOK, CleanOK, SignalOK,
     OneShotOK, TimeoutsAccounted, Reconfiguring, Uncounted
<1> QED
  BY <1>1, <1>2 DEF IInv

LEMMA PreemptInv ==
    ASSUME IInv, NEW i \in Timers, Preempt(i)
    PROVE  IInv'
<1>1. HandlerOK'
  BY DEF IInv, Preempt, HandlerOK, TypeOK, QuietOK, SignalOK, Eligible
<1>2. OneShotOK'
  BY DEF IInv, Preempt, OneShotOK, QuietOK, SignalOK, Eligible
<1>3. TypeOK' /\ CallOK' /\ BoardOK' /\ QuietOK' /\ CleanOK' /\ SignalOK' /\
   TimeoutsAccounted'
  BY DEF IInv, Preempt, TypeOK, CallOK, BoardOK, QuietOK, CleanOK, SignalOK,
     TimeoutsAccounted, Eligible, Reconfiguring, Uncounted
<1> QED
  BY <1>1, <1>2, <1>3 DEF IInv

-----------------------------------------------------------------------------
(* The handlers. *)

LEMMA IsrClearInv ==
    ASSUME IInv, NEW i \in Timers, IsrClear(i)
    PROVE  IInv'
<1>1. SignalOK'
  BY DEF IInv, IsrClear, SignalOK, HandlerOK, ClearLatch
<1>2. OneShotOK'
  BY DEF IInv, IsrClear, OneShotOK, TypeOK, ClearLatch
<1>3. TimeoutsAccounted'
  BY DEF IInv, IsrClear, TimeoutsAccounted, TypeOK, HandlerOK, ClearLatch,
     Uncounted
<1>4. TypeOK' /\ CallOK' /\ BoardOK' /\ HandlerOK' /\ QuietOK' /\ CleanOK'
  BY DEF IInv, IsrClear, TypeOK, CallOK, BoardOK, HandlerOK, QuietOK,
     CleanOK, ClearLatch, Reconfiguring
<1> QED
  BY <1>1, <1>2, <1>3, <1>4 DEF IInv

LEMMA IsrSyncInv ==
    ASSUME IInv, NEW i \in Timers, IsrSync(i)
    PROVE  IInv'
<1>1. SignalOK'
  BY DEF IInv, IsrSync, SignalOK, TypeOK, Settled, Mis
<1>2. TypeOK' /\ CallOK' /\ BoardOK' /\ HandlerOK' /\ QuietOK' /\ CleanOK' /\
   OneShotOK' /\ TimeoutsAccounted'
  BY DEF IInv, IsrSync, TypeOK, CallOK, BoardOK, HandlerOK, QuietOK, CleanOK,
     OneShotOK, TimeoutsAccounted, Reconfiguring, Uncounted
<1> QED
  BY <1>1, <1>2 DEF IInv

LEMMA IsrCountInv ==
    ASSUME IInv, NEW i \in Timers, IsrCount(i)
    PROVE  IInv'
<1>1. TypeOK'
  BY Counting DEF IInv, IsrCount, TypeOK
<1>2. TimeoutsAccounted'
  BY DEF IInv, IsrCount, TimeoutsAccounted, TypeOK, Uncounted
<1>3. CallOK' /\ BoardOK' /\ HandlerOK' /\ QuietOK' /\ CleanOK' /\ SignalOK'
   /\ OneShotOK'
  BY DEF IInv, IsrCount, CallOK, BoardOK, HandlerOK, QuietOK, CleanOK,
     SignalOK, OneShotOK, Reconfiguring
<1> QED
  BY <1>1, <1>2, <1>3 DEF IInv

LEMMA IsrReturnInv ==
    ASSUME IInv, NEW i \in Timers, IsrReturn(i)
    PROVE  IInv'
<1>1. QuietOK'
  BY CallTypes DEF IInv, IsrReturn, QuietOK, TypeOK, CallOK
<1>2. SignalOK'
  BY DEF IInv, IsrReturn, SignalOK, TypeOK
<1>3. TypeOK' /\ CallOK' /\ BoardOK' /\ HandlerOK' /\ CleanOK' /\ OneShotOK'
   /\ TimeoutsAccounted'
  BY DEF IInv, IsrReturn, TypeOK, CallOK, BoardOK, HandlerOK, CleanOK,
     OneShotOK, TimeoutsAccounted, Reconfiguring, Uncounted
<1> QED
  BY <1>1, <1>2, <1>3 DEF IInv

-----------------------------------------------------------------------------
(* The calls and the masked section. *)

LEMMA InitializeInv ==
    ASSUME IInv, NEW i \in Timers, Initialize(i)
    PROVE  IInv'
<1>1. TypeOK'
  BY DEF IInv, Initialize, TypeOK, Calls, Steps
<1>2. CallOK' /\ BoardOK' /\ HandlerOK' /\ QuietOK' /\ CleanOK' /\ SignalOK'
   /\ OneShotOK' /\ TimeoutsAccounted'
  BY DEF IInv, Initialize, CallOK, BoardOK, HandlerOK, QuietOK, CleanOK,
     SignalOK, OneShotOK, TimeoutsAccounted, Construct, NoCall, Switch,
     Reconfiguring, Uncounted
<1> QED
  BY <1>1, <1>2 DEF IInv

LEMMA EnableInterruptsInv ==
    ASSUME IInv, EnableInterrupts
    PROVE  IInv'
<1>1. TypeOK'
  BY DEF IInv, EnableInterrupts, TypeOK
<1>2. CallOK' /\ BoardOK' /\ HandlerOK' /\ QuietOK' /\ CleanOK' /\ SignalOK'
   /\ OneShotOK' /\ TimeoutsAccounted'
  BY DEF IInv, EnableInterrupts, CallOK, BoardOK, HandlerOK, QuietOK,
     CleanOK, SignalOK, OneShotOK, TimeoutsAccounted, Reconfiguring,
     Uncounted
<1> QED
  BY <1>1, <1>2 DEF IInv

LEMMA InvokeInv ==
    ASSUME IInv, NEW c \in TimerCalls, Invoke(c)
    PROVE  IInv'
<1>1. TypeOK'
  BY DEF IInv, Invoke, TypeOK, Calls, Steps
<1>2. CallOK'
  BY DEF IInv, Invoke, CallOK, NoCall, Switch, TimerCalls
<1>3. BoardOK'
  BY DEF IInv, Invoke, BoardOK, TimerCalls
<1>4. HandlerOK' /\ QuietOK' /\ CleanOK' /\ SignalOK' /\ OneShotOK' /\
   TimeoutsAccounted'
  BY DEF IInv, Invoke, HandlerOK, QuietOK, CleanOK, SignalOK, OneShotOK,
     TimeoutsAccounted, Reconfiguring, Uncounted
<1> QED
  BY <1>1, <1>2, <1>3, <1>4 DEF IInv

LEMMA SaveAndDisableInv ==
    ASSUME IInv, SaveAndDisable
    PROVE  IInv'
<1>1. TypeOK'
  BY DEF IInv, SaveAndDisable, TypeOK, Calls, Steps
<1>2. CallOK' /\ BoardOK' /\ HandlerOK' /\ QuietOK' /\ CleanOK' /\ SignalOK'
   /\ OneShotOK' /\ TimeoutsAccounted'
  BY DEF IInv, SaveAndDisable, CallOK, BoardOK, HandlerOK, QuietOK, CleanOK,
     SignalOK, OneShotOK, TimeoutsAccounted, TypeOK, Switch, Reconfiguring,
     Uncounted
<1> QED
  BY <1>1, <1>2 DEF IInv

LEMMA RestoreInv ==
    ASSUME IInv, Restore
    PROVE  IInv'
<1>1. TypeOK'
  BY DEF IInv, Restore, TypeOK, Calls, Steps
<1>2. BoardOK'
  BY DEF IInv, Restore, BoardOK, NoCall
<1>3. CallOK' /\ HandlerOK' /\ QuietOK' /\ CleanOK' /\ SignalOK' /\
   OneShotOK' /\ TimeoutsAccounted'
  BY DEF IInv, Restore, CallOK, HandlerOK, QuietOK, CleanOK, SignalOK,
     OneShotOK, TimeoutsAccounted, NoCall, Switch, Reconfiguring, Uncounted
<1> QED
  BY <1>1, <1>2, <1>3 DEF IInv

LEMMA CheckInv ==
    ASSUME IInv, Check
    PROVE  IInv'
<1>1. TypeOK'
  BY DEF IInv, Check, TypeOK, CallOK, BoardOK, Calls, Steps
<1>2. BoardOK'
  <2>1. /\ UNCHANGED <<built, ipr, enabled, imr, primask, saved>>
        /\ call' = call \/ call' = NoCall
    BY DEF Check
  <2> QED
    BY <2>1 DEF IInv, BoardOK, NoCall
<1>3. CallOK' /\ HandlerOK' /\ QuietOK' /\ CleanOK' /\ SignalOK' /\
   OneShotOK' /\ TimeoutsAccounted'
  BY DEF IInv, Check, CallOK, HandlerOK, QuietOK, CleanOK, SignalOK,
     OneShotOK, TimeoutsAccounted, NoCall, Switch, Reconfiguring, Uncounted
<1> QED
  BY <1>1, <1>2, <1>3 DEF IInv

-----------------------------------------------------------------------------
(* stop(). *)

LEMMA StopDisableInv ==
    ASSUME IInv, StopDisable
    PROVE  IInv'
<1>1. TypeOK'
  BY DEF IInv, StopDisable, TypeOK, Steps
<1>2. QuietOK'
  BY CallTypes DEF IInv, StopDisable, QuietOK, TypeOK, CallOK
<1>3. CallOK' /\ BoardOK' /\ HandlerOK' /\ CleanOK' /\ SignalOK' /\
   OneShotOK' /\ TimeoutsAccounted'
  BY DEF IInv, StopDisable, CallOK, BoardOK, HandlerOK, CleanOK, SignalOK,
     OneShotOK, TimeoutsAccounted, Reconfiguring, Uncounted
<1> QED
  BY <1>1, <1>2, <1>3 DEF IInv

LEMMA StopBarrierInv ==
    ASSUME IInv, StopBarrier
    PROVE  IInv'
<1>1. TypeOK'
  BY DEF IInv, StopBarrier, TypeOK, Steps
<1>2. QuietOK'
  BY CallTypes DEF IInv, StopBarrier, QuietOK, TypeOK, CallOK
<1>3. CallOK' /\ BoardOK' /\ HandlerOK' /\ CleanOK' /\ SignalOK' /\
   OneShotOK' /\ TimeoutsAccounted'
  BY DEF IInv, StopBarrier, CallOK, BoardOK, HandlerOK, CleanOK, SignalOK,
     OneShotOK, TimeoutsAccounted, Reconfiguring, Uncounted
<1> QED
  BY <1>1, <1>2, <1>3 DEF IInv

LEMMA StopCountingInv ==
    ASSUME IInv, StopCounting
    PROVE  IInv'
<1>1. TypeOK'
  BY DEF IInv, StopCounting, TypeOK, Steps
<1>2. QuietOK'
  BY CallTypes DEF IInv, StopCounting, QuietOK, TypeOK
<1>3. CallOK' /\ BoardOK' /\ HandlerOK' /\ CleanOK' /\ SignalOK' /\
   OneShotOK' /\ TimeoutsAccounted'
  BY DEF IInv, StopCounting, CallOK, BoardOK, HandlerOK, CleanOK, SignalOK,
     OneShotOK, TimeoutsAccounted, Switch, Reconfiguring, Uncounted
<1> QED
  BY <1>1, <1>2, <1>3 DEF IInv

LEMMA StopMaskInv ==
    ASSUME IInv, StopMask
    PROVE  IInv'
<1>1. TypeOK'
  BY DEF IInv, StopMask, TypeOK, Steps
<1>2. QuietOK'
  BY CallTypes DEF IInv, StopMask, QuietOK, TypeOK
<1>3. SignalOK'
  BY DEF IInv, StopMask, SignalOK, QuietOK
<1>4. HandlerOK' /\ TimeoutsAccounted'
  BY CallTypes DEF IInv, StopMask, HandlerOK, TimeoutsAccounted, Uncounted
<1>5. CallOK' /\ CleanOK' /\ OneShotOK'
  BY DEF IInv, StopMask, CallOK, CleanOK, OneShotOK, Reconfiguring
<1>6. BoardOK'
  BY DEF IInv, StopMask, BoardOK, TypeOK
<1> QED
  BY <1>1, <1>2, <1>3, <1>4, <1>5, <1>6 DEF IInv

LEMMA StopClearInv ==
    ASSUME IInv, StopClear
    PROVE  IInv'
<1>1. TypeOK'
  BY Counting, CallTypes DEF IInv, StopClear, TypeOK, ClearLatch, Steps
<1>2. QuietOK'
  BY CallTypes DEF IInv, StopClear, QuietOK, TypeOK, ClearLatch
<1>3. TimeoutsAccounted'
  BY Counting DEF IInv, StopClear, TimeoutsAccounted, TypeOK, ClearLatch,
     Uncounted
<1>4. CallOK' /\ BoardOK' /\ HandlerOK' /\ CleanOK' /\ SignalOK' /\
   OneShotOK'
  BY DEF IInv, StopClear, CallOK, BoardOK, HandlerOK, CleanOK, SignalOK,
     OneShotOK, ClearLatch, Reconfiguring
<1> QED
  BY <1>1, <1>2, <1>3, <1>4 DEF IInv

LEMMA StopSyncInv ==
    ASSUME IInv, StopSync
    PROVE  IInv'
<1>1. TypeOK'
  BY DEF IInv, StopSync, TypeOK, Steps
<1>2. QuietOK'
  BY CallTypes DEF IInv, StopSync, QuietOK, TypeOK, CallOK, Settled, Mis
<1>3. SignalOK'
  BY DEF IInv, StopSync, SignalOK, TypeOK, Settled, Mis
<1>4. CallOK' /\ BoardOK' /\ HandlerOK' /\ CleanOK' /\ OneShotOK' /\
   TimeoutsAccounted'
  BY DEF IInv, StopSync, CallOK, BoardOK, HandlerOK, CleanOK, OneShotOK,
     TimeoutsAccounted, TypeOK, Reconfiguring, Uncounted
<1> QED
  BY <1>1, <1>2, <1>3, <1>4 DEF IInv

LEMMA StopDiscardInv ==
    ASSUME IInv, StopDiscard
    PROVE  IInv'
<1>1. TypeOK'
  BY CallTypes DEF IInv, StopDiscard, TypeOK, Steps
<1>2. QuietOK'
  BY CallTypes DEF IInv, StopDiscard, QuietOK, TypeOK
<1>3. SignalOK'
  BY DEF IInv, StopDiscard, SignalOK, TypeOK
<1>4. BoardOK' /\ OneShotOK' /\ TimeoutsAccounted'
  BY DEF IInv, StopDiscard, BoardOK, OneShotOK, TimeoutsAccounted, Uncounted
<1>5. CallOK' /\ HandlerOK' /\ CleanOK'
  BY DEF IInv, StopDiscard, CallOK, HandlerOK, CleanOK, Reconfiguring
<1> QED
  BY <1>1, <1>2, <1>3, <1>4, <1>5 DEF IInv

LEMMA StopReturnInv ==
    ASSUME IInv, StopReturn
    PROVE  IInv'
<1>p. /\ ipr' \in [IprWords -> [0 .. 3 -> 0 .. PRIORITY_LEVELS - 1]]
      /\ call.op = "initialize" =>
             /\ call.timer \in Timers /\ built' = built \cup {call.timer}
             /\ \A j \in Timers : Priority(j)' = IF j = call.timer THEN 2 ELSE Priority(j)
      /\ call.op # "initialize" => UNCHANGED <<ipr, built>>
  <2>1. ipr \in [IprWords -> [0 .. 3 -> 0 .. PRIORITY_LEVELS - 1]] /\ call \in Calls
    BY DEF IInv, TypeOK
  <2>2. CASE call.op = "initialize"
    <3>1. call.timer \in Timers
      BY <2>1, <2>2, CallTypes
    <3>2. SetPriority(Irq(call.timer), 2) /\ built' = built \cup {call.timer}
      BY <2>2 DEF StopReturn
    <3>3. /\ ipr' \in [IprWords -> [0 .. 3 -> 0 .. PRIORITY_LEVELS - 1]]
          /\ \A j \in Timers : Priority(j)' = IF j = call.timer THEN 2 ELSE Priority(j)
      BY <2>1, <3>1, <3>2, OnePriorityChanges, Zenon
    <3> QED
      BY <2>2, <3>1, <3>2, <3>3
  <2>3. CASE call.op # "initialize"
    <3>1. UNCHANGED <<ipr, built>>
      BY <2>3 DEF StopReturn
    <3> QED
      BY <2>1, <2>3, <3>1
  <2> QED
    BY <2>2, <2>3
<1>1. TypeOK'
  BY <1>p DEF IInv, StopReturn, TypeOK, Calls, Steps, Construct,
     NoCall, Switch, TimerCalls
<1>2. CallOK'
  BY DEF IInv, StopReturn, CallOK, TypeOK, NoCall, Switch, Calls, Construct,
     TimerCalls
<1>3. BoardOK'
  <2>1. built \subseteq Timers /\ call \in Calls /\ BoardOK
    BY DEF IInv, TypeOK
  <2>2. UNCHANGED <<primask, saved, enabled, imr>>
    BY DEF StopReturn
  <2>3. \A i \in built' : Priority(i)' = 2
    BY <1>p, <2>1 DEF BoardOK, Priority
  <2>4. built \subseteq built' /\ built' \subseteq Timers
    BY <1>p, <2>1
  <2>5. /\ call.op \in StartOps => call' = call
        /\ call.op \notin StartOps => call'.op = "none"
    <3>1. call.op \in StartOps => call.op \notin {"stop", "initialize"}
      OBVIOUS
    <3>2. call.op \in StartOps \cup {"stop", "initialize"}
      BY <2>1, CallTypes DEF StopReturn, IInv, CallOK
    <3> QED
      BY <3>1, <3>2 DEF StopReturn, NoCall
  <2> QED
    BY <2>1, <2>2, <2>3, <2>4, <2>5 DEF BoardOK
<1>4. CleanOK'
  BY DEF IInv, StopReturn, CleanOK, QuietOK, Reconfiguring
<1>5. HandlerOK' /\ QuietOK' /\ SignalOK' /\ OneShotOK' /\ TimeoutsAccounted'
  BY DEF IInv, StopReturn, HandlerOK, QuietOK, SignalOK, OneShotOK,
     TimeoutsAccounted, Uncounted
<1> QED
  BY <1>1, <1>2, <1>3, <1>4, <1>5 DEF IInv

-----------------------------------------------------------------------------
(* arm(), after its stop(). *)

LEMMA ArmConfigureInv ==
    ASSUME IInv, ArmConfigure
    PROVE  IInv'
<1>1. TypeOK'
  <2>1. call.timer \in Timers /\ call.us \in Requests /\ ValidRequest(call.us)
    BY CallTypes DEF IInv, ArmConfigure, TypeOK, CallOK
  <2>2. TicksFromUs(call.us) - 1 \in 0 .. MaxTicks - 1
    BY <2>1, Ticks
  <2>3. tailr' \in [Timers -> 0 .. MaxTicks - 1]
    BY <2>2 DEF IInv, ArmConfigure, TypeOK
  <2>4. tamr' \in [Timers -> {0, ONE_SHOT, PERIODIC}]
    BY DEF IInv, ArmConfigure, TypeOK, ModeOf
  <2> QED
    BY <2>3, <2>4 DEF IInv, ArmConfigure, TypeOK, Steps
<1>2. BoardOK'
  <2>1. /\ UNCHANGED <<built, ipr, enabled, primask, saved, call>>
        /\ imr' = [imr EXCEPT ![call.timer] = TRUE]
    BY DEF ArmConfigure
  <2>2. built = Timers
    BY DEF IInv, ArmConfigure, BoardOK, CallOK
  <2> QED
    BY <2>1, <2>2 DEF IInv, BoardOK
<1>3. QuietOK'
  BY CallTypes DEF IInv, ArmConfigure, QuietOK, TypeOK
<1>4. SignalOK'
  BY DEF IInv, ArmConfigure, SignalOK, QuietOK
<1>5. OneShotOK'
  BY DEF IInv, ArmConfigure, OneShotOK, TypeOK, QuietOK, ModeOf
<1>6. CallOK' /\ HandlerOK' /\ TimeoutsAccounted'
  BY DEF IInv, ArmConfigure, CallOK, HandlerOK, TimeoutsAccounted, Uncounted
<1>7. CleanOK'
  BY DEF IInv, ArmConfigure, TypeOK, CleanOK, Reconfiguring
<1> QED
  BY <1>1, <1>2, <1>3, <1>4, <1>5, <1>6, <1>7 DEF IInv

LEMMA ArmEnableInv ==
    ASSUME IInv, ArmEnable
    PROVE  IInv'
<1>1. TypeOK'
  BY DEF IInv, ArmEnable, TypeOK, Steps
<1>2. BoardOK'
  <2>1. /\ UNCHANGED <<built, ipr, imr, primask, saved, call>>
        /\ enabled' = [enabled EXCEPT ![call.timer] = TRUE]
    BY DEF ArmEnable
  <2>2. built = Timers
    BY DEF IInv, ArmEnable, BoardOK, CallOK
  <2> QED
    BY <2>1, <2>2 DEF IInv, BoardOK
<1>3. SignalOK'
  BY DEF IInv, ArmEnable, SignalOK, QuietOK
<1>4. CallOK' /\ HandlerOK' /\ OneShotOK' /\ TimeoutsAccounted'
  BY DEF IInv, ArmEnable, CallOK, HandlerOK, OneShotOK, TimeoutsAccounted, Uncounted
<1>5. QuietOK'
  BY DEF IInv, ArmEnable, QuietOK
<1>6. CleanOK'
  BY DEF IInv, ArmEnable, CleanOK, Reconfiguring
<1> QED
  BY <1>1, <1>2, <1>3, <1>4, <1>5, <1>6 DEF IInv

LEMMA ArmCountInv ==
    ASSUME IInv, ArmCount
    PROVE  IInv'
<1>1. TypeOK'
  BY DEF IInv, ArmCount, TypeOK, Steps
<1>2. CleanOK'
  BY DEF IInv, ArmCount, CleanOK, QuietOK, Reconfiguring
<1>3. OneShotOK'
  BY DEF IInv, ArmCount, OneShotOK, QuietOK
<1>4. CallOK' /\ BoardOK' /\ HandlerOK' /\ QuietOK' /\ SignalOK' /\
   TimeoutsAccounted'
  BY DEF IInv, ArmCount, CallOK, BoardOK, HandlerOK, QuietOK, SignalOK,
     TimeoutsAccounted, Uncounted
<1> QED
  BY <1>1, <1>2, <1>3, <1>4 DEF IInv

LEMMA ArmReturnInv ==
    ASSUME IInv, ArmReturn
    PROVE  IInv'
<1>1. TypeOK'
  BY DEF IInv, ArmReturn, TypeOK, Calls, Steps
<1>2. BoardOK'
  BY DEF IInv, ArmReturn, BoardOK, NoCall
<1>3. CallOK' /\ HandlerOK' /\ QuietOK' /\ CleanOK' /\ SignalOK' /\
   OneShotOK' /\ TimeoutsAccounted'
  BY DEF IInv, ArmReturn, CallOK, HandlerOK, QuietOK, CleanOK, SignalOK,
     OneShotOK, TimeoutsAccounted, TypeOK, NoCall, Switch, Reconfiguring,
     Uncounted
<1> QED
  BY <1>1, <1>2, <1>3 DEF IInv

-----------------------------------------------------------------------------
(* Theorems *)

\* No step leaves IInv.
LEMMA NextInv == IInv /\ [Next]_vars => IInv'
<1> SUFFICES ASSUME IInv, [Next]_vars PROVE IInv'
  OBVIOUS
<1>1. ASSUME NEW i \in Timers, Hardware(i) PROVE IInv'
  BY <1>1, TimeoutInv, PropagateInv, LandInv, PreemptInv DEF Hardware
<1>2. ASSUME NEW i \in Timers, Handler(i) PROVE IInv'
  BY <1>2, IsrClearInv, IsrSyncInv, IsrCountInv, IsrReturnInv DEF Handler
<1>3. CASE Stop
  BY <1>3, StopDisableInv, StopBarrierInv, StopCountingInv, StopMaskInv,
     StopClearInv, StopSyncInv, StopDiscardInv, StopReturnInv DEF Stop
<1>4. CASE Arm
  BY <1>4, ArmConfigureInv, ArmEnableInv, ArmCountInv, ArmReturnInv DEF Arm
<1>5. CASE Proceed
  BY <1>3, <1>4, <1>5, CheckInv, RestoreInv DEF Proceed
<1>6. CASE UNCHANGED vars
  BY <1>6 DEF vars, IInv, TypeOK, CallOK, BoardOK, HandlerOK, QuietOK,
     CleanOK, SignalOK, OneShotOK, TimeoutsAccounted, Uncounted, Reconfiguring
<1> QED
  BY <1>1, <1>2, <1>5, <1>6, InitializeInv, InvokeInv, EnableInterruptsInv,
     SaveAndDisableInv DEF Next

\* IInv is an invariant of the driver and its hardware.
THEOREM InductiveInvariant == Spec => []IInv
<1>1. Init => IInv
  BY InitInv
<1>2. IInv /\ [Next]_vars => IInv'
  BY NextInv
<1> QED
  BY <1>1, <1>2, PTL DEF Spec

\* Every variable keeps its type: in particular the interval register never
\* receives a value out of its range and the counters stay in theirs.
THEOREM TimerTypeCorrect == Spec => []TypeOK
<1>1. IInv => TypeOK
  BY DEF IInv
<1> QED
  BY <1>1, InductiveInvariant, PTL

\* interrupts() misses no timeout and counts none twice, wherever stop() or a
\* restart interrupts its way from the latch to the counter.
THEOREM TimeoutsAreAccounted == Spec => []TimeoutsAccounted
<1>1. IInv => TimeoutsAccounted
  BY DEF IInv
<1> QED
  BY <1>1, InductiveInvariant, PTL

\* stop() and arm() touch the status registers they share with the handler
\* only while that handler cannot run.
THEOREM DriverReconfiguresAlone == Spec => []ReconfiguresAlone
<1>1. IInv => ReconfiguresAlone
  BY DEF IInv, QuietOK, ReconfiguresAlone
<1> QED
  BY <1>1, InductiveInvariant, PTL

\* A stopped timer is quiet in the GPT, on its line and in the NVIC.
THEOREM StoppedTimerIsClean == Spec => []StoppedIsClean
<1>1. IInv => StoppedIsClean
  BY DEF IInv, CleanOK, QuietOK, StoppedIsClean, Stopped, Reconfiguring
<1> QED
  BY <1>1, InductiveInvariant, PTL

\* Only the handler of a timer counts, and never while its timer is off: once
\* stop() is past its barrier interrupts() keeps its value.
LEMMA OffTimersKeepCount ==
    ASSUME IInv, [Next]_vars, NEW i \in Timers, ModeOfTimer(i) = "off"
    PROVE  count'[i] = count[i]
<1>1. ASSUME NEW j \in Timers, IsrCount(j) PROVE i # j
  BY <1>1 DEF IInv, QuietOK, CleanOK, IsrCount, ModeOfTimer, Reconfiguring
<1>2. CASE \E j \in Timers : IsrCount(j)
  BY <1>1, <1>2 DEF IsrCount, IInv, TypeOK
<1>3. CASE ~\E j \in Timers : IsrCount(j)
  <2>1. count' = count
    BY <1>3 DEF Next, Hardware, Handler, Proceed, Stop, Arm, vars,
       Timeout, Propagate, Land, Preempt, IsrClear, IsrSync, IsrReturn,
       Initialize, EnableInterrupts, Invoke, SaveAndDisable, Restore, Check,
       StopDisable, StopBarrier, StopCounting, StopMask, StopClear, StopSync,
       StopDiscard, StopReturn, ArmConfigure, ArmEnable, ArmCount, ArmReturn
  <2> QED
    BY <2>1
<1> QED
  BY <1>2, <1>3

\* From stop()'s barrier on, and until the next start counts, interrupts()
\* stays what it was.
THEOREM StoppingIsFinal == Spec => StopIsFinal
<1>1. IInv /\ [Next]_vars =>
          [\A i \in Timers : ModeOfTimer(i) = "off" => count'[i] = count[i]]_vars
  BY OffTimersKeepCount
<1> QED
  BY <1>1, InductiveInvariant, PTL DEF Spec, StopIsFinal

-----------------------------------------------------------------------------
(***************************************************************************)
(* Timer implements TimerContract, for every value of the constants.       *)
(*                                                                         *)
(* Seven steps of the driver are steps of the contract: the invocation,    *)
(* the refusal in arm(), the barrier of a client's stop(), the TAEN write, *)
(* the handler's count and the two returns. Every other step changes       *)
(* nothing the contract speaks of: its lemma shows that the call, its      *)
(* stage, each timer's mode and each interval stay.                        *)
(***************************************************************************)

\* The contract reads the same parameters.
LEMMA SharedTerms ==
    /\ Contract!StartOps = StartOps
    /\ Contract!NoCall = NoCall
    /\ Contract!TimerCalls = TimerCalls
    /\ \A us : Contract!ValidRequest(us) <=> ValidRequest(us)
    /\ \A us : Contract!TicksFromUs(us) = TicksFromUs(us)
    /\ \A n : Contract!Bump(n) = Bump(n)
BY DEF Contract!StartOps, Contract!NoCall, NoCall, Contract!TimerCalls,
   TimerCalls,
   Contract!ValidRequest, ValidRequest, Contract!TicksFromUs, TicksFromUs,
   Contract!Bump, Bump

\* The contract's state in terms of the parts a step may disturb.
LEMMA ModesUnchanged ==
    ASSUME ClientCall' = ClientCall, Stage' = Stage, UNCHANGED <<result, count>>,
           \A j \in Timers : ModeOfTimer(j)' = ModeOfTimer(j)
                          /\ IntervalOfTimer(j)' = IntervalOfTimer(j)
    PROVE  UNCHANGED Contract!vars
BY DEF Contract!vars

\* What a step that is not the driver's reconfiguration leaves to the modes.
LEMMA SameModes ==
    ASSUME UNCHANGED <<taen, tamr, tailr, imr, ris, active, isr>>,
           NEW j \in Timers, Reconfiguring(j)' <=> Reconfiguring(j)
    PROVE  /\ ModeOfTimer(j)' = ModeOfTimer(j)
           /\ IntervalOfTimer(j)' = IntervalOfTimer(j)
BY DEF ModeOfTimer, IntervalOfTimer, Uncounted

-----------------------------------------------------------------------------
(* Steps that change nothing of the contract's *)

LEMMA TimeoutStutters ==
    ASSUME IInv, NEW i \in Timers, Timeout(i)
    PROVE  UNCHANGED Contract!vars
<1>1. ClientCall' = ClientCall /\ Stage' = Stage /\ UNCHANGED <<result, count>>
  BY DEF Timeout, ClientCall, Stage
<1>2. ASSUME NEW j \in Timers PROVE ModeOfTimer(j)' = ModeOfTimer(j)
  BY DEF Timeout, IInv, TypeOK, Uncounted, Reconfiguring, ModeOfTimer
<1>3. ASSUME NEW j \in Timers PROVE IntervalOfTimer(j)' = IntervalOfTimer(j)
  BY <1>2 DEF Timeout, IntervalOfTimer
<1> QED
  BY <1>1, <1>2, <1>3, ModesUnchanged

LEMMA PropagateStutters ==
    ASSUME IInv, NEW i \in Timers, Propagate(i)
    PROVE  UNCHANGED Contract!vars
<1>1. ClientCall' = ClientCall /\ Stage' = Stage /\ UNCHANGED <<result, count>>
  BY DEF Propagate, ClientCall, Stage
<1>2. ASSUME NEW j \in Timers PROVE ModeOfTimer(j)' = ModeOfTimer(j)
  BY DEF Propagate, Uncounted, Reconfiguring, ModeOfTimer
<1>3. ASSUME NEW j \in Timers PROVE IntervalOfTimer(j)' = IntervalOfTimer(j)
  BY <1>2 DEF Propagate, IntervalOfTimer
<1> QED
  BY <1>1, <1>2, <1>3, ModesUnchanged

LEMMA LandStutters ==
    ASSUME IInv, NEW i \in Timers, Land(i)
    PROVE  UNCHANGED Contract!vars
<1>1. ClientCall' = ClientCall /\ Stage' = Stage /\ UNCHANGED <<result, count>>
  BY DEF Land, ClientCall, Stage
<1>2. ASSUME NEW j \in Timers PROVE ModeOfTimer(j)' = ModeOfTimer(j)
  BY DEF Land, Uncounted, Reconfiguring, ModeOfTimer
<1>3. ASSUME NEW j \in Timers PROVE IntervalOfTimer(j)' = IntervalOfTimer(j)
  BY <1>2 DEF Land, IntervalOfTimer
<1> QED
  BY <1>1, <1>2, <1>3, ModesUnchanged

LEMMA PreemptStutters ==
    ASSUME IInv, NEW i \in Timers, Preempt(i)
    PROVE  UNCHANGED Contract!vars
<1>1. ClientCall' = ClientCall /\ Stage' = Stage /\ UNCHANGED <<result, count>>
  BY DEF Preempt, ClientCall, Stage
<1>2. ASSUME NEW j \in Timers PROVE ModeOfTimer(j)' = ModeOfTimer(j)
  BY DEF Preempt, Uncounted, Reconfiguring, ModeOfTimer
<1>3. ASSUME NEW j \in Timers PROVE IntervalOfTimer(j)' = IntervalOfTimer(j)
  BY <1>2 DEF Preempt, IntervalOfTimer
<1> QED
  BY <1>1, <1>2, <1>3, ModesUnchanged

LEMMA IsrClearStutters ==
    ASSUME IInv, NEW i \in Timers, IsrClear(i)
    PROVE  UNCHANGED Contract!vars
<1>1. ClientCall' = ClientCall /\ Stage' = Stage /\ UNCHANGED <<result, count>>
  BY DEF IsrClear, ClientCall, Stage
<1>2. ASSUME NEW j \in Timers PROVE ModeOfTimer(j)' = ModeOfTimer(j)
  BY DEF IsrClear, IInv, HandlerOK, Uncounted, Reconfiguring, ClearLatch,
     ModeOfTimer
<1>3. ASSUME NEW j \in Timers PROVE IntervalOfTimer(j)' = IntervalOfTimer(j)
  BY <1>2 DEF IsrClear, IntervalOfTimer
<1> QED
  BY <1>1, <1>2, <1>3, ModesUnchanged

LEMMA IsrSyncStutters ==
    ASSUME IInv, NEW i \in Timers, IsrSync(i)
    PROVE  UNCHANGED Contract!vars
<1>1. ClientCall' = ClientCall /\ Stage' = Stage /\ UNCHANGED <<result, count>>
  BY DEF IsrSync, ClientCall, Stage
<1>2. ASSUME NEW j \in Timers PROVE ModeOfTimer(j)' = ModeOfTimer(j)
  BY DEF IsrSync, Uncounted, Reconfiguring, ModeOfTimer
<1>3. ASSUME NEW j \in Timers PROVE IntervalOfTimer(j)' = IntervalOfTimer(j)
  BY <1>2 DEF IsrSync, IntervalOfTimer
<1> QED
  BY <1>1, <1>2, <1>3, ModesUnchanged

LEMMA IsrReturnStutters ==
    ASSUME IInv, NEW i \in Timers, IsrReturn(i)
    PROVE  UNCHANGED Contract!vars
<1>1. ClientCall' = ClientCall /\ Stage' = Stage /\ UNCHANGED <<result, count>>
  BY DEF IsrReturn, ClientCall, Stage
<1>2. ASSUME NEW j \in Timers PROVE ModeOfTimer(j)' = ModeOfTimer(j)
  BY DEF IsrReturn, Uncounted, Reconfiguring, ModeOfTimer
<1>3. ASSUME NEW j \in Timers PROVE IntervalOfTimer(j)' = IntervalOfTimer(j)
  BY <1>2 DEF IsrReturn, IntervalOfTimer
<1> QED
  BY <1>1, <1>2, <1>3, ModesUnchanged

LEMMA InitializeStutters ==
    ASSUME IInv, NEW i \in Timers, Initialize(i)
    PROVE  UNCHANGED Contract!vars
<1>1. ClientCall' = ClientCall /\ Stage' = Stage /\ UNCHANGED <<result, count>>
  BY DEF Initialize, IInv, CallOK, Construct, ClientCall, Stage
<1>2. ASSUME NEW j \in Timers PROVE ModeOfTimer(j)' = ModeOfTimer(j)
  BY DEF Initialize, Uncounted, Reconfiguring, ModeOfTimer
<1>3. ASSUME NEW j \in Timers PROVE IntervalOfTimer(j)' = IntervalOfTimer(j)
  BY <1>2 DEF Initialize, IntervalOfTimer
<1> QED
  BY <1>1, <1>2, <1>3, ModesUnchanged

LEMMA EnableInterruptsStutters ==
    ASSUME IInv, EnableInterrupts
    PROVE  UNCHANGED Contract!vars
<1>1. ClientCall' = ClientCall /\ Stage' = Stage /\ UNCHANGED <<result, count>>
  BY DEF EnableInterrupts, ClientCall, Stage
<1>2. ASSUME NEW j \in Timers PROVE ModeOfTimer(j)' = ModeOfTimer(j)
  BY DEF EnableInterrupts, Uncounted, Reconfiguring, ModeOfTimer
<1>3. ASSUME NEW j \in Timers PROVE IntervalOfTimer(j)' = IntervalOfTimer(j)
  BY <1>2 DEF EnableInterrupts, IntervalOfTimer
<1> QED
  BY <1>1, <1>2, <1>3, ModesUnchanged

LEMMA SaveAndDisableStutters ==
    ASSUME IInv, SaveAndDisable
    PROVE  UNCHANGED Contract!vars
<1>1. ClientCall' = ClientCall /\ Stage' = Stage /\ UNCHANGED <<result, count>>
  BY DEF SaveAndDisable, IInv, CallOK, Switch, ClientCall, Stage
<1>2. ASSUME NEW j \in Timers PROVE ModeOfTimer(j)' = ModeOfTimer(j)
  BY DEF SaveAndDisable, Uncounted, Reconfiguring, ModeOfTimer
<1>3. ASSUME NEW j \in Timers PROVE IntervalOfTimer(j)' = IntervalOfTimer(j)
  BY <1>2 DEF SaveAndDisable, IntervalOfTimer
<1> QED
  BY <1>1, <1>2, <1>3, ModesUnchanged

LEMMA RestoreStutters ==
    ASSUME IInv, Restore
    PROVE  UNCHANGED Contract!vars
<1>1. ClientCall' = ClientCall /\ Stage' = Stage /\ UNCHANGED <<result, count>>
  BY DEF Restore, IInv, CallOK, Switch, ClientCall, Stage
<1>2. ASSUME NEW j \in Timers PROVE ModeOfTimer(j)' = ModeOfTimer(j)
  BY DEF Restore, Uncounted, Reconfiguring, ModeOfTimer
<1>3. ASSUME NEW j \in Timers PROVE IntervalOfTimer(j)' = IntervalOfTimer(j)
  BY <1>2 DEF Restore, IntervalOfTimer
<1> QED
  BY <1>1, <1>2, <1>3, ModesUnchanged

LEMMA StopDisableStutters ==
    ASSUME IInv, StopDisable
    PROVE  UNCHANGED Contract!vars
<1>1. ClientCall' = ClientCall /\ Stage' = Stage /\ UNCHANGED <<result, count>>
  BY DEF StopDisable, ClientCall, Stage
<1>2. ASSUME NEW j \in Timers PROVE ModeOfTimer(j)' = ModeOfTimer(j)
  BY DEF StopDisable, Uncounted, Reconfiguring, ModeOfTimer
<1>3. ASSUME NEW j \in Timers PROVE IntervalOfTimer(j)' = IntervalOfTimer(j)
  BY <1>2 DEF StopDisable, IntervalOfTimer
<1> QED
  BY <1>1, <1>2, <1>3, ModesUnchanged

LEMMA StopCountingStutters ==
    ASSUME IInv, StopCounting
    PROVE  UNCHANGED Contract!vars
<1>1. ClientCall' = ClientCall /\ Stage' = Stage /\ UNCHANGED <<result, count>>
  BY DEF StopCounting, ClientCall, Stage
<1>2. ASSUME NEW j \in Timers
      PROVE  ModeOfTimer(j)' = ModeOfTimer(j) /\ IntervalOfTimer(j)' = IntervalOfTimer(j)
  <2>1. CASE j = call.timer
    <3>1. Reconfiguring(j) /\ Reconfiguring(j)'
      BY <2>1 DEF StopCounting, Reconfiguring
    <3> QED
      BY <3>1 DEF ModeOfTimer, IntervalOfTimer
  <2>2. CASE j # call.timer
    BY <2>2 DEF StopCounting, Uncounted, Reconfiguring, ModeOfTimer,
       IntervalOfTimer
  <2> QED
    BY <2>1, <2>2
<1> QED
  BY <1>1, <1>2, ModesUnchanged

LEMMA StopMaskStutters ==
    ASSUME IInv, StopMask
    PROVE  UNCHANGED Contract!vars
<1>1. ClientCall' = ClientCall /\ Stage' = Stage /\ UNCHANGED <<result, count>>
  BY DEF StopMask, ClientCall, Stage
<1>2. ASSUME NEW j \in Timers
      PROVE  ModeOfTimer(j)' = ModeOfTimer(j) /\ IntervalOfTimer(j)' = IntervalOfTimer(j)
  <2>1. CASE j = call.timer
    <3>1. Reconfiguring(j) /\ Reconfiguring(j)'
      BY <2>1 DEF StopMask, Reconfiguring
    <3> QED
      BY <3>1 DEF ModeOfTimer, IntervalOfTimer
  <2>2. CASE j # call.timer
    BY <2>2 DEF StopMask, Uncounted, Reconfiguring, ModeOfTimer,
       IntervalOfTimer
  <2> QED
    BY <2>1, <2>2
<1> QED
  BY <1>1, <1>2, ModesUnchanged

LEMMA StopClearStutters ==
    ASSUME IInv, StopClear
    PROVE  UNCHANGED Contract!vars
<1>1. ClientCall' = ClientCall /\ Stage' = Stage /\ UNCHANGED <<result, count>>
  BY DEF StopClear, ClientCall, Stage
<1>2. ASSUME NEW j \in Timers
      PROVE  ModeOfTimer(j)' = ModeOfTimer(j) /\ IntervalOfTimer(j)' = IntervalOfTimer(j)
  <2>1. CASE j = call.timer
    <3>1. Reconfiguring(j) /\ Reconfiguring(j)'
      BY <2>1 DEF StopClear, Reconfiguring
    <3> QED
      BY <3>1 DEF ModeOfTimer, IntervalOfTimer
  <2>2. CASE j # call.timer
    BY <2>2 DEF StopClear, Uncounted, Reconfiguring, ClearLatch, ModeOfTimer,
       IntervalOfTimer
  <2> QED
    BY <2>1, <2>2
<1> QED
  BY <1>1, <1>2, ModesUnchanged

LEMMA StopSyncStutters ==
    ASSUME IInv, StopSync
    PROVE  UNCHANGED Contract!vars
<1>1. ClientCall' = ClientCall /\ Stage' = Stage /\ UNCHANGED <<result, count>>
  BY DEF StopSync, ClientCall, Stage
<1>2. ASSUME NEW j \in Timers PROVE ModeOfTimer(j)' = ModeOfTimer(j)
  BY DEF StopSync, Uncounted, Reconfiguring, ModeOfTimer
<1>3. ASSUME NEW j \in Timers PROVE IntervalOfTimer(j)' = IntervalOfTimer(j)
  BY <1>2 DEF StopSync, IntervalOfTimer
<1> QED
  BY <1>1, <1>2, <1>3, ModesUnchanged

LEMMA StopDiscardStutters ==
    ASSUME IInv, StopDiscard
    PROVE  UNCHANGED Contract!vars
<1>1. ClientCall' = ClientCall /\ Stage' = Stage /\ UNCHANGED <<result, count>>
  BY DEF StopDiscard, ClientCall, Stage
<1>2. ASSUME NEW j \in Timers PROVE ModeOfTimer(j)' = ModeOfTimer(j)
  BY DEF StopDiscard, Uncounted, Reconfiguring, ModeOfTimer
<1>3. ASSUME NEW j \in Timers PROVE IntervalOfTimer(j)' = IntervalOfTimer(j)
  BY <1>2 DEF StopDiscard, IntervalOfTimer
<1> QED
  BY <1>1, <1>2, <1>3, ModesUnchanged

LEMMA ArmConfigureStutters ==
    ASSUME IInv, ArmConfigure
    PROVE  UNCHANGED Contract!vars
<1>1. ClientCall' = ClientCall /\ Stage' = Stage /\ UNCHANGED <<result, count>>
  BY DEF ArmConfigure, ClientCall, Stage
<1>2. ASSUME NEW j \in Timers
      PROVE  ModeOfTimer(j)' = ModeOfTimer(j) /\ IntervalOfTimer(j)' = IntervalOfTimer(j)
  <2>1. CASE j = call.timer
    <3>1. Reconfiguring(j) /\ Reconfiguring(j)'
      BY <2>1 DEF ArmConfigure, Reconfiguring
    <3> QED
      BY <3>1 DEF ModeOfTimer, IntervalOfTimer
  <2>2. CASE j # call.timer
    BY <2>2 DEF ArmConfigure, Uncounted, Reconfiguring, ModeOfTimer,
       IntervalOfTimer
  <2> QED
    BY <2>1, <2>2
<1> QED
  BY <1>1, <1>2, ModesUnchanged

LEMMA ArmEnableStutters ==
    ASSUME IInv, ArmEnable
    PROVE  UNCHANGED Contract!vars
<1>1. ClientCall' = ClientCall /\ Stage' = Stage /\ UNCHANGED <<result, count>>
  BY DEF ArmEnable, ClientCall, Stage
<1>2. ASSUME NEW j \in Timers PROVE ModeOfTimer(j)' = ModeOfTimer(j)
  BY DEF ArmEnable, Uncounted, Reconfiguring, ModeOfTimer
<1>3. ASSUME NEW j \in Timers PROVE IntervalOfTimer(j)' = IntervalOfTimer(j)
  BY <1>2 DEF ArmEnable, IntervalOfTimer
<1> QED
  BY <1>1, <1>2, <1>3, ModesUnchanged

-----------------------------------------------------------------------------
(* Steps of the contract *)

\* A handler's count is an acknowledgement; that of a one-shot is its last.
LEMMA IsrCountAcknowledges ==
    ASSUME IInv, NEW i \in Timers, IsrCount(i)
    PROVE  Contract!Acknowledge(i)
<1>1. ~Reconfiguring(i) /\ imr[i] /\ tamr[i] \in {ONE_SHOT, PERIODIC}
  BY DEF IsrCount, IInv, TypeOK, QuietOK, CleanOK, OneShotOK, Reconfiguring
<1>2. tamr[i] = ONE_SHOT => ~taen[i] /\ ~ris[i]
  BY DEF IsrCount, IInv, OneShotOK
<1>3. ModeOfTimer(i) \in StartOps
  BY <1>1 DEF IsrCount, ModeOfTimer, Uncounted
<1>4. ModeOfTimer(i)' = IF ModeOfTimer(i) = "once" THEN "expired" ELSE ModeOfTimer(i)
  BY <1>1, <1>2 DEF IsrCount, ModeOfTimer, Uncounted, Reconfiguring
<1>5. ASSUME NEW j \in Timers, j # i PROVE ModeOfTimer(j)' = ModeOfTimer(j)
  BY <1>5 DEF IsrCount, ModeOfTimer, Uncounted, Reconfiguring, IInv, TypeOK
<1>6. ASSUME NEW j \in Timers PROVE IntervalOfTimer(j)' = IntervalOfTimer(j)
  BY <1>3, <1>4, <1>5 DEF IsrCount, IntervalOfTimer, IInv, TypeOK
<1>7. ClientCall' = ClientCall /\ Stage' = Stage /\ UNCHANGED result
  BY DEF IsrCount, ClientCall, Stage, NoCall
<1> QED
  BY <1>3, <1>4, <1>5, <1>6, <1>7, SharedTerms DEF IsrCount,
     Contract!Acknowledge

\* A client's invocation.
LEMMA InvokeInvokes ==
    ASSUME IInv, NEW c \in TimerCalls, Invoke(c)
    PROVE  Contract!Invoke(c)
<1>1. ClientCall = NoCall /\ Stage = "idle"
  BY DEF Invoke, ClientCall, Stage, NoCall, IInv, CallOK
<1>2. ClientCall' = c /\ Stage' = "invoked"
  BY CallTypes DEF Invoke, ClientCall, Stage, NoCall, TimerCalls, Calls
<1>3. ASSUME NEW j \in Timers
      PROVE  ModeOfTimer(j)' = ModeOfTimer(j) /\ IntervalOfTimer(j)' = IntervalOfTimer(j)
  BY SameModes DEF Invoke, Reconfiguring
<1> QED
  BY <1>1, <1>2, <1>3, SharedTerms DEF Invoke, Contract!Invoke

\* arm() refuses the request, or goes on without an effect so far.
LEMMA CheckRejects ==
    ASSUME IInv, Check
    PROVE  Contract!Reject \/ UNCHANGED Contract!vars
<1>1. call \in TimerCalls /\ call.op \in StartOps /\ call # NoCall
  BY CallTypes DEF Check, IInv, TypeOK, CallOK, NoCall
<1>2. ClientCall = call /\ Stage = "invoked"
  BY <1>1 DEF Check, ClientCall, Stage
<1>3. ASSUME NEW j \in Timers
      PROVE  ModeOfTimer(j)' = ModeOfTimer(j) /\ IntervalOfTimer(j)' = IntervalOfTimer(j)
  BY SameModes DEF Check, Reconfiguring, NoCall
<1>4. CASE ValidRequest(call.us)
  <2>1. ClientCall' = ClientCall /\ Stage' = Stage /\ UNCHANGED <<result, count>>
    BY <1>1, <1>2, <1>4 DEF Check, ClientCall, Stage
  <2> QED
    BY <1>3, <2>1, ModesUnchanged
<1>5. CASE ~ValidRequest(call.us)
  <2>1. ClientCall' = NoCall /\ Stage' = "idle" /\ result' = "err" /\ count' = count
    BY <1>5 DEF Check, ClientCall, Stage, NoCall
  <2> QED
    BY <1>1, <1>2, <1>3, <1>5, <2>1, SharedTerms DEF Contract!Reject,
       Contract!Return
<1> QED
  BY <1>4, <1>5

\* Past the barrier a client's timer is silent; the constructor's was.
LEMMA StopBarrierSilences ==
    ASSUME IInv, StopBarrier
    PROVE  Contract!Silence \/ UNCHANGED Contract!vars
<1>1. call \in Calls /\ call.op \in StartOps \cup {"stop", "initialize"}
  BY CallTypes DEF StopBarrier, IInv, TypeOK, CallOK
<1>2. call.timer \in Timers
  BY <1>1, CallTypes
<1>3. ASSUME NEW j \in Timers, j = call.timer
      PROVE  ModeOfTimer(j)' = "off" /\ IntervalOfTimer(j)' = 0
  BY <1>3 DEF StopBarrier, ModeOfTimer, IntervalOfTimer, Reconfiguring
<1>4. ASSUME NEW j \in Timers, j # call.timer
      PROVE  ModeOfTimer(j)' = ModeOfTimer(j) /\ IntervalOfTimer(j)' = IntervalOfTimer(j)
  BY <1>4, SameModes DEF StopBarrier, Reconfiguring
<1>5. CASE call.op = "initialize"
  <2>1. ClientCall' = ClientCall /\ Stage' = Stage /\ UNCHANGED <<result, count>>
    BY <1>5 DEF StopBarrier, ClientCall, Stage
  <2>2. ASSUME NEW j \in Timers, j = call.timer
        PROVE  ModeOfTimer(j) = "off" /\ IntervalOfTimer(j) = 0
    BY <1>5, <2>2 DEF IInv, BoardOK, ModeOfTimer, IntervalOfTimer
  <2>3. ASSUME NEW j \in Timers
        PROVE  ModeOfTimer(j)' = ModeOfTimer(j) /\ IntervalOfTimer(j)' = IntervalOfTimer(j)
    BY <1>3, <1>4, <2>2
  <2> QED
    BY <2>1, <2>3, ModesUnchanged
<1>6. CASE call.op # "initialize"
  <2>1. ClientCall = call /\ ClientCall' = call /\ call # NoCall
    BY <1>1, <1>6 DEF StopBarrier, ClientCall, NoCall
  <2>2. Stage = "invoked" /\ Stage' = "silent"
    BY <2>1 DEF StopBarrier, Stage
  <2>3. call.op \in StartOps => ValidRequest(call.us)
    BY DEF StopBarrier, IInv, CallOK
  <2> QED
    BY <1>2, <1>3, <1>4, <2>1, <2>2, <2>3, SharedTerms DEF StopBarrier,
       Contract!Silence
<1> QED
  BY <1>5, <1>6

\* A client's stop() completes; the constructor's and arm()'s go on.
LEMMA StopReturnCompletes ==
    ASSUME IInv, StopReturn
    PROVE  Contract!Complete \/ UNCHANGED Contract!vars
<1>1. call \in Calls /\ call.op \in StartOps \cup {"stop", "initialize"}
  BY CallTypes DEF StopReturn, IInv, TypeOK, CallOK
<1>2. call.timer \in Timers
  BY <1>1, CallTypes
<1>3. ~imr[call.timer] /\ UNCHANGED imr
  BY DEF StopReturn, IInv, QuietOK
<1>4. ASSUME NEW j \in Timers
      PROVE  ModeOfTimer(j)' = ModeOfTimer(j) /\ IntervalOfTimer(j)' = IntervalOfTimer(j)
  <2>1. CASE j = call.timer
    BY <1>3, <2>1 DEF ModeOfTimer, IntervalOfTimer
  <2>2. CASE j # call.timer
    <3>1. ~Reconfiguring(j) /\ ~Reconfiguring(j)'
      BY <2>2 DEF StopReturn, Reconfiguring, NoCall
    <3> QED
      BY <3>1, SameModes DEF StopReturn
  <2> QED
    BY <2>1, <2>2
<1>5. CASE call.op = "stop"
  <2>1. ClientCall = call /\ Stage = "silent"
    BY <1>5 DEF StopReturn, ClientCall, Stage, NoCall
  <2>2. ClientCall' = NoCall /\ Stage' = "idle" /\ result' = "ok" /\ count' = count
    BY <1>5 DEF StopReturn, ClientCall, Stage, NoCall
  <2> QED
    BY <1>4, <1>5, <2>1, <2>2, SharedTerms DEF Contract!Complete,
       Contract!Return
<1>6. CASE call.op # "stop"
  <2>1. ClientCall' = ClientCall /\ Stage' = Stage /\ UNCHANGED <<result, count>>
    BY <1>1, <1>6 DEF StopReturn, ClientCall, Stage, NoCall
  <2> QED
    BY <1>4, <2>1, ModesUnchanged
<1> QED
  BY <1>5, <1>6

\* ArmedOK holds throughout.
LEMMA ArmedInv == Spec => []ArmedOK
<1>1. Init => ArmedOK
  BY DEF Init, ArmedOK
<1>2. IInv /\ ArmedOK /\ [Next]_vars => ArmedOK'
  <2> SUFFICES ASSUME IInv, ArmedOK, [Next]_vars PROVE ArmedOK'
    OBVIOUS
  <2>1. CASE ArmConfigure
    BY <2>1, CallTypes DEF ArmConfigure, ArmedOK, IInv, TypeOK, CallOK
  <2>2. CASE ArmEnable
    BY <2>2 DEF ArmEnable, ArmedOK
  <2>3. CASE ~ArmConfigure /\ ~ArmEnable
    <3>1. pc' \in {"iser", "taen"} => UNCHANGED <<pc, call, tamr, tailr>>
      BY <2>3 DEF Next, Hardware, Handler, Proceed, Stop, Arm, vars,
         Timeout, Propagate, Land, Preempt, IsrClear, IsrSync, IsrCount,
         IsrReturn, Initialize, EnableInterrupts, Invoke, SaveAndDisable,
         Restore, Check, StopDisable, StopBarrier, StopCounting, StopMask,
         StopClear, StopSync, StopDiscard, StopReturn, ArmCount, ArmReturn
    <3> QED
      BY <3>1 DEF ArmedOK
  <2> QED
    BY <2>1, <2>2, <2>3
<1> QED
  BY <1>1, <1>2, InductiveInvariant, PTL DEF Spec

\* The TAEN write engages the requested interval in the requested mode.
LEMMA ArmCountEngages ==
    ASSUME IInv, ArmedOK, ArmCount
    PROVE  Contract!Engage
<1>1. call.timer \in Timers /\ call.op \in StartOps /\ call.us \in Requests
  BY CallTypes DEF ArmCount, IInv, TypeOK, CallOK
<1>2. ClientCall = call /\ ClientCall' = call /\ Stage = "silent" /\ Stage' = "engaged"
  BY <1>1 DEF ArmCount, ClientCall, Stage, NoCall
<1>3. imr'[call.timer] /\ taen'[call.timer] /\ ~Reconfiguring(call.timer)'
  BY <1>1 DEF ArmCount, IInv, TypeOK, QuietOK, Reconfiguring
<1>4. ModeOfTimer(call.timer)' = call.op
  BY <1>1, <1>3 DEF ArmCount, ArmedOK, ModeOf, ModeOfTimer
<1>5. IntervalOfTimer(call.timer)' = TicksFromUs(call.us)
  <2>1. TicksFromUs(call.us) \in Int
    <3>1. call.us * TicksPerUs \in Nat
      BY <1>1, call.us \in Nat
    <3> QED
      BY <3>1 DEF TicksFromUs
  <2>2. IntervalOfTimer(call.timer)' = tailr[call.timer] + 1
    BY <1>1, <1>4 DEF ArmCount, IntervalOfTimer
  <2> QED
    BY <2>1, <2>2 DEF ArmCount, ArmedOK
<1>6. ASSUME NEW j \in Timers, j # call.timer
      PROVE  ModeOfTimer(j)' = ModeOfTimer(j) /\ IntervalOfTimer(j)' = IntervalOfTimer(j)
  BY <1>6 DEF ArmCount, ModeOfTimer, IntervalOfTimer, Uncounted,
     Reconfiguring, IInv, TypeOK
<1> QED
  BY <1>1, <1>2, <1>4, <1>5, <1>6, SharedTerms DEF ArmCount, Contract!Engage

\* The start returns.
LEMMA ArmReturnCompletes ==
    ASSUME IInv, ArmReturn
    PROVE  Contract!Complete
<1>1. ClientCall = call /\ Stage = "engaged"
  BY DEF ArmReturn, ClientCall, Stage, NoCall, IInv, CallOK
<1>2. ClientCall' = NoCall /\ Stage' = "idle" /\ result' = "ok" /\ count' = count
  BY DEF ArmReturn, ClientCall, Stage, NoCall
<1>3. ASSUME NEW j \in Timers
      PROVE  ModeOfTimer(j)' = ModeOfTimer(j) /\ IntervalOfTimer(j)' = IntervalOfTimer(j)
  BY SameModes DEF ArmReturn, Reconfiguring, NoCall
<1> QED
  BY <1>1, <1>2, <1>3, SharedTerms DEF Contract!Complete, Contract!Return

-----------------------------------------------------------------------------
(* Theorem *)

\* The reset state is the contract's: every timer off, nothing counted.
LEMMA InitImplements == Init => Contract!Init
BY SharedTerms DEF Init, Contract!Init, ClientCall, Stage, ModeOfTimer,
   IntervalOfTimer, NoCall, Reconfiguring

\* Each step of the driver and its hardware is a step of the contract or
\* changes nothing it speaks of.
LEMMA NextImplements ==
    ASSUME IInv, ArmedOK, [Next]_vars
    PROVE  [Contract!Next]_(Contract!vars)
<1>1. CASE \E i \in Timers : Hardware(i)
  BY <1>1, TimeoutStutters, PropagateStutters, LandStutters, PreemptStutters
  DEF Hardware
<1>2. CASE \E i \in Timers : Handler(i)
  BY <1>2, IsrClearStutters, IsrSyncStutters, IsrReturnStutters,
     IsrCountAcknowledges DEF Handler, Contract!Next
<1>3. CASE \E i \in Timers : Initialize(i)
  BY <1>3, InitializeStutters
<1>4. CASE \E c \in TimerCalls : Invoke(c)
  BY <1>4, InvokeInvokes, SharedTerms DEF Contract!Next
<1>5. CASE EnableInterrupts \/ SaveAndDisable \/ Restore
  BY <1>5, EnableInterruptsStutters, SaveAndDisableStutters, RestoreStutters
<1>6. CASE Check
  BY <1>6, CheckRejects DEF Contract!Next
<1>7. CASE Stop
  BY <1>7, StopDisableStutters, StopBarrierSilences, StopCountingStutters,
     StopMaskStutters, StopClearStutters, StopSyncStutters,
     StopDiscardStutters, StopReturnCompletes DEF Stop, Contract!Next
<1>8. CASE Arm
  BY <1>8, ArmConfigureStutters, ArmEnableStutters, ArmCountEngages,
     ArmReturnCompletes DEF Arm, Contract!Next
<1>9. CASE UNCHANGED vars
  BY <1>9 DEF vars, Contract!vars, ClientCall, Stage, ModeOfTimer,
     IntervalOfTimer, Uncounted, Reconfiguring
<1> QED
  BY <1>1, <1>2, <1>3, <1>4, <1>5, <1>6, <1>7, <1>8, <1>9 DEF Next, Proceed

\* The driver, register by register, keeps the promise to its client: a
\* refused request has no effect, a start or stop silences the earlier interval
\* for good, a one-shot is acknowledged once, and no call loses the count.
THEOREM TimerImplementsContract == Spec => ImplementsContract
<1>1. Init => Contract!Init
  BY InitImplements
<1>2. IInv /\ ArmedOK /\ [Next]_vars => [Contract!Next]_(Contract!vars)
  BY NextImplements
<1> QED
  BY <1>1, <1>2, InductiveInvariant, ArmedInv, PTL
  DEF Spec, ImplementsContract, Contract!Spec
=============================================================================
