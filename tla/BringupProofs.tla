--------------------------- MODULE BringupProofs ---------------------------
(***************************************************************************)
(* The application's self-test, for all times, budgets and counters that   *)
(* keep the relations the code's constants have: main condemns exactly the *)
(* boards that are broken, names what is broken, and falls behind the      *)
(* timer by no more than one turn of its loop.                             *)
(*                                                                         *)
(* The invariant goes along main's statements: what the timer is doing     *)
(* there (TimerOK), how long main has waited (WaitOK), and how many        *)
(* acknowledgements fit that time, from above and from below (FastOK,      *)
(* StoppedOK, OneShotOK, LoopOK).                                          *)
(***************************************************************************)
EXTENDS Bringup, TLAPS

\* The fast and the slow interval, in ticks
fast == TicksFromUs(Fast)
slow == TicksFromUs(Slow)

-----------------------------------------------------------------------------
(* The invariant *)

\* How far main gets over each fault. Panicked, it names it.
ToTake == {"take"}
ToClock == ToTake \cup {"clock"}
ToMemory == ToClock \cup {"banner", "memory"}
ToInterrupts == ToMemory \cup {"running", "periodic", "mark", "interrupts"}
ToUnchanged == ToInterrupts \cup {"stop", "mark_stopped", "quiet", "unchanged"}
ToExact == ToUnchanged \cup {"zero", "overflow", "once", "mark_once", "expiry", "exact"}
ToLoop == ToExact \cup {"halt", "verdict", "pass", "blink"} \cup Loop

FaultOK ==
    /\ fault \in Faults /\ stuck \in BOOLEAN /\ (stuck => fault = "line")
    /\ pc = "panic" => fault # "none" /\ cause = CauseOf[fault]
    /\ pc # "panic" => cause = "none"
    /\ fault = "board" => pc \in ToTake \cup {"panic"}
    /\ fault = "crystal" => pc \in ToClock \cup {"panic"}
    /\ fault = "memory" => pc \in ToMemory \cup {"fail_memory", "panic"}
    /\ fault = "dead" => pc \in ToInterrupts \cup {"fail_timer", "panic"}
    /\ fault = "lingers" => pc \in ToUnchanged \cup {"panic"}
    /\ fault = "repeats" => pc \in ToExact \cup {"panic"}
    /\ fault \in {"none", "line"} => pc \in ToLoop \cup {"panic"}

\* The call in progress is the one main's statement makes, and only a valid
\* start gets past its check.
CallOK ==
    /\ stage \in {"idle", "invoked", "silent", "engaged"}
    /\ result \in {"none", "ok", "err"}
    /\ stage = "idle" => call = NoCall
    /\ stage # "idle" =>
           /\ pc \in DOMAIN CallOf
           /\ call = [op |-> CallOf[pc].op, timer |-> TheTimer, us |-> CallOf[pc].us]
    /\ pc \in {"zero", "overflow"} => stage \in {"idle", "invoked"}
    /\ pc \in {"stop", "halt"} => stage # "engaged"

\* What the timer is doing, by what main has had it do
Untouched ==
    pc \in {"take", "clock", "banner", "memory", "fail_memory", "running"}
        \/ (pc = "periodic" /\ stage # "engaged")
FastRunning ==
    \/ pc = "periodic" /\ stage = "engaged"
    \/ pc \in {"mark", "interrupts", "fail_timer"}
    \/ pc = "stop" /\ stage # "silent"
Stopped ==
    \/ pc = "stop" /\ stage = "silent"
    \/ pc \in {"mark_stopped", "quiet", "unchanged", "zero", "overflow"}
    \/ pc = "once" /\ stage # "engaged"
OneShot ==
    \/ pc = "once" /\ stage = "engaged"
    \/ pc \in {"mark_once", "expiry", "exact"}
    \/ pc = "halt" /\ stage # "silent"
Halted ==
    \/ pc = "halt" /\ stage = "silent"
    \/ pc \in {"verdict", "pass"}
    \/ pc = "blink" /\ stage # "engaged"
SlowRunning ==
    (pc = "blink" /\ stage = "engaged") \/ pc \in Loop

Silent == period = 0 /\ left = 0 /\ due = 0
Repeating(ticks) == period = ticks /\ left \in 1 .. ticks /\ (due = 1 => left = ticks)

TimerOK ==
    /\ due \in 0 .. 1
    /\ Untouched => mode[TheTimer] = "off" /\ Silent /\ count[TheTimer] = 0
    /\ FastRunning =>
           /\ mode[TheTimer] = "periodic" /\ period = fast /\ left \in 1 .. fast
           /\ due = 1 => left = fast \/ fault = "dead"
    /\ Stopped =>
           /\ mode[TheTimer] = "off"
           /\ IF fault = "lingers" THEN Repeating(fast) ELSE Silent
    /\ OneShot =>
           IF fault = "repeats" THEN mode[TheTimer] \in {"once", "expired"} /\ Repeating(fast)
           ELSE /\ period = fast
                /\ \/ mode[TheTimer] = "once" /\ left \in 1 .. fast /\ due = 0
                   \/ mode[TheTimer] = "once" /\ left = 0 /\ due = 1
                   \/ mode[TheTimer] = "expired" /\ left = 0 /\ due = 0
    /\ Halted => mode[TheTimer] = "off" /\ Silent
    /\ SlowRunning => mode[TheTimer] = "periodic" /\ Repeating(slow)

\* A wait is polled at most once a tick, and left soon after it is over.
WaitOK ==
    /\ elapsed \in 0 .. Timeout /\ busy \in 0 .. MaxGap
    /\ polls \in 0 .. elapsed + 1 /\ polls <= Timeout
    /\ polls > 0 /\ busy > 0 => polls <= elapsed
    /\ pc = "interrupts" /\ polls = 0 => elapsed <= busy
    /\ pc = "interrupts" /\ polls > 0 /\ fault # "dead" => elapsed <= Needed * fast + busy
    /\ pc \in {"quiet", "expiry"} => elapsed <= Quiet + busy
    /\ pc \in {"unchanged", "exact"} => elapsed >= Quiet /\ elapsed <= Quiet + MaxGap + busy

\* All polls of a wait but the first have taken PollTicks, and none is beyond
\* the budget.
PaceOK ==
    /\ polls \in 0 .. Budget
    /\ polls > 0 /\ elapsed < Timeout => (polls - 1) * PollTicks + busy <= elapsed

\* Interrupts of the fast interval keep up with the ticks since the mark, and
\* cannot come round before they are seen.
FastOK ==
    /\ FastRunning /\ fault = "dead" => count[TheTimer] = 0
    /\ pc = "interrupts" /\ fault # "dead" =>
           elapsed <= (count[TheTimer] + due) * fast + fast - left
    /\ fault # "dead" =>
           /\ pc = "periodic" /\ stage = "engaged" => count[TheTimer] + due <= busy
           /\ pc = "mark" => count[TheTimer] + due <= MaxGap + busy
           /\ pc = "interrupts" /\ polls = 0 => count[TheTimer] + due <= 2 * MaxGap + busy
           /\ pc = "interrupts" /\ polls > 0 => count[TheTimer] + due <= Needed + busy

\* The count is n acknowledgements further than main has read.
Since(n) == count[TheTimer] = stopped + n \/ count[TheTimer] = stopped + n - CountMod

\* After stop() nothing is counted - or, if the timer lingers, at least once
\* in the quiet time, but not so often that the count comes round.
StoppedOK ==
    /\ fault # "lingers" /\ (pc \in {"quiet", "unchanged", "zero", "overflow"}
                             \/ (pc = "once" /\ stage # "engaged")) =>
           count[TheTimer] = stopped
    /\ fault = "lingers" /\ pc \in {"quiet", "unchanged"} =>
           \E n \in Nat :
               /\ Since(n)
               /\ elapsed <= (n + due) * fast + fast - left
               /\ n + due <= elapsed + 1

\* A one-shot is counted once - or, if it repeats, at least twice.
OneShotOK ==
    OneShot /\ pc # "halt" =>
        /\ fault # "repeats" =>
               /\ mode[TheTimer] = "once" => count[TheTimer] = stopped
               /\ mode[TheTimer] = "expired" => count[TheTimer] = Bump(stopped)
               /\ mode[TheTimer] = "once" /\ pc \in {"expiry", "exact"} => elapsed + left <= fast
        /\ fault = "repeats" =>
               \E n \in Nat :
                   /\ Since(n)
                   /\ pc = "once" => n + due <= busy
                   /\ pc = "mark_once" => n + due <= MaxGap + busy
                   /\ pc \in {"expiry", "exact"} =>
                          /\ elapsed <= (n + due) * fast + fast - left
                          /\ n + due <= 2 * MaxGap + elapsed

\* The line being written is the statement's own. Nothing follows RESULT FAIL
\* but a panic, and RESULT PASS follows the verdict.
LinesOK ==
    /\ writing \in Lines \cup {"none"} /\ wrote \in 0 .. Timeout /\ sent \subseteq Lines
    /\ writing # "none" => pc \in DOMAIN LineOf /\ writing = LineOf[pc]
    /\ status \in 0 .. 2
    /\ status = 2 => fault \in {"none", "line"}
    /\ pc \in {"pass", "blink"} \cup Loop => status = 2
    /\ status = 2 => pc \in {"pass", "blink", "panic"} \cup Loop
    /\ "pass" \in sent => status = 2
    /\ "fail" \in sent => pc = "panic" /\ fault \in {"memory", "dead"}

\* The most ticks since main looked at the timer
Spent ==
    CASE pc = "look" -> Timeout + 6 * MaxGap + busy
      [] pc = "red" -> MaxGap + busy
      [] pc = "green" -> 2 * MaxGap + busy
      [] pc = "count" -> 3 * MaxGap + busy
      [] pc = "read" -> 4 * MaxGap + busy
      [] pc \in {"echo", "report"} /\ writing = "none" -> 5 * MaxGap + busy
      [] OTHER -> 6 * MaxGap + wrote

\* In the loop the LEDs agree except between two toggles, and what the timer
\* has counted since main looked fits the time since.
LoopOK ==
    /\ stopped \in 0 .. CountMod - 1 /\ previous \in 0 .. CountMod - 1
    /\ red \in BOOLEAN /\ green \in BOOLEAN /\ blinks \in 0 .. CountMod - 1
    /\ pc # "green" => (red <=> green)
    /\ pc = "green" => (red <=> ~green)
    /\ pc # "count" => (green <=> blinks % 2 = 1)
    /\ pc = "count" => (green <=> blinks % 2 = 0)
    /\ pc \in Loop => (Lag + due) * slow <= Spent + left

ContractTypes ==
    /\ call \in TimerCalls \cup {NoCall}
    /\ mode \in [Timers -> {"off", "once", "periodic", "expired"}]
    /\ interval \in [Timers -> 0 .. MaxTicks]
    /\ count \in [Timers -> 0 .. CountMod - 1]
    /\ period \in 0 .. MaxTicks /\ left \in 0 .. period

BringupInv ==
    /\ ContractTypes /\ FaultOK /\ CallOK /\ TimerOK /\ WaitOK /\ FastOK
    /\ StoppedOK /\ OneShotOK /\ LinesOK /\ LoopOK

-----------------------------------------------------------------------------
(* Numbers *)

\* What the rest needs of the constants
LEMMA Constants ==
    /\ TheTimer \in Timers
    /\ fast \in 1 .. MaxTicks /\ slow \in 1 .. MaxTicks
    /\ Needed \in Nat \ {0} /\ MaxGap \in Nat \ {0} /\ Quiet \in Nat /\ Timeout \in Nat
    /\ LineTime \in Nat /\ Budget \in Nat /\ QuietBudget \in Nat /\ MaxTicks \in Nat
    /\ PollTicks \in Nat \ {0} /\ QuietBudget <= Budget /\ LineTime < Timeout
    /\ Timeout <= (Budget - 1) * PollTicks /\ Quiet <= (QuietBudget - 1) * PollTicks
    /\ 2 * fast < Quiet /\ Needed * fast + 2 * MaxGap < Timeout
    /\ Quiet + 2 * MaxGap <= Timeout
    /\ CountMod \in Nat /\ CountMod > 2 /\ Needed + MaxGap < CountMod /\ Quiet + 4 * MaxGap < CountMod
    /\ ValidRequest(Fast) /\ ValidRequest(Slow) /\ ~ValidRequest(0) /\ ~ValidRequest(Overflow)
    /\ {0, Fast, Slow, Overflow} \subseteq Requests
  <1>1. Fast \in Nat /\ Slow \in Nat /\ TicksPerUs \in Nat \ {0} /\ MaxTicks \in Nat
    BY IntervalAssumption, RequestsAssumption, TicksAssumption
  <1>2. fast \in Nat /\ slow \in Nat
    BY <1>1 DEF fast, slow, TicksFromUs
  <1>3. fast \in 1 .. MaxTicks /\ slow \in 1 .. MaxTicks
    BY <1>1, <1>2, IntervalAssumption DEF ValidRequest, fast, slow
  <1>4. TicksFromUs(2 * Fast) = 2 * fast
    BY <1>1 DEF TicksFromUs, fast
  <1>5. TicksFromUs(Needed * Fast) = Needed * fast
    <2>1. \A a, b, c \in Nat : (a * b) * c = a * (b * c)
      OBVIOUS
    <2> QED BY <1>1, <2>1, NumbersAssumption DEF TicksFromUs, fast
  <1>6. TheTimer \in Timers
    BY NumbersAssumption DEF TheTimer
  <1>7. ~ValidRequest(0)
    BY <1>1 DEF ValidRequest, TicksFromUs
  <1> QED
    BY <1>1, <1>3, <1>4, <1>5, <1>6, <1>7, NumbersAssumption, BudgetAssumption, IntervalAssumption,
       CountAssumption, CountModAssumption

\* Intervals add up.
LEMMA Products ==
    /\ \A a, f \in Nat : a * f \in Nat /\ (a + 1) * f = a * f + f
    /\ \A a, b, f \in Nat : a <= b => a * f <= b * f
    /\ \A f \in Nat : 0 * f = 0 /\ 1 * f = f /\ 2 * f = f + f
  OBVIOUS

\* The counter comes round to where its parity fits.
LEMMA Parity ==
    \A n \in 0 .. CountMod - 1 :
        Bump(n) \in 0 .. CountMod - 1 /\ (Bump(n) % 2 = 1 <=> n % 2 = 0) /\ (n % 2 = 0 <=> ~(n % 2 = 1))
  BY CountAssumption, CountModAssumption DEF Bump

\* One acknowledgement more is one more to lag behind, or none.
LEMMA LagIs ==
    ASSUME NEW c \in 0 .. CountMod - 1, NEW p \in 0 .. CountMod - 1
    PROVE  LET lag(n) == IF n >= p THEN n - p ELSE n - p + CountMod IN
           /\ lag(c) \in 0 .. CountMod - 1 /\ lag(p) = 0
           /\ lag(Bump(c)) \in Nat /\ lag(Bump(c)) <= lag(c) + 1
  BY CountModAssumption DEF Bump

-----------------------------------------------------------------------------
(* main's statements *)

LEMMA Places ==
    /\ \A i, j \in 1 .. 23 : Order[i] = Order[j] => i = j
    /\ DOMAIN Order = 1 .. 23
  BY DEF Order

LEMMA NextPlace == \A i \in 1 .. 22 : After(Order[i]) = Order[i + 1]
  <1> SUFFICES ASSUME NEW i \in 1 .. 22 PROVE After(Order[i]) = Order[i + 1]
    OBVIOUS
  <1>1. \A j \in DOMAIN Order : Order[j] = Order[i] <=> j = i
    BY Places
  <1>2. (CHOOSE j \in DOMAIN Order : Order[j] = Order[i]) = i
    BY <1>1, Places
  <1> QED BY <1>2 DEF After

LEMMA Following ==
    /\ After("take") = "clock" /\ After("clock") = "banner" /\ After("banner") = "memory"
    /\ After("memory") = "running" /\ After("running") = "periodic" /\ After("periodic") = "mark"
    /\ After("mark") = "interrupts" /\ After("interrupts") = "stop" /\ After("stop") = "mark_stopped"
    /\ After("mark_stopped") = "quiet" /\ After("quiet") = "unchanged" /\ After("unchanged") = "zero"
    /\ After("zero") = "overflow" /\ After("overflow") = "once" /\ After("once") = "mark_once"
    /\ After("mark_once") = "expiry" /\ After("expiry") = "exact" /\ After("exact") = "halt"
    /\ After("halt") = "verdict" /\ After("verdict") = "pass" /\ After("pass") = "blink"
    /\ After("blink") = "look"
  <1>1. /\ Order[1] = "take" /\ Order[2] = "clock" /\ Order[3] = "banner" /\ Order[4] = "memory"
        /\ Order[5] = "running" /\ Order[6] = "periodic" /\ Order[7] = "mark"
        /\ Order[8] = "interrupts" /\ Order[9] = "stop" /\ Order[10] = "mark_stopped"
        /\ Order[11] = "quiet" /\ Order[12] = "unchanged" /\ Order[13] = "zero"
        /\ Order[14] = "overflow" /\ Order[15] = "once" /\ Order[16] = "mark_once"
        /\ Order[17] = "expiry" /\ Order[18] = "exact" /\ Order[19] = "halt"
        /\ Order[20] = "verdict" /\ Order[21] = "pass" /\ Order[22] = "blink" /\ Order[23] = "look"
    BY DEF Order
  <1>2. /\ After(Order[1]) = Order[2] /\ After(Order[2]) = Order[3] /\ After(Order[3]) = Order[4]
        /\ After(Order[4]) = Order[5] /\ After(Order[5]) = Order[6] /\ After(Order[6]) = Order[7]
        /\ After(Order[7]) = Order[8] /\ After(Order[8]) = Order[9] /\ After(Order[9]) = Order[10]
        /\ After(Order[10]) = Order[11] /\ After(Order[11]) = Order[12]
        /\ After(Order[12]) = Order[13] /\ After(Order[13]) = Order[14]
        /\ After(Order[14]) = Order[15] /\ After(Order[15]) = Order[16]
        /\ After(Order[16]) = Order[17] /\ After(Order[17]) = Order[18]
        /\ After(Order[18]) = Order[19] /\ After(Order[19]) = Order[20]
        /\ After(Order[20]) = Order[21] /\ After(Order[21]) = Order[22]
        /\ After(Order[22]) = Order[23]
    BY NextPlace
  <1> QED BY <1>1, <1>2

\* The contract's terms are Bringup's.
LEMMA SharedTerms ==
    /\ T!StartOps = StartOps /\ T!NoCall = NoCall
    /\ \A us : T!ValidRequest(us) <=> ValidRequest(us)
    /\ \A us : T!TicksFromUs(us) = TicksFromUs(us)
    /\ \A n : T!Bump(n) = Bump(n)
  BY DEF T!StartOps, StartOps, T!NoCall, NoCall, T!ValidRequest, ValidRequest,
         T!TicksFromUs, TicksFromUs, T!Bump, Bump

LEMMA Calls ==
    /\ DOMAIN CallOf = {"periodic", "stop", "zero", "overflow", "once", "halt", "blink"}
    /\ CallOf["periodic"] = [op |-> "periodic", us |-> Fast, want |-> "ok"]
    /\ CallOf["stop"] = [op |-> "stop", us |-> 0, want |-> "ok"]
    /\ CallOf["zero"] = [op |-> "periodic", us |-> 0, want |-> "err"]
    /\ CallOf["overflow"] = [op |-> "periodic", us |-> Overflow, want |-> "err"]
    /\ CallOf["once"] = [op |-> "once", us |-> Fast, want |-> "ok"]
    /\ CallOf["halt"] = [op |-> "stop", us |-> 0, want |-> "ok"]
    /\ CallOf["blink"] = [op |-> "periodic", us |-> Slow, want |-> "ok"]
  BY DEF CallOf

LEMMA LinesAre ==
    /\ DOMAIN LineOf = {"banner", "pass", "fail_memory", "fail_timer", "echo", "report"}
    /\ LineOf["banner"] = "banner" /\ LineOf["pass"] = "pass" /\ LineOf["fail_memory"] = "fail"
    /\ LineOf["fail_timer"] = "fail" /\ LineOf["echo"] = "echo" /\ LineOf["report"] = "rx_error"
    /\ Lines = {"banner", "pass", "fail", "echo", "rx_error"}
  BY DEF LineOf, Lines

\* The numbers among the variables
LEMMA Ranges ==
    ASSUME BringupInv
    PROVE  /\ count[TheTimer] \in 0 .. CountMod - 1 /\ stopped \in 0 .. CountMod - 1
           /\ previous \in 0 .. CountMod - 1 /\ due \in 0 .. 1
           /\ period \in 0 .. MaxTicks /\ left \in 0 .. period /\ left \in Nat /\ period \in Nat
           /\ elapsed \in 0 .. Timeout /\ busy \in 0 .. MaxGap /\ polls \in 0 .. Timeout
           /\ wrote \in 0 .. Timeout
  BY Constants DEF BringupInv, ContractTypes, TimerOK, WaitOK, LinesOK, LoopOK

-----------------------------------------------------------------------------
(* Time *)

LEMMA TickKeeps ==
    ASSUME BringupInv, Tick
    PROVE  BringupInv'
  <1>r. /\ count[TheTimer] \in 0 .. CountMod - 1 /\ due \in 0 .. 1
        /\ period \in Nat /\ left \in 0 .. period /\ left \in Nat
        /\ elapsed \in 0 .. Timeout /\ busy \in 0 .. MaxGap /\ wrote \in 0 .. Timeout
    BY Ranges
  <1>1. /\ UNCHANGED <<contract, period, pc, cause, polls, writing, sent, stopped, leds, status, world>>
        /\ pc # "panic" /\ due \in {0, 1} /\ (due = 1 => fault = "dead")
    BY <1>r DEF Tick
  <1>2. /\ left = 0 => left' = 0 /\ due' = due
        /\ left > 1 => left' = left - 1 /\ due' = due
        /\ left = 1 => due' = 1
        /\ left = 1 /\ (mode[TheTimer] # "once" \/ fault = "repeats") => left' = period
        /\ left = 1 /\ ~(mode[TheTimer] # "once" \/ fault = "repeats") => left' = 0
    BY <1>r DEF Tick
  <1>3. /\ elapsed' = IF elapsed < Timeout THEN elapsed + 1 ELSE elapsed
        /\ writing = "none" => busy < MaxGap /\ busy' = busy + 1 /\ wrote' = 0
        /\ writing # "none" => wrote < WriteBound /\ busy' = 0 /\ wrote' = wrote + 1
    BY <1>1 DEF Tick
  <1>4. ContractTypes'
    <2>1. left' \in 0 .. period
      BY <1>r, <1>2
    <2> QED BY <1>1, <2>1 DEF BringupInv, ContractTypes, contract
  <1>5. FaultOK' /\ CallOK'
    BY <1>1 DEF BringupInv, FaultOK, CallOK, contract, world, CauseOf
  <1>6. TimerOK'
    <2>1. UNCHANGED <<pc, stage, mode, count, fault, period>>
      BY <1>1 DEF contract, world
    <2>2. UNCHANGED <<Untouched, FastRunning, Stopped, OneShot, Halted, SlowRunning>>
      BY <2>1 DEF Untouched, FastRunning, Stopped, OneShot, Halted, SlowRunning
    <2>3. due' \in 0 .. 1
      BY <1>r, <1>2
    <2>4. Untouched \/ Halted => Silent'
      BY <1>2, <2>1 DEF BringupInv, TimerOK, Silent
    <2>5. FastRunning => left' \in 1 .. fast /\ (due' = 1 => left' = fast \/ fault = "dead")
      BY <1>1, <1>2, Constants DEF BringupInv, TimerOK
    <2>d. Stopped \/ OneShot \/ SlowRunning => fault # "dead"
      BY DEF BringupInv, FaultOK, ToInterrupts, ToMemory, ToClock, ToTake,
             Stopped, OneShot, SlowRunning, Loop
    <2>6. ASSUME NEW ticks \in Nat, Repeating(ticks), fault # "dead",
                 mode[TheTimer] # "once" \/ fault = "repeats"
          PROVE  Repeating(ticks)'
      BY <1>1, <1>2, <2>1, <2>6 DEF Repeating
    <2>7. Stopped => IF fault = "lingers" THEN Repeating(fast)' ELSE Silent'
      BY <1>2, <2>1, <2>d, <2>6, Constants DEF BringupInv, TimerOK, Silent
    <2>8. SlowRunning => Repeating(slow)'
      BY <2>d, <2>6, Constants DEF BringupInv, TimerOK
    <2>9. OneShot /\ fault = "repeats" => Repeating(fast)'
      BY <2>d, <2>6, Constants DEF BringupInv, TimerOK
    <2>10. OneShot /\ fault # "repeats" =>
               \/ mode[TheTimer] = "once" /\ left' \in 1 .. fast /\ due' = 0
               \/ mode[TheTimer] = "once" /\ left' = 0 /\ due' = 1
               \/ mode[TheTimer] = "expired" /\ left' = 0 /\ due' = 0
      BY <1>2, Constants DEF BringupInv, TimerOK
    <2> QED
      BY <2>1, <2>2, <2>3, <2>4, <2>5, <2>7, <2>8, <2>9, <2>10 DEF BringupInv, TimerOK
  <1>7. WaitOK'
    <2>1. /\ elapsed' \in 0 .. Timeout /\ busy' \in 0 .. MaxGap
          /\ elapsed <= elapsed' /\ elapsed' <= elapsed + 1
          /\ elapsed' = elapsed + 1 \/ elapsed' = Timeout
      BY <1>r, <1>3, Constants
    <2>2. polls \in 0 .. elapsed + 1 /\ polls <= Timeout
      BY DEF BringupInv, WaitOK
    <2>3. polls' \in 0 .. elapsed' + 1 /\ polls' <= Timeout /\ polls' <= elapsed'
      <3>1. polls' = polls /\ polls \in Nat
        BY <1>1, <2>2
      <3>2. polls <= elapsed'
        <4>1. CASE elapsed' = elapsed + 1
          BY <2>2, <4>1
        <4>2. CASE elapsed' = Timeout
          BY <2>2, <4>2
        <4> QED BY <2>1, <4>1, <4>2
      <3>3. elapsed' \in Nat
        BY <2>1
      <3>4. polls \in 0 .. elapsed' + 1
        <4>1. \A p, e \in Nat : p <= e => p \in 0 .. e + 1
          OBVIOUS
        <4> QED BY <3>1, <3>2, <3>3, <4>1, Zenon
      <3> QED BY <2>2, <3>1, <3>2, <3>4
    <2>4. pc \in {"interrupts", "quiet", "expiry", "unchanged", "exact"} => busy' = busy + 1
      BY <1>3, LinesAre DEF BringupInv, LinesOK
    <2>5. pc = "interrupts" /\ polls = 0 => elapsed' <= busy'
      BY <1>r, <2>1, <2>4 DEF BringupInv, WaitOK
    <2>6. ASSUME NEW b \in Nat, elapsed <= b + busy, busy' = busy + 1
          PROVE  elapsed' <= b + busy'
      BY <1>r, <2>1, <2>6
    <2>7. pc = "interrupts" /\ polls > 0 /\ fault # "dead" => elapsed' <= Needed * fast + busy'
      <3>1. Needed * fast \in Nat
        BY Constants, Products
      <3> QED BY <2>4, <2>6, <3>1 DEF BringupInv, WaitOK
    <2>8. pc \in {"quiet", "expiry"} => elapsed' <= Quiet + busy'
      BY <2>4, <2>6, Constants DEF BringupInv, WaitOK
    <2>9. pc \in {"unchanged", "exact"} => elapsed' >= Quiet /\ elapsed' <= Quiet + MaxGap + busy'
      <3>1. pc \in {"unchanged", "exact"} => elapsed >= Quiet /\ elapsed <= (Quiet + MaxGap) + busy
        BY DEF BringupInv, WaitOK
      <3>2. Quiet + MaxGap \in Nat
        BY Constants
      <3>3. pc \in {"unchanged", "exact"} => elapsed' <= (Quiet + MaxGap) + busy'
        BY <2>4, <2>6, <3>1, <3>2
      <3>4. pc \in {"unchanged", "exact"} => elapsed' >= Quiet
        BY <1>r, <2>1, <3>1, Constants
      <3> QED BY <3>3, <3>4
    <2> QED BY <1>1, <2>1, <2>3, <2>5, <2>7, <2>8, <2>9 DEF WaitOK, world
  <1>8. FastOK'
    <2>1. UNCHANGED <<pc, stage, polls, count, fault>> /\ UNCHANGED FastRunning
      BY <1>1 DEF contract, world, FastRunning
    <2>2. FastRunning /\ fault = "dead" => count[TheTimer] = 0
      BY DEF BringupInv, FastOK
    <2>3. pc \in {"periodic", "mark", "interrupts"} => busy' = busy + 1
      BY <1>3, LinesAre DEF BringupInv, LinesOK
    <2>4. pc = "interrupts" /\ fault # "dead" =>
              elapsed' <= (count[TheTimer] + due') * fast + fast - left'
      <3> SUFFICES ASSUME pc = "interrupts", fault # "dead"
                   PROVE  elapsed' <= (count[TheTimer] + due') * fast + fast - left'
        OBVIOUS
      <3>1. mode[TheTimer] = "periodic" /\ period = fast /\ left \in 1 .. fast
        BY DEF BringupInv, TimerOK, FastRunning
      <3>2. due = 0 /\ elapsed <= count[TheTimer] * fast + fast - left
        <4>1. due = 0
          BY <1>1
        <4>2. elapsed <= (count[TheTimer] + due) * fast + fast - left
          BY DEF BringupInv, FastOK
        <4> QED BY <1>r, <4>1, <4>2
      <3>3. /\ count[TheTimer] * fast \in Nat
            /\ (count[TheTimer] + 1) * fast = count[TheTimer] * fast + fast
        BY <1>r, Constants, Products
      <3>4. elapsed' <= elapsed + 1 /\ elapsed' \in Nat
        BY <1>r, <1>3, Constants
      <3>5. CASE left = 1
        <4>1. left' = fast /\ due' = 1
          BY <1>2, <3>1, <3>5
        <4> QED BY <1>r, <3>2, <3>3, <3>4, <3>5, <4>1, Constants
      <3>6. CASE left # 1
        <4>1. left' = left - 1 /\ due' = 0
          BY <1>r, <1>2, <3>1, <3>2, <3>6
        <4>2. (count[TheTimer] + due') = count[TheTimer]
          BY <1>r, <4>1
        <4> QED BY <1>r, <3>2, <3>3, <3>4, <4>1, <4>2, Constants
      <3> QED BY <3>5, <3>6
    <2>5. due' <= due + 1
      BY <1>r, <1>2
    <2>6. ASSUME NEW b \in Nat, count[TheTimer] + due <= b + busy, busy' = busy + 1
          PROVE  count[TheTimer] + due' <= b + busy'
      <3>1. due' \in 0 .. 1
        BY <1>r, <1>2
      <3> QED BY <1>r, <2>5, <2>6, <3>1
    <2>7. fault # "dead" =>
              /\ pc = "periodic" /\ stage = "engaged" => count[TheTimer] + due' <= busy'
              /\ pc = "mark" => count[TheTimer] + due' <= MaxGap + busy'
              /\ pc = "interrupts" /\ polls = 0 => count[TheTimer] + due' <= 2 * MaxGap + busy'
              /\ pc = "interrupts" /\ polls > 0 => count[TheTimer] + due' <= Needed + busy'
      <3>1. 0 \in Nat /\ MaxGap \in Nat /\ 2 * MaxGap \in Nat /\ Needed \in Nat
        BY Constants
      <3>2. 0 + busy = busy /\ 0 + busy' = busy' /\ (busy' = busy + 1 => busy' \in Nat)
        BY <1>r, <1>3
      <3>3. fault # "dead" =>
                /\ pc = "periodic" /\ stage = "engaged" => count[TheTimer] + due <= 0 + busy
                /\ pc = "mark" => count[TheTimer] + due <= MaxGap + busy
                /\ pc = "interrupts" /\ polls = 0 => count[TheTimer] + due <= 2 * MaxGap + busy
                /\ pc = "interrupts" /\ polls > 0 => count[TheTimer] + due <= Needed + busy
        BY <3>2 DEF BringupInv, FastOK
      <3> QED BY <2>3, <2>6, <3>1, <3>2, <3>3
    <2> QED BY <2>1, <2>2, <2>4, <2>7 DEF FastOK
  <1>k. ASSUME NEW n \in Nat, due = 0, period = fast, left \in 1 .. fast, mode[TheTimer] # "once" \/ fault = "repeats",
               elapsed <= (n + due) * fast + fast - left
        PROVE  elapsed' <= (n + due') * fast + fast - left'
    <2>1. elapsed' <= elapsed + 1 /\ elapsed' \in Nat
      BY <1>r, <1>3, Constants
    <2>2. n * fast \in Nat /\ (n + 1) * fast = n * fast + fast /\ fast \in Nat
      BY Constants, Products
    <2>3. elapsed <= n * fast + fast - left
      <3>1. n + due = n
        BY <1>k
      <3> QED BY <1>k, <3>1
    <2>4. CASE left = 1
      <3>1. left' = fast /\ due' = 1
        BY <1>2, <1>k, <2>4
      <3>2. elapsed' <= n * fast + fast
        BY <1>r, <2>1, <2>2, <2>3, <2>4
      <3>3. (n + due') * fast = n * fast + fast
        BY <2>2, <3>1
      <3> QED BY <2>1, <2>2, <3>1, <3>2, <3>3
    <2>5. CASE left # 1
      <3>1. left' = left - 1 /\ due' = 0
        BY <1>r, <1>2, <1>k, <2>5
      <3>2. (n + due') * fast = n * fast
        BY <3>1
      <3> QED BY <1>r, <2>1, <2>2, <2>3, <3>1, <3>2
    <2> QED BY <2>4, <2>5
  <1>u. /\ UNCHANGED <<pc, stage, mode, count, fault, period, stopped, previous, writing>>
        /\ due' \in 0 .. 1 /\ due' <= due + 1
        /\ pc \notin DOMAIN LineOf => busy' = busy + 1
    <2>1. pc \notin DOMAIN LineOf => writing = "none"
      BY DEF BringupInv, LinesOK
    <2> QED BY <1>r, <1>1, <1>2, <1>3, <2>1 DEF contract, leds, world
  <1>e. pc \in {"quiet", "expiry", "unchanged", "exact"} => elapsed' = elapsed + 1
    <2>1. busy < MaxGap \/ pc \in DOMAIN LineOf
      BY <1>3 DEF BringupInv, LinesOK
    <2>2. pc \in {"quiet", "expiry", "unchanged", "exact"} => elapsed <= Quiet + MaxGap + busy
      BY <1>r, Constants DEF BringupInv, WaitOK
    <2>3. pc \in {"quiet", "expiry", "unchanged", "exact"} => elapsed < Timeout
      BY <1>r, <2>1, <2>2, Constants, LinesAre
    <2> QED BY <1>3, <2>3
  <1>9. StoppedOK'
    <2>1. ASSUME fault = "lingers", pc \in {"quiet", "unchanged"}
          PROVE  \E n \in Nat :
                     /\ Since(n)'
                     /\ elapsed' <= (n + due') * fast + fast - left'
                     /\ n + due' <= elapsed' + 1
      <3>1. PICK n \in Nat : /\ Since(n)
                             /\ elapsed <= (n + due) * fast + fast - left
                             /\ n + due <= elapsed + 1
        BY <2>1 DEF BringupInv, StoppedOK
      <3>2. due = 0 /\ period = fast /\ left \in 1 .. fast /\ mode[TheTimer] = "off"
        BY <1>1, <2>1 DEF BringupInv, TimerOK, Stopped, Repeating
      <3>3. elapsed' <= (n + due') * fast + fast - left'
        BY <1>k, <3>1, <3>2
      <3>4. n + due' <= elapsed' + 1
        BY <1>r, <1>e, <1>u, <2>1, <3>1, <3>2
      <3>5. Since(n)'
        BY <1>u, <3>1 DEF Since
      <3> QED BY <3>3, <3>4, <3>5
    <2>2. fault # "lingers" /\ (pc \in {"quiet", "unchanged", "zero", "overflow"}
                                \/ (pc = "once" /\ stage # "engaged")) =>
              count[TheTimer] = stopped
      BY DEF BringupInv, StoppedOK
    <2> QED BY <1>u, <2>1, <2>2 DEF StoppedOK
  <1>10. OneShotOK'
    <2>1. UNCHANGED OneShot
      BY <1>u DEF OneShot
    <2>2. OneShot => fault # "dead" /\ pc \notin DOMAIN LineOf
      BY LinesAre DEF BringupInv, FaultOK, ToInterrupts, ToMemory, ToClock, ToTake, OneShot
    <2>3. ASSUME OneShot, fault # "repeats", mode[TheTimer] = "once", pc \in {"expiry", "exact"}
          PROVE  elapsed' + left' <= fast
      <3>1. elapsed + left <= fast
        BY <2>3 DEF BringupInv, OneShotOK
      <3>2. left \in 1 .. fast
        BY <1>1, <2>2, <2>3 DEF BringupInv, TimerOK
      <3> QED BY <1>r, <1>2, <1>e, <2>3, <3>1, <3>2, Constants
    <2>4. ASSUME OneShot, fault = "repeats", pc # "halt"
          PROVE  \E n \in Nat :
                     /\ Since(n)'
                     /\ pc = "once" => n + due' <= busy'
                     /\ pc = "mark_once" => n + due' <= MaxGap + busy'
                     /\ pc \in {"expiry", "exact"} =>
                            /\ elapsed' <= (n + due') * fast + fast - left'
                            /\ n + due' <= 2 * MaxGap + elapsed'
      <3>1. PICK n \in Nat : /\ Since(n)
                             /\ pc = "once" => n + due <= busy
                             /\ pc = "mark_once" => n + due <= MaxGap + busy
                             /\ pc \in {"expiry", "exact"} =>
                                    /\ elapsed <= (n + due) * fast + fast - left
                                    /\ n + due <= 2 * MaxGap + elapsed
        BY <2>4 DEF BringupInv, OneShotOK
      <3>2. due = 0 /\ period = fast /\ left \in 1 .. fast
        BY <1>1, <2>2, <2>4 DEF BringupInv, TimerOK, Repeating
      <3>3. pc \in {"expiry", "exact"} => elapsed' <= (n + due') * fast + fast - left'
        BY <1>k, <2>4, <3>1, <3>2
      <3>4. pc \in {"expiry", "exact"} => n + due' <= 2 * MaxGap + elapsed'
        BY <1>r, <1>e, <1>u, <3>1, <3>2, Constants
      <3>5. /\ pc = "once" => n + due' <= busy'
            /\ pc = "mark_once" => n + due' <= MaxGap + busy'
        <4>1. busy' = busy + 1
          BY <1>u, <2>2, <2>4
        <4>2. due' \in 0 .. 1 /\ busy \in Nat /\ MaxGap \in Nat
          BY <1>r, <1>u, Constants
        <4>3. \A m, d, b, a \in Nat : d \in 0 .. 1 /\ m <= b + a => m + d <= b + (a + 1)
          OBVIOUS
        <4>4. \A m, d, a \in Nat : d \in 0 .. 1 /\ m <= a => m + d <= a + 1
          OBVIOUS
        <4>5. n + due = n /\ due' \in Nat
          BY <3>2, <4>2
        <4> QED BY <3>1, <4>1, <4>2, <4>3, <4>4, <4>5, Zenon
      <3>6. Since(n)'
        BY <1>u, <3>1 DEF Since
      <3> QED BY <3>3, <3>4, <3>5, <3>6
    <2>5. OneShot /\ pc # "halt" /\ fault # "repeats" =>
               /\ mode[TheTimer] = "once" => count[TheTimer] = stopped
               /\ mode[TheTimer] = "expired" => count[TheTimer] = Bump(stopped)
      BY DEF BringupInv, OneShotOK
    <2>6. Bump(stopped)' = Bump(stopped)
      BY <1>u DEF Bump
    <2> QED BY <1>u, <2>1, <2>3, <2>4, <2>5, <2>6 DEF OneShotOK
  <1>11. LinesOK'
    <2>1. WriteBound <= Timeout
      BY Constants DEF WriteBound
    <2>2. WriteBound \in Nat
      BY Constants DEF WriteBound
    <2>3. wrote' \in 0 .. Timeout
      BY <1>r, <1>3, <2>1, <2>2, Constants
    <2> QED BY <1>1, <2>3 DEF BringupInv, LinesOK, world
  <1>12. LoopOK'
    <2>1. ASSUME pc \in Loop
          PROVE  (Lag + due') * slow <= Spent' + left'
      <3>1. /\ (Lag + due) * slow <= Spent + left
            /\ due = 0 /\ period = slow /\ left \in 1 .. slow /\ mode[TheTimer] = "periodic"
        <4>1. SlowRunning /\ fault # "dead"
          BY <2>1 DEF SlowRunning, BringupInv, FaultOK, ToInterrupts, ToMemory, ToClock, ToTake, Loop
        <4>2. period = slow /\ left \in 1 .. slow /\ mode[TheTimer] = "periodic"
          BY <4>1 DEF BringupInv, TimerOK, Repeating
        <4> QED BY <1>1, <2>1, <4>1, <4>2 DEF BringupInv, LoopOK
      <3>2. Lag \in Nat
        BY <1>r, LagIs, Ranges DEF Lag
      <3>3. Spent \in Nat /\ Spent' = Spent + 1
        <4>1. pc \in {"echo", "report"} \/ pc \notin DOMAIN LineOf
          BY <2>1, LinesAre DEF Loop
        <4>2. writing # "none" => pc \in {"echo", "report"}
          BY <4>1 DEF BringupInv, LinesOK
        <4>3. UNCHANGED <<pc, writing>>
          BY <1>u
        <4> QED BY <1>r, <1>3, <2>1, <4>2, <4>3, Constants DEF Spent, Loop
      <3>4. Lag * slow \in Nat /\ (Lag + 1) * slow = Lag * slow + slow /\ slow \in Nat
        BY <3>2, Constants, Products
      <3>5. Lag * slow <= Spent + left
        <4>1. Lag + due = Lag
          BY <3>1, <3>2
        <4> QED BY <3>1, <4>1
      <3> HIDE DEF Spent, Lag
      <3>6. CASE left = 1
        <4>1. left' = slow /\ due' = 1
          BY <1>2, <3>1, <3>6
        <4> QED BY <1>r, <3>2, <3>3, <3>4, <3>5, <3>6, <4>1
      <3>7. CASE left # 1
        <4>1. left' = left - 1 /\ due' = 0
          BY <1>r, <1>2, <3>1, <3>7
        <4>2. Lag + due' = Lag
          BY <3>2, <4>1
        <4> QED BY <1>r, <3>2, <3>3, <3>4, <3>5, <4>1, <4>2
      <3> QED BY <3>6, <3>7
    <2>2. Lag' = Lag
      BY <1>u DEF Lag
    <2> QED BY <1>1, <2>1, <2>2 DEF BringupInv, LoopOK, leds
  <1> QED
    BY <1>4, <1>5, <1>6, <1>7, <1>8, <1>9, <1>10, <1>11, <1>12 DEF BringupInv

-----------------------------------------------------------------------------
(* Acknowledgements *)

\* Bump is the successor, until the counter comes round.
LEMMA Bumps ==
    /\ \A c \in 0 .. CountMod - 1 : Bump(c) \in 0 .. CountMod - 1
    /\ \A c, b \in Nat : c + 1 <= b /\ b < CountMod => Bump(c) = c + 1
    /\ \A s, c \in 0 .. CountMod - 1 : \A n \in Nat :
           n < CountMod /\ (c = s + n \/ c = s + n - CountMod) =>
               (Bump(c) = s + (n + 1) \/ Bump(c) = s + (n + 1) - CountMod)
  BY CountModAssumption DEF Bump

LEMMA AcknowledgeKeeps ==
    ASSUME BringupInv, Acknowledge
    PROVE  BringupInv'
  <1>r. /\ count[TheTimer] \in 0 .. CountMod - 1 /\ due \in 0 .. 1
        /\ period \in Nat /\ left \in 0 .. period /\ left \in Nat
        /\ elapsed \in 0 .. Timeout /\ busy \in 0 .. MaxGap /\ stopped \in 0 .. CountMod - 1
        /\ previous \in 0 .. CountMod - 1
    BY Ranges
  <1>1. /\ UNCHANGED <<call, stage, result, interval, period, left, pc, cause, wait, busy, uart,
                       stopped, leds, status, world>>
        /\ due = 1 /\ due' = 0 /\ fault # "dead"
    BY DEF Acknowledge, T!Acknowledge
  <1>2. /\ count' = [count EXCEPT ![TheTimer] = Bump(count[TheTimer])]
        /\ \/ mode' = mode /\ mode[TheTimer] # "once"
           \/ mode[TheTimer] = "once" /\ mode' = [mode EXCEPT ![TheTimer] = "expired"]
    <2>1. CASE mode[TheTimer] \in StartOps
      <3>1. T!Acknowledge(TheTimer)
        BY <2>1 DEF Acknowledge
      <3>2. count' = [count EXCEPT ![TheTimer] = Bump(count[TheTimer])]
        BY <3>1, SharedTerms DEF T!Acknowledge
      <3>3. mode' = [mode EXCEPT ![TheTimer] = IF mode[TheTimer] = "once" THEN "expired" ELSE mode[TheTimer]]
        BY <3>1 DEF T!Acknowledge
      <3>4. mode \in [Timers -> {"off", "once", "periodic", "expired"}]
        BY DEF BringupInv, ContractTypes
      <3>5. mode[TheTimer] # "once" => mode' = mode
        BY <3>3, <3>4
      <3> QED BY <3>2, <3>3, <3>5
    <2>2. CASE mode[TheTimer] \notin StartOps
      BY <2>2 DEF Acknowledge, StartOps
    <2> QED BY <2>1, <2>2
  <1>3. /\ mode \in [Timers -> {"off", "once", "periodic", "expired"}]
        /\ count \in [Timers -> 0 .. CountMod - 1] /\ TheTimer \in Timers
    BY Constants DEF BringupInv, ContractTypes
  <1>4. /\ count'[TheTimer] = Bump(count[TheTimer])
        /\ mode[TheTimer] = "once" => mode'[TheTimer] = "expired"
        /\ mode[TheTimer] # "once" => mode'[TheTimer] = mode[TheTimer]
    BY <1>2, <1>3
  <1>5. ContractTypes'
    <2>1. count' \in [Timers -> 0 .. CountMod - 1]
      BY <1>r, <1>2, <1>3, Bumps
    <2>2. mode' \in [Timers -> {"off", "once", "periodic", "expired"}]
      BY <1>2, <1>3
    <2> QED BY <1>1, <2>1, <2>2 DEF BringupInv, ContractTypes
  <1>6. FaultOK' /\ CallOK'
    BY <1>1 DEF BringupInv, FaultOK, CallOK, world, CauseOf
  <1>7. UNCHANGED <<Untouched, FastRunning, Stopped, OneShot, Halted, SlowRunning>>
    BY <1>1 DEF Untouched, FastRunning, Stopped, OneShot, Halted, SlowRunning
  <1>8. ~Untouched /\ ~Halted /\ (Stopped => fault = "lingers")
    BY <1>1 DEF BringupInv, TimerOK, Silent
  <1>9. TimerOK'
    <2>1. UNCHANGED <<period, left, fault>>
      BY <1>1 DEF world
    <2>2. FastRunning => mode'[TheTimer] = "periodic" /\ period = fast /\ left \in 1 .. fast
      BY <1>4 DEF BringupInv, TimerOK
    <2>3. Stopped => mode'[TheTimer] = "off" /\ period = fast /\ left \in 1 .. fast
      BY <1>4, <1>8 DEF BringupInv, TimerOK, Repeating
    <2>4. OneShot /\ fault = "repeats" =>
              mode'[TheTimer] \in {"once", "expired"} /\ period = fast /\ left \in 1 .. fast
      BY <1>4 DEF BringupInv, TimerOK, Repeating
    <2>5. OneShot /\ fault # "repeats" => period = fast /\ mode'[TheTimer] = "expired" /\ left = 0
      BY <1>1, <1>4 DEF BringupInv, TimerOK
    <2>6. SlowRunning => mode'[TheTimer] = "periodic" /\ period = slow /\ left \in 1 .. slow
      BY <1>4 DEF BringupInv, TimerOK, Repeating
    <2> QED
      BY <1>1, <1>7, <1>8, <2>1, <2>2, <2>3, <2>4, <2>5, <2>6 DEF TimerOK, Repeating
  <1>10. WaitOK'
    BY <1>1 DEF BringupInv, WaitOK, wait, world
  <1>11. FastOK'
    <2>1. UNCHANGED <<pc, stage, polls, fault, elapsed, left, busy>> /\ due = 1 /\ due' = 0 /\ fault # "dead"
      BY <1>1 DEF wait, world
    <2>2. /\ pc = "periodic" /\ stage = "engaged" => count[TheTimer] + due <= busy
          /\ pc = "mark" => count[TheTimer] + due <= MaxGap + busy
          /\ pc = "interrupts" /\ polls = 0 => count[TheTimer] + due <= 2 * MaxGap + busy
          /\ pc = "interrupts" /\ polls > 0 => count[TheTimer] + due <= Needed + busy
      BY <2>1 DEF BringupInv, FastOK
    <2>3. polls \in Nat
      BY Ranges, Constants
    <2>4. /\ busy \in Nat /\ busy < CountMod
          /\ MaxGap + busy \in Nat /\ MaxGap + busy < CountMod
          /\ 2 * MaxGap + busy \in Nat /\ 2 * MaxGap + busy < CountMod
          /\ Needed + busy \in Nat /\ Needed + busy < CountMod
      BY <1>r, Constants
    <2>5. /\ pc = "periodic" /\ stage = "engaged" => Bump(count[TheTimer]) = count[TheTimer] + 1
          /\ pc = "mark" => Bump(count[TheTimer]) = count[TheTimer] + 1
          /\ pc = "interrupts" => Bump(count[TheTimer]) = count[TheTimer] + 1
      <3>1. count[TheTimer] \in Nat /\ count[TheTimer] + due = count[TheTimer] + 1
        BY <1>r, <2>1
      <3>2. polls = 0 \/ polls > 0
        BY <2>3
      <3> QED BY <2>2, <2>4, <3>1, <3>2, Bumps
    <2>6. /\ pc = "periodic" /\ stage = "engaged" => count'[TheTimer] + due' = count[TheTimer] + due
          /\ pc = "mark" => count'[TheTimer] + due' = count[TheTimer] + due
          /\ pc = "interrupts" => count'[TheTimer] + due' = count[TheTimer] + due
      <3>1. count[TheTimer] + 1 + 0 = count[TheTimer] + 1
        BY <1>r
      <3> QED BY <1>4, <2>1, <2>5, <3>1
    <2>7. pc = "interrupts" => elapsed <= (count[TheTimer] + due) * fast + fast - left
      BY <2>1 DEF BringupInv, FastOK
    <2>8. pc = "interrupts" => elapsed' <= (count'[TheTimer] + due') * fast + fast - left'
      BY <2>1, <2>6, <2>7, Zenon
    <2>9. /\ pc = "periodic" /\ stage = "engaged" => count'[TheTimer] + due' <= busy'
          /\ pc = "mark" => count'[TheTimer] + due' <= MaxGap + busy'
          /\ pc = "interrupts" /\ polls = 0 => count'[TheTimer] + due' <= 2 * MaxGap + busy'
          /\ pc = "interrupts" /\ polls > 0 => count'[TheTimer] + due' <= Needed + busy'
      BY <2>1, <2>2, <2>6, Zenon
    <2> QED BY <2>1, <2>8, <2>9 DEF FastOK
  <1>s. ASSUME NEW n \in Nat, Since(n), n < CountMod
        PROVE  Since(n + 1)'
    BY <1>r, <1>1, <1>4, <1>s, Bumps DEF Since
  <1>12. StoppedOK'
    <2>1. UNCHANGED <<pc, stage, fault, elapsed, left>> /\ due = 1 /\ due' = 0
      BY <1>1 DEF wait, world
    <2>2. ASSUME fault = "lingers", pc \in {"quiet", "unchanged"}
          PROVE  \E n \in Nat :
                     /\ Since(n)'
                     /\ elapsed <= (n + due') * fast + fast - left
                     /\ n + due' <= elapsed + 1
      <3>1. PICK n \in Nat : /\ Since(n)
                             /\ elapsed <= (n + due) * fast + fast - left
                             /\ n + due <= elapsed + 1
        BY <2>2 DEF BringupInv, StoppedOK
      <3>2. (n + 1) + due' = n + due /\ n + 1 \in Nat /\ n + 1 <= elapsed + 1
        BY <2>1, <3>1
      <3>3. n < CountMod
        <4>1. elapsed <= Quiet + MaxGap + busy
          BY <1>r, <2>2, Constants DEF BringupInv, WaitOK
        <4> QED BY <1>r, <3>2, <4>1, Constants
      <3>4. Since(n + 1)'
        BY <1>s, <3>1, <3>3
      <3> QED BY <3>1, <3>2, <3>4
    <2>3. ~(/\ fault # "lingers"
            /\ \/ pc \in {"quiet", "unchanged", "zero", "overflow"}
               \/ pc = "once" /\ stage # "engaged")
      BY <1>8 DEF Stopped
    <2> QED BY <2>1, <2>2, <2>3 DEF StoppedOK
  <1>13. OneShotOK'
    <2>1. /\ UNCHANGED <<pc, stage, fault, elapsed, left, busy, stopped, OneShot>>
          /\ due = 1 /\ due' = 0
      BY <1>1, <1>7 DEF wait, world
    <2>2. ASSUME OneShot, fault # "repeats", pc # "halt"
          PROVE  mode'[TheTimer] = "expired" /\ count'[TheTimer] = Bump(stopped)
      <3>1. mode[TheTimer] = "once"
        BY <2>1, <2>2 DEF BringupInv, TimerOK
      <3>2. count[TheTimer] = stopped
        BY <2>2, <3>1 DEF BringupInv, OneShotOK
      <3> QED BY <1>4, <3>1, <3>2
    <2>3. ASSUME OneShot, fault = "repeats", pc # "halt"
          PROVE  \E n \in Nat :
                     /\ Since(n)'
                     /\ pc = "once" => n + due' <= busy
                     /\ pc = "mark_once" => n + due' <= MaxGap + busy
                     /\ pc \in {"expiry", "exact"} =>
                            /\ elapsed <= (n + due') * fast + fast - left
                            /\ n + due' <= 2 * MaxGap + elapsed
      <3>1. PICK n \in Nat : /\ Since(n)
                             /\ pc = "once" => n + due <= busy
                             /\ pc = "mark_once" => n + due <= MaxGap + busy
                             /\ pc \in {"expiry", "exact"} =>
                                    /\ elapsed <= (n + due) * fast + fast - left
                                    /\ n + due <= 2 * MaxGap + elapsed
        BY <2>3 DEF BringupInv, OneShotOK
      <3>2. (n + 1) + due' = n + due /\ n + 1 \in Nat /\ n + due = n + 1
        BY <2>1
      <3>3. n < CountMod
        <4>1. pc \in {"expiry", "exact"} => elapsed <= Quiet + MaxGap + busy
          BY <1>r, Constants DEF BringupInv, WaitOK
        <4>2. pc \in {"once", "mark_once", "expiry", "exact"}
          BY <2>3 DEF OneShot
        <4> QED BY <1>r, <3>1, <3>2, <4>1, <4>2, Constants
      <3>4. Since(n + 1)'
        BY <1>s, <3>1, <3>3
      <3> QED BY <3>1, <3>2, <3>4
    <2>4. Bump(stopped)' = Bump(stopped)
      BY <2>1 DEF Bump
    <2> QED BY <2>1, <2>2, <2>3, <2>4 DEF OneShotOK
  <1>14. LinesOK'
    BY <1>1 DEF BringupInv, LinesOK, uart, world
  <1>15. LoopOK'
    <2>1. UNCHANGED <<pc, stopped, previous, red, green, blinks, left, busy, writing, wrote>>
      BY <1>1 DEF leds, uart
    <2>2. Lag \in Nat /\ Lag' \in Nat /\ Lag' <= Lag + 1
      BY <1>r, <1>4, <2>1, LagIs DEF Lag
    <2>3. ASSUME pc \in Loop PROVE (Lag' + due') * slow <= Spent + left
      <3>1. (Lag + due) * slow <= Spent + left
        BY <2>3 DEF BringupInv, LoopOK
      <3>3. Spent + left \in Nat
        <4>1. Spent \in Nat
          <5>1. wrote \in Nat /\ busy \in Nat /\ MaxGap \in Nat /\ Timeout \in Nat
            BY Ranges, Constants
          <5> QED BY <5>1 DEF Spent
        <4> QED BY <1>r, <4>1
      <3>4. \A a, b, f, x \in Nat : b <= a + 1 /\ (a + 1) * f <= x => (b + 0) * f <= x
        <4>1. \A a, b, f \in Nat : b <= a + 1 => b * f <= (a + 1) * f /\ b * f \in Nat /\ (a + 1) * f \in Nat
          BY Products
        <4>2. \A b \in Nat : b + 0 = b
          OBVIOUS
        <4> QED BY <4>1, <4>2
      <3>5. slow \in Nat
        BY Constants
      <3> QED BY <1>1, <2>2, <3>1, <3>3, <3>4, <3>5, Zenon
    <2>4. Spent' = Spent
      BY <2>1 DEF Spent
    <2> QED BY <2>1, <2>3, <2>4 DEF BringupInv, LoopOK
  <1> QED
    BY <1>5, <1>6, <1>9, <1>10, <1>11, <1>12, <1>13, <1>14, <1>15 DEF BringupInv

LEMMA LineSticksKeeps ==
    ASSUME BringupInv, LineSticks
    PROVE  BringupInv'
  <1>1. /\ UNCHANGED <<contract, clock, pc, cause, wait, busy, uart, stopped, leds, status, fault>>
        /\ fault = "line" /\ stuck' = TRUE
    BY DEF LineSticks
  <1>2. UNCHANGED <<Untouched, FastRunning, Stopped, OneShot, Halted, SlowRunning>>
    BY <1>1 DEF Untouched, FastRunning, Stopped, OneShot, Halted, SlowRunning, contract
  <1>3. FaultOK'
    BY <1>1 DEF BringupInv, FaultOK, CauseOf
  <1>4. ContractTypes' /\ CallOK' /\ WaitOK' /\ LinesOK'
    BY <1>1 DEF BringupInv, ContractTypes, CallOK, WaitOK, LinesOK, contract, clock, wait, uart
  <1>5. TimerOK' /\ FastOK'
    BY <1>1, <1>2 DEF BringupInv, TimerOK, FastOK, Silent, Repeating, contract, clock, wait
  <1>6. StoppedOK' /\ OneShotOK'
    BY <1>1, <1>2 DEF BringupInv, StoppedOK, OneShotOK, Since, Bump, contract, clock, wait
  <1>7. LoopOK'
    BY <1>1 DEF BringupInv, LoopOK, Lag, Spent, contract, clock, leds, uart
  <1> QED BY <1>3, <1>4, <1>5, <1>6, <1>7 DEF BringupInv

-----------------------------------------------------------------------------
(* main's statements *)

\* Panicking, main has only to name the fault.
LEMMA PanicKeeps ==
    ASSUME BringupInv, pc \notin {"green", "count"}, pc' = "panic", busy' = 0,
           fault # "none", cause' = CauseOf[fault],
           UNCHANGED <<contract, clock, wait, leds, status, world>>, stage = "idle",
           stopped' \in 0 .. CountMod - 1,
           writing' = "none", wrote' \in 0 .. Timeout, sent' \subseteq Lines,
           "pass" \in sent' => status = 2,
           "fail" \in sent' => fault \in {"memory", "dead"}
    PROVE  BringupInv'
  <1>1. /\ ~Untouched' /\ ~FastRunning' /\ ~Stopped' /\ ~OneShot' /\ ~Halted' /\ ~SlowRunning'
        /\ pc' \notin Loop
    BY DEF Untouched, FastRunning, Stopped, OneShot, Halted, SlowRunning, Loop
  <1>2. ContractTypes' /\ FaultOK' /\ CallOK'
    BY DEF BringupInv, ContractTypes, FaultOK, CallOK, contract, clock, world, CauseOf
  <1>3. TimerOK' /\ FastOK'
    BY <1>1 DEF BringupInv, TimerOK, FastOK, contract, clock, wait, world
  <1>4. StoppedOK' /\ OneShotOK'
    BY <1>1 DEF StoppedOK, OneShotOK
  <1>5. WaitOK'
    BY Constants DEF BringupInv, WaitOK, wait, world
  <1>6. LinesOK'
    BY Constants, LinesAre DEF BringupInv, LinesOK, world, Loop
  <1>7. LoopOK'
    BY <1>1 DEF BringupInv, LoopOK, leds
  <1> QED BY <1>2, <1>3, <1>4, <1>5, <1>6, <1>7 DEF BringupInv

\* Before the timer's check and after it, and while it blinks, a statement
\* that leaves the timer alone has no count to keep.
LEMMA PhaseKeeps ==
    ASSUME BringupInv, busy' = 0, stage = "idle",
           UNCHANGED <<contract, clock, wait, stopped, fault>>,
           (Untouched /\ Untouched') \/ (Halted /\ Halted') \/ (SlowRunning /\ SlowRunning'),
           FaultOK', LinesOK', LoopOK'
    PROVE  BringupInv'
  <1>1. UNCHANGED <<call, stage, result, mode, interval, count, period, left, due, elapsed, polls,
                    stopped, fault>>
    BY DEF contract, clock, wait
  <1>2. ContractTypes' /\ CallOK'
    BY <1>1 DEF BringupInv, ContractTypes, CallOK
  <1>3. /\ pc' \notin {"mark", "interrupts", "fail_timer", "mark_stopped", "quiet", "unchanged",
                       "zero", "overflow", "once", "mark_once", "expiry", "exact", "halt", "stop"}
        /\ ~FastRunning' /\ ~Stopped' /\ ~OneShot'
    BY <1>1 DEF Untouched, Halted, SlowRunning, Loop, FastRunning, Stopped, OneShot
  <1>4. TimerOK'
    <2>1. Untouched' => Untouched
      BY <1>1 DEF Untouched, Halted, SlowRunning, Loop
    <2>2. Halted' => Halted
      BY <1>1 DEF Untouched, Halted, SlowRunning, Loop
    <2>3. SlowRunning' => SlowRunning
      BY <1>1 DEF Untouched, Halted, SlowRunning, Loop
    <2> QED BY <1>1, <1>3, <2>1, <2>2, <2>3 DEF BringupInv, TimerOK, Silent, Repeating
  <1>5. WaitOK'
    BY <1>1, <1>3, Constants DEF BringupInv, WaitOK
  <1>6. FastOK' /\ StoppedOK' /\ OneShotOK'
    BY <1>1, <1>3 DEF FastOK, StoppedOK, OneShotOK
  <1> QED BY <1>2, <1>4, <1>5, <1>6 DEF BringupInv

\* Only the calls' own statements have one in progress, and only the lines'
\* own statements write.
LEMMA AtRest ==
    ASSUME BringupInv
    PROVE  /\ pc \notin DOMAIN CallOf => stage = "idle"
           /\ pc \notin DOMAIN LineOf => writing = "none"
           /\ pc # "panic" => "fail" \notin sent /\ cause = "none"
  BY DEF BringupInv, CallOK, LinesOK, FaultOK

LEMMA TakeKeeps ==
    ASSUME BringupInv, Take, busy' = 0
    PROVE  BringupInv'
  <1>1. /\ pc = "take" /\ UNCHANGED <<contract, clock, wait, uart, stopped, leds, status, world>>
        /\ fault # "board" => pc' = "clock" /\ cause' = cause
        /\ fault = "board" => pc' = "panic" /\ cause' = "take"
    BY Following DEF Take, At, Insist, Proceed, Panic
  <1>2. stage = "idle" /\ writing = "none" /\ "fail" \notin sent
    BY <1>1, Calls, LinesAre, AtRest
  <1>3. CASE fault # "board"
    <2>1. FaultOK'
      BY <1>1, <1>3 DEF BringupInv, FaultOK, world, CauseOf, ToTake, ToClock, ToMemory, ToInterrupts,
                        ToUnchanged, ToExact, ToLoop
    <2>2. LinesOK' /\ LoopOK'
      BY <1>1, <1>2, <1>3 DEF BringupInv, LinesOK, LoopOK, Loop, uart, world, leds
    <2>3. Untouched /\ Untouched'
      BY <1>1, <1>3 DEF Untouched
    <2> QED BY <1>1, <1>2, <2>1, <2>2, <2>3, PhaseKeeps DEF world
  <1>4. CASE fault = "board"
    <2>1. sent' \subseteq Lines /\ ("pass" \in sent' => status = 2) /\ "fail" \notin sent'
          /\ writing' = "none"
      BY <1>1, <1>2 DEF BringupInv, LinesOK, uart
    <2>2. wrote' \in 0 .. Timeout /\ stopped' \in 0 .. CountMod - 1
      BY <1>1, Ranges DEF uart
    <2> QED BY <1>1, <1>2, <1>4, <2>1, <2>2, PanicKeeps DEF CauseOf
  <1> QED BY <1>3, <1>4

LEMMA SwitchClockKeeps ==
    ASSUME BringupInv, SwitchClock, busy' = 0
    PROVE  BringupInv'
  <1>1. /\ pc = "clock" /\ UNCHANGED <<contract, clock, wait, uart, stopped, leds, status, world>>
        /\ fault # "crystal" => pc' = "banner" /\ cause' = cause
        /\ fault = "crystal" => pc' = "panic" /\ cause' = "budget"
    BY Following DEF SwitchClock, At, Insist, Proceed, Panic
  <1>2. stage = "idle" /\ writing = "none" /\ "fail" \notin sent
    BY <1>1, Calls, LinesAre, AtRest
  <1>3. CASE fault # "crystal"
    <2>1. FaultOK'
      BY <1>1, <1>3 DEF BringupInv, FaultOK, world, CauseOf, ToTake, ToClock, ToMemory, ToInterrupts,
                        ToUnchanged, ToExact, ToLoop
    <2>2. LinesOK' /\ LoopOK'
      BY <1>1, <1>2, <1>3 DEF BringupInv, LinesOK, LoopOK, Loop, uart, world, leds
    <2>3. Untouched /\ Untouched'
      BY <1>1, <1>3 DEF Untouched
    <2> QED BY <1>1, <1>2, <2>1, <2>2, <2>3, PhaseKeeps DEF world
  <1>4. CASE fault = "crystal"
    <2>1. sent' \subseteq Lines /\ ("pass" \in sent' => status = 2) /\ "fail" \notin sent'
          /\ writing' = "none"
      BY <1>1, <1>2 DEF BringupInv, LinesOK, uart
    <2>2. wrote' \in 0 .. Timeout /\ stopped' \in 0 .. CountMod - 1
      BY <1>1, Ranges DEF uart
    <2> QED BY <1>1, <1>2, <1>4, <2>1, <2>2, PanicKeeps DEF CauseOf
  <1> QED BY <1>3, <1>4

LEMMA CheckMemoryKeeps ==
    ASSUME BringupInv, CheckMemory, busy' = 0
    PROVE  BringupInv'
  <1>1. /\ pc = "memory" /\ UNCHANGED <<contract, clock, cause, wait, uart, stopped, leds, status, world>>
        /\ fault # "memory" => pc' = "running"
        /\ fault = "memory" => pc' = "fail_memory"
    BY Following DEF CheckMemory, At
  <1>2. stage = "idle" /\ writing = "none" /\ "fail" \notin sent
    BY <1>1, Calls, LinesAre, AtRest
  <1>3. FaultOK'
    BY <1>1 DEF BringupInv, FaultOK, world, CauseOf, ToTake, ToClock, ToMemory, ToInterrupts,
                ToUnchanged, ToExact, ToLoop
  <1>4. LinesOK' /\ LoopOK'
    BY <1>1, <1>2 DEF BringupInv, LinesOK, LoopOK, Loop, uart, world, leds
  <1>5. Untouched /\ Untouched'
    BY <1>1 DEF Untouched
  <1> QED BY <1>1, <1>2, <1>3, <1>4, <1>5, PhaseKeeps DEF world

LEMMA StoreStatusKeeps ==
    ASSUME BringupInv, StoreStatus, busy' = 0
    PROVE  BringupInv'
  <1>1. /\ UNCHANGED <<contract, clock, cause, wait, uart, stopped, leds, world>>
        /\ \/ pc = "running" /\ pc' = "periodic" /\ status' = 1
           \/ pc = "verdict" /\ pc' = "pass" /\ status' = 2
    BY Following DEF StoreStatus, At, Proceed
  <1>2. stage = "idle" /\ stage' = "idle" /\ writing = "none" /\ "fail" \notin sent
    BY <1>1, Calls, LinesAre, AtRest DEF contract
  <1>3. FaultOK'
    BY <1>1 DEF BringupInv, FaultOK, world, CauseOf, ToTake, ToClock, ToMemory, ToInterrupts,
                ToUnchanged, ToExact, ToLoop
  <1>4. LinesOK'
    <2>1. pc = "verdict" => fault \in {"none", "line"}
      BY DEF BringupInv, FaultOK, Faults, ToTake, ToClock, ToMemory, ToInterrupts, ToUnchanged, ToExact
    <2>2. pc = "running" => "pass" \notin sent
      BY DEF BringupInv, LinesOK, Loop
    <2> QED BY <1>1, <1>2, <2>1, <2>2 DEF BringupInv, LinesOK, Loop, uart, world
  <1>5. LoopOK'
    BY <1>1, <1>2 DEF BringupInv, LoopOK, Loop, leds
  <1>6. (Untouched /\ Untouched') \/ (Halted /\ Halted')
    BY <1>1, <1>2 DEF Untouched, Halted
  <1> QED BY <1>1, <1>2, <1>3, <1>4, <1>5, <1>6, PhaseKeeps DEF world

LEMMA LookKeeps ==
    ASSUME BringupInv, Look, busy' = 0
    PROVE  BringupInv'
  <1>1. /\ pc = "look" /\ pc' \in {"red", "read"} /\ previous' = count[TheTimer]
        /\ UNCHANGED <<contract, clock, cause, wait, uart, stopped, red, green, blinks, status, world>>
    BY DEF Look, At
  <1>2. stage = "idle" /\ writing = "none" /\ "fail" \notin sent
    BY <1>1, Calls, LinesAre, AtRest
  <1>3. SlowRunning /\ SlowRunning'
    BY <1>1 DEF SlowRunning, Loop
  <1>4. FaultOK'
    BY <1>1 DEF BringupInv, FaultOK, world, CauseOf, ToTake, ToClock, ToMemory, ToInterrupts,
                ToUnchanged, ToExact, ToLoop, Loop
  <1>5. LinesOK'
    BY <1>1, <1>2 DEF BringupInv, LinesOK, Loop, uart, world
  <1>6. LoopOK'
    <2>1. due \in 0 .. 1 /\ left \in 1 .. slow /\ (due = 1 => left = slow) /\ UNCHANGED <<due, left, count>>
      BY <1>1, <1>3 DEF BringupInv, TimerOK, Repeating, clock, contract
    <2>2. Lag' = 0
      <3>1. count[TheTimer] \in Nat
        BY Ranges, Constants
      <3> QED BY <1>1, <2>1, <3>1 DEF Lag
    <2>3. Spent' \in Nat
      BY <1>1, Constants DEF Spent
    <2>4. (Lag' + due') * slow <= Spent' + left'
      <3>1. \A d, l, f, s \in Nat : d \in 0 .. 1 /\ (d = 1 => l = f) => (0 + d) * f <= s + l
        OBVIOUS
      <3>2. due \in Nat /\ left \in Nat /\ slow \in Nat
        BY <2>1, Constants
      <3> QED BY <2>1, <2>2, <2>3, <3>1, <3>2, Zenon
    <2>5. previous' \in 0 .. CountMod - 1
      BY <1>1, Ranges
    <2> QED BY <1>1, <2>4, <2>5 DEF BringupInv, LoopOK
  <1> QED BY <1>1, <1>2, <1>3, <1>4, <1>5, <1>6, PhaseKeeps DEF world

\* A turn of the loop adds up.
LEMMA TurnKeeps ==
    ASSUME BringupInv, UNCHANGED <<contract, clock, previous>>, pc \in Loop, Spent' \in Nat,
           Spent <= Spent'
    PROVE  (Lag' + due') * slow <= Spent' + left'
  <1>1. (Lag + due) * slow <= Spent + left
    BY DEF BringupInv, LoopOK
  <1>2. Lag' = Lag /\ due' = due /\ left' = left
    BY DEF Lag, contract, clock
  <1>3. Lag \in Nat /\ due \in Nat /\ slow \in Nat /\ left \in Nat
    <2>1. count[TheTimer] \in 0 .. CountMod - 1 /\ previous \in 0 .. CountMod - 1
      BY Ranges
    <2>2. Lag \in Nat
      BY <2>1, LagIs DEF Lag
    <2> QED BY <2>2, Ranges, Constants
  <1>4. Spent \in Nat
    <2>1. wrote \in Nat /\ busy \in Nat /\ MaxGap \in Nat /\ Timeout \in Nat
      BY Ranges, Constants
    <2> QED BY <2>1 DEF Spent
  <1>5. \A p, s, t, l \in Nat : p <= s + l /\ s <= t => p <= t + l
    OBVIOUS
  <1>6. (Lag + due) * slow \in Nat
    BY <1>3
  <1> QED BY <1>1, <1>2, <1>3, <1>4, <1>5, <1>6, Zenon

LEMMA ToggleRedKeeps ==
    ASSUME BringupInv, ToggleRed, busy' = 0
    PROVE  BringupInv'
  <1>1. /\ pc = "red" /\ pc' = "green" /\ red' = ~red
        /\ UNCHANGED <<contract, clock, cause, wait, uart, stopped, previous, green, blinks, status, world>>
    BY DEF ToggleRed, At
  <1>2. stage = "idle" /\ writing = "none" /\ "fail" \notin sent
    BY <1>1, Calls, LinesAre, AtRest
  <1>3. SlowRunning /\ SlowRunning' /\ pc \in Loop
    BY <1>1 DEF SlowRunning, Loop
  <1>4. FaultOK'
    BY <1>1 DEF BringupInv, FaultOK, world, CauseOf, ToTake, ToClock, ToMemory, ToInterrupts,
                ToUnchanged, ToExact, ToLoop, Loop
  <1>5. LinesOK'
    BY <1>1, <1>2 DEF BringupInv, LinesOK, Loop, uart, world
  <1>6. LoopOK'
    <2>1. Spent' \in Nat /\ Spent <= Spent'
      BY <1>1, Ranges, Constants DEF Spent
    <2>2. (Lag' + due') * slow <= Spent' + left'
      BY <1>1, <1>3, <2>1, TurnKeeps
    <2> QED BY <1>1, <2>2 DEF BringupInv, LoopOK
  <1> QED BY <1>1, <1>2, <1>3, <1>4, <1>5, <1>6, PhaseKeeps DEF world

LEMMA ToggleGreenKeeps ==
    ASSUME BringupInv, ToggleGreen, busy' = 0
    PROVE  BringupInv'
  <1>1. /\ pc = "green" /\ pc' = "count" /\ green' = ~green
        /\ UNCHANGED <<contract, clock, cause, wait, uart, stopped, previous, red, blinks, status, world>>
    BY DEF ToggleGreen, At
  <1>2. stage = "idle" /\ writing = "none" /\ "fail" \notin sent
    BY <1>1, Calls, LinesAre, AtRest
  <1>3. SlowRunning /\ SlowRunning' /\ pc \in Loop
    BY <1>1 DEF SlowRunning, Loop
  <1>4. FaultOK'
    BY <1>1 DEF BringupInv, FaultOK, world, CauseOf, ToTake, ToClock, ToMemory, ToInterrupts,
                ToUnchanged, ToExact, ToLoop, Loop
  <1>5. LinesOK'
    BY <1>1, <1>2 DEF BringupInv, LinesOK, Loop, uart, world
  <1>6. LoopOK'
    <2>1. Spent' \in Nat /\ Spent <= Spent'
      BY <1>1, Ranges, Constants DEF Spent
    <2>2. (Lag' + due') * slow <= Spent' + left'
      BY <1>1, <1>3, <2>1, TurnKeeps
    <2>3. blinks % 2 = 0 <=> ~(blinks % 2 = 1)
      BY Parity DEF BringupInv, LoopOK
    <2> QED BY <1>1, <2>2, <2>3 DEF BringupInv, LoopOK
  <1> QED BY <1>1, <1>2, <1>3, <1>4, <1>5, <1>6, PhaseKeeps DEF world

LEMMA CountBlinkKeeps ==
    ASSUME BringupInv, CountBlink, busy' = 0
    PROVE  BringupInv'
  <1>1. /\ pc = "count" /\ pc' = "read" /\ blinks' = Bump(blinks)
        /\ UNCHANGED <<contract, clock, cause, wait, uart, stopped, previous, red, green, status, world>>
    BY DEF CountBlink, At
  <1>2. stage = "idle" /\ writing = "none" /\ "fail" \notin sent
    BY <1>1, Calls, LinesAre, AtRest
  <1>3. SlowRunning /\ SlowRunning' /\ pc \in Loop
    BY <1>1 DEF SlowRunning, Loop
  <1>4. FaultOK'
    BY <1>1 DEF BringupInv, FaultOK, world, CauseOf, ToTake, ToClock, ToMemory, ToInterrupts,
                ToUnchanged, ToExact, ToLoop, Loop
  <1>5. LinesOK'
    BY <1>1, <1>2 DEF BringupInv, LinesOK, Loop, uart, world
  <1>6. LoopOK'
    <2>1. Spent' \in Nat /\ Spent <= Spent'
      BY <1>1, Ranges, Constants DEF Spent
    <2>2. (Lag' + due') * slow <= Spent' + left'
      BY <1>1, <1>3, <2>1, TurnKeeps
    <2>3. /\ Bump(blinks) \in 0 .. CountMod - 1
          /\ Bump(blinks) % 2 = 1 <=> blinks % 2 = 0
      BY Parity DEF BringupInv, LoopOK
    <2>4. blinks' % 2 = 1 <=> blinks % 2 = 0
      BY <1>1, <2>3
    <2> QED BY <1>1, <2>2, <2>3, <2>4 DEF BringupInv, LoopOK
  <1> QED BY <1>1, <1>2, <1>3, <1>4, <1>5, <1>6, PhaseKeeps DEF world

LEMMA ReadKeeps ==
    ASSUME BringupInv, Read, busy' = 0
    PROVE  BringupInv'
  <1>1. /\ pc = "read" /\ pc' \in {"echo", "look", "report"}
        /\ UNCHANGED <<contract, clock, cause, wait, uart, stopped, leds, status, world>>
    BY DEF Read, At
  <1>2. stage = "idle" /\ writing = "none" /\ writing' = "none" /\ "fail" \notin sent
    BY <1>1, Calls, LinesAre, AtRest DEF uart
  <1>3. SlowRunning /\ SlowRunning' /\ pc \in Loop
    BY <1>1 DEF SlowRunning, Loop
  <1>4. FaultOK'
    BY <1>1 DEF BringupInv, FaultOK, world, CauseOf, ToTake, ToClock, ToMemory, ToInterrupts,
                ToUnchanged, ToExact, ToLoop, Loop
  <1>5. LinesOK'
    BY <1>1, <1>2 DEF BringupInv, LinesOK, Loop, uart, world
  <1>6. LoopOK'
    <2>1. Spent' \in Nat /\ Spent <= Spent'
      BY <1>1, <1>2, Ranges, Constants DEF Spent
    <2>2. (Lag' + due') * slow <= Spent' + left'
      BY <1>1, <1>3, <2>1, TurnKeeps DEF leds
    <2> QED BY <1>1, <2>2 DEF BringupInv, LoopOK, leds
  <1> QED BY <1>1, <1>2, <1>3, <1>4, <1>5, <1>6, PhaseKeeps DEF world

LEMMA StartWriteKeeps ==
    ASSUME BringupInv, StartWrite, busy' = 0
    PROVE  BringupInv'
  <1>1. /\ pc \in DOMAIN LineOf /\ writing = "none" /\ writing' = LineOf[pc] /\ wrote' = 0
        /\ UNCHANGED <<contract, clock, pc, cause, wait, sent, stopped, leds, status, world>>
    BY DEF StartWrite
  <1>2. stage = "idle" /\ stage' = "idle"
    BY <1>1, Calls, LinesAre, AtRest DEF contract
  <1>3. FaultOK'
    BY <1>1 DEF BringupInv, FaultOK, world, CauseOf
  <1>4. LinesOK'
    BY <1>1, Constants, LinesAre DEF BringupInv, LinesOK, Loop, world
  <1>5. LoopOK'
    <2>1. ASSUME pc \in Loop PROVE (Lag' + due') * slow <= Spent' + left'
      <3>1. pc \in {"echo", "report"} /\ writing' # "none" /\ pc' = pc
        BY <1>1, <2>1, LinesAre DEF Loop
      <3>2. Spent' \in Nat /\ Spent <= Spent'
        BY <1>1, <3>1, Ranges, Constants DEF Spent
      <3> QED BY <1>1, <2>1, <3>2, TurnKeeps DEF leds
    <2> QED BY <1>1, <2>1 DEF BringupInv, LoopOK, leds
  <1>6. CASE pc = "fail_timer"
    <2>1. UNCHANGED <<call, stage, result, mode, interval, count, period, left, due, elapsed, polls, fault,
                      stopped>>
      BY <1>1 DEF contract, clock, wait, world
    <2>2. ContractTypes' /\ CallOK'
      BY <1>1, <2>1 DEF BringupInv, ContractTypes, CallOK
    <2>3. WaitOK'
      BY <1>1, <1>6, <2>1, Constants DEF BringupInv, WaitOK
    <2>4. TimerOK'
      BY <1>1, <1>6, <2>1 DEF BringupInv, TimerOK, Untouched, FastRunning, Stopped, OneShot, Halted,
                              SlowRunning, Loop
    <2>5. FastOK' /\ StoppedOK' /\ OneShotOK'
      BY <1>1, <1>6, <2>1 DEF BringupInv, FastOK, StoppedOK, OneShotOK, FastRunning, OneShot
    <2> QED BY <1>3, <1>4, <1>5, <2>2, <2>3, <2>4, <2>5 DEF BringupInv
  <1>7. CASE pc # "fail_timer"
    <2>1. (Untouched /\ Untouched') \/ (Halted /\ Halted') \/ (SlowRunning /\ SlowRunning')
      BY <1>1, <1>2, <1>7, LinesAre DEF Untouched, Halted, SlowRunning, Loop
    <2> QED BY <1>1, <1>2, <1>3, <1>4, <1>5, <2>1, PhaseKeeps DEF world
  <1> QED BY <1>6, <1>7

LEMMA EndWriteKeeps ==
    ASSUME BringupInv, NEW ok \in BOOLEAN, EndWrite(ok), busy' = 0
    PROVE  BringupInv'
  <1>1. /\ writing # "none" /\ writing' = "none" /\ wrote' = 0
        /\ ~ok => stuck
        /\ sent' = IF ok THEN sent \cup {writing} ELSE sent
        /\ UNCHANGED <<contract, clock, wait, stopped, leds, status, world>>
    BY DEF EndWrite
  <1>2. pc \in DOMAIN LineOf /\ writing = LineOf[pc] /\ stage = "idle" /\ "fail" \notin sent /\ cause = "none"
    <2>1. pc \in DOMAIN LineOf /\ writing = LineOf[pc]
      BY <1>1 DEF BringupInv, LinesOK
    <2> QED BY <2>1, Calls, LinesAre, AtRest
  <1>3. /\ pc = "fail_memory" => pc' = "panic" /\ cause' = "memory"
        /\ pc = "fail_timer" => pc' = "panic" /\ cause' = "timer"
        /\ pc \notin {"fail_memory", "fail_timer"} /\ ~ok => pc' = "panic" /\ cause' = "line"
        /\ pc = "banner" /\ ok => pc' = "memory" /\ cause' = cause
        /\ pc = "pass" /\ ok => pc' = "blink" /\ cause' = cause
        /\ pc \in {"echo", "report"} /\ ok => pc' = "look" /\ cause' = cause
    <2>1. CASE pc = "fail_memory"
      BY <2>1 DEF EndWrite, FailMemory, FailTimer, Unwrap, At, Panic
    <2>2. CASE pc = "fail_timer"
      BY <2>2 DEF EndWrite, FailMemory, FailTimer, Unwrap, At, Panic
    <2>3. CASE pc \notin {"fail_memory", "fail_timer"}
      <3>1. IF ~ok THEN Panic("line")
            ELSE IF pc \in {"echo", "report"} THEN pc' = "look" /\ UNCHANGED cause
            ELSE Proceed
        BY <2>3 DEF EndWrite, FailMemory, FailTimer, Unwrap, At
      <3> QED BY <2>3, <3>1, Following DEF Panic, Proceed
    <2> QED BY <2>1, <2>2, <2>3
  <1>4. /\ pc = "fail_memory" => fault = "memory"
        /\ pc = "fail_timer" => fault = "dead"
        /\ ~ok => fault = "line"
    BY <1>1, <1>2, LinesAre DEF BringupInv, FaultOK, Faults, ToTake, ToClock, ToMemory, ToInterrupts,
       ToUnchanged, ToExact, ToLoop, Loop
  <1>5. /\ sent' \subseteq Lines
        /\ "fail" \in sent' => fault \in {"memory", "dead"}
        /\ "pass" \in sent' => status = 2
    <2>1. writing = "fail" => pc \in {"fail_memory", "fail_timer"}
      BY <1>2, LinesAre
    <2>2. writing = "pass" => status = 2
      BY <1>2, LinesAre DEF BringupInv, LinesOK
    <2>3. sent \subseteq Lines /\ writing \in Lines /\ ("pass" \in sent => status = 2)
      BY <1>1 DEF BringupInv, LinesOK
    <2> QED BY <1>1, <1>2, <1>4, <2>1, <2>2, <2>3
  <1>6. CASE pc' = "panic"
    <2>1. fault # "none" /\ cause' = CauseOf[fault]
      <3>1. pc \in {"fail_memory", "fail_timer"} \/ ~ok
        BY <1>2, <1>3, <1>6, LinesAre
      <3>2. ~(pc \in {"fail_memory", "fail_timer"} /\ fault = "line")
        BY <1>4
      <3> QED BY <1>3, <1>4, <3>1, <3>2 DEF CauseOf
    <2>2. pc \notin {"green", "count"} /\ wrote' \in 0 .. Timeout /\ stopped' \in 0 .. CountMod - 1
      BY <1>1, <1>2, LinesAre, Ranges, Constants
    <2> QED BY <1>1, <1>2, <1>5, <1>6, <2>1, <2>2, PanicKeeps
  <1>7. CASE pc' # "panic"
    <2>1. /\ ok /\ cause' = cause
          /\ \/ pc = "banner" /\ pc' = "memory"
             \/ pc = "pass" /\ pc' = "blink"
             \/ pc \in {"echo", "report"} /\ pc' = "look"
      BY <1>2, <1>3, <1>7, LinesAre
    <2>2. stage' = "idle"
      BY <1>1, <1>2 DEF contract
    <2>3. FaultOK'
      BY <1>1, <2>1 DEF BringupInv, FaultOK, world, CauseOf, ToTake, ToClock, ToMemory, ToInterrupts,
                        ToUnchanged, ToExact, ToLoop, Loop
    <2>4. LinesOK'
      <3>1. "fail" \notin sent'
        BY <1>1, <1>2, <2>1, LinesAre
      <3> QED BY <1>1, <1>5, <2>1, <3>1, Constants DEF BringupInv, LinesOK, Loop, world
    <2>5. LoopOK'
      <3>1. ASSUME pc' \in Loop PROVE (Lag' + due') * slow <= Spent' + left'
        <4>1. pc \in {"echo", "report"} /\ pc' = "look" /\ pc \in Loop
          BY <2>1, <3>1 DEF Loop
        <4>2. Spent' \in Nat /\ Spent <= Spent'
          BY <1>1, <4>1, Ranges, Constants DEF Spent
        <4> QED BY <1>1, <4>1, <4>2, TurnKeeps DEF leds
      <3> QED BY <1>1, <2>1, <3>1 DEF BringupInv, LoopOK, leds
    <2>6. (Untouched /\ Untouched') \/ (Halted /\ Halted') \/ (SlowRunning /\ SlowRunning')
      BY <1>2, <2>1, <2>2 DEF Untouched, Halted, SlowRunning, Loop
    <2> QED BY <1>1, <1>2, <2>3, <2>4, <2>5, <2>6, PhaseKeeps DEF world
  <1> QED BY <1>6, <1>7

\* Within the timer's check only the waits and the counts move.
LEMMA WatchKeeps ==
    ASSUME BringupInv, busy' = 0, pc \notin DOMAIN CallOf, pc \notin DOMAIN LineOf,
           UNCHANGED <<contract, clock, uart, leds, status, world>>, stopped' \in 0 .. CountMod - 1,
           (FastRunning /\ FastRunning') \/ (Stopped /\ Stopped') \/ (OneShot /\ OneShot')
    PROVE  /\ ContractTypes' /\ CallOK' /\ TimerOK' /\ LinesOK' /\ LoopOK'
           /\ FastRunning' => FastRunning
           /\ OneShot' => OneShot
           /\ Stopped' => Stopped
  <1>1. /\ UNCHANGED <<call, stage, result, mode, interval, count, period, left, due, writing, wrote, sent,
                       previous, red, green, blinks, status, fault, stuck>>
        /\ stage = "idle" /\ stage' = "idle" /\ writing = "none" /\ pc # "panic" /\ "fail" \notin sent
    <2>1. pc # "panic"
      BY DEF FastRunning, Stopped, OneShot
    <2> QED BY <2>1, AtRest DEF contract, clock, uart, leds, world
  <1>2. ContractTypes' /\ CallOK'
    BY <1>1 DEF BringupInv, ContractTypes, CallOK
  <1>3. /\ pc' \notin {"take", "clock", "banner", "memory", "fail_memory", "running", "periodic",
                       "verdict", "pass", "blink", "green", "count", "panic"} \cup Loop
        /\ pc \notin {"pass", "blink", "green", "count", "panic"} \cup Loop
        /\ ~Untouched' /\ ~Halted' /\ ~SlowRunning'
    BY <1>1 DEF FastRunning, Stopped, OneShot, Loop, Untouched, Halted, SlowRunning
  <1>4. LinesOK' /\ LoopOK'
    BY <1>1, <1>3 DEF BringupInv, LinesOK, LoopOK, Loop
  <1>5. /\ FastRunning' => FastRunning
        /\ OneShot' => OneShot
        /\ Stopped' => Stopped
    BY <1>1 DEF FastRunning, OneShot, Stopped
  <1>6. TimerOK'
    BY <1>1, <1>3, <1>5 DEF BringupInv, TimerOK, Silent, Repeating
  <1> QED BY <1>2, <1>4, <1>5, <1>6

LEMMA MarkKeeps ==
    ASSUME BringupInv, Mark, busy' = 0
    PROVE  BringupInv'
  <1>1. /\ elapsed' = 0 /\ polls' = 0 /\ cause' = cause
        /\ UNCHANGED <<contract, clock, uart, leds, status, world>>
        /\ \/ pc = "mark" /\ pc' = "interrupts" /\ stopped' = stopped
           \/ pc = "mark_stopped" /\ pc' = "quiet" /\ stopped' = count[TheTimer]
           \/ pc = "mark_once" /\ pc' = "expiry" /\ stopped' = stopped
    BY Following DEF Mark, At, Proceed
  <1>2. /\ UNCHANGED <<mode, count, period, left, due, stage, fault>>
        /\ stopped' \in 0 .. CountMod - 1
    BY <1>1, Ranges DEF contract, clock, world
  <1>3. ContractTypes' /\ CallOK' /\ TimerOK' /\ LinesOK' /\ LoopOK'
    BY <1>1, <1>2, Calls, LinesAre, WatchKeeps DEF FastRunning, Stopped, OneShot
  <1>4. FaultOK'
    BY <1>1 DEF BringupInv, FaultOK, world, CauseOf, ToTake, ToClock, ToMemory, ToInterrupts,
                ToUnchanged, ToExact, ToLoop, Loop
  <1>5. WaitOK'
    BY <1>1, Constants DEF WaitOK
  <1>z. ASSUME NEW n \in Nat, left \in 0 .. fast
        PROVE  0 <= n * fast + fast - left
    <2>1. n * fast \in Nat /\ fast \in Nat
      BY Constants, Products
    <2> QED BY <1>z, <2>1
  <1>6. FastOK'
    <2>1. FastRunning /\ fault = "dead" => count[TheTimer] = 0
      BY DEF BringupInv, FastOK
    <2>2. FastRunning' => FastRunning
      BY <1>1, <1>2 DEF FastRunning
    <2>3. ASSUME pc = "mark", fault # "dead"
          PROVE  /\ 0 <= (count[TheTimer] + due) * fast + fast - left
                 /\ count[TheTimer] + due <= 2 * MaxGap
      <3>1. left \in 1 .. fast
        BY <2>3 DEF BringupInv, TimerOK, FastRunning
      <3>2. count[TheTimer] + due <= MaxGap + busy
        BY <2>3 DEF BringupInv, FastOK
      <3>3. count[TheTimer] + due \in Nat /\ busy \in 0 .. MaxGap
        BY Ranges, Constants
      <3>4. left \in 0 .. fast
        BY <3>1
      <3> QED BY <1>z, <3>2, <3>3, <3>4, Constants
    <2>4. 2 * MaxGap + 0 = 2 * MaxGap
      BY Constants
    <2> QED BY <1>1, <1>2, <2>1, <2>2, <2>3, <2>4 DEF FastOK
  <1>7. StoppedOK'
    <2>1. ASSUME pc = "mark_stopped", fault = "lingers"
          PROVE  /\ Since(0)'
                 /\ 0 <= (0 + due) * fast + fast - left
                 /\ 0 + due <= 0 + 1
      <3>1. left \in 0 .. fast /\ due \in 0 .. 1
        BY <2>1, Constants DEF BringupInv, TimerOK, Stopped, Repeating
      <3>2. 0 + due \in Nat
        BY <3>1
      <3>3. Since(0)'
        BY <1>1, <1>2, <2>1, Ranges DEF Since
      <3> QED BY <1>z, <3>1, <3>2, <3>3
    <2>2. pc = "mark_stopped" => count'[TheTimer] = stopped'
      BY <1>1, <1>2
    <2>3. pc' \in {"quiet", "unchanged", "zero", "overflow", "once"} => pc = "mark_stopped" /\ pc' = "quiet"
      BY <1>1
    <2>4. 0 \in Nat
      OBVIOUS
    <2> QED BY <1>1, <1>2, <2>1, <2>2, <2>3, <2>4 DEF StoppedOK
  <1>8. OneShotOK'
    <2>1. OneShot' => pc = "mark_once" /\ pc' = "expiry" /\ stopped' = stopped /\ OneShot
      BY <1>1, <1>2 DEF OneShot
    <2>2. ASSUME pc = "mark_once", fault # "repeats"
          PROVE  /\ mode[TheTimer] = "once" => count[TheTimer] = stopped
                 /\ mode[TheTimer] = "expired" => count[TheTimer] = Bump(stopped)
                 /\ mode[TheTimer] = "once" => 0 + left <= fast
      <3>1. mode[TheTimer] = "once" => left \in 0 .. fast
        BY <2>2, Constants DEF BringupInv, TimerOK, OneShot
      <3>2. mode[TheTimer] = "once" => 0 + left <= fast
        BY <3>1, Constants
      <3> QED BY <2>2, <3>2 DEF BringupInv, OneShotOK, OneShot
    <2>3. ASSUME pc = "mark_once", fault = "repeats"
          PROVE  \E n \in Nat :
                     /\ Since(n)
                     /\ 0 <= (n + due) * fast + fast - left
                     /\ n + due <= 2 * MaxGap + 0
      <3>1. PICK n \in Nat : Since(n) /\ n + due <= MaxGap + busy
        BY <2>3 DEF BringupInv, OneShotOK, OneShot
      <3>2. left \in 0 .. fast /\ due \in 0 .. 1
        BY <2>3, Constants DEF BringupInv, TimerOK, OneShot, Repeating
      <3>3. n + due \in Nat /\ busy \in 0 .. MaxGap
        BY <3>2, Ranges
      <3>4. n + due <= 2 * MaxGap + 0
        BY <3>1, <3>3, Constants
      <3> QED BY <1>z, <3>1, <3>2, <3>3, <3>4
    <2>4. Bump(stopped)' = Bump(stopped') /\ \A n : Since(n)' <=> (count'[TheTimer] = stopped' + n \/ count'[TheTimer] = stopped' + n - CountMod)
      BY DEF Bump, Since
    <2>5. pc = "mark_once" => \A n : Since(n)' <=> Since(n)
      BY <1>1, <1>2, <2>4 DEF Since
    <2> QED BY <1>1, <1>2, <2>1, <2>2, <2>3, <2>4, <2>5 DEF OneShotOK
  <1> QED BY <1>3, <1>4, <1>5, <1>6, <1>7, <1>8 DEF BringupInv

\* What the interrupts of n intervals and the rest of the next one cover
LEMMA Covered ==
    ASSUME NEW n \in Nat, NEW d \in 0 .. 1, NEW l \in 1 .. fast, d = 1 => l = fast, NEW e \in Nat,
           e <= (n + d) * fast + fast - l
    PROVE  /\ e <= (n + 1) * fast
           /\ e > 2 * fast => n >= 2
  <1>1. n * fast \in Nat /\ (n + 1) * fast = n * fast + fast /\ fast \in Nat /\ fast > 0
    BY Constants, Products
  <1>2. e <= n * fast + fast
    <2>1. CASE d = 0
      <3>1. n + d = n
        BY <2>1
      <3> QED BY <1>1, <3>1
    <2>2. CASE d = 1
      <3>1. (n + d) * fast = n * fast + fast
        BY <1>1, <2>2
      <3> QED BY <1>1, <2>2, <3>1
    <2> QED BY <2>1, <2>2
  <1>3. (n + 1) * fast <= 2 * fast \/ n >= 2
    <2>1. n + 1 <= 2 \/ n >= 2
      OBVIOUS
    <2>2. n + 1 <= 2 => (n + 1) * fast <= 2 * fast
      <3>1. n + 1 \in Nat /\ 2 \in Nat
        OBVIOUS
      <3> QED BY <1>1, <3>1, Products
    <2> QED BY <2>1, <2>2
  <1> QED BY <1>1, <1>2, <1>3

\* A poll that comes before its wait is over is not the last of the budget:
\* the polls behind it have covered less than the budget's would.
LEMMA InTime ==
    ASSUME BringupInv, PaceOK, polls > 0 => busy >= PollTicks,
           NEW limit \in 0 .. Timeout, NEW budget \in Nat,
           limit <= (budget - 1) * PollTicks, elapsed < limit
    PROVE  polls * PollTicks <= elapsed /\ polls + 1 < budget /\ polls + 1 # budget
  <1>r. /\ elapsed \in 0 .. Timeout /\ busy \in 0 .. MaxGap /\ polls \in 0 .. Timeout
        /\ elapsed \in Nat /\ busy \in Nat /\ polls \in Nat /\ limit \in Nat /\ PollTicks \in Nat \ {0}
    BY Ranges, Constants
  <1>1. elapsed < Timeout
    BY <1>r, Constants
  <1>2. polls * PollTicks <= elapsed
    <2>1. CASE polls = 0
      BY <1>r, <2>1
    <2>2. CASE polls > 0
      <3>1. (polls - 1) * PollTicks + busy <= elapsed
        BY <1>1, <2>2 DEF PaceOK
      <3>2. \A p \in Nat \ {0}, t, b, e \in Nat : (p - 1) * t + b <= e /\ b >= t => p * t <= e
        <4> SUFFICES ASSUME NEW p \in Nat \ {0}, NEW t \in Nat, NEW b \in Nat, NEW e \in Nat,
                            (p - 1) * t + b <= e, b >= t
                     PROVE  p * t <= e
          OBVIOUS
        <4>1. p - 1 \in Nat /\ (p - 1) + 1 = p
          OBVIOUS
        <4>2. ((p - 1) + 1) * t = (p - 1) * t + t /\ (p - 1) * t \in Nat
          BY <4>1, Products
        <4>3. p * t = (p - 1) * t + t
          BY <4>1, <4>2
        <4> QED BY <4>2, <4>3
      <3>3. polls \in Nat \ {0}
        BY <1>r, <2>2
      <3> QED BY <1>r, <2>2, <3>1, <3>2, <3>3, Zenon
    <2> QED BY <1>r, <2>1, <2>2
  <1>3. \A p, b, t \in Nat : p * t < (b - 1) * t => p + 1 < b
    <2> SUFFICES ASSUME NEW p \in Nat, NEW b \in Nat, NEW t \in Nat, p * t < (b - 1) * t, ~(p + 1 < b)
                 PROVE  FALSE
      OBVIOUS
    <2>1. CASE b = 0
      <3>1. (b - 1) * t = 0 - t
        BY <2>1
      <3>2. p * t \in Nat
        BY Products
      <3> QED BY <3>1, <3>2
    <2>2. CASE b > 0
      <3>1. b - 1 \in Nat /\ b - 1 <= p
        BY <2>2
      <3>2. (b - 1) * t <= p * t /\ (b - 1) * t \in Nat /\ p * t \in Nat
        BY <3>1, Products
      <3> QED BY <3>2
    <2> QED BY <2>1, <2>2
  <1>4. polls * PollTicks < (budget - 1) * PollTicks
    <2>1. polls * PollTicks \in Nat /\ (budget - 1) * PollTicks \in Int
      BY <1>r, Products
    <2> QED BY <1>r, <1>2, <2>1
  <1>5. polls + 1 < budget
    BY <1>r, <1>3, <1>4
  <1> QED BY <1>r, <1>2, <1>5

LEMMA PollInterruptsKeeps ==
    ASSUME BringupInv, PaceOK, PollInterrupts, busy' = 0
    PROVE  BringupInv'
  <1>r. /\ count[TheTimer] \in 0 .. CountMod - 1 /\ due \in 0 .. 1 /\ elapsed \in 0 .. Timeout
        /\ busy \in 0 .. MaxGap /\ polls \in 0 .. Timeout /\ stopped \in 0 .. CountMod - 1
    BY Ranges
  <1>1. /\ pc = "interrupts" /\ (polls > 0 => busy >= PollTicks)
        /\ UNCHANGED <<contract, clock, elapsed, uart, stopped, leds, status, world>>
    BY DEF PollInterrupts, At
  <1>2. /\ elapsed >= Timeout => pc' = "fail_timer" /\ cause' = cause /\ polls' = 0
        /\ elapsed < Timeout /\ count[TheTimer] >= Needed => pc' = "stop" /\ cause' = cause /\ polls' = 0
        /\ elapsed < Timeout /\ count[TheTimer] < Needed =>
               /\ polls' = polls + 1
               /\ polls + 1 # Budget => pc' = pc /\ cause' = cause
    <2>1. CASE elapsed >= Timeout
      <3>1. ~(elapsed < Timeout)
        BY <1>r, <2>1, Constants
      <3> QED BY <2>1, <3>1 DEF PollInterrupts, Finished
    <2>2. CASE elapsed < Timeout
      <3>1. ~(elapsed >= Timeout)
        BY <1>r, <2>2, Constants
      <3>2. CASE count[TheTimer] >= Needed
        <4>1. ~(count[TheTimer] < Needed)
          BY <1>r, <3>2, Constants
        <4> QED BY <1>1, <2>2, <3>1, <3>2, <4>1, Following DEF PollInterrupts, Finished, Proceed
      <3>3. CASE count[TheTimer] < Needed
        <4>1. ~(count[TheTimer] >= Needed)
          BY <1>r, <3>3, Constants
        <4> QED BY <2>2, <3>1, <3>3, <4>1 DEF PollInterrupts, Exhaust
      <3>4. count[TheTimer] >= Needed \/ count[TheTimer] < Needed
        BY <1>r, Constants
      <3> QED BY <3>2, <3>3, <3>4
    <2>3. elapsed >= Timeout \/ elapsed < Timeout
      BY <1>r, Constants
    <2> QED BY <2>1, <2>2, <2>3
  <1>3. polls <= elapsed
    <2>1. polls > 0 /\ busy > 0 => polls <= elapsed
      BY DEF BringupInv, WaitOK
    <2>2. busy >= PollTicks => busy > 0
      BY <1>r, Constants
    <2> QED BY <1>r, <1>1, <2>1, <2>2
  <1>4. elapsed < Timeout => polls + 1 # Budget /\ polls + 1 <= Timeout /\ polls + 1 \in 0 .. elapsed + 1
    <2>1. elapsed < Timeout => polls + 1 # Budget
      BY <1>1, Constants, InTime
    <2>2. elapsed < Timeout => polls + 1 <= Timeout /\ polls + 1 \in 0 .. elapsed + 1
      BY <1>r, <1>3, Constants
    <2> QED BY <2>1, <2>2
  <1>5. /\ mode[TheTimer] = "periodic" /\ period = fast /\ left \in 1 .. fast
        /\ due = 1 => left = fast \/ fault = "dead"
    BY <1>1 DEF BringupInv, TimerOK, FastRunning
  <1>6. fault # "dead" => elapsed < Timeout
    <2>1. Needed * fast \in Nat
      BY Constants, Products
    <2>2. fault # "dead" /\ polls > 0 => elapsed <= Needed * fast + busy
      BY <1>1 DEF BringupInv, WaitOK
    <2>3. polls = 0 => elapsed <= busy
      BY <1>1 DEF BringupInv, WaitOK
    <2>4. elapsed <= busy => elapsed < Timeout
      BY <1>r, <2>1, Constants
    <2>5. elapsed <= Needed * fast + busy => elapsed < Timeout
      BY <1>r, <2>1, Constants
    <2>6. polls = 0 \/ polls > 0
      BY <1>r
    <2> QED BY <2>2, <2>3, <2>4, <2>5, <2>6
  <1>7. fault # "dead" /\ count[TheTimer] < Needed =>
            /\ elapsed <= Needed * fast
            /\ count[TheTimer] + due <= Needed
    <2> SUFFICES ASSUME fault # "dead", count[TheTimer] < Needed
                 PROVE  elapsed <= Needed * fast /\ count[TheTimer] + due <= Needed
      OBVIOUS
    <2>1. elapsed <= (count[TheTimer] + due) * fast + fast - left
      BY <1>1 DEF BringupInv, FastOK
    <2>2. count[TheTimer] \in Nat /\ elapsed \in Nat /\ (due = 1 => left = fast)
      BY <1>r, <1>5, Constants
    <2>3. elapsed <= (count[TheTimer] + 1) * fast
      BY <1>r, <1>5, <2>1, <2>2, Covered
    <2>4. (count[TheTimer] + 1) * fast <= Needed * fast
      <3>1. count[TheTimer] + 1 \in Nat /\ count[TheTimer] + 1 <= Needed
        BY <2>2, Constants
      <3> QED BY <3>1, Constants, Products
    <2>5. (count[TheTimer] + 1) * fast \in Nat /\ Needed * fast \in Nat
      BY <2>2, Constants, Products
    <2>6. elapsed <= Needed * fast
      BY <2>2, <2>3, <2>4, <2>5
    <2>7. count[TheTimer] + due <= Needed
      BY <1>r, Constants
    <2> QED BY <2>6, <2>7
  <1>8. \/ pc' = "fail_timer" /\ fault = "dead" /\ polls' = 0
        \/ pc' = "stop" /\ fault # "dead" /\ polls' = 0
        \/ /\ pc' = "interrupts" /\ polls' = polls + 1 /\ elapsed < Timeout
           /\ fault # "dead" => count[TheTimer] < Needed
    <2>1. CASE elapsed >= Timeout
      <3>1. ~(elapsed < Timeout)
        BY <1>r, <2>1, Constants
      <3> QED BY <1>2, <1>6, <2>1, <3>1
    <2>2. CASE elapsed < Timeout /\ count[TheTimer] >= Needed
      <3>1. count[TheTimer] # 0
        BY <1>r, <2>2, Constants
      <3>2. fault # "dead"
        BY <1>1, <3>1 DEF BringupInv, FastOK, FastRunning
      <3> QED BY <1>2, <2>2, <3>2
    <2>3. CASE elapsed < Timeout /\ count[TheTimer] < Needed
      BY <1>1, <1>2, <1>4, <2>3
    <2> QED
      <3>1. (elapsed >= Timeout \/ elapsed < Timeout) /\ (count[TheTimer] >= Needed \/ count[TheTimer] < Needed)
        BY <1>r, Constants
      <3> QED BY <2>1, <2>2, <2>3, <3>1
  <1>9. cause' = cause
    <2>1. (elapsed >= Timeout \/ elapsed < Timeout) /\ (count[TheTimer] >= Needed \/ count[TheTimer] < Needed)
      BY <1>r, Constants
    <2> QED BY <1>2, <1>4, <2>1
  <1>10. UNCHANGED <<mode, count, period, left, due, stage, fault, elapsed, stopped>> /\ stage = "idle"
    <2>1. stage = "idle"
      BY <1>1, Calls, AtRest
    <2> QED BY <1>1, <2>1 DEF contract, clock, world
  <1>11. ContractTypes' /\ CallOK' /\ TimerOK' /\ LinesOK' /\ LoopOK'
    <2>1. FastRunning /\ FastRunning'
      BY <1>1, <1>8, <1>10 DEF FastRunning
    <2> QED BY <1>r, <1>1, <1>10, <2>1, Calls, LinesAre, WatchKeeps
  <1>12. FaultOK'
    BY <1>1, <1>8, <1>9 DEF BringupInv, FaultOK, world, CauseOf, ToTake, ToClock, ToMemory, ToInterrupts,
                ToUnchanged, ToExact, ToLoop, Loop
  <1>13. WaitOK'
    <2>1. polls' \in 0 .. elapsed' + 1 /\ polls' <= Timeout
      <3>1. CASE polls' = 0
        BY <1>r, <1>10, <3>1, Constants
      <3>2. CASE polls' = polls + 1 /\ elapsed < Timeout
        BY <1>4, <1>10, <3>2
      <3> QED BY <1>8, <3>1, <3>2
    <2>2. pc' = "interrupts" => polls' # 0
      <3>1. polls + 1 # 0
        BY <1>r
      <3> QED BY <1>8, <3>1
    <2>3. pc' = "interrupts" /\ fault' # "dead" => elapsed' <= Needed * fast + busy'
      <3>1. elapsed <= Needed * fast => elapsed <= Needed * fast + 0
        BY <1>r, Constants, Products
      <3> QED BY <1>7, <1>8, <1>10, <3>1
    <2>4. ~(busy' > 0) /\ busy' \in 0 .. MaxGap /\ elapsed' \in 0 .. Timeout
      BY <1>r, <1>10, Constants
    <2> QED BY <1>8, <2>1, <2>2, <2>3, <2>4 DEF WaitOK
  <1>14. FastOK'
    <2>1. FastRunning /\ fault = "dead" => count[TheTimer] = 0
      BY DEF BringupInv, FastOK
    <2>2. FastRunning
      BY <1>1 DEF FastRunning
    <2>3. pc' = "interrupts" /\ fault # "dead" => elapsed <= (count[TheTimer] + due) * fast + fast - left
      BY <1>1 DEF BringupInv, FastOK
    <2>4. pc' = "interrupts" /\ fault # "dead" => polls' # 0 /\ count[TheTimer] + due <= Needed + 0
      <3>1. polls + 1 # 0 /\ Needed + 0 = Needed
        BY <1>r, Constants
      <3> QED BY <1>7, <1>8, <3>1
    <2> QED BY <1>8, <1>10, <2>1, <2>2, <2>3, <2>4 DEF FastOK
  <1>15. StoppedOK' /\ OneShotOK'
    BY <1>8, <1>10 DEF StoppedOK, OneShotOK, OneShot
  <1> QED BY <1>11, <1>12, <1>13, <1>14, <1>15 DEF BringupInv

LEMMA PollQuietKeeps ==
    ASSUME BringupInv, PaceOK, PollQuiet, busy' = 0
    PROVE  BringupInv'
  <1>r. /\ due \in 0 .. 1 /\ elapsed \in 0 .. Timeout
        /\ busy \in 0 .. MaxGap /\ polls \in 0 .. Timeout /\ stopped \in 0 .. CountMod - 1
    BY Ranges
  <1>1. /\ pc \in {"quiet", "expiry"} /\ (polls > 0 => busy >= PollTicks)
        /\ UNCHANGED <<contract, clock, elapsed, uart, stopped, leds, status, world>>
    BY DEF PollQuiet, At
  <1>2. /\ elapsed >= Quiet => pc' = After(pc) /\ cause' = cause /\ polls' = 0
        /\ elapsed < Quiet =>
               /\ polls' = polls + 1
               /\ polls + 1 # QuietBudget => pc' = pc /\ cause' = cause
    <2>1. elapsed < Quiet <=> ~(elapsed >= Quiet)
      BY <1>r, Constants
    <2> QED BY <2>1 DEF PollQuiet, Proceed, Finished, Exhaust
  <1>3. polls <= elapsed
    <2>1. polls > 0 /\ busy > 0 => polls <= elapsed
      BY DEF BringupInv, WaitOK
    <2>2. busy >= PollTicks => busy > 0
      BY <1>r, Constants
    <2> QED BY <1>r, <1>1, <2>1, <2>2
  <1>4. elapsed < Quiet => polls + 1 # QuietBudget /\ polls + 1 <= Timeout /\ polls + 1 \in 0 .. elapsed + 1
    <2>1. elapsed < Quiet => polls + 1 # QuietBudget
      BY <1>1, Constants, InTime
    <2>2. elapsed < Quiet => polls + 1 <= Timeout /\ polls + 1 \in 0 .. elapsed + 1
      BY <1>r, <1>3, Constants
    <2> QED BY <2>1, <2>2
  <1>5. elapsed <= Quiet + MaxGap
    BY <1>r, <1>1, Constants DEF BringupInv, WaitOK
  <1>6. /\ \/ pc' = pc /\ polls' = polls + 1 /\ elapsed < Quiet
           \/ pc = "quiet" /\ pc' = "unchanged" /\ polls' = 0 /\ elapsed >= Quiet
           \/ pc = "expiry" /\ pc' = "exact" /\ polls' = 0 /\ elapsed >= Quiet
        /\ cause' = cause
    <2>1. elapsed < Quiet \/ elapsed >= Quiet
      BY <1>r, Constants
    <2> QED BY <1>1, <1>2, <1>4, <2>1, Following
  <1>7. UNCHANGED <<mode, count, period, left, due, stage, fault, elapsed, stopped>> /\ stage = "idle"
    <2>1. stage = "idle"
      BY <1>1, Calls, AtRest
    <2> QED BY <1>1, <2>1 DEF contract, clock, world
  <1>8. ContractTypes' /\ CallOK' /\ TimerOK' /\ LinesOK' /\ LoopOK'
    <2>1. (Stopped /\ Stopped') \/ (OneShot /\ OneShot')
      BY <1>1, <1>6, <1>7 DEF Stopped, OneShot
    <2> QED BY <1>r, <1>1, <1>7, <2>1, Calls, LinesAre, WatchKeeps
  <1>9. FaultOK'
    BY <1>1, <1>6 DEF BringupInv, FaultOK, world, CauseOf, ToTake, ToClock, ToMemory, ToInterrupts,
                ToUnchanged, ToExact, ToLoop, Loop
  <1>10. WaitOK'
    <2>1. polls' \in 0 .. elapsed' + 1 /\ polls' <= Timeout
      <3>1. CASE polls' = 0
        BY <1>r, <1>7, <3>1, Constants
      <3>2. CASE polls' = polls + 1 /\ elapsed < Quiet
        BY <1>4, <1>7, <3>2
      <3> QED BY <1>6, <3>1, <3>2
    <2>2. pc' \in {"quiet", "expiry"} => elapsed' <= Quiet + busy'
      <3>1. elapsed < Quiet => elapsed <= Quiet + 0
        BY <1>r, Constants
      <3> QED BY <1>1, <1>6, <1>7, <3>1
    <2>3. pc' \in {"unchanged", "exact"} => elapsed' >= Quiet /\ elapsed' <= Quiet + MaxGap + busy'
      <3>1. elapsed <= Quiet + MaxGap + 0
        BY <1>r, <1>5, Constants
      <3> QED BY <1>1, <1>6, <1>7, <3>1
    <2>4. ~(busy' > 0) /\ busy' \in 0 .. MaxGap /\ elapsed' \in 0 .. Timeout /\ pc' # "interrupts"
      BY <1>r, <1>1, <1>6, <1>7, Constants
    <2> QED BY <2>1, <2>2, <2>3, <2>4 DEF WaitOK
  <1>11. FastOK'
    BY <1>1, <1>6, <1>7 DEF FastOK, FastRunning
  <1>12. StoppedOK'
    <2>1. pc' \in {"quiet", "unchanged"} <=> pc \in {"quiet", "unchanged"}
      BY <1>1, <1>6
    <2>2. pc' \notin {"zero", "overflow", "once"}
      BY <1>1, <1>6
    <2> QED BY <1>7, <2>1, <2>2 DEF BringupInv, StoppedOK, Since
  <1>13. OneShotOK'
    <2>1. pc' \in {"expiry", "exact"} <=> pc \in {"expiry", "exact"}
      BY <1>1, <1>6
    <2>2. pc' \notin {"once", "mark_once", "halt"} /\ pc \notin {"once", "mark_once", "halt"}
      BY <1>1, <1>6
    <2>3. OneShot' => OneShot /\ pc' \in {"expiry", "exact"}
      BY <1>7, <2>1, <2>2 DEF OneShot
    <2> QED BY <1>7, <2>1, <2>2, <2>3 DEF BringupInv, OneShotOK, Since, Bump
  <1> QED BY <1>8, <1>9, <1>10, <1>11, <1>12, <1>13 DEF BringupInv

\* After the quiet time the count is where it was exactly if the timer was
\* stopped, and one further exactly if the one-shot expired once.
LEMMA CountTells ==
    ASSUME BringupInv
    PROVE  /\ pc = "unchanged" => (count[TheTimer] = stopped <=> fault # "lingers")
           /\ pc = "exact" => (count[TheTimer] = Bump(stopped) <=> fault # "repeats")
  <1>r. /\ count[TheTimer] \in 0 .. CountMod - 1 /\ due \in 0 .. 1 /\ elapsed \in 0 .. Timeout
        /\ busy \in 0 .. MaxGap /\ stopped \in 0 .. CountMod - 1
    BY Ranges
  <1>1. pc \in {"unchanged", "exact"} =>
            elapsed \in Nat /\ elapsed > 2 * fast /\ elapsed <= Quiet + 2 * MaxGap
    <2>1. pc \in {"unchanged", "exact"} => elapsed >= Quiet /\ elapsed <= Quiet + MaxGap + busy
      BY DEF BringupInv, WaitOK
    <2> QED BY <1>r, <2>1, Constants
  <1>2. ASSUME NEW n \in Nat, n >= 2, n < CountMod, Since(n)
        PROVE  count[TheTimer] # stopped /\ count[TheTimer] # Bump(stopped)
    BY <1>r, <1>2, CountModAssumption DEF Since, Bump
  <1>3. ASSUME pc = "unchanged", fault = "lingers"
        PROVE  count[TheTimer] # stopped
    <2>1. PICK n \in Nat : /\ Since(n)
                           /\ elapsed <= (n + due) * fast + fast - left
                           /\ n + due <= elapsed + 1
      BY <1>3 DEF BringupInv, StoppedOK
    <2>2. left \in 1 .. fast /\ (due = 1 => left = fast)
      BY <1>3 DEF BringupInv, TimerOK, Stopped, Repeating
    <2>3. n >= 2
      BY <1>r, <1>1, <1>3, <2>1, <2>2, Covered
    <2>4. n < CountMod
      BY <1>r, <1>1, <1>3, <2>1, Constants
    <2> QED BY <1>2, <2>1, <2>3, <2>4
  <1>4. ASSUME pc = "unchanged", fault # "lingers"
        PROVE  count[TheTimer] = stopped
    BY <1>4 DEF BringupInv, StoppedOK
  <1>5. ASSUME pc = "exact", fault = "repeats"
        PROVE  count[TheTimer] # Bump(stopped)
    <2>1. PICK n \in Nat : /\ Since(n)
                           /\ elapsed <= (n + due) * fast + fast - left
                           /\ n + due <= 2 * MaxGap + elapsed
      BY <1>5 DEF BringupInv, OneShotOK, OneShot
    <2>2. left \in 1 .. fast /\ (due = 1 => left = fast)
      BY <1>5 DEF BringupInv, TimerOK, OneShot, Repeating
    <2>3. n >= 2
      BY <1>r, <1>1, <1>5, <2>1, <2>2, Covered
    <2>4. n < CountMod
      BY <1>r, <1>1, <1>5, <2>1, Constants
    <2> QED BY <1>2, <2>1, <2>3, <2>4
  <1>6. ASSUME pc = "exact", fault # "repeats"
        PROVE  count[TheTimer] = Bump(stopped)
    <2>1. mode[TheTimer] = "once" => elapsed + left <= fast
      BY <1>6 DEF BringupInv, OneShotOK, OneShot
    <2>2. mode[TheTimer] # "once"
      <3>1. left \in Nat /\ fast \in Nat
        BY Ranges, Constants
      <3>2. ~(elapsed + left <= fast)
        BY <1>1, <1>6, <3>1
      <3> QED BY <2>1, <3>2
    <2>3. mode[TheTimer] = "expired"
      BY <1>6, <2>2 DEF BringupInv, TimerOK, OneShot
    <2> QED BY <1>6, <2>3 DEF BringupInv, OneShotOK, OneShot
  <1> QED BY <1>3, <1>4, <1>5, <1>6

LEMMA AssertCountKeeps ==
    ASSUME BringupInv, AssertCount, busy' = 0
    PROVE  BringupInv'
  <1>1. /\ pc \in {"unchanged", "exact"}
        /\ UNCHANGED <<contract, clock, wait, uart, leds, status, world>>
        /\ pc = "unchanged" => stopped' = stopped
        /\ pc = "exact" => stopped' = 0
    BY DEF AssertCount, At
  <1>s. stopped' \in 0 .. CountMod - 1
    BY <1>1, Ranges, Constants
  <1>2. \/ pc = "unchanged" /\ fault # "lingers" /\ pc' = "zero" /\ cause' = cause
        \/ pc = "exact" /\ fault # "repeats" /\ pc' = "halt" /\ cause' = cause
        \/ pc' = "panic" /\ fault # "none" /\ cause' = CauseOf[fault]
    <2>1. CASE pc = "unchanged"
      <3>1. Insist(count[TheTimer] = stopped, "unchanged")
        BY <2>1 DEF AssertCount, At
      <3>2. count[TheTimer] = stopped <=> fault # "lingers"
        BY <2>1, CountTells
      <3>3. CASE fault # "lingers"
        BY <2>1, <3>1, <3>2, <3>3, Following DEF Insist, Proceed
      <3>4. CASE fault = "lingers"
        BY <2>1, <3>1, <3>2, <3>4 DEF Insist, Panic, CauseOf
      <3> QED BY <3>3, <3>4
    <2>2. CASE pc = "exact"
      <3>1. Insist(count[TheTimer] = Bump(stopped), "exact")
        BY <2>2 DEF AssertCount, At
      <3>2. count[TheTimer] = Bump(stopped) <=> fault # "repeats"
        BY <2>2, CountTells
      <3>3. CASE fault # "repeats"
        BY <2>2, <3>1, <3>2, <3>3, Following DEF Insist, Proceed
      <3>4. CASE fault = "repeats"
        BY <2>2, <3>1, <3>2, <3>4 DEF Insist, Panic, CauseOf
      <3> QED BY <3>3, <3>4
    <2> QED BY <1>1, <2>1, <2>2
  <1>3. /\ UNCHANGED <<mode, count, period, left, due, stage, fault, elapsed, polls>>
        /\ stage = "idle" /\ writing = "none" /\ "fail" \notin sent
    <2>1. stage = "idle" /\ writing = "none" /\ "fail" \notin sent
      BY <1>1, Calls, LinesAre, AtRest
    <2> QED BY <1>1, <2>1 DEF contract, clock, world, wait
  <1>4. CASE pc' = "panic"
    <2>1. fault # "none" /\ cause' = CauseOf[fault]
      BY <1>2, <1>4
    <2>2. sent' \subseteq Lines /\ ("pass" \in sent' => status = 2) /\ "fail" \notin sent'
          /\ writing' = "none"
      BY <1>1, <1>3 DEF BringupInv, LinesOK, uart
    <2>3. wrote' \in 0 .. Timeout
      BY <1>1, Ranges DEF uart
    <2>4. pc \notin {"green", "count"}
      BY <1>1
    <2> QED BY <1>1, <1>s, <1>3, <1>4, <2>1, <2>2, <2>3, <2>4, PanicKeeps
  <1>5. CASE pc' # "panic"
    <2>1. /\ cause' = cause
          /\ \/ pc = "unchanged" /\ fault # "lingers" /\ pc' = "zero"
             \/ pc = "exact" /\ fault # "repeats" /\ pc' = "halt"
      BY <1>2, <1>5
    <2>2. ContractTypes' /\ CallOK' /\ TimerOK' /\ LinesOK' /\ LoopOK'
      <3>1. (Stopped /\ Stopped') \/ (OneShot /\ OneShot')
        BY <1>3, <2>1 DEF Stopped, OneShot
      <3> QED BY <1>1, <1>s, <3>1, Calls, LinesAre, WatchKeeps
    <2>3. FaultOK'
      BY <1>1, <2>1 DEF BringupInv, FaultOK, world, CauseOf, ToTake, ToClock, ToMemory, ToInterrupts,
                ToUnchanged, ToExact, ToLoop, Loop
    <2>4. WaitOK'
      BY <1>3, <2>1, Constants DEF BringupInv, WaitOK
    <2>5. FastOK'
      BY <1>3, <2>1 DEF FastOK, FastRunning
    <2>6. StoppedOK' /\ OneShotOK'
      <3>1. pc' = "zero" => count[TheTimer] = stopped
        BY <2>1, CountTells
      <3> QED BY <1>1, <1>3, <2>1, <3>1 DEF StoppedOK, OneShotOK, OneShot
    <2> QED BY <2>2, <2>3, <2>4, <2>5, <2>6 DEF BringupInv
  <1> QED BY <1>4, <1>5

\* The call a statement makes, and whether it is accepted
LEMMA CallsAre ==
    ASSUME pc \in DOMAIN CallOf
    PROVE  LET c == [op |-> CallOf[pc].op, timer |-> TheTimer, us |-> CallOf[pc].us] IN
           /\ c \in TimerCalls
           /\ c.op = CallOf[pc].op /\ c.us = CallOf[pc].us /\ c.timer = TheTimer
           /\ CallOf[pc].op \in StartOps <=> pc \notin {"stop", "halt"}
           /\ CallOf[pc].op = "stop" <=> pc \in {"stop", "halt"}
           /\ ValidRequest(CallOf[pc].us) <=> pc \in {"periodic", "once", "blink"}
           /\ CallOf[pc].want = IF pc \in {"zero", "overflow"} THEN "err" ELSE "ok"
  <1> DEFINE c == [op |-> CallOf[pc].op, timer |-> TheTimer, us |-> CallOf[pc].us]
  <1>1. /\ CallOf[pc].op \in StartOps <=> pc \notin {"stop", "halt"}
        /\ CallOf[pc].op = "stop" <=> pc \in {"stop", "halt"}
        /\ CallOf[pc].want = IF pc \in {"zero", "overflow"} THEN "err" ELSE "ok"
    BY Calls DEF StartOps
  <1>2. /\ pc \in {"periodic", "once"} => CallOf[pc].us = Fast
        /\ pc = "blink" => CallOf[pc].us = Slow
        /\ pc = "overflow" => CallOf[pc].us = Overflow
        /\ pc \in {"stop", "zero", "halt"} => CallOf[pc].us = 0
    BY Calls
  <1>3. pc \in {"periodic", "stop", "zero", "overflow", "once", "halt", "blink"}
    BY Calls
  <1>4. ValidRequest(CallOf[pc].us) <=> pc \in {"periodic", "once", "blink"}
    BY <1>2, <1>3, Constants
  <1>5. c \in TimerCalls
    <2>1. TheTimer \in Timers /\ CallOf[pc].us \in Requests
      BY <1>2, <1>3, Constants
    <2>2. CASE pc \in {"stop", "halt"}
      BY <1>1, <1>2, <2>1, <2>2 DEF TimerCalls
    <2>3. CASE pc \notin {"stop", "halt"}
      BY <1>1, <2>1, <2>3 DEF TimerCalls
    <2> QED BY <2>2, <2>3
  <1> QED BY <1>1, <1>4, <1>5

LEMMA InvokeKeeps ==
    ASSUME BringupInv, Invoke, busy' = 0
    PROVE  BringupInv'
  <1>1. /\ pc \in DOMAIN CallOf /\ stage = "idle" /\ stage' = "invoked" /\ result' = "none"
        /\ call' = [op |-> CallOf[pc].op, timer |-> TheTimer, us |-> CallOf[pc].us]
        /\ UNCHANGED <<mode, interval, count, clock, pc, cause, wait, uart, stopped, leds, status, world>>
    BY DEF Invoke, T!Invoke
  <1>2. pc \notin DOMAIN LineOf /\ pc \notin Loop /\ writing = "none"
    <2>1. pc \notin DOMAIN LineOf /\ pc \notin Loop
      BY <1>1, Calls, LinesAre DEF Loop
    <2> QED BY <2>1, AtRest
  <1>3. UNCHANGED <<Untouched, FastRunning, Stopped, OneShot, Halted, SlowRunning>>
    BY <1>1 DEF Untouched, FastRunning, Stopped, OneShot, Halted, SlowRunning
  <1>4. ContractTypes'
    BY <1>1, CallsAre DEF BringupInv, ContractTypes, clock
  <1>5. FaultOK'
    BY <1>1 DEF BringupInv, FaultOK, world, CauseOf
  <1>6. CallOK'
    BY <1>1 DEF CallOK
  <1>7. TimerOK'
    BY <1>1, <1>3 DEF BringupInv, TimerOK, Silent, Repeating, clock, world
  <1>8. WaitOK'
    BY <1>1, Constants, Calls DEF BringupInv, WaitOK, wait, world
  <1>9. FastOK'
    BY <1>1, <1>3, Calls DEF BringupInv, FastOK, clock, wait, world
  <1>10. StoppedOK' /\ OneShotOK'
    <2>1. pc \notin {"quiet", "unchanged", "mark_once", "expiry", "exact"}
      BY <1>1, Calls
    <2>2. ~(OneShot /\ pc # "halt")
      BY <1>1, <2>1 DEF OneShot
    <2> QED BY <1>1, <1>3, <2>1, <2>2 DEF BringupInv, StoppedOK, OneShotOK, world
  <1>11. LinesOK'
    BY <1>1 DEF BringupInv, LinesOK, uart, world
  <1>12. LoopOK'
    BY <1>1, <1>2 DEF BringupInv, LoopOK, leds
  <1> QED BY <1>4, <1>5, <1>6, <1>7, <1>8, <1>9, <1>10, <1>11, <1>12 DEF BringupInv

LEMMA SilenceKeeps ==
    ASSUME BringupInv, Silence, busy' = 0
    PROVE  BringupInv'
  <1>1. /\ stage = "invoked" /\ stage' = "silent"
        /\ call.op \in StartOps => ValidRequest(call.us)
        /\ mode' = [mode EXCEPT ![call.timer] = "off"]
        /\ interval' = [interval EXCEPT ![call.timer] = 0]
        /\ UNCHANGED <<call, result, count, pc, cause, wait, uart, stopped, leds, status, world>>
        /\ fault = "lingers" => UNCHANGED clock
        /\ fault # "lingers" => period' = 0 /\ left' = 0 /\ due' = 0
    BY SharedTerms DEF Silence, T!Silence
  <1>2. /\ pc \in DOMAIN CallOf
        /\ call = [op |-> CallOf[pc].op, timer |-> TheTimer, us |-> CallOf[pc].us]
    BY <1>1 DEF BringupInv, CallOK
  <1>3. pc \in {"periodic", "stop", "once", "halt", "blink"} /\ call.timer = TheTimer
    <2>1. pc \in {"periodic", "stop", "zero", "overflow", "once", "halt", "blink"}
      BY <1>2, Calls
    <2>2. pc \notin {"zero", "overflow"}
      BY <1>1, <1>2, <2>1, CallsAre
    <2> QED BY <1>2, <2>1, <2>2, CallsAre
  <1>4. pc \notin DOMAIN LineOf /\ pc \notin Loop /\ writing = "none"
    <2>1. pc \notin DOMAIN LineOf /\ pc \notin Loop
      BY <1>3, LinesAre DEF Loop
    <2> QED BY <2>1, AtRest
  <1>5. mode'[TheTimer] = "off" /\ count' = count
    BY <1>1, <1>3, Constants DEF BringupInv, ContractTypes
  <1>6. ContractTypes'
    <2>1. 0 \in 0 .. MaxTicks /\ 0 \in 0 .. 0
      BY TicksAssumption
    <2>2. /\ mode' \in [Timers -> {"off", "once", "periodic", "expired"}]
          /\ interval' \in [Timers -> 0 .. MaxTicks]
      BY <1>1, <1>3, <2>1, Constants DEF BringupInv, ContractTypes
    <2>3. period' \in 0 .. MaxTicks /\ left' \in 0 .. period'
      BY <1>1, <2>1 DEF BringupInv, ContractTypes, clock
    <2> QED BY <1>1, <2>2, <2>3 DEF BringupInv, ContractTypes
  <1>7. FaultOK'
    BY <1>1 DEF BringupInv, FaultOK, world, CauseOf
  <1>8. CallOK'
    BY <1>1, <1>3 DEF BringupInv, CallOK
  <1>9. TimerOK'
    <2>1. fault = "lingers" => pc \in {"periodic", "stop"}
      BY <1>3 DEF BringupInv, FaultOK, ToTake, ToClock, ToMemory, ToInterrupts, ToUnchanged
    <2>2. /\ ~FastRunning' /\ ~OneShot' /\ ~SlowRunning'
          /\ Stopped' => pc \in {"stop", "once"}
          /\ Untouched' => pc = "periodic"
          /\ Halted' => pc \in {"halt", "blink"}
      BY <1>1, <1>3 DEF FastRunning, OneShot, SlowRunning, Stopped, Untouched, Halted, Loop
    <2>3. due' \in 0 .. 1
      BY <1>1 DEF BringupInv, TimerOK, clock
    <2>4. pc = "periodic" => Silent' /\ count[TheTimer] = 0
      <3>1. pc = "periodic" => Untouched
        BY <1>1 DEF Untouched
      <3> QED BY <1>1, <3>1 DEF BringupInv, TimerOK, Silent, clock
    <2>5. pc = "stop" => IF fault = "lingers" THEN Repeating(fast)' ELSE Silent'
      <3>1. pc = "stop" => FastRunning
        BY <1>1 DEF FastRunning
      <3> QED BY <1>1, <3>1 DEF BringupInv, TimerOK, Repeating, Silent, clock
    <2>6. pc \in {"once", "halt", "blink"} => Silent' /\ fault # "lingers"
      BY <1>1, <2>1 DEF Silent
    <2>7. fault' = fault
      BY <1>1 DEF world
    <2> QED BY <1>1, <1>5, <2>2, <2>3, <2>4, <2>5, <2>6, <2>7 DEF TimerOK
  <1>10. WaitOK'
    BY <1>1, <1>3, Constants DEF BringupInv, WaitOK, wait, world
  <1>11. FastOK'
    BY <1>1, <1>3 DEF FastOK, FastRunning
  <1>12. StoppedOK'
    <2>1. pc = "once" => count[TheTimer] = stopped
      <3>1. pc = "once" => fault # "lingers"
        BY DEF BringupInv, FaultOK, ToTake, ToClock, ToMemory, ToInterrupts, ToUnchanged
      <3> QED BY <1>1, <3>1 DEF BringupInv, StoppedOK
    <2> QED BY <1>1, <1>3, <2>1 DEF StoppedOK
  <1>13. OneShotOK'
    BY <1>1, <1>3 DEF OneShotOK, OneShot
  <1>14. LinesOK'
    BY <1>1 DEF BringupInv, LinesOK, uart, world
  <1>15. LoopOK'
    BY <1>1, <1>4 DEF BringupInv, LoopOK, leds
  <1> QED BY <1>6, <1>7, <1>8, <1>9, <1>10, <1>11, <1>12, <1>13, <1>14, <1>15 DEF BringupInv

LEMMA EngageKeeps ==
    ASSUME BringupInv, Engage, busy' = 0
    PROVE  BringupInv'
  <1>1. /\ stage = "silent" /\ stage' = "engaged" /\ call.op \in StartOps
        /\ mode' = [mode EXCEPT ![call.timer] = call.op]
        /\ interval' = [interval EXCEPT ![call.timer] = TicksFromUs(call.us)]
        /\ period' = interval'[TheTimer] /\ left' = interval'[TheTimer] /\ due' = 0
        /\ UNCHANGED <<call, result, count, pc, cause, wait, uart, stopped, leds, status, world>>
    BY SharedTerms DEF Engage, T!Engage
  <1>2. /\ pc \in DOMAIN CallOf
        /\ call = [op |-> CallOf[pc].op, timer |-> TheTimer, us |-> CallOf[pc].us]
        /\ pc \notin {"zero", "overflow"}
    BY <1>1 DEF BringupInv, CallOK
  <1>3. pc \in {"periodic", "once", "blink"} /\ call.timer = TheTimer
    <2>1. pc \in {"periodic", "stop", "zero", "overflow", "once", "halt", "blink"}
      BY <1>2, Calls
    <2>2. pc \notin {"stop", "halt"}
      BY <1>1, <1>2, CallsAre
    <2> QED BY <1>2, <2>1, <2>2, CallsAre
  <1>4. pc \notin DOMAIN LineOf /\ pc \notin Loop /\ writing = "none"
    <2>1. pc \notin DOMAIN LineOf /\ pc \notin Loop
      BY <1>3, LinesAre DEF Loop
    <2> QED BY <2>1, AtRest
  <1>5. /\ pc \in {"periodic", "blink"} => call.op = "periodic"
        /\ pc = "once" => call.op = "once"
        /\ pc \in {"periodic", "once"} => TicksFromUs(call.us) = fast
        /\ pc = "blink" => TicksFromUs(call.us) = slow
    BY <1>2, Calls DEF fast, slow
  <1>6. /\ interval'[TheTimer] = TicksFromUs(call.us) /\ mode'[TheTimer] = call.op
        /\ TicksFromUs(call.us) \in 1 .. MaxTicks
    <2>1. TicksFromUs(call.us) \in 1 .. MaxTicks
      BY <1>3, <1>5, Constants
    <2> QED BY <1>1, <1>3, <2>1, Constants DEF BringupInv, ContractTypes
  <1>7. ContractTypes'
    <2>1. TicksFromUs(call.us) \in 0 .. MaxTicks /\ TicksFromUs(call.us) \in 0 .. TicksFromUs(call.us)
      BY <1>6
    <2>2. interval' \in [Timers -> 0 .. MaxTicks]
      BY <1>1, <2>1 DEF BringupInv, ContractTypes
    <2>3. mode' \in [Timers -> {"off", "once", "periodic", "expired"}]
      BY <1>1 DEF BringupInv, ContractTypes, StartOps
    <2> QED BY <1>1, <1>6, <2>1, <2>2, <2>3 DEF BringupInv, ContractTypes
  <1>8. FaultOK'
    BY <1>1 DEF BringupInv, FaultOK, world, CauseOf
  <1>9. CallOK'
    BY <1>1, <1>3 DEF BringupInv, CallOK
  <1>10. TimerOK'
    <2>1. /\ ~Untouched' /\ ~Stopped' /\ ~Halted'
          /\ FastRunning' => pc = "periodic"
          /\ OneShot' => pc = "once"
          /\ SlowRunning' => pc = "blink"
      BY <1>1, <1>3 DEF Untouched, Stopped, Halted, FastRunning, OneShot, SlowRunning, Loop
    <2>2. fast \in 1 .. fast /\ slow \in 1 .. slow /\ 0 \in 0 .. 1
      BY Constants
    <2> QED BY <1>1, <1>3, <1>5, <1>6, <2>1, <2>2 DEF TimerOK, Repeating
  <1>11. WaitOK'
    BY <1>1, <1>3, Constants DEF BringupInv, WaitOK, wait, world
  <1>12. FastOK'
    <2>1. pc = "periodic" => count[TheTimer] = 0
      <3>1. pc = "periodic" => Untouched
        BY <1>1 DEF Untouched
      <3> QED BY <3>1 DEF BringupInv, TimerOK
    <2>2. 0 + 0 <= 0
      OBVIOUS
    <2>3. pc = "periodic" => count'[TheTimer] = 0 /\ count'[TheTimer] + due' <= busy'
      BY <1>1, <2>1, <2>2
    <2>4. pc' \in {"periodic", "once", "blink"} /\ pc' = pc
      BY <1>1, <1>3
    <2> QED BY <2>3, <2>4 DEF FastOK, FastRunning
  <1>13. StoppedOK'
    BY <1>1, <1>3 DEF StoppedOK
  <1>14. OneShotOK'
    <2>1. pc = "once" => count[TheTimer] = stopped
      <3>1. pc = "once" => fault # "lingers"
        BY DEF BringupInv, FaultOK, ToTake, ToClock, ToMemory, ToInterrupts, ToUnchanged
      <3> QED BY <1>1, <3>1 DEF BringupInv, StoppedOK
    <2>2. pc = "once" => Since(0)'
      <3>1. stopped + 0 = stopped
        BY Ranges, Constants
      <3> QED BY <1>1, <2>1, <3>1 DEF Since
    <2>3. 0 \in Nat /\ 0 + 0 <= 0
      OBVIOUS
    <2>4. OneShot' => pc = "once"
      BY <1>1, <1>3 DEF OneShot
    <2> QED BY <1>1, <1>3, <1>5, <1>6, <2>1, <2>2, <2>3, <2>4 DEF OneShotOK
  <1>15. LinesOK'
    BY <1>1 DEF BringupInv, LinesOK, uart, world
  <1>16. LoopOK'
    BY <1>1, <1>4 DEF BringupInv, LoopOK, leds
  <1> QED BY <1>7, <1>8, <1>9, <1>10, <1>11, <1>12, <1>13, <1>14, <1>15, <1>16 DEF BringupInv

LEMMA ReturnKeeps ==
    ASSUME BringupInv, Return, busy' = 0
    PROVE  BringupInv'
  <1>r. /\ count[TheTimer] \in 0 .. CountMod - 1 /\ due \in 0 .. 1 /\ busy \in 0 .. MaxGap
        /\ stopped \in 0 .. CountMod - 1
    BY Ranges
  <1>1. /\ \/ stage = "invoked" /\ call.op \in StartOps /\ ~ValidRequest(call.us) /\ result' = "err"
           \/ stage = "silent" /\ call.op = "stop" /\ result' = "ok"
           \/ stage = "engaged" /\ result' = "ok"
        /\ call' = NoCall /\ stage' = "idle"
        /\ UNCHANGED <<mode, interval, count, clock, wait, uart, stopped, red, green, blinks, status, world>>
        /\ Insist(result' = CallOf[pc].want, "result")
        /\ previous' = IF pc = "blink" THEN count[TheTimer] ELSE previous
    <2>1. T!Reject \/ T!Complete
      BY DEF Return
    <2>2. /\ UNCHANGED <<clock, wait, uart, stopped, red, green, blinks, status, world>>
          /\ Insist(result' = CallOf[pc].want, "result")
          /\ previous' = IF pc = "blink" THEN count[TheTimer] ELSE previous
      BY DEF Return, At
    <2>3. T!Reject => /\ stage = "invoked" /\ call.op \in StartOps /\ ~ValidRequest(call.us) /\ result' = "err"
                      /\ call' = NoCall /\ stage' = "idle" /\ UNCHANGED <<mode, interval, count>>
      BY SharedTerms DEF T!Reject, T!Return
    <2>4. T!Complete => /\ (stage = "silent" /\ call.op = "stop") \/ stage = "engaged"
                        /\ result' = "ok"
                        /\ call' = NoCall /\ stage' = "idle" /\ UNCHANGED <<mode, interval, count>>
      BY SharedTerms DEF T!Complete, T!Return
    <2> QED BY <2>1, <2>2, <2>3, <2>4
  <1>2. /\ pc \in DOMAIN CallOf
        /\ call = [op |-> CallOf[pc].op, timer |-> TheTimer, us |-> CallOf[pc].us]
        /\ pc \in {"zero", "overflow"} => stage \in {"idle", "invoked"}
        /\ pc \in {"stop", "halt"} => stage # "engaged"
    BY <1>1 DEF BringupInv, CallOK
  <1>3. /\ pc \in {"zero", "overflow"} => stage = "invoked" /\ result' = "err"
        /\ pc \in {"stop", "halt"} => stage = "silent" /\ result' = "ok"
        /\ pc \in {"periodic", "once", "blink"} => stage = "engaged" /\ result' = "ok"
    BY <1>1, <1>2, CallsAre
  <1>4. pc \in {"periodic", "stop", "zero", "overflow", "once", "halt", "blink"}
    BY <1>2, Calls
  <1>5. result' = CallOf[pc].want
    BY <1>2, <1>3, <1>4, CallsAre
  <1>6. /\ cause' = cause /\ pc' = After(pc)
        /\ \/ pc = "periodic" /\ pc' = "mark" /\ stage = "engaged"
           \/ pc = "stop" /\ pc' = "mark_stopped" /\ stage = "silent"
           \/ pc = "zero" /\ pc' = "overflow" /\ stage = "invoked"
           \/ pc = "overflow" /\ pc' = "once" /\ stage = "invoked"
           \/ pc = "once" /\ pc' = "mark_once" /\ stage = "engaged"
           \/ pc = "halt" /\ pc' = "verdict" /\ stage = "silent"
           \/ pc = "blink" /\ pc' = "look" /\ stage = "engaged"
    <2>1. cause' = cause /\ pc' = After(pc)
      BY <1>1, <1>5 DEF Insist, Proceed
    <2> QED BY <1>3, <1>4, <2>1, Following
  <1>7. UNCHANGED <<mode, interval, count, period, left, due, fault, elapsed, polls, stopped>>
    BY <1>1 DEF clock, wait, world
  <1>8. writing = "none" /\ pc # "panic" /\ "fail" \notin sent
    <2>1. pc \notin DOMAIN LineOf /\ pc # "panic"
      BY <1>4, LinesAre
    <2> QED BY <2>1, AtRest
  <1>9. ContractTypes'
    BY <1>1, <1>7 DEF BringupInv, ContractTypes
  <1>10. FaultOK'
    BY <1>1, <1>6 DEF BringupInv, FaultOK, world, CauseOf, ToTake, ToClock, ToMemory, ToInterrupts,
                ToUnchanged, ToExact, ToLoop, Loop
  <1>11. CallOK'
    <2>1. result' \in {"none", "ok", "err"}
      BY <1>1
    <2> QED BY <1>1, <2>1 DEF CallOK
  <1>12. TimerOK'
    <2>1. /\ ~Untouched'
          /\ FastRunning' => FastRunning
          /\ Stopped' => Stopped
          /\ OneShot' => OneShot
          /\ Halted' => Halted
          /\ SlowRunning' => SlowRunning
      BY <1>1, <1>6 DEF Untouched, FastRunning, Stopped, OneShot, Halted, SlowRunning, Loop
    <2> QED BY <1>7, <2>1 DEF BringupInv, TimerOK, Silent, Repeating
  <1>13. WaitOK'
    <2>1. pc' \notin {"interrupts", "quiet", "expiry", "unchanged", "exact"}
      BY <1>6
    <2> QED BY <1>7, <2>1, Constants DEF BringupInv, WaitOK
  <1>14. FastOK'
    <2>1. /\ pc' \notin {"periodic", "interrupts"}
          /\ FastRunning' => FastRunning
          /\ pc' = "mark" => pc = "periodic" /\ stage = "engaged"
      BY <1>1, <1>6 DEF FastRunning
    <2>2. pc' = "mark" /\ fault # "dead" => count[TheTimer] + due <= MaxGap + 0
      <3>1. pc' = "mark" /\ fault # "dead" => count[TheTimer] + due <= busy
        BY <2>1 DEF BringupInv, FastOK
      <3>2. count[TheTimer] + due <= busy => count[TheTimer] + due <= MaxGap + 0
        BY <1>r, Constants
      <3> QED BY <3>1, <3>2
    <2> QED BY <1>7, <2>1, <2>2 DEF BringupInv, FastOK
  <1>15. StoppedOK'
    <2>1. /\ pc' \notin {"quiet", "unchanged", "zero"}
          /\ pc' \in {"overflow", "once"} => pc \in {"zero", "overflow"}
      BY <1>6
    <2> QED BY <1>7, <2>1 DEF BringupInv, StoppedOK
  <1>16. OneShotOK'
    <2>1. OneShot' => pc = "once" /\ stage = "engaged" /\ pc' = "mark_once" /\ OneShot
      BY <1>1, <1>6 DEF OneShot
    <2>2. ASSUME OneShot', fault = "repeats"
          PROVE  \E n \in Nat : Since(n) /\ n + due <= MaxGap + 0
      <3>1. PICK n \in Nat : Since(n) /\ n + due <= busy
        BY <2>1, <2>2 DEF BringupInv, OneShotOK
      <3> QED BY <1>r, <3>1, Constants
    <2>3. /\ Bump(stopped)' = Bump(stopped)
          /\ \A n : Since(n)' <=> Since(n)
      BY <1>7 DEF Bump, Since
    <2>4. OneShot' /\ fault # "repeats" =>
              /\ mode[TheTimer] = "once" => count[TheTimer] = stopped
              /\ mode[TheTimer] = "expired" => count[TheTimer] = Bump(stopped)
      BY <2>1 DEF BringupInv, OneShotOK
    <2> QED BY <1>1, <1>7, <2>1, <2>2, <2>3, <2>4 DEF OneShotOK
  <1>17. LinesOK'
    <2>1. /\ pc' \notin {"pass", "blink", "panic"}
          /\ pc' \in Loop <=> pc = "blink"
          /\ pc \notin {"pass", "panic"} \cup Loop
      BY <1>6 DEF Loop
    <2> QED BY <1>1, <1>8, <2>1 DEF BringupInv, LinesOK, uart, world
  <1>18. LoopOK'
    <2>1. pc' \in Loop => pc = "blink" /\ pc' = "look"
      BY <1>6 DEF Loop
    <2>2. previous' \in 0 .. CountMod - 1
      BY <1>1, Ranges
    <2>3. ASSUME pc = "blink", pc' = "look"
          PROVE  (Lag' + due') * slow <= Spent' + left'
      <3>1. due \in 0 .. 1 /\ left \in 1 .. slow /\ (due = 1 => left = slow)
        <4>1. SlowRunning
          BY <1>6, <2>3 DEF SlowRunning
        <4> QED BY <4>1 DEF BringupInv, TimerOK, Repeating
      <3>2. Lag' = 0
        <4>1. count[TheTimer] \in Nat
          BY Ranges, Constants
        <4> QED BY <1>1, <2>3, <4>1 DEF Lag
      <3>3. Spent' \in Nat
        BY <2>3, Constants DEF Spent
      <3>4. \A d, l, f, s \in Nat : d \in 0 .. 1 /\ (d = 1 => l = f) => (0 + d) * f <= s + l
        OBVIOUS
      <3>5. due \in Nat /\ left \in Nat /\ slow \in Nat
        BY <3>1, Constants
      <3> QED BY <1>7, <3>1, <3>2, <3>3, <3>4, <3>5, Zenon
    <2>4. pc \notin {"green", "count"} /\ pc' \notin {"green", "count"}
      BY <1>6
    <2> QED BY <1>1, <2>1, <2>2, <2>3, <2>4 DEF BringupInv, LoopOK
  <1> QED
    BY <1>9, <1>10, <1>11, <1>12, <1>13, <1>14, <1>15, <1>16, <1>17, <1>18 DEF BringupInv

-----------------------------------------------------------------------------
(* The theorems *)

LEMMA BringupInit == Init => BringupInv
  <1> SUFFICES ASSUME Init PROVE BringupInv
    OBVIOUS
  <1>1. /\ call = NoCall /\ stage = "idle" /\ result = "none"
        /\ mode = [i \in Timers |-> "off"] /\ interval = [i \in Timers |-> 0]
        /\ count = [i \in Timers |-> 0]
    BY SharedTerms DEF Init, T!Init
  <1>2. /\ period = 0 /\ left = 0 /\ due = 0 /\ pc = "take" /\ cause = "none"
        /\ elapsed = 0 /\ polls = 0 /\ busy = 0 /\ writing = "none" /\ wrote = 0 /\ sent = {}
        /\ stopped = 0 /\ previous = 0 /\ red = FALSE /\ green = FALSE /\ blinks = 0
        /\ status = 0 /\ fault \in Faults /\ stuck = FALSE
    BY DEF Init
  <1>3. 0 \in 0 .. CountMod - 1 /\ 0 \in 0 .. MaxTicks
    BY CountModAssumption, TicksAssumption
  <1>4. /\ Untouched /\ ~FastRunning /\ ~Stopped /\ ~OneShot /\ ~Halted /\ ~SlowRunning
        /\ pc \notin Loop
    BY <1>2 DEF Untouched, FastRunning, Stopped, OneShot, Halted, SlowRunning, Loop
  <1>5. ContractTypes
    BY <1>1, <1>2, <1>3 DEF ContractTypes
  <1>6. FaultOK
    BY <1>2 DEF FaultOK, Faults, ToTake, ToClock, ToMemory, ToInterrupts, ToUnchanged, ToExact, ToLoop
  <1>7. CallOK
    BY <1>1, <1>2 DEF CallOK
  <1>8. TimerOK
    BY <1>1, <1>2, <1>4, Constants DEF TimerOK, Silent
  <1>9. WaitOK
    BY <1>2, Constants DEF WaitOK
  <1>10. FastOK /\ StoppedOK /\ OneShotOK
    BY <1>2, <1>4 DEF FastOK, StoppedOK, OneShotOK
  <1>11. LinesOK
    BY <1>2, <1>4, Constants DEF LinesOK
  <1>12. LoopOK
    <2>1. ~(blinks % 2 = 1)
      BY <1>2
    <2>2. ~red /\ ~green /\ red \in BOOLEAN /\ green \in BOOLEAN
      BY <1>2
    <2>3. stopped \in 0 .. CountMod - 1 /\ previous \in 0 .. CountMod - 1 /\ blinks \in 0 .. CountMod - 1
      BY <1>2, <1>3
    <2>4. pc # "green" /\ pc # "count"
      BY <1>2
    <2> QED BY <1>4, <2>1, <2>2, <2>3, <2>4 DEF LoopOK
  <1> QED BY <1>5, <1>6, <1>7, <1>8, <1>9, <1>10, <1>11, <1>12 DEF BringupInv

LEMMA StatementKeeps ==
    ASSUME BringupInv, PaceOK, Statement, busy' = 0
    PROVE  BringupInv'
  <1>1. \/ Take \/ SwitchClock \/ CheckMemory \/ StoreStatus
        \/ Invoke \/ Silence \/ Engage \/ Return
        \/ Mark \/ PollInterrupts \/ PollQuiet \/ AssertCount
        \/ StartWrite \/ EndWrite(TRUE) \/ EndWrite(FALSE)
        \/ Look \/ ToggleRed \/ ToggleGreen \/ CountBlink \/ Read
    BY DEF Statement
  <1>2. ASSUME Take \/ SwitchClock \/ CheckMemory \/ StoreStatus PROVE BringupInv'
    BY <1>2, TakeKeeps, SwitchClockKeeps, CheckMemoryKeeps, StoreStatusKeeps
  <1>3. ASSUME Invoke \/ Silence \/ Engage \/ Return PROVE BringupInv'
    BY <1>3, InvokeKeeps, SilenceKeeps, EngageKeeps, ReturnKeeps
  <1>4. ASSUME Mark \/ PollInterrupts \/ PollQuiet \/ AssertCount PROVE BringupInv'
    BY <1>4, MarkKeeps, PollInterruptsKeeps, PollQuietKeeps, AssertCountKeeps
  <1>5. ASSUME StartWrite \/ EndWrite(TRUE) \/ EndWrite(FALSE) PROVE BringupInv'
    <2>1. ASSUME StartWrite PROVE BringupInv'
      BY <2>1, StartWriteKeeps
    <2>2. ASSUME EndWrite(TRUE) PROVE BringupInv'
      BY <2>2, EndWriteKeeps
    <2>3. ASSUME EndWrite(FALSE) PROVE BringupInv'
      BY <2>3, EndWriteKeeps
    <2> QED BY <1>5, <2>1, <2>2, <2>3
  <1>6. ASSUME Look \/ ToggleRed \/ ToggleGreen \/ CountBlink \/ Read PROVE BringupInv'
    BY <1>6, LookKeeps, ToggleRedKeeps, ToggleGreenKeeps, CountBlinkKeeps, ReadKeeps
  <1> QED BY <1>1, <1>2, <1>3, <1>4, <1>5, <1>6

LEMMA StutterKeeps ==
    ASSUME BringupInv, UNCHANGED vars
    PROVE  BringupInv'
  <1>1. UNCHANGED <<call, stage, result, mode, interval, count, period, left, due, pc, cause, elapsed,
                    polls, busy, writing, wrote, sent, stopped, previous, red, green, blinks, status,
                    fault, stuck>>
    BY DEF vars, contract, clock, wait, uart, leds, world
  <1>2. UNCHANGED <<Untouched, FastRunning, Stopped, OneShot, Halted, SlowRunning>>
    BY <1>1 DEF Untouched, FastRunning, Stopped, OneShot, Halted, SlowRunning
  <1>3. ContractTypes' /\ FaultOK' /\ CallOK' /\ WaitOK' /\ LinesOK'
    BY <1>1 DEF BringupInv, ContractTypes, FaultOK, CallOK, WaitOK, LinesOK, CauseOf
  <1>4. TimerOK' /\ FastOK'
    BY <1>1, <1>2 DEF BringupInv, TimerOK, FastOK, Silent, Repeating
  <1>5. StoppedOK' /\ OneShotOK'
    BY <1>1, <1>2 DEF BringupInv, StoppedOK, OneShotOK, Since, Bump
  <1>6. LoopOK'
    BY <1>1 DEF BringupInv, LoopOK, Lag, Spent
  <1> QED BY <1>3, <1>4, <1>5, <1>6 DEF BringupInv

\* A statement leaves the polls alone, begins a wait afresh or is one poll more.
LEMMA PollsMove ==
    ASSUME BringupInv, PaceOK, Statement
    PROVE  \/ polls' = polls /\ elapsed' = elapsed
           \/ polls' = 0
           \/ /\ polls' = polls + 1 /\ polls + 1 <= Budget
              /\ elapsed' = elapsed /\ polls * PollTicks <= elapsed
  <1>r. elapsed \in 0 .. Timeout /\ polls \in Nat
    BY Ranges, Constants
  <1>1. CASE Take \/ SwitchClock \/ CheckMemory \/ StoreStatus \/ Invoke \/ Silence \/ Engage \/ Return
             \/ AssertCount \/ StartWrite \/ EndWrite(TRUE) \/ EndWrite(FALSE)
             \/ Look \/ ToggleRed \/ ToggleGreen \/ CountBlink \/ Read
    BY <1>1 DEF Take, SwitchClock, CheckMemory, StoreStatus, Invoke, Silence, Engage, Return, AssertCount,
                StartWrite, EndWrite, Look, ToggleRed, ToggleGreen, CountBlink, Read, wait
  <1>2. CASE Mark
    BY <1>2 DEF Mark
  <1>3. CASE PollInterrupts
    <2>1. polls > 0 => busy >= PollTicks
      BY <1>3 DEF PollInterrupts
    <2>2. /\ elapsed' = elapsed
          /\ \/ polls' = 0
             \/ polls' = polls + 1 /\ ~(elapsed >= Timeout)
      BY <1>3 DEF PollInterrupts, Finished, Exhaust
    <2>3. ~(elapsed >= Timeout) => elapsed < Timeout /\ Timeout \in 0 .. Timeout
      BY <1>r, Constants
    <2>4. ~(elapsed >= Timeout) => polls * PollTicks <= elapsed /\ polls + 1 < Budget
      BY <2>1, <2>3, InTime, Constants
    <2>5. polls + 1 < Budget => polls + 1 <= Budget
      BY <1>r, Constants
    <2> QED BY <2>2, <2>4, <2>5
  <1>4. CASE PollQuiet
    <2>1. polls > 0 => busy >= PollTicks
      BY <1>4 DEF PollQuiet
    <2>2. /\ elapsed' = elapsed
          /\ \/ polls' = 0
             \/ polls' = polls + 1 /\ ~(elapsed >= Quiet)
      BY <1>4 DEF PollQuiet, Finished, Exhaust
    <2>3. Quiet \in 0 .. Timeout /\ (~(elapsed >= Quiet) => elapsed < Quiet)
      BY <1>r, Constants
    <2>4. ~(elapsed >= Quiet) => polls * PollTicks <= elapsed /\ polls + 1 < QuietBudget
      BY <2>1, <2>3, InTime, Constants
    <2>5. polls + 1 < QuietBudget => polls + 1 <= Budget
      BY <1>r, Constants
    <2> QED BY <2>2, <2>4, <2>5
  <1> QED BY <1>1, <1>2, <1>3, <1>4 DEF Statement

LEMMA PaceKeeps ==
    ASSUME BringupInv, PaceOK, [Next]_vars
    PROVE  PaceOK'
  <1>r. /\ elapsed \in Nat /\ busy \in Nat /\ polls \in Nat /\ polls \in 0 .. Budget
        /\ elapsed \in 0 .. Timeout /\ PollTicks \in Nat \ {0} /\ Timeout \in Nat /\ Budget \in Nat
    BY Ranges, Constants DEF PaceOK
  <1>1. polls > 0 => (polls - 1) * PollTicks \in Nat
    <2>1. polls > 0 => polls - 1 \in Nat
      BY <1>r
    <2> QED BY <1>r, <2>1, Products
  <1>2. CASE Tick
    <2>1. polls' = polls /\ elapsed' = (IF elapsed < Timeout THEN elapsed + 1 ELSE elapsed)
          /\ busy' \in {0, busy + 1}
      BY <1>2 DEF Tick
    <2>2. ASSUME polls' > 0, elapsed' < Timeout
          PROVE  (polls' - 1) * PollTicks + busy' <= elapsed'
      <3>1. elapsed < Timeout /\ elapsed' = elapsed + 1 /\ polls > 0
        BY <1>r, <2>1, <2>2
      <3>2. (polls - 1) * PollTicks + busy <= elapsed
        BY <3>1 DEF PaceOK
      <3>3. \A a, b, c, e \in Nat : a + b <= e /\ c \in {0, b + 1} => a + c <= e + 1
        OBVIOUS
      <3>4. busy' \in Nat
        BY <1>r, <2>1
      <3> QED BY <1>r, <1>1, <2>1, <3>1, <3>2, <3>3, <3>4, Zenon
    <2> QED BY <1>r, <2>1, <2>2 DEF PaceOK
  <1>3. CASE Acknowledge \/ LineSticks \/ UNCHANGED vars
    <2>1. UNCHANGED <<polls, elapsed, busy>>
      BY <1>3 DEF Acknowledge, LineSticks, vars, wait
    <2> QED BY <2>1 DEF PaceOK
  <1>4. CASE Statement /\ busy' = 0
    <2>1. CASE polls' = polls /\ elapsed' = elapsed
      <3>1. \A a, b, e \in Nat : a + b <= e => a + 0 <= e
        OBVIOUS
      <3> QED BY <1>r, <1>1, <1>4, <2>1, <3>1 DEF PaceOK
    <2>2. CASE polls' = 0
      <3>1. ~(polls' > 0) /\ polls' \in 0 .. Budget
        BY <1>r, <2>2
      <3> QED BY <3>1 DEF PaceOK
    <2>3. CASE /\ polls' = polls + 1 /\ polls + 1 <= Budget
               /\ elapsed' = elapsed /\ polls * PollTicks <= elapsed
      <3>1. polls' \in 0 .. Budget /\ polls' - 1 = polls
        BY <1>r, <2>3
      <3>2. polls * PollTicks \in Nat /\ polls * PollTicks + 0 = polls * PollTicks
        BY <1>r, Products
      <3>3. (polls' - 1) * PollTicks + busy' <= elapsed'
        BY <1>4, <2>3, <3>1, <3>2
      <3> QED BY <3>1, <3>3 DEF PaceOK
    <2> QED BY <1>4, <2>1, <2>2, <2>3, PollsMove
  <1> QED BY <1>2, <1>3, <1>4 DEF Next, Main

LEMMA BringupInvariant == Spec => [](BringupInv /\ PaceOK)
  <1>1. Init => PaceOK
    <2>1. Init => polls = 0 /\ ~(polls > 0)
      BY DEF Init
    <2> QED BY <2>1, Constants DEF PaceOK
  <1>2. BringupInv /\ PaceOK /\ [Next]_vars => BringupInv'
    <2> SUFFICES ASSUME BringupInv, PaceOK, [Next]_vars PROVE BringupInv'
      OBVIOUS
    <2>1. ASSUME Tick PROVE BringupInv'
      BY <2>1, TickKeeps
    <2>2. ASSUME Acknowledge PROVE BringupInv'
      BY <2>2, AcknowledgeKeeps
    <2>3. ASSUME LineSticks PROVE BringupInv'
      BY <2>3, LineSticksKeeps
    <2>4. ASSUME Statement, busy' = 0 PROVE BringupInv'
      BY <2>4, StatementKeeps
    <2>5. ASSUME UNCHANGED vars PROVE BringupInv'
      BY <2>5, StutterKeeps
    <2> QED BY <2>1, <2>2, <2>3, <2>4, <2>5 DEF Next, Main
  <1>3. BringupInv /\ PaceOK /\ [Next]_vars => PaceOK'
    BY PaceKeeps
  <1> QED BY <1>1, <1>2, <1>3, BringupInit, PTL DEF Spec

LEMMA StatementsAre ==
    ToLoop \cup {"fail_memory", "fail_timer", "panic"} \subseteq Statements
  <1>1. /\ Order[1] = "take" /\ Order[2] = "clock" /\ Order[3] = "banner" /\ Order[4] = "memory"
        /\ Order[5] = "running" /\ Order[6] = "periodic" /\ Order[7] = "mark"
        /\ Order[8] = "interrupts" /\ Order[9] = "stop" /\ Order[10] = "mark_stopped"
        /\ Order[11] = "quiet" /\ Order[12] = "unchanged" /\ Order[13] = "zero"
        /\ Order[14] = "overflow" /\ Order[15] = "once" /\ Order[16] = "mark_once"
        /\ Order[17] = "expiry" /\ Order[18] = "exact" /\ Order[19] = "halt"
        /\ Order[20] = "verdict" /\ Order[21] = "pass" /\ Order[22] = "blink" /\ Order[23] = "look"
    BY DEF Order
  <1>2. \A j \in 1 .. 23 : Order[j] \in Statements
    BY Places DEF Statements
  <1>3. ToExact \cup {"halt", "verdict", "pass", "blink"} \subseteq Statements
    BY <1>1, <1>2 DEF ToExact, ToUnchanged, ToInterrupts, ToMemory, ToClock, ToTake
  <1> QED BY <1>3, LinesAre DEF ToLoop, Statements

\* Whatever the times and the order of ticks, interrupts and statements, every
\* variable of the self-test keeps its type. Of the ranges, the polls' is the
\* one that no guard ensures: no wait takes more of them than its budget.
THEOREM BringupTypeCorrect == Spec => []TypeOK
  <1>1. BringupInv /\ PaceOK => TypeOK
    <2> SUFFICES ASSUME BringupInv, PaceOK PROVE TypeOK
      OBVIOUS
    <2>1. pc \in Statements
      BY StatementsAre DEF BringupInv, FaultOK, Faults, ToTake, ToClock, ToMemory, ToInterrupts,
                           ToUnchanged, ToExact, ToLoop
    <2>2. cause \in {"none", "take", "budget", "result", "memory", "timer", "unchanged", "exact", "line"}
      BY DEF BringupInv, FaultOK, Faults, CauseOf
    <2>3. polls \in 0 .. Budget
      BY DEF PaceOK
    <2> QED BY <2>1, <2>2, <2>3 DEF BringupInv, ContractTypes, FaultOK, CallOK, TimerOK, WaitOK, LinesOK,
                                   LoopOK, TypeOK
  <1> QED BY <1>1, BringupInvariant, PTL

\* main panics only over a broken part, and of that part.
THEOREM PanicsAreExplained == Spec => []PanicsExplained
  <1>1. BringupInv => PanicsExplained
    BY DEF BringupInv, FaultOK, PanicsExplained
  <1> QED BY <1>1, BringupInvariant, PTL

\* RESULT PASS and TIMER_TEST_STATUS 2 appear only over a sound timer and memory.
THEOREM VerdictIsTrue == Spec => []VerdictTrue
  <1>1. BringupInv => VerdictTrue
    <2> SUFFICES ASSUME BringupInv PROVE VerdictTrue
      OBVIOUS
    <2>1. status = 2 => fault \in {"none", "line"}
      BY DEF BringupInv, LinesOK
    <2>2. "pass" \in sent => status = 2
      BY DEF BringupInv, LinesOK
    <2>3. "fail" \in sent => fault \in {"memory", "dead"}
      BY DEF BringupInv, LinesOK
    <2> QED BY <2>1, <2>2, <2>3 DEF VerdictTrue
  <1> QED BY <1>1, BringupInvariant, PTL

\* main falls behind the timer by the interrupts of one turn of its loop and
\* one more, and the LEDs and BLINK_COUNT agree.
THEOREM BlinksAreFollowed == Spec => []BlinksFollow
  <1>1. BringupInv => BlinksFollow
    <2> SUFFICES ASSUME BringupInv PROVE BlinksFollow
      OBVIOUS
    <2>r. /\ count[TheTimer] \in 0 .. CountMod - 1 /\ previous \in 0 .. CountMod - 1 /\ due \in 0 .. 1
          /\ busy \in 0 .. MaxGap /\ wrote \in 0 .. Timeout
      BY Ranges
    <2>1. ASSUME pc \in Loop PROVE Lag <= 1 + Turn \div slow
      <3>1. (Lag + due) * slow <= Spent + left
        BY <2>1 DEF BringupInv, LoopOK
      <3>2. left \in 1 .. slow
        BY <2>1 DEF BringupInv, TimerOK, SlowRunning, Repeating
      <3>3. Spent \in Nat /\ Spent <= Turn /\ Turn \in Nat
        BY <2>r, <2>1, Constants DEF Spent, Turn, Loop
      <3>4. Lag \in Nat
        BY <2>r, LagIs DEF Lag
      <3>5. slow \in Nat \ {0}
        BY Constants
      <3>6. Lag * slow <= Turn + slow
        <4>1. Lag * slow <= (Lag + due) * slow /\ Lag * slow \in Nat /\ (Lag + due) * slow \in Nat
          <5>1. Lag + due \in Nat /\ Lag <= Lag + due
            BY <2>r, <3>4
          <5> QED BY <3>4, <3>5, <5>1, Products
        <4>2. \A p, q, s, l, t, f \in Nat : p <= q /\ q <= s + l /\ s <= t /\ l <= f => p <= t + f
          OBVIOUS
        <4>3. left \in Nat /\ left <= slow /\ slow \in Nat
          BY <3>2, <3>5
        <4> QED BY <3>1, <3>3, <4>1, <4>2, <4>3, Zenon
      <3>7. \A a, t \in Nat, f \in Nat \ {0} : a * f <= t + f => a <= 1 + t \div f
        <4> SUFFICES ASSUME NEW a \in Nat, NEW t \in Nat, NEW f \in Nat \ {0}, a * f <= t + f
                     PROVE  a <= 1 + t \div f
          OBVIOUS
        <4>1. t \div f \in Nat /\ t < (t \div f + 1) * f
          OBVIOUS
        <4> DEFINE q == t \div f
        <4>2. q \in Nat /\ t < (q + 1) * f
          BY <4>1
        <4> HIDE DEF q
        <4>3. a >= q + 2 => a * f >= (q + 2) * f
          <5>1. q + 2 \in Nat
            BY <4>2
          <5>2. q + 2 <= a => (q + 2) * f <= a * f
            BY <5>1, Products
          <5> QED BY <4>2, <5>2
        <4>4. (q + 2) * f = (q + 1) * f + f /\ (q + 1) * f \in Nat /\ a * f \in Nat
          BY <4>2
        <4>5. a <= 1 + q
          BY <4>2, <4>3, <4>4
        <4> QED BY <4>5 DEF q
      <3> QED BY <3>3, <3>4, <3>5, <3>6, <3>7, Zenon
    <2>2. pc = "look" => red = green /\ (red <=> blinks % 2 = 1)
      BY DEF BringupInv, LoopOK
    <2> QED BY <2>1, <2>2 DEF BlinksFollow, slow
  <1> QED BY <1>1, BringupInvariant, PTL
=============================================================================
