------------------------------ MODULE Bringup ------------------------------
(***************************************************************************)
(* firmware/main.rs: the application brings up the board, checks the timer *)
(* driver against its own promises and blinks ever after. It runs on what  *)
(* TimerContract promises, with the times added: an engaged interval       *)
(* elapses when its ticks are over and is acknowledged within a tick.      *)
(*                                                                         *)
(* main is a self-test, so each behaviour has at most one part broken: the *)
(* model shows which verdict main reaches over which fault.                *)
(***************************************************************************)
EXTENDS TimerParams, Sequences

CONSTANTS
    Fast,      \* microseconds of the checked intervals: 1_000
    Slow,      \* microseconds of the blinking interval: 500_000
    Overflow,  \* a refused request: u32::MAX
    Needed,    \* interrupts the check waits for: 20
    Quiet,     \* ticks waited after stop() and after a one-shot: 10 ms
    Timeout,   \* ticks for a line to be written and for Needed interrupts: 1 s
    LineTime,  \* most ticks a working line takes to accept a line
    MaxGap,    \* most ticks between two of main's statements
    PollTicks, \* fewest ticks a poll of those waits takes
    Budget,    \* polls wait_for grants the wait for interrupts: 48_000_000
    QuietBudget \* ... and the quiet ones: 1_000_000

ASSUME NumbersAssumption ==
    /\ Timers # {}
    /\ Needed \in Nat \ {0} /\ MaxGap \in Nat \ {0}
    /\ Quiet \in Nat /\ Timeout \in Nat /\ LineTime \in Nat

\* CPU and timers run off one 48 MHz clock, and a poll reads a GPT over the bus:
\* it takes two ticks at the least. So do all polls of a budget but the first
\* cover their wait, although Budget and Timeout are the same number in the code.
ASSUME BudgetAssumption ==
    /\ Budget \in Nat /\ QuietBudget \in Nat /\ QuietBudget <= Budget
    /\ PollTicks \in 1 .. MaxGap
    /\ Timeout <= (Budget - 1) * PollTicks /\ Quiet <= (QuietBudget - 1) * PollTicks
\* An interval fits into the waits for it.
ASSUME IntervalAssumption ==
    /\ {0, Fast, Slow, Overflow} \subseteq Requests
    /\ ValidRequest(Fast) /\ ValidRequest(Slow) /\ ~ValidRequest(Overflow)
    /\ TicksFromUs(2 * Fast) < Quiet
    /\ TicksFromUs(Needed * Fast) + 2 * MaxGap < Timeout
    /\ LineTime < Timeout /\ Quiet + 2 * MaxGap <= Timeout

\* The count does not come round while it is watched; an even modulus lets the
\* parity of a wrapped BLINK_COUNT mean something.
ASSUME CountAssumption ==
    /\ Needed + MaxGap < CountMod /\ Quiet + 4 * MaxGap < CountMod
    /\ CountMod % 2 = 0

VARIABLES
    \* the timer, as TimerContract sees it
    call, stage, result, mode, interval, count,
    \* its time
    period,    \* ticks of the interval the hardware is running, or 0
    left,      \* ticks until it elapses
    due,       \* 1 if it has elapsed and is not acknowledged, or 0
    \* the foreground
    pc,        \* the statement main is at
    cause,     \* what main panicked of, or "none"
    elapsed,   \* ticks since main last read its start, up to Timeout
    polls,     \* polls of the wait in progress
    busy,      \* ticks since main's last step
    writing,   \* the line being written, or "none"
    wrote,     \* ticks that has taken
    stopped,   \* interrupts() after the first stop, until it is out of use
    previous,  \* interrupts() when the LEDs were last toggled
    red, green,
    blinks,    \* BLINK_COUNT
    status,    \* TIMER_TEST_STATUS
    sent,      \* history: lines that entered the FIFO whole
    \* the world
    fault,     \* the part that is broken, or "none"
    stuck      \* the line takes no more bytes

contract == <<call, stage, result, mode, interval, count>>
clock == <<period, left, due>>
wait == <<elapsed, polls>>
uart == <<writing, wrote, sent>>
leds == <<previous, red, green, blinks>>
world == <<fault, stuck>>
vars == <<contract, clock, pc, cause, wait, busy, uart, stopped, leds, status, world>>

T == INSTANCE TimerContract

TheTimer == CHOOSE i \in Timers : TRUE

Faults == {"none", "board", "crystal", "memory", "dead", "lingers", "repeats", "line"}

\* Mutation: the verdict is stored before the one-shot is checked.
OrderHasty ==
    <<"take", "clock", "banner", "memory", "running", "periodic", "mark", "interrupts",
      "stop", "mark_stopped", "quiet", "unchanged", "zero", "overflow", "verdict",
      "once", "mark_once", "expiry", "exact", "halt", "pass", "blink", "look">>

\* main's statements
Order ==
    <<"take", "clock", "banner", "memory", "running", "periodic", "mark", "interrupts",
      "stop", "mark_stopped", "quiet", "unchanged", "zero", "overflow",
      "once", "mark_once", "expiry", "exact", "halt", "verdict", "pass", "blink", "look">>

After(statement) ==
    LET i == CHOOSE j \in DOMAIN Order : Order[j] = statement
    IN  Order[i + 1]

\* The timer calls among them, and the outcome each insists on.
CallOf ==
    [periodic |-> [op |-> "periodic", us |-> Fast, want |-> "ok"],
     stop     |-> [op |-> "stop", us |-> 0, want |-> "ok"],
     zero     |-> [op |-> "periodic", us |-> 0, want |-> "err"],
     overflow |-> [op |-> "periodic", us |-> Overflow, want |-> "err"],
     once     |-> [op |-> "once", us |-> Fast, want |-> "ok"],
     halt     |-> [op |-> "stop", us |-> 0, want |-> "ok"],
     blink    |-> [op |-> "periodic", us |-> Slow, want |-> "ok"]]

Init ==
    /\ T!Init
    /\ period = 0 /\ left = 0 /\ due = 0
    /\ pc = "take" /\ cause = "none"
    /\ elapsed = 0 /\ polls = 0 /\ busy = 0
    /\ writing = "none" /\ wrote = 0 /\ sent = {}
    /\ stopped = 0
    /\ previous = 0 /\ red = FALSE /\ green = FALSE /\ blinks = 0
    /\ status = 0
    /\ fault \in Faults /\ stuck = FALSE

-----------------------------------------------------------------------------
(* Time and hardware *)

\* Mutation: the limit starts over with every byte.
WriteBoundPerByte == IF stuck THEN 3 * Timeout ELSE LineTime

\* write_timeout returns once the line has taken everything or time is up.
WriteBound == IF stuck THEN Timeout ELSE LineTime

\* A tick passes. What is due is acknowledged first, unless nobody does.
Tick ==
    /\ pc # "panic"
    /\ due = 1 => fault = "dead"
    /\ writing # "none" => wrote < WriteBound
    /\ writing = "none" => busy < MaxGap
    /\ left' = IF left = 1 /\ (mode[TheTimer] # "once" \/ fault = "repeats") THEN period
               ELSE IF left = 0 THEN 0 ELSE left - 1
    /\ due' = IF left = 1 THEN 1 ELSE due
    /\ elapsed' = IF elapsed < Timeout THEN elapsed + 1 ELSE elapsed
    /\ busy' = IF writing = "none" THEN busy + 1 ELSE 0
    /\ wrote' = IF writing = "none" THEN 0 ELSE wrote + 1
    /\ UNCHANGED <<contract, period, pc, cause, polls, writing, sent, stopped, leds, status, world>>

\* The handler acknowledges; behind the contract's back if stop() did not stop
\* or the one-shot goes on.
Acknowledge ==
    /\ due = 1
    /\ fault # "dead"
    /\ due' = 0
    /\ IF mode[TheTimer] \in StartOps THEN T!Acknowledge(TheTimer)
       ELSE count' = [count EXCEPT ![TheTimer] = Bump(@)] /\ UNCHANGED <<call, stage, result, mode, interval>>
    /\ UNCHANGED <<period, left, pc, cause, wait, busy, uart, stopped, leds, status, world>>

LineSticks ==
    /\ fault = "line"
    /\ ~stuck
    /\ stuck' = TRUE
    /\ UNCHANGED <<contract, clock, pc, cause, wait, busy, uart, stopped, leds, status, fault>>

-----------------------------------------------------------------------------
(* main *)

At(statement) == pc = statement
Proceed == pc' = After(pc) /\ UNCHANGED cause
Panic(why) == pc' = "panic" /\ cause' = why
Insist(condition, why) == IF condition THEN Proceed ELSE Panic(why)

\* Board::take().expect
Take ==
    /\ At("take")
    /\ Insist(fault # "board", "take")
    /\ UNCHANGED <<contract, clock, wait, uart, stopped, leds, status, world>>

\* request_hf_crystal, then wait_for(try_switch_to_hf_crystal)
SwitchClock ==
    /\ At("clock")
    /\ Insist(fault # "crystal", "budget")
    /\ UNCHANGED <<contract, clock, wait, uart, stopped, leds, status, world>>

\* The markers that startup must have loaded and zeroed.
CheckMemory ==
    /\ At("memory")
    /\ pc' = IF fault = "memory" THEN "fail_memory" ELSE After(pc)
    /\ UNCHANGED <<contract, clock, cause, wait, uart, stopped, leds, status, world>>

\* TIMER_TEST_STATUS
StoreStatus ==
    /\ At("running") \/ At("verdict")
    /\ status' = IF At("running") THEN 1 ELSE 2
    /\ Proceed
    /\ UNCHANGED <<contract, clock, wait, uart, stopped, leds, world>>

\* A call on the timer.
Invoke ==
    /\ pc \in DOMAIN CallOf
    /\ T!Invoke([op |-> CallOf[pc].op, timer |-> TheTimer, us |-> CallOf[pc].us])
    /\ UNCHANGED <<clock, pc, cause, wait, uart, stopped, leds, status, world>>

Silence ==
    /\ T!Silence
    /\ IF fault = "lingers" THEN UNCHANGED clock
                            ELSE period' = 0 /\ left' = 0 /\ due' = 0
    /\ UNCHANGED <<pc, cause, wait, uart, stopped, leds, status, world>>

Engage ==
    /\ T!Engage
    /\ period' = interval'[TheTimer]
    /\ left' = interval'[TheTimer]
    /\ due' = 0
    /\ UNCHANGED <<pc, cause, wait, uart, stopped, leds, status, world>>

\* It returns, to an unwrap or an assertion; entering the loop, previous is read.
Return ==
    /\ T!Reject \/ T!Complete
    /\ Insist(result' = CallOf[pc].want, "result")
    /\ previous' = IF At("blink") THEN count[TheTimer] ELSE previous
    /\ UNCHANGED <<clock, wait, uart, stopped, red, green, blinks, status, world>>

\* Mutation: stopped is not read again after stop().
MarkOnce ==
    /\ pc \in {"mark", "mark_stopped", "mark_once"}
    /\ elapsed' = 0 /\ polls' = 0
    /\ Proceed
    /\ UNCHANGED <<contract, clock, uart, stopped, leds, status, world>>

\* start = counter.now(), after stop() with stopped = interrupts()
Mark ==
    /\ pc \in {"mark", "mark_stopped", "mark_once"}
    /\ elapsed' = 0 /\ polls' = 0
    /\ stopped' = IF At("mark_stopped") THEN count[TheTimer] ELSE stopped
    /\ Proceed
    /\ UNCHANGED <<contract, clock, uart, leds, status, world>>

\* wait_for: a poll that finds nothing uses up the budget.
Exhaust(budget) ==
    /\ polls' = polls + 1
    /\ IF polls + 1 = budget THEN Panic("budget") ELSE UNCHANGED <<pc, cause>>

Finished == polls' = 0

\* Mutation: only interrupts end the wait, neither deadline nor budget.
PollInterruptsForever ==
    /\ At("interrupts")
    /\ polls > 0 => busy >= PollTicks
    /\ IF count[TheTimer] >= Needed THEN Proceed /\ Finished
       ELSE polls' = 1 /\ UNCHANGED <<pc, cause>>
    /\ UNCHANGED <<contract, clock, elapsed, uart, stopped, leds, status, world>>

\* The deadline is looked at first, then the interrupts.
PollInterrupts ==
    /\ At("interrupts")
    /\ polls > 0 => busy >= PollTicks
    /\ IF elapsed >= Timeout THEN pc' = "fail_timer" /\ UNCHANGED cause /\ Finished
       ELSE IF count[TheTimer] >= Needed THEN Proceed /\ Finished
       ELSE Exhaust(Budget)
    /\ UNCHANGED <<contract, clock, elapsed, uart, stopped, leds, status, world>>

PollQuiet ==
    /\ At("quiet") \/ At("expiry")
    /\ polls > 0 => busy >= PollTicks
    /\ IF elapsed >= Quiet THEN Proceed /\ Finished ELSE Exhaust(QuietBudget)
    /\ UNCHANGED <<contract, clock, elapsed, uart, stopped, leds, status, world>>

\* The two assertions on the count. The second is the last use of stopped.
AssertCount ==
    /\ At("unchanged") \/ At("exact")
    /\ Insist(count[TheTimer] = (IF At("exact") THEN Bump(stopped) ELSE stopped), pc)
    /\ stopped' = IF At("exact") THEN 0 ELSE stopped
    /\ UNCHANGED <<contract, clock, wait, uart, leds, status, world>>

\* write_timeout of the line a statement asks for
LineOf ==
    [banner |-> "banner", pass |-> "pass", fail_memory |-> "fail", fail_timer |-> "fail",
     echo |-> "echo", report |-> "rx_error"]

StartWrite ==
    /\ pc \in DOMAIN LineOf
    /\ writing = "none"
    /\ writing' = LineOf[pc]
    /\ wrote' = 0
    /\ UNCHANGED <<contract, clock, pc, cause, wait, sent, stopped, leds, status, world>>

\* RESULT FAIL is followed by a panic whatever became of it ...
FailMemory == At("fail_memory") /\ Panic("memory")
FailTimer == At("fail_timer") /\ Panic("timer")

\* ... other lines by an unwrap, and in the loop by its next turn.
Unwrap(ok) ==
    /\ pc \notin {"fail_memory", "fail_timer"}
    /\ IF ~ok THEN Panic("line")
       ELSE IF pc \in {"echo", "report"} THEN pc' = "look" /\ UNCHANGED cause
       ELSE Proceed

\* write_timeout returns: all bytes are in the FIFO, or the time is up.
EndWrite(ok) ==
    /\ writing # "none"
    /\ IF ok THEN ~stuck ELSE stuck /\ wrote >= Timeout
    /\ writing' = "none"
    /\ wrote' = 0
    /\ sent' = IF ok THEN sent \cup {writing} ELSE sent
    /\ FailMemory \/ FailTimer \/ Unwrap(ok)
    /\ UNCHANGED <<contract, clock, wait, stopped, leds, status, world>>

\* The loop: interrupts() is read and compared ...
Look ==
    /\ At("look")
    /\ previous' = count[TheTimer]
    /\ pc' = IF count[TheTimer] # previous THEN "red" ELSE "read"
    /\ UNCHANGED <<contract, clock, cause, wait, uart, stopped, red, green, blinks, status, world>>

ToggleRed ==
    /\ At("red")
    /\ red' = ~red
    /\ pc' = "green"
    /\ UNCHANGED <<contract, clock, cause, wait, uart, stopped, previous, green, blinks, status, world>>

ToggleGreen ==
    /\ At("green")
    /\ green' = ~green
    /\ pc' = "count"
    /\ UNCHANGED <<contract, clock, cause, wait, uart, stopped, previous, red, blinks, status, world>>

\* Mutation: BLINK_COUNT follows interrupts() instead of the toggles.
CountInterrupts ==
    /\ At("count")
    /\ blinks' = count[TheTimer]
    /\ pc' = "read"
    /\ UNCHANGED <<contract, clock, cause, wait, uart, stopped, previous, red, green, status, world>>

\* ... BLINK_COUNT.fetch_add ...
CountBlink ==
    /\ At("count")
    /\ blinks' = Bump(blinks)
    /\ pc' = "read"
    /\ UNCHANGED <<contract, clock, cause, wait, uart, stopped, previous, red, green, status, world>>

\* ... and try_read: a byte to echo, nothing, or an error to report.
Read ==
    /\ At("read")
    /\ pc' \in {"echo", "look", "report"}
    /\ UNCHANGED <<contract, clock, cause, wait, uart, stopped, leds, status, world>>

Statement ==
    \/ Take \/ SwitchClock \/ CheckMemory \/ StoreStatus
    \/ Invoke \/ Silence \/ Engage \/ Return
    \/ Mark \/ PollInterrupts \/ PollQuiet \/ AssertCount
    \/ StartWrite \/ EndWrite(TRUE) \/ EndWrite(FALSE)
    \/ Look \/ ToggleRed \/ ToggleGreen \/ CountBlink \/ Read

Main == Statement /\ busy' = 0

Next == Tick \/ Acknowledge \/ LineSticks \/ Main

Spec == Init /\ [][Next]_vars

\* Time passes, the handler and the foreground run.
FairSpec == Spec /\ WF_vars(Tick) /\ WF_vars(Acknowledge) /\ WF_vars(Main)

-----------------------------------------------------------------------------
(* Properties *)

Loop == {"look", "red", "green", "count", "read", "echo", "report"}
Statements == {Order[j] : j \in DOMAIN Order} \cup Loop \cup DOMAIN LineOf \cup {"panic"}
Lines == {LineOf[s] : s \in DOMAIN LineOf}

\* Every variable keeps its type.
TypeOK ==
    /\ call \in TimerCalls \cup {NoCall} /\ stage \in {"idle", "invoked", "silent", "engaged"}
    /\ result \in {"none", "ok", "err"}
    /\ mode \in [Timers -> {"off", "once", "periodic", "expired"}]
    /\ interval \in [Timers -> 0 .. MaxTicks]
    /\ count \in [Timers -> 0 .. CountMod - 1]
    /\ period \in 0 .. MaxTicks /\ left \in 0 .. period /\ due \in 0 .. 1
    /\ pc \in Statements
    /\ cause \in {"none", "take", "budget", "result", "memory", "timer", "unchanged", "exact", "line"}
    /\ elapsed \in 0 .. Timeout /\ polls \in 0 .. Budget /\ busy \in 0 .. MaxGap
    /\ writing \in Lines \cup {"none"} /\ wrote \in 0 .. Timeout /\ sent \subseteq Lines
    /\ stopped \in 0 .. CountMod - 1 /\ previous \in 0 .. CountMod - 1
    /\ red \in BOOLEAN /\ green \in BOOLEAN /\ blinks \in 0 .. CountMod - 1
    /\ status \in 0 .. 2
    /\ fault \in Faults /\ stuck \in BOOLEAN

CauseOf ==
    [board |-> "take", crystal |-> "budget", memory |-> "memory", dead |-> "timer",
     lingers |-> "unchanged", repeats |-> "exact", line |-> "line"]

\* On sound hardware main never panics, however polls, ticks and interrupts
\* fall; over a fault it panics of that fault - of the deadline rather than of
\* the budget beside it, which is the same number of polls as that is of ticks.
PanicsExplained == pc = "panic" => fault # "none" /\ cause = CauseOf[fault]

\* TIMER_TEST_STATUS is 2, and RESULT PASS is sent, only over a timer that
\* interrupts, that stops and whose one-shot expires once, and sound memory;
\* and never both PASS and FAIL.
VerdictTrue ==
    /\ status = 2 => fault \in {"none", "line"}
    /\ "pass" \in sent => status = 2 /\ "fail" \notin sent

Lag == IF count[TheTimer] >= previous THEN count[TheTimer] - previous
       ELSE count[TheTimer] - previous + CountMod

\* The longest turn of the loop: seven statements and a line that never sends.
Turn == Timeout + 7 * MaxGap

\* While it blinks, main falls behind the timer by no more interrupts than fit
\* one turn of the loop, so that the count cannot come round to where it was
\* and a change of it go unseen; and at the loop's head the LEDs agree with
\* each other and with BLINK_COUNT.
BlinksFollow ==
    /\ pc \in Loop => Lag <= 1 + Turn \div TicksFromUs(Slow)
    /\ pc = "look" => red = green /\ (red <=> blinks % 2 = 1)

\* main always reaches a verdict: it panics, or reports PASS.
Concludes == <>(pc = "panic" \/ "pass" \in sent)
=============================================================================
