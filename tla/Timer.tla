------------------------------- MODULE Timer -------------------------------
(***************************************************************************)
(* firmware/timer.rs: the interrupt timers on GPT0-GPT3, register write by *)
(* register write, against the hardware they drive.                        *)
(*                                                                         *)
(* Three parties interleave: the foreground (the one thread, which owns    *)
(* every Timer handle), the Timer A handlers, and the hardware - the GPTs  *)
(* latching timeouts, their interrupt lines reaching the NVIC with a       *)
(* delay, and the NVIC pending and entering exceptions. A foreground step  *)
(* runs only while no handler does; a handler may enter between any two    *)
(* foreground steps.                                                       *)
(***************************************************************************)
EXTENDS TimerParams

VARIABLES
    \* GPT registers, per timer
    taen,       \* CTL.TAEN: counting
    tamr,       \* TAMR.TAMR: 0 at reset, ONE_SHOT or PERIODIC
    tailr,      \* TAILR: the interval's ticks - 1
    imr,        \* IMR.TATOIM: timeout interrupt unmasked
    ris,        \* RIS.TATORIS: timeout latched and not cleared
    \* NVIC, per timer
    line,       \* the interrupt line as the NVIC sees it
    posted,     \* an ICER write on its way to the NVIC
    enabled,    \* ISER/ICER state
    pending,    \* ISPR/ICPR state
    ipr,        \* IPR words, of four IRQs' priorities each
    \* CPU
    primask,    \* configurable-priority exceptions masked
    active,     \* timer whose handler runs, or NoTimer
    isr,        \* the next step of that handler
    \* foreground
    pc,         \* the next step of the call in progress
    call,       \* that call
    result,     \* what the last client call returned
    saved,      \* PRIMASK saved by save_and_disable
    built,      \* timers whose constructor has returned
    \* memory
    count,      \* TIMER_INTERRUPTS
    latched     \* history: timeouts latched and never discarded by stop()

gpt  == <<taen, tamr, tailr, imr, ris>>
nvic == <<line, posted, enabled, pending, ipr>>
cpu  == <<primask, active, isr>>
fg   == <<pc, call, result, saved, built>>
mem  == <<count, latched>>
vars == <<gpt, nvic, cpu, fg, mem>>

NoTimer == -1
ONE_SHOT == 1
PERIODIC == 2
ModeOf(op) == IF op = "once" THEN ONE_SHOT ELSE PERIODIC

\* Timer A's interrupt, and where its priority is.
Irq(i) == 15 + 2 * i
IRQ_COUNT == 47
PRIORITY_LEVELS == 8
IprWords == 3 .. 5
Priority(i) == ipr[Irq(i) \div 4][Irq(i) % 4]

\* Driver calls beside the client's: the constructor, and the clock
\* switch's masked section.
Construct(i) == [op |-> "initialize", timer |-> i, us |-> 0]
Switch == [op |-> "switch", timer |-> NoTimer, us |-> 0]
Calls == TimerCalls \cup {Construct(i) : i \in Timers} \cup {Switch, NoCall}

\* Steps at which the driver owns its GPT's status registers.
Quieting == {"ctl", "imr", "iclr", "sync", "icpr", "stopped"}
Arming == {"configure", "iser", "taen"}
Steps == {"idle", "check", "icer", "barrier", "started", "masked"}
             \cup Quieting \cup Arming

Init ==
    /\ taen = [i \in Timers |-> FALSE]
    /\ tamr = [i \in Timers |-> 0]
    /\ tailr = [i \in Timers |-> 0]
    /\ imr = [i \in Timers |-> FALSE]
    /\ ris = [i \in Timers |-> FALSE]
    /\ line = [i \in Timers |-> FALSE]
    /\ posted = [i \in Timers |-> FALSE]
    /\ enabled = [i \in Timers |-> FALSE]
    /\ pending = [i \in Timers |-> FALSE]
    /\ ipr = [w \in IprWords |-> [lane \in 0 .. 3 |-> 0]]
    /\ primask = TRUE
    /\ active = NoTimer
    /\ isr = "none"
    /\ pc = "idle"
    /\ call = NoCall
    /\ result = "none"
    /\ saved = TRUE
    /\ built = {}
    /\ count = [i \in Timers |-> 0]
    /\ latched = [i \in Timers |-> 0]

-----------------------------------------------------------------------------
(* Hardware *)

\* The masked interrupt status, which drives the interrupt line.
Mis(i) == ris[i] /\ imr[i]

\* The interval elapses: TATORIS is set, a second time without effect, and a
\* one-shot stops counting.
Timeout(i) ==
    /\ taen[i]
    /\ ris' = [ris EXCEPT ![i] = TRUE]
    /\ taen' = [taen EXCEPT ![i] = tamr[i] # ONE_SHOT]
    /\ latched' = [latched EXCEPT ![i] = IF ris[i] THEN @ ELSE Bump(@)]
    /\ UNCHANGED <<tamr, tailr, imr, nvic, cpu, fg, count>>

\* A change of the masked status reaches the NVIC; a rising line pends.
Propagate(i) ==
    /\ line[i] # Mis(i)
    /\ line' = [line EXCEPT ![i] = Mis(i)]
    /\ pending' = [pending EXCEPT ![i] = @ \/ Mis(i)]
    /\ UNCHANGED <<gpt, posted, enabled, ipr, cpu, fg, mem>>

\* A posted ICER write reaches the NVIC.
Land(i) ==
    /\ posted[i]
    /\ posted' = [posted EXCEPT ![i] = FALSE]
    /\ enabled' = [enabled EXCEPT ![i] = FALSE]
    /\ UNCHANGED <<gpt, line, pending, ipr, cpu, fg, mem>>

Eligible(i) == pending[i] /\ enabled[i]

\* The NVIC's choice among pending IRQs: the more urgent priority, which has
\* the lower number, then the lower IRQ number.
Before(i, j) ==
    \/ Priority(i) < Priority(j)
    \/ Priority(i) = Priority(j) /\ Irq(i) <= Irq(j)

\* Exception entry. Enabled timers have one priority, the one their
\* constructors set, so that no handler preempts another.
Preempt(i) ==
    /\ active = NoTimer
    /\ ~primask
    /\ Eligible(i)
    /\ \A j \in Timers : Eligible(j) => Before(i, j)
    /\ active' = i
    /\ isr' = "iclr"
    /\ pending' = [pending EXCEPT ![i] = FALSE]
    /\ UNCHANGED <<gpt, line, posted, enabled, ipr, primask, fg, mem>>

-----------------------------------------------------------------------------
(* clear_timeout, shared by stop() and the handlers *)

ClearLatch(i) == ris' = [ris EXCEPT ![i] = FALSE]

\* Mutation: clear_timeout without the read and the cycles.
SettledAtOnce(i) == i \in Timers

\* Mutation: clear_timeout polling until no timeout is latched.
SettledWhenQuiet(i) == ~line[i] /\ ~ris[i]

\* Reading MIS completes the ICLR write, the two cycles let the line follow.
Settled(i) == line[i] = Mis(i)

-----------------------------------------------------------------------------
(* timer0_a .. timer3_a, each calling interrupt() *)

IsrClear(i) ==
    /\ active = i /\ isr = "iclr"
    /\ ClearLatch(i)
    /\ isr' = "sync"
    /\ UNCHANGED <<taen, tamr, tailr, imr, nvic, primask, active, fg, mem>>

IsrSync(i) ==
    /\ active = i /\ isr = "sync"
    /\ Settled(i)
    /\ isr' = "count"
    /\ UNCHANGED <<gpt, nvic, primask, active, fg, mem>>

IsrCount(i) ==
    /\ active = i /\ isr = "count"
    /\ count' = [count EXCEPT ![i] = Bump(@)]
    /\ isr' = "exit"
    /\ UNCHANGED <<gpt, nvic, primask, active, fg, latched>>

\* Exception return: a line still asserted pends again.
IsrReturn(i) ==
    /\ active = i /\ isr = "exit"
    /\ active' = NoTimer
    /\ isr' = "none"
    /\ pending' = [pending EXCEPT ![i] = @ \/ line[i]]
    /\ UNCHANGED <<gpt, line, posted, enabled, ipr, primask, fg, mem>>

-----------------------------------------------------------------------------
(* Foreground *)

At(step) == active = NoTimer /\ pc = step

\* Go to a step of the same call.
Goto(step) == pc' = step /\ UNCHANGED <<call, result, saved, built>>

Finish(r) ==
    /\ pc' = "idle"
    /\ call' = NoCall
    /\ result' = r
    /\ UNCHANGED saved

Begin(c, step) ==
    /\ At("idle")
    /\ call' = c
    /\ pc' = step

\* Timer::initialize, by board initialization with interrupts masked.
Initialize(i) ==
    /\ i \notin built
    /\ primask
    /\ Begin(Construct(i), "icer")
    /\ UNCHANGED <<gpt, nvic, cpu, result, saved, built, mem>>

\* interrupts::enable, when every timer is ready; only then do clients get
\* their handles.
EnableInterrupts ==
    /\ At("idle")
    /\ built = Timers
    /\ primask
    /\ primask' = FALSE
    /\ UNCHANGED <<gpt, nvic, active, isr, fg, mem>>

\* start_periodic_us, start_once_us and stop.
Invoke(c) ==
    /\ ~primask
    /\ Begin(c, IF c.op = "stop" THEN "icer" ELSE "check")
    /\ result' = "none"
    /\ UNCHANGED <<gpt, nvic, cpu, saved, built, mem>>

\* try_switch_to_hf_crystal masks interrupts around the ROM call and then
\* restores the mask it found.
SaveAndDisable ==
    /\ Begin(Switch, "masked")
    /\ saved' = primask
    /\ primask' = TRUE
    /\ UNCHANGED <<gpt, nvic, active, isr, result, built, mem>>

\* Mutation: the section leaves interrupts masked.
RestoreForgotten ==
    /\ At("masked")
    /\ Finish(result)
    /\ UNCHANGED <<gpt, nvic, cpu, built, mem>>

Restore ==
    /\ At("masked")
    /\ Finish(result)
    /\ primask' = saved
    /\ UNCHANGED <<gpt, nvic, active, isr, built, mem>>

\* Mutation: arm without its call of stop().
CheckThenConfigure ==
    /\ At("check")
    /\ IF ValidRequest(call.us) THEN Goto("configure") ELSE Finish("err") /\ UNCHANGED built
    /\ UNCHANGED <<gpt, nvic, cpu, mem>>

\* arm refuses a zero or overflowing interval before it touches anything.
Check ==
    /\ At("check")
    /\ IF ValidRequest(call.us) THEN Goto("icer") ELSE Finish("err") /\ UNCHANGED built
    /\ UNCHANGED <<gpt, nvic, cpu, mem>>

-----------------------------------------------------------------------------
(* stop() *)

\* Mutation: stop() leaves the IRQ enabled.
StopWithoutDisable ==
    /\ At("icer")
    /\ Goto("barrier")
    /\ UNCHANGED <<gpt, nvic, cpu, mem>>

StopDisable ==
    /\ At("icer")
    /\ posted' = [posted EXCEPT ![call.timer] = TRUE]
    /\ Goto("barrier")
    /\ UNCHANGED <<gpt, line, enabled, pending, ipr, cpu, mem>>

\* Mutation: no barrier after the ICER write.
StopUnfenced ==
    /\ At("barrier")
    /\ Goto("ctl")
    /\ UNCHANGED <<gpt, nvic, cpu, mem>>

\* DSB waits for the ICER write, ISB for the pipeline.
StopBarrier ==
    /\ At("barrier")
    /\ ~posted[call.timer]
    /\ Goto("ctl")
    /\ UNCHANGED <<gpt, nvic, cpu, mem>>

StopCounting ==
    /\ At("ctl")
    /\ taen' = [taen EXCEPT ![call.timer] = FALSE]
    /\ Goto("imr")
    /\ UNCHANGED <<tamr, tailr, imr, ris, nvic, cpu, mem>>

StopMask ==
    /\ At("imr")
    /\ imr' = [imr EXCEPT ![call.timer] = FALSE]
    /\ Goto("iclr")
    /\ UNCHANGED <<taen, tamr, tailr, ris, nvic, cpu, mem>>

\* A timeout latched and not acknowledged is discarded here.
StopClear ==
    /\ At("iclr")
    /\ ClearLatch(call.timer)
    /\ latched' = [latched EXCEPT ![call.timer] = IF ris[call.timer] THEN Unbump(@) ELSE @]
    /\ Goto("sync")
    /\ UNCHANGED <<taen, tamr, tailr, imr, nvic, cpu, count>>

StopSync ==
    /\ At("sync")
    /\ Settled(call.timer)
    /\ Goto("icpr")
    /\ UNCHANGED <<gpt, nvic, cpu, mem>>

\* Mutation: stop() without the ICPR write.
StopKeepingPending ==
    /\ At("icpr")
    /\ Goto("stopped")
    /\ UNCHANGED <<gpt, nvic, cpu, mem>>

\* ICPR drops the latched request; an asserted line would keep it pending.
StopDiscard ==
    /\ At("icpr")
    /\ pending' = [pending EXCEPT ![call.timer] = line[call.timer]]
    /\ Goto("stopped")
    /\ UNCHANGED <<gpt, line, posted, enabled, ipr, cpu, mem>>

\* Mutation: the word written without its other bytes.
SetPriorityAlone(irq, priority) ==
    /\ irq < IRQ_COUNT /\ priority < PRIORITY_LEVELS
    /\ ipr' = [ipr EXCEPT ![irq \div 4] = [lane \in 0 .. 3 |-> IF lane = irq % 4 THEN priority ELSE 0]]

\* interrupts::set_priority: its assertions, and the IPR word read and written
\* back with one byte changed. Interrupts are masked and nobody else writes
\* IPR, so that no step could come between the read and the write.
SetPriority(irq, priority) ==
    /\ irq < IRQ_COUNT /\ priority < PRIORITY_LEVELS
    /\ ipr' = [ipr EXCEPT ![irq \div 4][irq % 4] = priority]

\* stop() returns: to its client, to initialize, which sets the priority, or
\* to arm.
StopReturn ==
    /\ At("stopped")
    /\ CASE call.op = "stop" ->
                /\ Finish("ok")
                /\ UNCHANGED <<built, ipr>>
         [] call.op = "initialize" ->
                /\ Finish(result)
                /\ built' = built \cup {call.timer}
                /\ SetPriority(Irq(call.timer), 2)
         [] OTHER ->
                /\ Goto("configure")
                /\ UNCHANGED ipr
    /\ UNCHANGED <<gpt, line, posted, enabled, pending, cpu, mem>>

-----------------------------------------------------------------------------
(* The rest of arm() *)

\* CFG (constant: one 32-bit timer), TAMR, TAILR and IMR of a GPT that stop()
\* has left with nothing latched, so that no step can tell their order.
ArmConfigure ==
    /\ At("configure")
    /\ tamr' = [tamr EXCEPT ![call.timer] = ModeOf(call.op)]
    /\ tailr' = [tailr EXCEPT ![call.timer] = TicksFromUs(call.us) - 1]
    /\ imr' = [imr EXCEPT ![call.timer] = TRUE]
    /\ Goto("iser")
    /\ UNCHANGED <<taen, ris, nvic, cpu, mem>>

ArmEnable ==
    /\ At("iser")
    /\ enabled' = [enabled EXCEPT ![call.timer] = TRUE]
    /\ Goto("taen")
    /\ UNCHANGED <<gpt, line, posted, pending, ipr, cpu, mem>>

ArmCount ==
    /\ At("taen")
    /\ taen' = [taen EXCEPT ![call.timer] = TRUE]
    /\ Goto("started")
    /\ UNCHANGED <<tamr, tailr, imr, ris, nvic, cpu, mem>>

ArmReturn ==
    /\ At("started")
    /\ Finish("ok")
    /\ UNCHANGED <<gpt, nvic, cpu, built, mem>>

-----------------------------------------------------------------------------
Hardware(i) == Timeout(i) \/ Propagate(i) \/ Land(i) \/ Preempt(i)

Handler(i) == IsrClear(i) \/ IsrSync(i) \/ IsrCount(i) \/ IsrReturn(i)

Stop ==
    \/ StopDisable \/ StopBarrier \/ StopCounting \/ StopMask
    \/ StopClear \/ StopSync \/ StopDiscard \/ StopReturn

Arm == ArmConfigure \/ ArmEnable \/ ArmCount \/ ArmReturn

\* The steps of a call already begun.
Proceed == Check \/ Stop \/ Arm \/ Restore

Next ==
    \/ \E i \in Timers : Hardware(i) \/ Handler(i) \/ Initialize(i)
    \/ \E c \in TimerCalls : Invoke(c)
    \/ EnableInterrupts
    \/ SaveAndDisable
    \/ Proceed

Spec == Init /\ [][Next]_vars

\* A counting timer elapses, lines and posted writes arrive, handlers run to
\* their end, a pending exception is entered when the CPU can and the
\* foreground gets to run between two of them.
Fairness ==
    /\ \A i \in Timers :
           /\ WF_vars(Timeout(i))
           /\ WF_vars(Propagate(i))
           /\ WF_vars(Land(i))
           /\ WF_vars(Handler(i))
           /\ SF_vars(Preempt(i))
    /\ SF_vars(Proceed)

FairSpec == Spec /\ Fairness

-----------------------------------------------------------------------------
(* Properties *)

\* Every variable keeps its type.
TypeOK ==
    /\ taen \in [Timers -> BOOLEAN]
    /\ tamr \in [Timers -> {0, ONE_SHOT, PERIODIC}]
    /\ tailr \in [Timers -> 0 .. MaxTicks - 1]
    /\ imr \in [Timers -> BOOLEAN]
    /\ ris \in [Timers -> BOOLEAN]
    /\ line \in [Timers -> BOOLEAN]
    /\ posted \in [Timers -> BOOLEAN]
    /\ enabled \in [Timers -> BOOLEAN]
    /\ pending \in [Timers -> BOOLEAN]
    /\ ipr \in [IprWords -> [0 .. 3 -> 0 .. PRIORITY_LEVELS - 1]]
    /\ primask \in BOOLEAN
    /\ active \in Timers \cup {NoTimer}
    /\ isr \in {"none", "iclr", "sync", "count", "exit"}
    /\ pc \in Steps
    /\ call \in Calls
    /\ result \in {"none", "ok", "err"}
    /\ saved \in BOOLEAN
    /\ built \subseteq Timers
    /\ count \in [Timers -> 0 .. CountMod - 1]
    /\ latched \in [Timers -> 0 .. CountMod - 1]

\* The handler has cleared a timeout it has not counted yet.
Uncounted(i) == active = i /\ isr \in {"sync", "count"}

\* Every latched timeout that stop() did not discard is counted exactly once:
\* the count lags behind by the one still latched and the one its handler has
\* cleared and not yet added (interrupt(), clear_timeout()).
TimeoutsAccounted ==
    \A i \in Timers :
        LET cleared == IF Uncounted(i) THEN Bump(count[i]) ELSE count[i]
        IN  latched[i] = IF ris[i] THEN Bump(cleared) ELSE cleared

\* From stop()'s barrier until TAEN is written no handler of that timer runs:
\* the driver touches the shared status registers alone, as its SAFETY
\* comments claim.
ReconfiguresAlone == pc \in Quieting \cup Arming => active # call.timer

\* Between calls a timer whose interrupt is masked is one that stop() left.
Stopped(i) == call.timer # i /\ ~imr[i]

\* stop() discards the timeout wherever it had got to: of a stopped timer
\* nothing counts, is latched, asserted, pending, enabled or running.
StoppedIsClean ==
    \A i \in Timers : Stopped(i) =>
        /\ ~taen[i] /\ ~ris[i] /\ ~line[i]
        /\ ~posted[i] /\ ~enabled[i] /\ ~pending[i]
        /\ active # i

-----------------------------------------------------------------------------
(* The contract this implements *)

Reconfiguring(i) == call.timer = i /\ pc \in Quieting \cup Arming

ModeOfTimer(i) ==
    IF Reconfiguring(i) \/ ~imr[i] THEN "off"
    ELSE IF tamr[i] = PERIODIC THEN "periodic"
    ELSE IF taen[i] \/ ris[i] \/ Uncounted(i) THEN "once"
    ELSE "expired"

IntervalOfTimer(i) == IF ModeOfTimer(i) = "off" THEN 0 ELSE tailr[i] + 1

ClientCall == IF call.op \in {"stop"} \cup StartOps THEN call ELSE NoCall

Stage ==
    IF ClientCall = NoCall THEN "idle"
    ELSE IF pc \in Quieting \cup Arming THEN "silent"
    ELSE IF pc = "started" THEN "engaged"
    ELSE "invoked"

\* From stop()'s barrier to the next start's TAEN write no timeout of that
\* timer is acknowledged: interrupts() stays what it was.
StopIsFinal ==
    [][\A i \in Timers : ModeOfTimer(i) = "off" => count'[i] = count[i]]_vars

Contract == INSTANCE TimerContract WITH
    call <- ClientCall, stage <- Stage, 
    mode <- [i \in Timers |-> ModeOfTimer(i)],
    interval <- [i \in Timers |-> IntervalOfTimer(i)]

\* Register by register, the driver on its hardware does what the contract
\* promises and nothing else.
ImplementsContract == Contract!Spec

-----------------------------------------------------------------------------
(* Liveness, under Fairness *)

\* Every call on a timer returns, whatever its interrupts do meanwhile.
CallsReturn == pc # "idle" ~> pc = "idle"

\* An engaged timer is acknowledged again and again until it has expired or
\* a call replaces it: no timeout is lost on its way to interrupts().
EngagedTimerServed ==
    \A i \in Timers : \A n \in 0 .. CountMod - 1 :
        (ModeOfTimer(i) \in StartOps /\ count[i] = n)
            ~> (ModeOfTimer(i) \notin StartOps \/ count[i] # n)
=============================================================================
