------------------------------- MODULE Board -------------------------------
(***************************************************************************)
(* firmware/device.rs, Board::take(), with the constructors it calls in    *)
(* gpio.rs, timer.rs and uart.rs, the power and clock controls of prcm.rs, *)
(* the pin routing of ioc.rs and the bounded polling of poll.rs.           *)
(*                                                                         *)
(* The constructors are straight-line code: each is written here as the    *)
(* sequence of its accesses, and one action per kind of access carries     *)
(* them out, one at a time, while the hardware brings up power domains     *)
(* and loads clock settings at its own pace - or never.                    *)
(***************************************************************************)
EXTENDS Integers, Sequences

CONSTANT Budget  \* polls of a handshake before wait_for panics: 1_000_000 on the chip

ASSUME BudgetAssumption == Budget \in Nat \ {0}

Domains == {"periph", "serial"}
Peripherals == {"gpio", "gpt0", "gpt1", "uart0"}
DomainOf(p) == IF p = "uart0" THEN "serial" ELSE "periph"

\* The pins and instances configure() assigns.
RedLed == "dio6"
GreenLed == "dio7"
UartRx == "dio12"
UartTx == "dio13"
Dios == {RedLed, GreenLed, UartRx, UartTx}
CounterGpt == "gpt1"
TimerGpt == "gpt0"
Handles == {RedLed, GreenLed, CounterGpt, TimerGpt, "uart0"}

VARIABLES
    \* PRCM
    requested,  \* PDCTL0: domains asked for
    powered,    \* PDSTAT0: domains that are on
    staged,     \* the clock registers: gates open and GPTCLKDIV undivided
    applied,    \* the clock settings in force
    loading,    \* CLKLOADCTL.LOAD in progress
    loadDone,   \* CLKLOADCTL.LOAD_DONE
    \* peripherals and pins
    mode,       \* [Peripherals -> how far its registers are set up]
    divisor,    \* baud divisor: "unset", "written" (IBRD, FBRD), "committed"
    route,      \* [Dios -> signal that IOCFG.PORT_ID selects]
    driven,     \* DOE: pins with their output enabled
    high,       \* DOUT: pins with their output latch set
    asleep,     \* pads asleep since a shutdown (SLEEPCTL.IO_PAD_SLEEP_DIS clear)
    frozen,     \* pad latches frozen since a retained power-down (IOCLATCH.EN clear)
    primask,    \* interrupts masked
    \* foreground
    taken,      \* TAKEN
    step,       \* the next access of take()'s sequence
    polls,      \* polls of the current handshake that saw it not ready
    outcome,    \* "idle" before the first take(), "running", then its result
    built       \* history: handles whose constructor has returned

prcm == <<requested, powered, staged, applied, loading, loadDone>>
devices == <<mode, divisor, route, driven, high>>
pads == <<asleep, frozen>>
fg == <<taken, step, polls, outcome, built>>
vars == <<prcm, devices, pads, primask, fg>>

-----------------------------------------------------------------------------
(* The accesses of each function, in the order of the code *)

Access(kind, of) == [do |-> kind, of |-> of]

PowerPeriph == <<Access("request", "periph"), Access("await_power", "periph")>>
PowerSerial == <<Access("request", "serial"), Access("await_power", "serial")>>

ApplyClockSettings == <<Access("load", "clocks"), Access("await_load", "clocks")>>

\* Mutation: a gate is opened but the setting not applied.
OpenGate(p) == <<Access("gate", p)>>

EnableClock(p) == <<Access("gate", p)>> \o ApplyClockSettings

InitializeTimerClock == <<Access("undivide", "clocks")>> \o ApplyClockSettings

\* gpio::configure_output
ConfigureOutput(dio) ==
    PowerPeriph \o EnableClock("gpio")
        \o <<Access("clear", dio), Access("route", dio), Access("drive", dio), Access("return", dio)>>

\* Counter::initialize: disabled, configured and started.
CounterInitialize(gpt) ==
    PowerPeriph \o EnableClock(gpt)
        \o <<Access("halt", gpt), Access("format", gpt), Access("start", gpt), Access("return", gpt)>>

\* Timer::initialize; its stop() and set_priority are Timer's subject.
TimerInitialize(gpt) ==
    PowerPeriph \o EnableClock(gpt) \o <<Access("halt", gpt), Access("return", gpt)>>

\* Mutation: the UART is started before its format is written.
StartUart(uart) ==
    <<Access("halt", uart), Access("divide", uart), Access("start", uart), Access("format", uart)>>

\* configure_uart
ConfigureUart(uart) ==
    <<Access("halt", uart), Access("divide", uart), Access("format", uart), Access("start", uart)>>

\* Uart::initialize
UartInitialize(uart, rx, tx) ==
    PowerSerial \o EnableClock(uart) \o <<Access("route", rx), Access("route", tx)>>
        \o ConfigureUart(uart) \o <<Access("return", uart)>>

ReleaseRetention == <<Access("wake", "pads"), Access("thaw", "pads")>>

Configure ==
    ConfigureOutput(RedLed) \o ConfigureOutput(GreenLed)
        \o CounterInitialize(CounterGpt) \o TimerInitialize(TimerGpt)
        \o UartInitialize("uart0", UartRx, UartTx)

\* Mutation: retention released before the pins have been configured.
EagerScript ==
    InitializeTimerClock \o ReleaseRetention \o Configure \o <<Access("unmask", "cpu")>>

\* take(), after its claim
Script ==
    InitializeTimerClock \o Configure \o ReleaseRetention \o <<Access("unmask", "cpu")>>

-----------------------------------------------------------------------------
\* Reset leaves the domains off and the gates closed; what it leaves of the
\* divider, LOAD_DONE, the output latches and the retention controls is not
\* relied on.
Init ==
    /\ requested = {}
    /\ powered = {}
    /\ \E undivided \in BOOLEAN :
           /\ staged = [gates |-> {}, undivided |-> undivided]
           /\ applied = staged
    /\ loading = FALSE
    /\ loadDone \in BOOLEAN
    /\ mode = [p \in Peripherals |-> "reset"]
    /\ divisor = "unset"
    /\ route = [d \in Dios |-> "none"]
    /\ driven = {}
    /\ high \in SUBSET {RedLed, GreenLed}
    /\ asleep \in BOOLEAN
    /\ frozen \in BOOLEAN
    /\ primask = TRUE
    /\ taken = FALSE
    /\ step = 1
    /\ polls = 0
    /\ outcome = "idle"
    /\ built = {}

(* Hardware *)

\* The power controller catches up with the requests.
Power ==
    /\ powered # requested
    /\ powered' = requested
    /\ UNCHANGED <<requested, staged, applied, loading, loadDone, devices, pads, primask, fg>>

\* The staged clock settings come into force.
Load ==
    /\ loading
    /\ loading' = FALSE
    /\ applied' = staged
    /\ loadDone' = TRUE
    /\ UNCHANGED <<requested, powered, staged, devices, pads, primask, fg>>

-----------------------------------------------------------------------------
(* Foreground *)

\* The claim: TAKEN.swap(true), and None for everyone but the first.
Take ==
    /\ outcome \in {"idle", "board", "none"}
    /\ taken' = TRUE
    /\ outcome' = IF taken THEN "none" ELSE "running"
    /\ UNCHANGED <<step, polls, built, prcm, devices, pads, primask>>

\* The access in turn, and the step past it.
At(kind) == outcome = "running" /\ Script[step].do = kind
Subject == Script[step].of

Advance ==
    /\ polls' = 0
    /\ step' = step + 1
    /\ outcome' = IF step = Len(Script) THEN "board" ELSE outcome
    /\ UNCHANGED taken

\* power_periph, power_serial: read-modify-write of PDCTL0
Request ==
    /\ At("request")
    /\ requested' = requested \cup {Subject}
    /\ Advance
    /\ UNCHANGED <<powered, staged, applied, loading, loadDone, devices, pads, primask, built>>

\* Mutation: the gates opened before are not preserved.
GateAlone ==
    /\ At("gate")
    /\ staged' = [staged EXCEPT !.gates = {Subject}]
    /\ loadDone' = FALSE
    /\ Advance
    /\ UNCHANGED <<requested, powered, applied, loading, devices, pads, primask, built>>

\* enable_gpio_clock, enable_timer_clocks, enable_uart_clocks: read-modify-write
\* of a gate register. Writing any staged setting clears LOAD_DONE.
Gate ==
    /\ At("gate")
    /\ staged' = [staged EXCEPT !.gates = @ \cup {Subject}]
    /\ loadDone' = FALSE
    /\ Advance
    /\ UNCHANGED <<requested, powered, applied, loading, devices, pads, primask, built>>

\* initialize_timer_clock: GPTCLKDIV
Undivide ==
    /\ At("undivide")
    /\ staged' = [staged EXCEPT !.undivided = TRUE]
    /\ loadDone' = FALSE
    /\ Advance
    /\ UNCHANGED <<requested, powered, applied, loading, devices, pads, primask, built>>

StartLoad ==
    /\ At("load")
    /\ loading' = TRUE
    /\ Advance
    /\ UNCHANGED <<requested, powered, staged, applied, loadDone, devices, pads, primask, built>>

Ready == IF At("await_power") THEN Subject \in powered ELSE loadDone

\* Mutation: polling without a budget.
PollForever ==
    /\ At("await_power") \/ At("await_load")
    /\ IF Ready THEN Advance ELSE UNCHANGED <<taken, step, polls, outcome>>
    /\ UNCHANGED <<prcm, devices, pads, primask, built>>

\* wait_for: one poll; the last one that finds nothing panics.
Poll ==
    /\ At("await_power") \/ At("await_load")
    /\ IF Ready THEN Advance
       ELSE /\ polls' = polls + 1
            /\ outcome' = IF polls + 1 = Budget THEN "panic" ELSE outcome
            /\ UNCHANGED <<taken, step>>
    /\ UNCHANGED <<prcm, devices, pads, primask, built>>

\* DOUTCLR and DOE. DOUTCLR touches one pin, DOE is read, modified and written.
ClearOutput ==
    /\ At("clear")
    /\ high' = high \ {Subject}
    /\ Advance
    /\ UNCHANGED <<prcm, mode, divisor, route, driven, pads, primask, built>>

DriveOutput ==
    /\ At("drive")
    /\ driven' = driven \cup {Subject}
    /\ Advance
    /\ UNCHANGED <<prcm, mode, divisor, route, high, pads, primask, built>>

SignalOf(dio) ==
    CASE dio = UartRx -> "uart_rx"
      [] dio = UartTx -> "uart_tx"
      [] OTHER -> "gpio"

\* ioc::config(dio).write
RoutePin ==
    /\ At("route")
    /\ route' = [route EXCEPT ![Subject] = SignalOf(Subject)]
    /\ Advance
    /\ UNCHANGED <<prcm, mode, divisor, driven, high, pads, primask, built>>

\* CTL = 0
Halt ==
    /\ At("halt")
    /\ mode' = [mode EXCEPT ![Subject] = "halted"]
    /\ Advance
    /\ UNCHANGED <<prcm, divisor, route, driven, high, pads, primask, built>>

\* LCRH, DMACTL and IMSC zeroed, IBRD and FBRD, which the next LCRH write
\* commits: all to a UART that is disabled, so nothing tells their order.
Divide ==
    /\ At("divide")
    /\ divisor' = "written"
    /\ Advance
    /\ UNCHANGED <<prcm, mode, route, driven, high, pads, primask, built>>

\* CFG, IMR, ICLR, TAMR, TAILR and TAV of a counter, LCRH of a UART; a running
\* peripheral takes no format.
Format ==
    /\ At("format")
    /\ mode' = [mode EXCEPT ![Subject] = IF @ = "halted" THEN "formatted" ELSE @]
    /\ divisor' = IF Subject = "uart0" /\ divisor = "written" THEN "committed" ELSE divisor
    /\ Advance
    /\ UNCHANGED <<prcm, route, driven, high, pads, primask, built>>

\* The last CTL write
StartPeripheral ==
    /\ At("start")
    /\ mode' = [mode EXCEPT ![Subject] = IF @ = "formatted" THEN "running" ELSE "garbled"]
    /\ Advance
    /\ UNCHANGED <<prcm, divisor, route, driven, high, pads, primask, built>>

\* release_retention: SLEEPCTL, then IOCLATCH
Wake ==
    /\ At("wake")
    /\ asleep' = FALSE
    /\ Advance
    /\ UNCHANGED <<prcm, devices, frozen, primask, built>>

Thaw ==
    /\ At("thaw")
    /\ frozen' = FALSE
    /\ Advance
    /\ UNCHANGED <<prcm, devices, asleep, primask, built>>

\* interrupts::enable
Unmask ==
    /\ At("unmask")
    /\ primask' = FALSE
    /\ Advance
    /\ UNCHANGED <<prcm, devices, pads, built>>

\* A constructor returns its handle.
ReturnHandle ==
    /\ At("return")
    /\ built' = built \cup {Subject}
    /\ Advance
    /\ UNCHANGED <<prcm, devices, pads, primask>>

-----------------------------------------------------------------------------
Proceed ==
    \/ Request \/ Gate \/ Undivide \/ StartLoad \/ Poll
    \/ ClearOutput \/ DriveOutput \/ RoutePin
    \/ Halt \/ Divide \/ Format \/ StartPeripheral
    \/ Wake \/ Thaw \/ Unmask \/ ReturnHandle

Next == Power \/ Load \/ Take \/ Proceed

Spec == Init /\ [][Next]_vars

\* The CPU runs. Of the hardware nothing is assumed.
FairSpec == Spec /\ WF_vars(Proceed)

-----------------------------------------------------------------------------
(* Properties *)

Clocks == [gates : SUBSET Peripherals, undivided : BOOLEAN]

\* Every variable keeps its type.
TypeOK ==
    /\ requested \subseteq Domains
    /\ powered \subseteq Domains
    /\ staged \in Clocks
    /\ applied \in Clocks
    /\ loading \in BOOLEAN
    /\ loadDone \in BOOLEAN
    /\ mode \in [Peripherals -> {"reset", "halted", "formatted", "running"}]
    /\ divisor \in {"unset", "written", "committed"}
    /\ route \in [Dios -> {"none", "gpio", "uart_rx", "uart_tx"}]
    /\ driven \subseteq Dios
    /\ high \subseteq Dios
    /\ asleep \in BOOLEAN
    /\ frozen \in BOOLEAN
    /\ primask \in BOOLEAN
    /\ taken \in BOOLEAN
    /\ step \in 1 .. Len(Script) + 1
    /\ polls \in 0 .. Budget
    /\ outcome \in {"idle", "running", "board", "none", "panic"}
    /\ built \subseteq Handles

Reachable(p) == DomainOf(p) \in powered /\ p \in applied.gates

\* The peripheral whose registers the access in turn touches.
Touched ==
    CASE Script[step].do \in {"clear", "drive"} -> {"gpio"}
      [] Script[step].do \in {"halt", "divide", "format", "start"} -> {Subject}
      [] OTHER -> {}

\* No register is touched while its domain is off or its clock is not in
\* force, whichever handshakes are slow: such an access would bus-fault.
AccessesReachable == outcome = "running" => \A p \in Touched : Reachable(p)

LedReady(dio) ==
    Reachable("gpio") /\ route[dio] = "gpio" /\ dio \in driven

UartReady ==
    /\ Reachable("uart0") /\ mode["uart0"] = "running" /\ divisor = "committed"
    /\ route[UartRx] = "uart_rx" /\ route[UartTx] = "uart_tx"

HandleReady(h) ==
    CASE h \in {RedLed, GreenLed} -> LedReady(h)
      [] h = CounterGpt -> Reachable(h) /\ mode[h] = "running" /\ applied.undivided
      [] h = TimerGpt -> Reachable(h) /\ mode[h] = "halted" /\ applied.undivided
      [] h = "uart0" -> UartReady

\* A handle once returned stays good, through the constructors after it, which
\* share its domain, its gate register, the divider and the output enables,
\* and through every further take(). No pin is driven at a level left behind.
HandlesStayReady ==
    /\ \A h \in built : HandleReady(h)
    /\ driven \cap high = {}

\* Pads are let go and interrupts unmasked only over a finished board: a
\* panic or a slow handshake on the way exposes nothing.
ExposedLast ==
    [][asleep' # asleep \/ frozen' # frozen \/ primask' # primask => built = Handles]_vars

\* Even if no handshake is ever answered, take() comes to an end.
TakeEnds == outcome = "running" ~> outcome # "running"
=============================================================================
