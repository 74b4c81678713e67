# A verification of direct_line

direct_line is bare-metal Rust firmware for one board with a CC1354P10 (one
Cortex-M33 core), and the host tools that flash and test it. These modules model
the firmware's drivers against the hardware they drive, register write by register
write, check the models with TLC on small instances and prove their main properties
with TLAPS for every value of the constants.

## 1. The system

### 1.1 Components

| component | code | state | operations |
|---|---|---|---|
| timer driver | `firmware/timer.rs` | GPT registers, NVIC bits of the four Timer A IRQs, `TIMER_INTERRUPTS` | `Timer::initialize`, `start_periodic_us`, `start_once_us`, `stop`, `interrupts`; handlers `timer0_a`..`timer3_a` |
| counter | `firmware/timer.rs` | one GPT counting modulo 2^32 | `Counter::initialize`, `now`, `elapsed_since` |
| UART driver | `firmware/uart.rs` | PL011 FIFOs, flags, error register | `initialize`, `try_write`, `try_read`, `write_timeout` |
| interrupt control | `firmware/interrupts.rs` | PRIMASK, NVIC priorities | `disable`, `save_and_disable`, `restore`, `enable`, `set_priority` |
| clocks | `firmware/clock.rs`, `ddi.rs`, `ti_rom.c` | oscillator control and status | `request_hf_crystal`, `hf_crystal_ready`, `try_switch_to_hf_crystal`, `finish_lf_startup` |
| power and clock gates | `firmware/prcm.rs` | power domains, staged and applied clock settings | `power_periph`, `power_serial`, `enable_*_clock(s)`, `initialize_timer_clock` |
| GPIO, pins | `firmware/gpio.rs`, `ioc.rs` | output latch and enables, IOCFG, retention | `configure_output`, `set`, `toggle`, `release_retention` |
| board | `firmware/device.rs` | `TAKEN` and the handles | `Board::take` |
| boot | `firmware/startup.rs`, `setup.rs`, `rtc.rs`, `poll.rs` | `BOOT_DIAGNOSTIC`, LF clock, RTC | `Reset`, `rust_start`, `setup::initialize`, `capture_fault`, `panic` |
| application | `firmware/main.rs` | the two markers, `BLINK_COUNT`, `TIMER_TEST_STATUS` | `main` |
| HIL runner | `tools/debug/hil.py` | transcript, verdict | `execute`, `suite_result` |
| process streaming | `tools/debug/output.py` | child process, pipes, transcripts | `stream_process` |
| probe lock | `tools/debug/probe_lock.py` | one file lock per probe | `probe_lock` |

The rest is listed with its reason in `PROJECT.json`: tests, linker script and
device configuration, the `foundation` smoke test, build-time scripts, and the third
party's register descriptions.

### 1.2 How the parts interact

There is one thread, called the foreground here, and there are interrupt handlers.
They share the GPT and NVIC registers of a timer and the `AtomicU32` its handler
increments. Everything else belongs to the foreground through a handle that
`Board::take()` gives out once. Every driver also shares state with its hardware,
which moves at its own pace, in steps that fall between any two of the code's:

    Reset -> rust_start -> setup::initialize -> main
                |              |                  |
         BOOT_DIAGNOSTIC   LF clock, RTC     Board::take() -> handles
                                                  |
                     timer (IRQ handler) <- main's checks and loop -> UART, LEDs

A debugger reads `BOOT_DIAGNOSTIC` and `TIMER_TEST_STATUS` from the halted chip. On the
host `hil.py` takes the lock of a probe, has `stream_process` run probe-rs on it, which
flashes a test image and reports one suite as JSON lines on stdout, and judges these
lines together with how the process ended:

    hil.py main -> probe_lock -> execute -> stream_process -> probe-rs -> board
                                    |             |  stdout, stderr, exit status
                               suite_result <- stdout.txt

### 1.3 What is hard here, and what correct means

* **Timer.** A timeout is latched in the GPT, travels along an interrupt line, is
  pended in the NVIC, is entered. `stop()` must catch it wherever it is, while the
  handler may run between any two of its writes. Correct: the foreground reconfigures
  alone, nothing is left behind by a stop, no timeout is counted twice or dropped.
* **UART.** Flags are read in one access and acted on in the next; the deadline is
  taken from a counter that wraps. Correct: no byte is lost or duplicated unnoticed,
  `Ok`, `Timeout` and errors mean what they say, the deadline holds.
* **Board.** Seven constructors share power domains, gate registers and a divider, over
  handshakes that may be slow or dead. Correct: no access before its clock is in
  force, no constructor undoes another's work, nothing is exposed half way.
* **Boot.** Posted writes, a two-way handshake, a detector that resets the chip, faults
  at any instruction and a record written word by word. Correct: `main` runs on a
  settled clock and RTC, and a parked CPU has left a record of what parked it.
* **Application.** A self-test whose waits are bounded twice, in ticks and in polls.
  Correct: it condemns exactly the boards that are broken, and for the right reason.
* **Clocks.** A switch that must be neither early nor unmasked, retried by its owner in
  any context. Correct: the ROM is entered once and only when the crystal is ready, the
  regulator never leads the source, masks come back as they were.
* **Host tools.** A transcript may be cut short, doubled or contradict the exit status; a
  child may outlive its pipes, or its parent's patience; interrupts come anywhere; several
  runners want one probe. Correct: a pass is earned, no output is lost, no two children
  meet on a probe, every run ends by its deadline.

`PROJECT.json` lists each hazard at its line with the properties that watch it.

## 2. The modules

| module | is | extends or instantiates |
|---|---|---|
| `TimerParams` | tick conversion, requests and the wrapping count | |
| `TimerContract` | what a client of a timer is promised | `TimerParams` |
| `Timer` | the driver, its handlers, GPT and NVIC | `TimerParams`; `TimerContract` as what it implements |
| `TimerInduction` | the inductive invariant | `Timer` |
| `TimerProofs` | the theorems, the refinement among them | `TimerInduction` |
| `UartTransmit`, `UartTransmitProofs` | sending with a deadline | |
| `UartReceive`, `UartReceiveProofs` | receiving with errors and overruns | |
| `BaudDivisors`, `BaudProofs` | the fixed-point divisor | |
| `Board` | `Board::take()` and every constructor | |
| `Clock` | the `Clocks` handle of a finished board | `Board` |
| `BoardProofs` | the theorems about both | `Clock` |
| `Boot`, `BootProofs` | reset to `main`, panics and faults | |
| `Bringup`, `BringupProofs` | `main`, with time | `TimerContract` in place of `Timer` |
| `SuiteResult` | what a transcript says: `suite_result`, `execute`, `main` as operators | |
| `Verdict` | any transcript, any end of the process | `SuiteResult` |
| `Runner` | lock, process, pipes, deadline and interrupts | `SuiteResult` |
| `RunnerProofs` | the theorems about both | `Runner`, `Verdict` |
| `MC...` | instances for TLC | the module of that name |

`Bringup` composes the application with the timer through the contract. `Timer`
implements the contract by theorem, so that what `Bringup` shows of the contract it
shows of the driver. `Board` ends where `Timer` begins: with each timer's constructor
returned and then interrupts enabled. `Clock` goes on from the same point with another
handle, and with further calls of `take()` in between. `Runner` composes the process with the
verdict through the operators that `Verdict` is about.

Definitions commented "Mutation:" are not part of any specification. Each is a form
of the definition after it that a plausible slip in the code would give; substituted
for it, it breaks a property. `PROJECT.json` names the pairs.

### 2.1 Timer

One action is one register access, or one instruction that synchronises. `pc` names
the next one, `call` the call it belongs to.

| code | actions |
|---|---|
| `stop()` | `StopDisable` (ICER), `StopBarrier` (DSB, ISB), `StopCounting`, `StopMask`, `StopClear`, `StopSync` (`clear_timeout`), `StopDiscard` (ICPR), `StopReturn` |
| `arm()` | `Check`, `stop()`'s steps, `ArmConfigure`, `ArmEnable`, `ArmCount`, `ArmReturn` |
| `interrupt()` of `timer0_a`.. | `Preempt`, `IsrClear`, `IsrSync`, `IsrCount`, `IsrReturn` |
| `Timer::initialize` | `Initialize`, `stop()`'s steps, `SetPriority` |
| `save_and_disable`, `restore` | `SaveAndDisable`, `Restore`, around the clock switch |
| `interrupts::enable` | `EnableInterrupts` |
| GPT, NVIC | `Timeout`, `Propagate`, `Land` |

`ArmConfigure` merges the writes of CFG, TAMR, TAILR and IMR: at that point the GPT
does not count, has nothing latched and its IRQ is disabled, so no observer
tells their order; it is `IInv` that says so. `latched` is the only history variable.

Assumed of the hardware: the interrupt line follows the masked status with a delay;
a rising line pends, a level still up at exception return pends again, ICPR does not
clear a pending bit whose line is up; an ICER write is posted and DSB waits for it;
reading MIS after ICLR and the two cycles that follow let the line settle; a one-shot
clears TAEN when it elapses; among equal priorities the lower IRQ number wins.
The handlers' own exclusion comes from the common priority: `Preempt` takes none while another
runs. That it is common is part of `IInv` (`BoardOK`). `SetPriority` follows `set_priority` to
the word: `ipr` holds the IPR words, four IRQs to each, and the action reads one, replaces a byte
and writes it back; a write that dropped the other bytes would undo a neighbour's priority.

`TimerContract` has four actions for a call - it is invoked, rejected without effect or
silences its timer, engages the new interval, completes - and one for an
acknowledgement. The mapping (`ModeOfTimer`, `IntervalOfTimer`, `Stage`) takes a timer
as silenced from the barrier of `stop()` and as engaged from the write of TAEN. A
one-shot stays engaged until its handler has counted it.

### 2.2 UART

`UartTransmit`: `Write` is the call up to its loop, `Poll` the reading of the counter,
`ReadFlags` and `WriteData` the two accesses of `try_write`. Time passes between any
two steps, as handlers may run there; `gap` counts the ticks since the last reading.

`UartReceive`: `ReadFlags`, `ReadData` (DR pops the character with its flags),
`ReturnByte` or `ReturnError` (ECR). Characters arrive in between. PL011's overrun
flag is taken as live: the hardware sets it when a character finds no room and may
drop it when a later one finds room again, which only a read makes. `data` keeps what DR gave, so an error is
returned with the flags of its own read, though ECR clears those of a later overrun as well. A
loss between the two accesses, behind an error without an overrun, is therefore never
announced: the code does this, no document promises otherwise, and `Erased` names it.
`LossAnnounced` says of all other losses that an error with its overrun field set comes before
the first byte from behind them.

`BaudDivisors` is `baud_divisors` as an operator and one action that asks for a baud.

### 2.3 Board and Boot

Constructors and boot are straight-line code. Each function is the sequence of its
accesses, built from the sequences of the functions it calls, as in the source; one
action per kind of access carries out the next one. So the order of the code is data
(`Script`), and the interleaving with the hardware is in the actions. `Poll` is one
turn of `poll::wait_for`.

`Board` assumes of the PRCM that staged settings come into force on LOAD and that
LOAD_DONE is cleared when a setting is staged; of a peripheral that is started before
its format is written, that it is garbled. `Format` merges a counter's writes of CFG, IMR, ICLR, TAMR,
TAILR and TAV, `Divide` a UART's of LCRH = 0, DMACTL, IMSC, IBRD and FBRD: the peripheral is disabled
there and no property tells their order. What a reset leaves in the divider,
LOAD_DONE, the output latches and the retention controls is left open in `Init`.

`Boot` assumes that AON writes take effect in order, some time later, and that a read of
SYNC waits for all of them; that RTC ACK follows REQ either way; that an enabled RTC
channel may raise its event at any tick. `SetupTrimDevice` is external: it asks for the
crystal and starts the RTC. `Reset` and `FaultEntry` are followed instruction by
instruction where they change state, as their order is what they are about: `SetStack`,
`SetLimit`, `SetVectors`, `SetCore`; and masking, MSPLIM and MSP before `capture_fault`. A
fault may strike at any instruction, of `Reset`, `main`, `panic()` and of a capture too. It
goes to the ROM's handlers while VTOR is not set, and escalates as ARMv8-M says: to
HardFault when it cannot be taken, to lockup inside HardFault. An MSP set below its limit
faults by itself; `faults` counts the others. NMI, and a clock loss before the detector
is armed, are not modelled.

`Clock` takes one reading of STAT0, one write and one instruction of PRIMASK as an action:
`TrySwitch`, `SaveAndDisable`, `HfSourceSafeSwitch`, `ReturnDcdc`, `RestoreMask`. Assumed of
the hardware: the crystal, once asked for, becomes ready at any time or never; the ROM's
switch returns when it is done. A crystal once ready stays so: `request_hf_crystal` can only
set its bit, and no other code writes it. Between calls the owner masks and unmasks
interrupts as it likes; `wanted` remembers how, and `ready` that it was told the crystal is
ready.

### 2.4 Bringup

`main` statement by statement (`Order`), the loop as `Look`, `ToggleRed`,
`ToggleGreen`, `CountBlink`, `Read` and the lines it writes. Calls go through the
contract's actions; `Tick` counts down the engaged interval and the waits. `EndWrite` is the return of
`write_timeout`, followed by one of `FailMemory`, `FailTimer` and `Unwrap`. `PollTicks` is the fewest ticks
a poll of a bounded wait takes: CPU and timers run off one clock, and a poll reads a GPT over the bus, so
it is two at the least. `stopped` is forgotten after its last use. In each
behaviour at most one part is broken: the board, the crystal, the initialised memory,
a timer that is dead, that lingers after `stop()` or whose one-shot repeats, or a line
that sticks at some time.

### 2.5 Host tools

`SuiteResult` takes a line of the transcript for what `test_event` makes of it: plain text, a
test event, a suite's start or completion with its counts, or a malformed event.
`Consume` is one turn of `suite_result`'s loop, `NoError` and `Status` are the decisions of
`execute` and `main`. `Complete`, `Underway`, `Passing` and `Failing` say independently,
of a whole transcript, what it should be taken for; `Verdict` compares them, with `Report` for
the report and the exit status once every line is scanned.

| code | actions of `Runner` |
|---|---|
| `probe_lock`, `main`'s `with` | `Lock`, `Unlock` |
| `Popen` | `Fork`, `Return` |
| `stream_process`, loop | `CloseWriter`, `Check`, `Select`, `ReadChunk`, `ReadEnd`, `EndBatch` |
| its end | `Wait`; `Kill`, `Reap` (the `finally` block) |
| `execute`, verdict | `ScanLine` (a turn of `suite_result`'s loop), `Judge` |
| Ctrl-C, errors, time | `Raised` in the `try` block, `Escaped` outside it, `Deadline` |
| probe-rs | `Write`, `CloseEnd`, `Exit`, `Die` |

A line is followed in thirds: the beginning of its text, the rest, its newline; the child may
stop after any of them, and a chunk may end there. Assumed of the system: a pipe is
at its end when all is read and every copy of its write end is closed, which a child's death
does for its own; SIGKILL takes effect; a dead child stays until it has been waited for;
a lock lasts until its holder releases it.

## 3. The runs

| run | instance | distinct states | question |
|---|---|---|---|
| `timer_safety` | two timers, requests of 0 and 2 us | 365,975 | does any interleaving of driver, handlers and hardware break a stop, lose or double a timeout, or leave the contract? |
| `timer_live` | one timer, requests of 0 to 3 us | 11,320 | do calls return, and is an engaged timer served, whatever else happens? |
| `uart_transmit` | FIFO of 2, slices of up to 3, counter modulo 8, gaps of up to 5 | 19,633 | does `write_timeout` mean what it returns and keep its deadline? |
| `uart_transmit_wrap` | the same, gaps of up to 7 | violated | are polls less than a wrap apart enough? |
| `uart_receive` | FIFO of 2, stream of 8 | 102,994 | is each character handed out once with its own errors, and each loss announced that ECR does not erase? |
| `baud` | 48 MHz, 2,910 bauds | 2,911 | is the divisor the nearest? |
| `board` | 3 polls a handshake | 1,107 | can a slow or dead handshake break the order of `take()`? Is the clock switch sound however its owner tries it? |
| `boot` | 2 polls a handshake, one clock loss | 137,392 | is everything settled when `main` is entered, and is each end recorded? |
| `bringup` | seven faults, intervals of 1 and 4 ticks, a deadline of 8 ticks beside a budget of 8 polls | 838,806 | does `main` reach the verdict its board deserves? |
| `verdict` | transcripts of up to 4 lines, 12 kinds of line, exit statuses 0, 1 and another | 294,073 | is a pass earned, whatever the transcript? |
| `runner` | two runners, three transcripts, exit statuses 0 and 1 | 237,849 | does any order of writing, ending, timing out and interrupting while streaming lose output, leave a child or spoil the verdict? Does every run end? |
| `runner_interrupt` | the same, Ctrl-C also outside the `try` block | violated | is the child always killed on interruption? |

What the properties say is stated above each of them in the modules.

**Bounds.** *Timers:* two are needed for tie-breaking, for a shared priority word and
for one timer's calls to meet the other's handler; timers 1 and 2 have IRQs 17 and 19, which
share IPR word 4. No action reads a third timer, and the theorems hold for any of the four.
3 ticks a microsecond and at most 8 make 0 us and 3 us the two refused requests; three values of the count tell none, one and two
outstanding acknowledgements apart. `timer_safety` omits 1 and 3 us, which `timer_live`
has. *Transmit:* longest limit (3; 5 is refused) plus longest gap (5) are exactly
one wrap, the edge of what is proved; with `Horizon` no call is cut off before its
deadline. *Receive:* a stream of 8 fills the FIFO of 2, overruns, drains and
overruns again. *Board and Boot:* a budget only bounds how late a handshake may be;
2 and 3 polls tell "at once", "late" and "never" apart. The clock loss brings each boot
onto the leftovers of another. Faults need no bound: the third at the latest
locks the CPU up. *Verdict:* four
lines hold a suite with one test and something before, in or after it; counts of 0, 1, 2
and -1 make every comparison come out either way. *Runner:* one runner to hold the
probe and one to meet it; each may be cut short at any third of a line, so that the first
transcript has a suite underway, a passing suite and a damaged one among its beginnings. A
chunk may be anything from one third to all there is. *Bringup:* scaled, but the relations between its
constants are those of the code, stated as `NumbersAssumption`, `BudgetAssumption`,
`IntervalAssumption` and `CountAssumption`: budget and deadline of the interrupts' wait are one number, as
in the code (48,000,000 each), and a poll takes two ticks, so that a dead timer meets the deadline first; with one
tick a poll it would meet the budget. Two fast intervals fit within
the quiet time and all interrupts the check needs within its timeout; no count comes round
while it is watched. The theorems need no more of the numbers than this. The count wraps while
`main` blinks.

**Fairness.** *Timer:* a counting timer elapses, lines and posted writes arrive and
handlers, which contain no loop, run to their end: weak. `Preempt` and the foreground
are strongly fair, as each is enabled and disabled for ever. A pending interrupt is
entered as soon as PRIMASK is clear, which it is again after every masked section; the
foreground gets instructions between handlers because the shortest interval is 48
cycles, above a handler's length. With several timers of near that interval even this
would not keep the lower IRQ numbers from starving the higher, and nothing in the code
forbids it; so liveness is claimed of one timer. *Transmit:* the counter runs and the
foreground gets to run; `Drain` is not fair. *Board:* only the CPU; no handshake need be
answered, and no crystal start. *Boot:* the CPU, and the landing of posted writes, without which SYNC
stalls the CPU itself; oscillators and RTC need not answer. *Runner:* the runners run, and a
killed child dies; nothing makes one end, write or close by itself. That time passes is no
fairness: `RunsEnd` speaks of runs whose child has ended or whose deadline is over. *Bringup:* time, the handler
and the foreground.

`CHECK_DEADLOCK FALSE` stands where the system really ends: a CPU parked or locked up, a
runner that has exited, a report that has been made.

## 4. Two places where documentation and code differ

* **Polling within one wrap is not enough** (`uart_transmit_wrap`). `uart.rs:156-159`
  and `STARTUP.md:286-289` ask for polls less than one wrap of the counter apart.
  `uart.rs:172` compares a difference modulo 2^32: with a poll at `limit - 1` and the next
  one nearly a wrap later the difference is small again and the deadline is missed.
  What is needed is that limit and gap *together* fit one wrap: as limits are below
  2^31, a gap of up to 2^31 + 1 ticks, some 44 seconds.
* **Not every interruption kills the child** (`runner_interrupt`). `output.py:28` promises
  to "kill and reap the process on timeout or interruption", `probe_lock.py:1` to serialize
  access to a probe. But `Popen` is constructed at line 45 and the `try` begins at 48:
  `Popen` returns when the child has executed its program, and a Ctrl-C that arrives
  before that leaves the constructor with the child running and nobody to kill it. A second
  Ctrl-C inside the `finally` block, before `kill()`, does the same. `execute` reports
  "Hardware test interrupted", `main` releases the lock, and probe-rs keeps using
  the probe while the next runner may start. (A Ctrl-C typed at a terminal also reaches
  probe-rs itself, which usually ends it; one sent to the runner alone does not.)

That `uart.rs:79` speaks of the nearest *baud* while the code, and what is proved, is the nearest
*divisor* makes a difference of about 10^-5 baud where it makes one.

## 5. The proofs

All theorems hold for every value of the constants that the modules' `ASSUME`s allow.
TLC evaluates these on each instance.

**Timer** (`TimerProofs`). None of the safety properties is inductive. `IInv` follows
the one call in progress: after the barrier its timer's IRQ is off and its handler
is not running (`QuietOK`), from there each write removes one more place a timeout
can hide in - TAEN, IMR, latch, line, pending bit - and what a step has removed cannot
come back because the place before it is already empty. `SignalOK` is the chain
the other way: a pending bit implies a line or an acknowledgement on its way, a line a
latch. `CleanOK` carries a stop's result over to other calls, `BoardOK` keeps
interrupts off until every constructor has set its priority, each in its byte of a shared word
(`Lanes`, `OnePriorityChanges`), and
`TimeoutsAccounted` joins in because a handler's clear is counted only when
`HandlerOK` says that it had something to clear. `OneShotOK` is for the refinement.
One lemma per group of actions, one step per action. From `IInv` follow `TypeOK`,
`TimeoutsAccounted`, `ReconfiguresAlone`, `StoppedIsClean` and, as an action property, `StopIsFinal`.

**Refinement** (`TimerProofs`). Initial states map to initial states; every
action maps to the contract's action named beside it in the proof, or stutters. The
additional invariant `ArmedOK` says that the registers hold the call's request when TAEN is written.
Where the mapping reads several registers, `IInv` rules the odd combinations out.

**Transmit** (`UartTransmitProofs`). `TypeOK` and `BytesEnter` hold without
any assumption on time. `OutcomeTrue` and `DeadlineHonoured` are proved from
`GapFits`: longest limit and longest gap fit one wrap. The invariant's core is
`ClockOK`, that the wrapped difference is the time that really passed, and `GapOK`,
that the last poll was before the limit.

**Baud** (`BaudProofs`). For every clock and baud: the pair of registers is nearest to
the exact divisor, and what is refused is zero, too fast or out of the registers' range.
The argument is integer division's remainder bound, multiplied out.

**Receive** (`UartReceiveProofs`). For any FIFO and stream. The invariant sorts the
characters that have arrived into returned, in the call's hands, queued, reported and lost
(`Accounted`), keeps the first three in order (`Ordered`), and says where the news of a
gap is until it is returned (`GapOK`): in the entry just read or in the flag, with
the FIFO still full of what came before the gap, and, if an entry is in the call's hands, only
losses since that was read (`seen`). `FlagsOK` follows an entry's own flags from the line to the client.

**Board and Clock** (`BoardProofs`). For any budget of polls and any handshake. As the order of
the code is data, the invariant is about positions in it: what is powered, staged, applied and
written when so many accesses of `take()` are done, and that the hardware may be late but only
with what was asked of it. From it follow that no access comes too early
(`AccessesReachable`), that no later constructor takes back what an earlier one returned
(`HandlesStayReady`), and, as an action property, that pads and interrupts come last
(`ExposedLast`). For `SwitchSound`, `CallSound` carries readiness through the
masked section; that the owner begins with interrupts unmasked follows from the last
access of `take()`'s sequence (`UnmaskedLast`).

**Boot** (`BootProofs`). For any budget, any number of clock losses and faults wherever they
strike. Again by position: what startup has set, which posted writes may still be on their way
(two at most, and none behind a read of SYNC), what the oscillators and the RTC may have
answered. `MainReady` is what this comes to at the last position. `RecordTells` follows the
capture of a fault or panic beside it, word by word, with the faults that cut a capture short.

**Bringup** (`BringupProofs`). For any intervals, deadlines, budgets, gaps between statements and
counter width in the proportions the assumptions state. The invariant goes along `main`'s
statements. `TimerOK` says what the timer is doing there, sound or broken. `WaitOK` bounds ticks
by the statement, so that a wait is left in time; `PaceOK` bounds polls by ticks, `PollTicks` for each but
the first, so that a budget never runs out before its deadline. `FastOK`, `StoppedOK` and `OneShotOK` count acknowledgements from both
sides: from above, so that the count cannot come round to an innocent value, and from below -
`elapsed` ticks hold so many intervals - so that a sound timer makes its twenty interrupts in
time, one that lingers is seen to move and a one-shot that repeats is counted twice
(`CountTells`). `LoopOK` adds up a turn of the loop (`Spent`), which with the division by the
slow interval is the bound of `BlinksFollow`. From `FaultOK`, which says how far `main` gets over
each fault, follow `PanicsExplained` and `VerdictTrue`. The theorems use the contract's actions as
`Bringup` takes them; that the driver keeps the contract is the refinement above.

**Verdict** (`RunnerProofs`). For transcripts of any length. `Describes` says of the loop's
variables and a transcript that they fit: the suite's total and completion, the first error, what is
underway; what one more line does to it is one lemma, and what a fitting state means for the status
another (`PassingScan`, `FailingScan`).

**Runner** (`RunnerProofs`). For any number of runners and any transcripts. `Sound` speaks of
one runner and its child: a child runs only from the fork to its reaping, stdout leaves
the selector only when it is drained, and an end without a cause has drained and reaped.
It is shown step by step; `Frame` says that the others are not disturbed. `Judging` joins the
two: while a runner scans, `Describes` holds of the part of its text that it has scanned, and
that text is all the child wrote if the run ended by itself. So `PassEarned` needs no induction over
the transcript: the scan's own turns are the induction. The theorems are
about `Spec`, in which Ctrl-C comes while streaming; for `InterruptedSpec` exclusion is false,
as the run shows.

**Only model-checked:** liveness - `CallsReturn`, `EngagedTimerServed`, `WriteReturns`, `TakeEnds`,
`BootEnds`, `Concludes`, `RunsEnd` - as TLAPS does not do fairness here. Every invariant and
every action property that a passing run checks is a theorem.

## 6. Not modelled

* `OutputPin::set`: one write, unused by the application. The register encodings of `ioc.rs`,
  the IRQ numbers, the layouts of the vector table and of the record: no state of their own.
* Of the host tools: the command line and its checks, reading the image and writing the
  report, what is displayed and how, the text of stderr. `splitlines` also splits at a few
  rare characters other than newlines; lines are taken to contain none. Pipes are never
  full and displaying never blocks: a full pipe only stops the child where it may stop
  anyway, a display that blocks holds up the deadline. Grandchildren that inherit a pipe
  are left out: they would keep it open, until the deadline.
* The ROM's own fault handlers, which are called before VTOR is set.
* Execution times other than as ticks that may pass; the bus fault that an access to
  an unclocked register causes is not followed, its absence is the property.
* Library root, firmware tests, linker script and device configuration, `foundation`,
  build-time scripts, third-party data: nothing in them moves.

## 7. Plan

Done, in this order: timer, contract and refinement; UART; board; baud; boot; application;
verdict; runner; clocks; startup; proofs of receive, runner and clocks; proofs of board, boot,
verdict and application.

1. A contract of `stream_process` - it returns, times out or is interrupted, with no child
   left - for `Runner` to implement.
2. `Bringup` over `Clock` in place of its switch of one step.
