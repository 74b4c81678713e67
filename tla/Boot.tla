-------------------------------- MODULE Boot --------------------------------
(***************************************************************************)
(* firmware/startup.rs from Reset to main, with setup.rs, the LF part of   *)
(* clock.rs and rtc.rs, and its two ends other than main: FaultEntry with  *)
(* capture_fault, and panic, which leave BOOT_DIAGNOSTIC for a debugger.   *)
(*                                                                         *)
(* As in Board the straight-line code is a sequence of accesses, carried   *)
(* out one at a time. Writes to the always-on (AON) domain are posted: they*)
(* take effect in order and later, and reading RTC SYNC waits for them.    *)
(***************************************************************************)
EXTENDS Integers, Sequences

CONSTANTS
    Budget,    \* polls of a handshake before wait_for panics: 48_000_000
    MaxLosses  \* clock losses that reset the chip, in one behaviour

ASSUME BudgetAssumption == Budget \in Nat \ {0}
ASSUME LossesAssumption == MaxLosses \in Nat

VARIABLES
    \* the CPU
    pc,         \* "boot", "main", "entry" (FaultEntry), "capture", "panic",
                \* "parked", "lockup", or "rom": in a handler of the ROM's
    step,       \* the next access of the boot
    polls,      \* polls of the current handshake that failed
    store,      \* the next step of FaultEntry, capture_fault or panic
    level,      \* "thread", or the fault handler running
    primask,    \* interrupts masked
    vectors,    \* VTOR: "rom" or "ours"
    stack,      \* MSP: "rom", "main" or "fault"
    limit,      \* MSPLIM: "none" or "main"
    settings,   \* what Reset has set up of the core
    faults,     \* history: faults since the reset, MSP's own limit apart
    \* SRAM, which survives a reset of the chip
    memory,     \* .data and .bss initialised
    magic, stage, words,   \* BOOT_DIAGNOSTIC
    \* oscillators
    fit,        \* silicon, supply and CCFG are those of this board
    lf,         \* source of the LF clock
    qualifiers, \* LF clock qualifiers not bypassed
    detector,   \* CTL0.CLK_LOSS_EN
    lossReset,  \* RESETCTL.CLK_LOSS_EN
    losses,     \* clock losses so far
    \* RTC
    posted,     \* AON writes that have not taken effect
    running,    \* CTL.EN
    resetting,  \* CTL.RESET
    epoch,      \* what the time consists of: "zero", "exact" or "mixed" ticks
    shadow,     \* SUBSECINC1 and 0
    increment,  \* the increment in force
    request,    \* UPD_REQ
    ack,        \* UPD_ACK
    channels,   \* a channel is enabled
    event,      \* its event flag
    pending     \* NVIC pending bit of AON_RTC_COMB

core == <<vectors, stack, limit, settings, faults>>
cpu == <<pc, step, polls, store, level, primask, core>>
record == <<magic, stage, words>>
clocks == <<fit, lf, qualifiers, detector, lossReset, losses>>
handshake == <<shadow, increment, request, ack>>
alarms == <<channels, event, pending>>
rtc == <<running, resetting, epoch, handshake, alarms>>
vars == <<cpu, memory, record, clocks, posted, rtc>>

-----------------------------------------------------------------------------
(* The accesses of each function, in the order of the code *)

Access(kind, of) == [do |-> kind, of |-> of]

\* Reset: PRIMASK, MSP, MSPLIM, VTOR, SAU, CPACR, CCR, SHCSR and the barriers
Reset ==
    <<Access("mask", "cpu"), Access("stack", "main"), Access("limit", "main"),
      Access("vectors", "flash"),
      Access("set", "secure"), Access("set", "fpu"), Access("set", "traps"),
      Access("set", "faults"), Access("set", "barrier")>>

\* Mutation: SYNC is not waited for.
NoSync == <<>>

\* rtc::sync
Sync == <<Access("sync", "aon")>>

\* The record is written afresh, its header apart from its payload.
FreshRecord ==
    <<Access("memory", "sram"), Access("clear", "header"), Access("clear", "words"),
      Access("magic", "sram"), Access("stage", "trim")>>

EnableClockLossReset == <<Access("detector", "ddi"), Access("post", "loss_reset")>> \o Sync

FinishLfStartup == <<Access("await", "lf"), Access("bypass", "ddi")>> \o EnableClockLossReset

\* initialize(), once the RTC has stopped: first the increment, then the epoch
InstallIncrement ==
    <<Access("shadow", "low"), Access("shadow", "high"),
      Access("request", "set"), Access("await", "ack"),
      Access("request", "clear"), Access("await", "idle")>>

BeginEpoch ==
    <<Access("post", "reset")>> \o Sync \o <<Access("await", "reset")>>
        \o <<Access("post", "channels"), Access("post", "events")>> \o Sync
        \o <<Access("unpend", "nvic"), Access("post", "run")>> \o Sync

\* Mutation: the epoch begins before the increment is installed.
RtcInitializeEarly == <<Access("post", "stop")>> \o Sync \o BeginEpoch \o InstallIncrement

RtcInitialize == <<Access("post", "stop")>> \o Sync \o InstallIncrement \o BeginEpoch

\* setup::initialize
SetupInitialize ==
    <<Access("validate", "board"), Access("trim", "sdk")>> \o FinishLfStartup \o RtcInitialize

\* Reset and rust_start
Script ==
    Reset \o FreshRecord \o SetupInitialize
        \o <<Access("stage", "application"), Access("main", "cpu")>>

-----------------------------------------------------------------------------
Words == 1 .. 5

\* What a reset leaves of the RTC is not relied on.
Init ==
    /\ pc = "boot" /\ step = 1 /\ polls = 0 /\ store = 0
    /\ level = "thread" /\ primask \in BOOLEAN
    /\ vectors = "rom" /\ stack = "rom" /\ limit = "none" /\ settings = {} /\ faults = 0
    /\ memory = "raw"
    /\ magic = FALSE /\ stage = "garbage" /\ words = [w \in Words |-> "garbage"]
    /\ fit \in BOOLEAN
    /\ lf = "derived" /\ qualifiers = TRUE /\ detector = FALSE /\ lossReset = FALSE
    /\ losses = 0
    /\ posted = <<>>
    /\ running \in BOOLEAN /\ resetting = FALSE /\ epoch = "mixed"
    /\ shadow = [low |-> FALSE, high |-> FALSE] /\ increment = "unknown"
    /\ request = FALSE /\ ack = FALSE
    /\ channels \in BOOLEAN /\ event \in BOOLEAN /\ pending = FALSE

(* Hardware *)

\* The oldest posted write takes effect.
Land ==
    /\ posted # <<>>
    /\ posted' = Tail(posted)
    /\ running' = CASE Head(posted) \in {"stop", "reset"} -> FALSE
                    [] Head(posted) = "run" -> TRUE
                    [] OTHER -> running
    /\ resetting' = (resetting \/ Head(posted) = "reset")
    /\ lossReset' = (lossReset \/ Head(posted) = "loss_reset")
    /\ channels' = (channels /\ Head(posted) # "channels")
    /\ event' = (event /\ Head(posted) # "events")
    /\ UNCHANGED <<cpu, memory, record, fit, lf, qualifiers, detector, losses,
                   epoch, handshake, pending>>

\* The crystal is selected once trim has asked for it.
SelectCrystal ==
    /\ lf = "switching"
    /\ lf' = "crystal"
    /\ UNCHANGED <<cpu, memory, record, fit, qualifiers, detector, lossReset, losses, posted, rtc>>

RtcTick ==
    /\ running
    /\ epoch' = IF lf = "crystal" /\ increment = "exact" /\ epoch # "mixed"
                THEN "exact" ELSE "mixed"
    /\ event' \in {event, event \/ channels}
    /\ UNCHANGED <<cpu, memory, record, clocks, posted, running, resetting,
                   handshake, channels, pending>>

RtcReset ==
    /\ resetting
    /\ resetting' = FALSE
    /\ epoch' = "zero"
    /\ UNCHANGED <<cpu, memory, record, clocks, posted, running, handshake, alarms>>

\* ACK follows REQ; with it the shadow comes into force.
Acknowledge ==
    /\ ack # request
    /\ ack' = request
    /\ increment' = IF ~request THEN increment
                    ELSE IF shadow.low /\ shadow.high THEN "exact" ELSE "partial"
    /\ UNCHANGED <<cpu, memory, record, clocks, posted, running, resetting, epoch,
                   shadow, request, alarms>>

\* The event line is a level: it pends again while it is up.
Pend ==
    /\ event /\ ~pending
    /\ pending' = TRUE
    /\ UNCHANGED <<cpu, memory, record, clocks, posted, running, resetting, epoch,
                   handshake, channels, event>>

\* A clock loss resets the chip, once both enables are in force.
LoseClock ==
    /\ detector /\ lossReset
    /\ losses < MaxLosses
    /\ losses' = losses + 1
    /\ pc' = "boot" /\ step' = 1 /\ polls' = 0 /\ store' = 0
    /\ level' = "thread" /\ primask' \in BOOLEAN
    /\ vectors' = "rom" /\ stack' = "rom" /\ limit' = "none" /\ settings' = {} /\ faults' = 0
    /\ memory' = "raw"
    /\ lf' = "derived" /\ qualifiers' = TRUE /\ detector' = FALSE /\ lossReset' = FALSE
    /\ posted' = <<>>
    /\ running' \in BOOLEAN /\ resetting' = FALSE /\ epoch' = "mixed"
    /\ shadow' = [low |-> FALSE, high |-> FALSE] /\ increment' = "unknown"
    /\ request' = FALSE /\ ack' = FALSE
    /\ channels' \in BOOLEAN /\ event' \in BOOLEAN /\ pending' = FALSE
    /\ UNCHANGED <<record, fit>>

-----------------------------------------------------------------------------
(* The boot *)

At(kind) == pc = "boot" /\ Script[step].do = kind
Subject == Script[step].of

Advance == step' = step + 1 /\ polls' = 0 /\ UNCHANGED <<pc, store, level, primask, core>>
EnterPanic == pc' = "panic" /\ store' = 0 /\ UNCHANGED <<step, polls, level, primask, core>>

\* Reset touches nothing but the core.
ResetStep ==
    /\ step' = step + 1
    /\ UNCHANGED <<pc, polls, store, level, faults, memory, record, clocks, posted, rtc>>

MaskAtReset ==
    At("mask") /\ ResetStep /\ primask' = TRUE /\ UNCHANGED <<vectors, stack, limit, settings>>

SetStack ==
    At("stack") /\ ResetStep /\ stack' = "main" /\ UNCHANGED <<primask, vectors, limit, settings>>

SetLimit ==
    At("limit") /\ ResetStep /\ limit' = "main" /\ UNCHANGED <<primask, vectors, stack, settings>>

SetVectors ==
    At("vectors") /\ ResetStep /\ vectors' = "ours" /\ UNCHANGED <<primask, stack, limit, settings>>

SetCore ==
    /\ At("set")
    /\ settings' = settings \cup {Subject}
    /\ ResetStep
    /\ UNCHANGED <<primask, vectors, stack, limit>>

InitializeMemory ==
    /\ At("memory")
    /\ memory' = "ready"
    /\ Advance
    /\ UNCHANGED <<record, clocks, posted, rtc>>

ClearRecord ==
    /\ At("clear")
    /\ IF Subject = "header"
       THEN magic' = FALSE /\ stage' = "reset" /\ UNCHANGED words
       ELSE words' = [w \in Words |-> "zero"] /\ UNCHANGED <<magic, stage>>
    /\ Advance
    /\ UNCHANGED <<memory, clocks, posted, rtc>>

WriteMagic ==
    /\ At("magic")
    /\ magic' = TRUE
    /\ Advance
    /\ UNCHANGED <<memory, stage, words, clocks, posted, rtc>>

WriteStage ==
    /\ At("stage")
    /\ stage' = Subject
    /\ Advance
    /\ UNCHANGED <<memory, magic, words, clocks, posted, rtc>>

\* setup::initialize's assertions and validate_configuration
Validate ==
    /\ At("validate")
    /\ IF fit THEN Advance ELSE EnterPanic
    /\ UNCHANGED <<memory, record, clocks, posted, rtc>>

\* SetupTrimDevice asks for the crystal and starts the RTC on the LF clock there is.
Trim ==
    /\ At("trim")
    /\ lf' = "switching"
    /\ posted' = posted \o <<"run">>
    /\ increment' = "temporary"
    /\ Advance
    /\ UNCHANGED <<memory, record, fit, qualifiers, detector, lossReset, losses, running, resetting,
                   epoch, shadow, request, ack, alarms>>

\* DDI bit writes
BypassQualifiers ==
    /\ At("bypass")
    /\ qualifiers' = FALSE
    /\ Advance
    /\ UNCHANGED <<memory, record, fit, lf, detector, lossReset, losses, posted, rtc>>

EnableDetector ==
    /\ At("detector")
    /\ detector' = TRUE
    /\ Advance
    /\ UNCHANGED <<memory, record, fit, lf, qualifiers, lossReset, losses, posted, rtc>>

Post ==
    /\ At("post")
    /\ posted' = Append(posted, Subject)
    /\ Advance
    /\ UNCHANGED <<memory, record, clocks, rtc>>

\* The read of SYNC stalls until every posted write has landed.
AwaitAon ==
    /\ At("sync")
    /\ posted = <<>>
    /\ Advance
    /\ UNCHANGED <<memory, record, clocks, posted, rtc>>

WriteShadow ==
    /\ At("shadow")
    /\ shadow' = [shadow EXCEPT ![Subject] = TRUE]
    /\ Advance
    /\ UNCHANGED <<memory, record, clocks, posted, running, resetting, epoch,
                   increment, request, ack, alarms>>

WriteRequest ==
    /\ At("request")
    /\ request' = (Subject = "set")
    /\ Advance
    /\ UNCHANGED <<memory, record, clocks, posted, running, resetting, epoch,
                   shadow, increment, ack, alarms>>

Ready ==
    CASE Subject = "lf" -> lf = "crystal"
      [] Subject = "ack" -> ack
      [] Subject = "idle" -> ~ack
      [] Subject = "reset" -> ~resetting

\* Mutation: polling without a budget.
PollForever ==
    /\ At("await")
    /\ IF Ready THEN Advance ELSE UNCHANGED cpu
    /\ UNCHANGED <<memory, record, clocks, posted, rtc>>

\* wait_for: one poll; the last one that finds nothing panics.
Poll ==
    /\ At("await")
    /\ IF Ready THEN Advance
       ELSE IF polls + 1 = Budget THEN EnterPanic
       ELSE polls' = polls + 1 /\ UNCHANGED <<pc, step, store, level, primask, core>>
    /\ UNCHANGED <<memory, record, clocks, posted, rtc>>

\* ICPR
Unpend ==
    /\ At("unpend")
    /\ pending' = FALSE
    /\ Advance
    /\ UNCHANGED <<memory, record, clocks, posted, running, resetting, epoch,
                   handshake, channels, event>>

EnterMain ==
    /\ At("main")
    /\ pc' = "main"
    /\ UNCHANGED <<step, polls, store, level, primask, core, memory, record, clocks, posted, rtc>>

BootStep ==
    \/ MaskAtReset \/ SetStack \/ SetLimit \/ SetVectors \/ SetCore
    \/ InitializeMemory \/ ClearRecord \/ WriteMagic \/ WriteStage \/ Validate \/ Trim
    \/ BypassQualifiers \/ EnableDetector \/ Post \/ AwaitAon \/ WriteShadow \/ WriteRequest
    \/ Poll \/ Unpend \/ EnterMain

-----------------------------------------------------------------------------
(* The ends *)

\* Of main no more is said than that it may unmask interrupts and may panic.
Application ==
    /\ pc = "main"
    /\ \/ primask /\ primask' = FALSE /\ UNCHANGED <<pc, step, polls, store, level, core>>
       \/ EnterPanic
    /\ UNCHANGED <<memory, record, clocks, posted, rtc>>

\* A fault, even of a parked CPU. Faults that cannot be taken at their own
\* priority escalate to HardFault; one inside HardFault locks the CPU up.
TakeFault ==
    IF level = "hard" THEN pc' = "lockup" /\ UNCHANGED <<store, level>>
    ELSE /\ pc' = "entry"
         /\ store' = 1
         /\ level' = IF primask \/ level # "thread" THEN "hard" ELSE "configurable"

\* Before VTOR is set the ROM's handlers are called, of which nothing is known.
Fault ==
    /\ pc \notin {"lockup", "rom"}
    /\ faults' = faults + 1
    /\ IF vectors = "rom" THEN pc' = "rom" /\ UNCHANGED <<store, level>> ELSE TakeFault
    /\ UNCHANGED <<step, polls, primask, vectors, stack, limit, settings, memory, record, clocks,
                   posted, rtc>>

\* Mutation: MSP is moved before its limit is lifted.
FaultEntryUnlifted ==
    /\ pc = "entry"
    /\ \/ /\ store = 1
          /\ primask' = TRUE /\ store' = 2
          /\ UNCHANGED <<pc, level, stack, limit>>
       \/ /\ store = 2
          /\ IF limit = "none" THEN stack' = "fault" /\ store' = 3 /\ UNCHANGED <<pc, level>>
                               ELSE TakeFault /\ UNCHANGED stack
          /\ UNCHANGED <<primask, limit>>
       \/ /\ store = 3
          /\ limit' = "none" /\ pc' = "capture" /\ store' = 1
          /\ UNCHANGED <<level, primask, stack>>
    /\ UNCHANGED <<step, polls, vectors, settings, faults, memory, record, clocks, posted, rtc>>

\* FaultEntry: PRIMASK, MSPLIM, then MSP, to below that limit, and
\* capture_fault, never to return. An MSP set below its limit faults, too.
FaultEntry ==
    /\ pc = "entry"
    /\ \/ /\ store = 1
          /\ primask' = TRUE /\ store' = 2
          /\ UNCHANGED <<pc, level, stack, limit>>
       \/ /\ store = 2
          /\ limit' = "none" /\ store' = 3
          /\ UNCHANGED <<pc, level, primask, stack>>
       \/ /\ store = 3
          /\ IF limit = "none"
             THEN stack' = "fault" /\ pc' = "capture" /\ store' = 1 /\ UNCHANGED level
             ELSE TakeFault /\ UNCHANGED stack
          /\ UNCHANGED <<primask, limit>>
    /\ UNCHANGED <<step, polls, vectors, settings, faults, memory, record, clocks, posted, rtc>>

\* What the words of the record in the making say.
Origin == IF level = "thread" THEN "panic" ELSE level
Terminal == IF level = "thread" THEN "panic" ELSE "fault"

\* panic()'s first step
MaskInterrupts ==
    /\ pc = "panic" /\ store = 0
    /\ primask' = TRUE
    /\ store' = 1
    /\ UNCHANGED <<pc, step, polls, level, core, memory, record, clocks, posted, rtc>>

\* Mutation: the stage is marked before the payload.
StoreStageFirst ==
    /\ pc \in {"capture", "panic"} /\ store > 0
    /\ magic' = TRUE
    /\ words' = IF store \in 3 .. 7 THEN [words EXCEPT ![store - 2] = Origin] ELSE words
    /\ stage' = IF store = 2 THEN Terminal ELSE stage
    /\ store' = IF store = 7 THEN 0 ELSE store + 1
    /\ pc' = IF store = 7 THEN "parked" ELSE pc
    /\ UNCHANGED <<step, polls, level, primask, core, memory, clocks, posted, rtc>>

\* capture_fault and panic: magic, the five words, the stage, and park().
Store ==
    /\ pc \in {"capture", "panic"} /\ store > 0
    /\ magic' = TRUE
    /\ words' = IF store \in 2 .. 6 THEN [words EXCEPT ![store - 1] = Origin] ELSE words
    /\ stage' = IF store = 7 THEN Terminal ELSE stage
    /\ store' = IF store = 7 THEN 0 ELSE store + 1
    /\ pc' = IF store = 7 THEN "parked" ELSE pc
    /\ UNCHANGED <<step, polls, level, primask, core, memory, clocks, posted, rtc>>

-----------------------------------------------------------------------------
Next ==
    \/ Land \/ SelectCrystal \/ RtcTick \/ RtcReset \/ Acknowledge \/ Pend \/ LoseClock
    \/ BootStep \/ Application \/ Fault \/ FaultEntry \/ MaskInterrupts \/ Store

Spec == Init /\ [][Next]_vars

\* The CPU runs, and posted writes land. No other hardware has to answer.
FairSpec ==
    Spec /\ WF_vars(BootStep) /\ WF_vars(FaultEntry \/ MaskInterrupts \/ Store) /\ WF_vars(Land)

-----------------------------------------------------------------------------
(* Properties *)

Stages == {"garbage", "reset", "trim", "application", "fault", "panic"}
Settings == {"secure", "fpu", "traps", "faults", "barrier"}
Writes == {"run", "loss_reset", "stop", "reset", "channels", "events"}

\* Every variable keeps its type; two AON writes at most are ever in flight.
TypeOK ==
    /\ pc \in {"boot", "main", "entry", "capture", "panic", "parked", "lockup", "rom"}
    /\ step \in 1 .. Len(Script) /\ polls \in 0 .. Budget - 1 /\ store \in 0 .. 7
    /\ level \in {"thread", "configurable", "hard"} /\ primask \in BOOLEAN
    /\ vectors \in {"rom", "ours"} /\ stack \in {"rom", "main", "fault"}
    /\ limit \in {"none", "main"} /\ settings \subseteq Settings /\ faults \in 0 .. 3
    /\ memory \in {"raw", "ready"}
    /\ magic \in BOOLEAN /\ stage \in Stages
    /\ words \in [Words -> {"garbage", "zero", "panic", "configurable", "hard"}]
    /\ fit \in BOOLEAN /\ lf \in {"derived", "switching", "crystal"}
    /\ qualifiers \in BOOLEAN /\ detector \in BOOLEAN /\ lossReset \in BOOLEAN
    /\ losses \in 0 .. MaxLosses
    /\ posted \in Seq(Writes) /\ Len(posted) <= 2
    /\ running \in BOOLEAN /\ resetting \in BOOLEAN /\ epoch \in {"zero", "exact", "mixed"}
    /\ shadow \in [low : BOOLEAN, high : BOOLEAN]
    /\ increment \in {"unknown", "temporary", "partial", "exact"}
    /\ request \in BOOLEAN /\ ack \in BOOLEAN
    /\ channels \in BOOLEAN /\ event \in BOOLEAN /\ pending \in BOOLEAN

\* main is entered, and runs, on an RTC whose epoch holds exact crystal ticks
\* only, with its handshake finished, no channel, event or pending interrupt,
\* and with initialised memory; all Rust code runs on a core set up and fenced,
\* on a guarded stack; and the chip is never set to reset itself on a clock
\* loss while the LF source is still being switched.
MainReady ==
    /\ pc \in {"main", "panic"} \/ (pc = "boot" /\ step > Len(Reset)) =>
           vectors = "ours" /\ stack = "main" /\ limit = "main" /\ settings = Settings
    /\ pc = "main" =>
           /\ fit /\ memory = "ready"
           /\ lf = "crystal" /\ ~qualifiers /\ detector /\ lossReset
           /\ running /\ ~resetting /\ epoch # "mixed" /\ increment = "exact"
           /\ ~request /\ ~ack
           /\ ~channels /\ ~event /\ ~pending /\ posted = <<>>
    /\ detector \/ lossReset => lf = "crystal"

AllFrom(origins) == \A w \in Words : words[w] \in origins

Recording == \E j \in 1 .. step - 1 : Script[j].do = "stage"

\* A debugger that finds the CPU parked reads a record wholly of what parked
\* it, whatever faults interrupted panic or an earlier fault's capture. Halted
\* earlier it never reads a terminal stage over another kind's payload, except
\* while a fault replaces a panic's record; and until then the payload is zero.
\* A single fault is always recorded, on a stack of its own: the CPU locks up
\* only if another one strikes the handler.
RecordTells ==
    /\ pc = "capture" \/ (pc = "parked" /\ level # "thread") => stack = "fault" /\ limit = "none"
    /\ pc = "lockup" => faults >= 2
    /\ pc = "parked" => magic /\ stage = Terminal /\ AllFrom({Origin})
    /\ pc \in {"capture", "parked", "lockup"} /\ stage = "fault" =>
           AllFrom({"configurable", "hard"})
    /\ pc \in {"panic", "parked"} /\ level = "thread" /\ stage = "panic" => AllFrom({"panic"})
    /\ pc = "boot" /\ Recording => magic /\ stage \in {"trim", "application"} /\ AllFrom({"zero"})
    /\ pc = "main" => magic /\ stage = "application" /\ AllFrom({"zero"})

\* The boot ends: in main or, if the board or a handshake fails, in a record -
\* or in the ROM, or locked up, after faults.
BootEnds ==
    pc \in {"boot", "entry", "capture", "panic"} ~> pc \in {"main", "parked", "lockup", "rom"}
=============================================================================
