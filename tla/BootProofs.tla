----------------------------- MODULE BootProofs -----------------------------
(***************************************************************************)
(* The boot, for every polling budget and any number of clock losses:      *)
(* whatever the oscillators and the RTC do and wherever faults strike.     *)
(*                                                                         *)
(* The boot is a straight line, so its invariant says what holds from each *)
(* position of it on, by the positions that Table gives the accesses.      *)
(* Hardware keeps moving after the boot has ended, and the position stays: *)
(* only the CPU's part of the invariant asks where the CPU is.             *)
(***************************************************************************)
EXTENDS Boot, TLAPS

\* The sequence of the boot, written out
Table == <<
    \* Reset: 1 to 9
    Access("mask", "cpu"), Access("stack", "main"), Access("limit", "main"),
    Access("vectors", "flash"),
    Access("set", "secure"), Access("set", "fpu"), Access("set", "traps"),
    Access("set", "faults"), Access("set", "barrier"),
    \* rust_start, up to setup: 10 to 14
    Access("memory", "sram"), Access("clear", "header"), Access("clear", "words"),
    Access("magic", "sram"), Access("stage", "trim"),
    \* setup and the LF clock: 15 to 21
    Access("validate", "board"), Access("trim", "sdk"),
    Access("await", "lf"), Access("bypass", "ddi"), Access("detector", "ddi"),
    Access("post", "loss_reset"), Access("sync", "aon"),
    \* RTC, stopped and given its increment: 22 to 29
    Access("post", "stop"), Access("sync", "aon"),
    Access("shadow", "low"), Access("shadow", "high"), Access("request", "set"),
    Access("await", "ack"), Access("request", "clear"), Access("await", "idle"),
    \* RTC, its epoch begun: 30 to 38
    Access("post", "reset"), Access("sync", "aon"), Access("await", "reset"),
    Access("post", "channels"), Access("post", "events"), Access("sync", "aon"),
    Access("unpend", "nvic"), Access("post", "run"), Access("sync", "aon"),
    \* The application: 39 and 40
    Access("stage", "application"), Access("main", "cpu")>>

-----------------------------------------------------------------------------
(* The invariant *)

\* Where the CPU is. Only a fault leaves thread level, only one inside
\* HardFault locks up, and before VTOR is set only the ROM handles one.
CpuOK ==
    /\ pc \in {"boot", "main", "entry", "capture", "panic", "parked", "lockup", "rom"}
    /\ step \in 1 .. 40 /\ polls \in 0 .. Budget - 1 /\ store \in 0 .. 7
    /\ level \in {"thread", "configurable", "hard"} /\ primask \in BOOLEAN
    /\ step <= 4 => pc \in {"boot", "rom"}
    /\ pc = "panic" => step > 14
    /\ pc = "main" => step = 40
    /\ pc \in {"boot", "main", "panic", "rom"} => level = "thread"
    /\ pc \in {"entry", "capture"} => level # "thread" /\ store > 0
    /\ pc = "lockup" => level = "hard"
    /\ faults \in 0 .. 3
    /\ pc = "rom" => faults = 1
    /\ pc # "rom" /\ level = "thread" => faults = 0
    /\ level = "configurable" => faults = 1
    /\ pc = "lockup" => faults \in {2, 3}
    /\ pc # "lockup" /\ level = "hard" => faults \in {1, 2}

\* Reset sets the core up; only FaultEntry lifts the stack's limit, before it
\* leaves the stack.
CoreOK ==
    /\ vectors = IF step > 4 THEN "ours" ELSE "rom"
    /\ settings \subseteq Settings
    /\ step > 5 => "secure" \in settings
    /\ step > 6 => "fpu" \in settings
    /\ step > 7 => "traps" \in settings
    /\ step > 8 => "faults" \in settings
    /\ step > 9 => "barrier" \in settings
    /\ stack \in {"rom", "main", "fault"} /\ limit \in {"none", "main"}
    /\ pc \in {"boot", "main", "panic"} =>
           /\ stack = IF step > 2 THEN "main" ELSE "rom"
           /\ limit = IF step > 3 THEN "main" ELSE "none"
    /\ pc = "entry" /\ store = 3 => limit = "none"
    /\ pc = "capture" => stack = "fault" /\ limit = "none"
    /\ pc = "parked" /\ level # "thread" => stack = "fault" /\ limit = "none"

\* Words stored so far by panic or capture_fault
Stored == {w \in Words : w < store - 1}

\* The payload is zero until what it tells of is stored. A record that says
\* fault is one, from this life or an earlier one.
RecordOK ==
    /\ magic \in BOOLEAN /\ stage \in Stages
    /\ words \in [Words -> {"garbage", "zero", "panic", "configurable", "hard"}]
    /\ stage = "fault" => AllFrom({"configurable", "hard"})
    /\ pc = "boot" /\ step > 11 => stage \notin {"fault", "panic"}
    /\ pc = "boot" /\ step > 12 => AllFrom({"zero"})
    /\ pc = "boot" /\ step > 13 => magic
    /\ pc \in {"boot", "panic"} /\ step > 14 => stage \in {"trim", "application"}
    /\ pc = "boot" /\ step > 39 => stage = "application"
    /\ pc = "main" => magic /\ stage = "application" /\ AllFrom({"zero"})
    /\ pc = "panic" =>
           /\ magic
           /\ \A w \in Words : words[w] = IF w \in Stored THEN "panic" ELSE "zero"
    /\ pc = "capture" => \A w \in Stored : words[w] = level
    /\ pc = "capture" /\ store > 1 => magic
    /\ pc = "parked" => magic /\ stage = Terminal /\ AllFrom({Origin})

\* The detector is armed once the crystal is selected.
ClockOK ==
    /\ fit \in BOOLEAN /\ (step > 15 => fit)
    /\ memory \in {"raw", "ready"} /\ (step > 10 => memory = "ready")
    /\ lf \in IF step <= 16 THEN {"derived"}
              ELSE IF step = 17 THEN {"switching", "crystal"}
              ELSE {"crystal"}
    /\ qualifiers \in BOOLEAN /\ (step > 18 => ~qualifiers)
    /\ detector \in BOOLEAN /\ (step > 19 => detector) /\ (step <= 19 => ~detector)
    /\ losses \in 0 .. MaxLosses

\* The writes that may be in flight
InFlightOK ==
    /\ step \in 17 .. 20 => posted \in {<<>>, <<"run">>}
    /\ step = 21 => posted \in {<<>>, <<"loss_reset">>, <<"run", "loss_reset">>}
    /\ step = 23 => posted \in {<<>>, <<"stop">>}
    /\ step = 31 => posted \in {<<>>, <<"reset">>}
    /\ step = 34 => posted \in {<<>>, <<"channels">>}
    /\ step = 35 => posted \in {<<>>, <<"events">>, <<"channels", "events">>}
    /\ step = 38 => posted \in {<<>>, <<"run">>}
    /\ step \notin 17 .. 21 \cup {23, 31, 34, 35, 38} => posted = <<>>

\* What has landed, or is about to
PostedOK ==
    /\ InFlightOK
    /\ lossReset \in BOOLEAN
    /\ step <= 20 => ~lossReset
    /\ step = 21 => lossReset \/ posted # <<>>
    /\ step > 21 => lossReset
    /\ running \in BOOLEAN
    /\ step = 23 => ~running \/ posted # <<>>
    /\ step \in 24 .. 37 => ~running
    /\ step = 38 => (running <=> posted = <<>>)
    /\ step > 38 => running

\* ACK follows REQ there and back, with the increment complete.
HandshakeOK ==
    /\ shadow \in [low : BOOLEAN, high : BOOLEAN]
    /\ (shadow.low <=> step > 24) /\ (shadow.high <=> step > 25)
    /\ request \in BOOLEAN /\ (request <=> step \in {27, 28})
    /\ ack \in BOOLEAN /\ (step = 28 => ack) /\ (step \notin {27, 28, 29} => ~ack)
    /\ increment = IF step <= 16 THEN "unknown"
                   ELSE IF step > 27 \/ ack THEN "exact"
                   ELSE "temporary"

\* A time begun after the reset of a stopped RTC is exact.
EpochOK ==
    /\ epoch \in {"zero", "exact", "mixed"}
    /\ resetting \in BOOLEAN
    /\ resetting => step \in {31, 32}
    /\ step > 30 => epoch # "mixed" \/ resetting \/ (step = 31 /\ posted # <<>>)

\* Nothing arms a channel, so that an event once cleared stays clear.
AlarmsOK ==
    /\ channels \in BOOLEAN /\ event \in BOOLEAN /\ pending \in BOOLEAN
    /\ step = 34 => ~channels \/ posted # <<>>
    /\ step = 35 => ~channels \/ posted = <<"channels", "events">>
    /\ step > 35 => ~channels
    /\ step = 35 => ~event \/ posted # <<>>
    /\ step > 35 => ~event
    /\ step > 36 => ~pending

BootInv ==
    /\ CpuOK /\ CoreOK /\ RecordOK /\ ClockOK /\ PostedOK /\ HandshakeOK /\ EpochOK /\ AlarmsOK

-----------------------------------------------------------------------------
(* The sequence *)

\* The sequence the functions add up to
LEMMA ScriptIs == Len(Script) = 40 /\ \A i \in 1 .. 40 : Script[i] = Table[i]
  <1> USE DEF Script, Reset, FreshRecord, SetupInitialize, FinishLfStartup, EnableClockLossReset,
              RtcInitialize, InstallIncrement, BeginEpoch, Sync
  <1>1. Len(Script) = 40
    OBVIOUS
  <1>2. \A i \in 1 .. 40 : Script[i] = Table[i]
    BY DEF Table
  <1> QED BY <1>1, <1>2

\* A position is one of these.
LEMMA Numbered ==
    \A i \in 1 .. 40 :
        \/ i = 1 \/ i = 2 \/ i = 3 \/ i = 4 \/ i = 5 \/ i = 6 \/ i = 7 \/ i = 8
        \/ i = 9 \/ i = 10 \/ i = 11 \/ i = 12 \/ i = 13 \/ i = 14 \/ i = 15 \/ i = 16
        \/ i = 17 \/ i = 18 \/ i = 19 \/ i = 20 \/ i = 21 \/ i = 22 \/ i = 23 \/ i = 24
        \/ i = 25 \/ i = 26 \/ i = 27 \/ i = 28 \/ i = 29 \/ i = 30 \/ i = 31 \/ i = 32
        \/ i = 33 \/ i = 34 \/ i = 35 \/ i = 36 \/ i = 37 \/ i = 38 \/ i = 39 \/ i = 40
  OBVIOUS

\* Where the accesses of each kind are
LEMMA Places ==
    \A i \in 1 .. 40 :
        /\ Table[i].do = "mask" <=> i = 1
        /\ Table[i].do = "stack" <=> i = 2
        /\ Table[i].do = "limit" <=> i = 3
        /\ Table[i].do = "vectors" <=> i = 4
        /\ Table[i].do = "set" <=> i \in 5 .. 9
        /\ Table[i].do = "memory" <=> i = 10
        /\ Table[i].do = "clear" <=> i \in {11, 12}
        /\ Table[i].do = "magic" <=> i = 13
        /\ Table[i].do = "stage" <=> i \in {14, 39}
        /\ Table[i].do = "validate" <=> i = 15
        /\ Table[i].do = "trim" <=> i = 16
        /\ Table[i].do = "await" <=> i \in {17, 27, 29, 32}
        /\ Table[i].do = "bypass" <=> i = 18
        /\ Table[i].do = "detector" <=> i = 19
        /\ Table[i].do = "post" <=> i \in {20, 22, 30, 33, 34, 37}
        /\ Table[i].do = "sync" <=> i \in {21, 23, 31, 35, 38}
        /\ Table[i].do = "shadow" <=> i \in {24, 25}
        /\ Table[i].do = "request" <=> i \in {26, 28}
        /\ Table[i].do = "unpend" <=> i = 36
        /\ Table[i].do = "main" <=> i = 40
  BY Numbered DEF Table, Access

\* Their subjects
LEMMA SubjectAt ==
    /\ Table[5].of = "secure" /\ Table[6].of = "fpu" /\ Table[7].of = "traps"
    /\ Table[8].of = "faults" /\ Table[9].of = "barrier"
    /\ Table[11].of = "header" /\ Table[12].of = "words"
    /\ Table[14].of = "trim" /\ Table[39].of = "application"
    /\ Table[17].of = "lf" /\ Table[27].of = "ack" /\ Table[29].of = "idle"
    /\ Table[32].of = "reset"
    /\ Table[20].of = "loss_reset" /\ Table[22].of = "stop" /\ Table[30].of = "reset"
    /\ Table[33].of = "channels" /\ Table[34].of = "events" /\ Table[37].of = "run"
    /\ Table[24].of = "low" /\ Table[25].of = "high"
    /\ Table[26].of = "set" /\ Table[28].of = "clear"
  BY DEF Table, Access

-----------------------------------------------------------------------------
(* The boot keeps the invariant *)

\* Each access is in turn at its positions.
LEMMA InTurn ==
    ASSUME CpuOK, pc = "boot"
    PROVE  /\ step \in 1 .. 40 /\ Subject = Table[step].of
           /\ At("mask") <=> step = 1
           /\ At("stack") <=> step = 2
           /\ At("limit") <=> step = 3
           /\ At("vectors") <=> step = 4
           /\ At("set") <=> step \in 5 .. 9
           /\ At("memory") <=> step = 10
           /\ At("clear") <=> step \in {11, 12}
           /\ At("magic") <=> step = 13
           /\ At("stage") <=> step \in {14, 39}
           /\ At("validate") <=> step = 15
           /\ At("trim") <=> step = 16
           /\ At("await") <=> step \in {17, 27, 29, 32}
           /\ At("bypass") <=> step = 18
           /\ At("detector") <=> step = 19
           /\ At("post") <=> step \in {20, 22, 30, 33, 34, 37}
           /\ At("sync") <=> step \in {21, 23, 31, 35, 38}
           /\ At("shadow") <=> step \in {24, 25}
           /\ At("request") <=> step \in {26, 28}
           /\ At("unpend") <=> step = 36
           /\ At("main") <=> step = 40
  <1>1. step \in 1 .. 40 /\ Script[step] = Table[step]
    BY ScriptIs DEF CpuOK
  <1>2. \A kind : At(kind) <=> Table[step].do = kind
    BY <1>1 DEF At
  <1> QED BY <1>1, <1>2, Places DEF Subject

\* Which action the boot takes at each position
LEMMA Due ==
    ASSUME CpuOK, BootStep
    PROVE  /\ pc = "boot" /\ step \in 1 .. 40 /\ Subject = Table[step].of
           /\ step = 1 => MaskAtReset
           /\ step = 2 => SetStack
           /\ step = 3 => SetLimit
           /\ step = 4 => SetVectors
           /\ step \in 5 .. 9 => SetCore
           /\ step <= 9 => MaskAtReset \/ SetStack \/ SetLimit \/ SetVectors \/ SetCore
           /\ step = 10 => InitializeMemory
           /\ step \in {11, 12} => ClearRecord
           /\ step = 13 => WriteMagic
           /\ step \in {14, 39} => WriteStage
           /\ step = 15 => Validate
           /\ step = 16 => Trim
           /\ step \in {17, 27, 29, 32} => Poll
           /\ step = 18 => BypassQualifiers
           /\ step = 19 => EnableDetector
           /\ step \in {20, 22, 30, 33, 34, 37} => Post
           /\ step \in {21, 23, 31, 35, 38} => AwaitAon
           /\ step \in {24, 25} => WriteShadow
           /\ step \in {26, 28} => WriteRequest
           /\ step = 36 => Unpend
           /\ step = 40 => EnterMain
  <1>1. pc = "boot"
    BY DEF BootStep, MaskAtReset, SetStack, SetLimit, SetVectors, SetCore, InitializeMemory,
           ClearRecord, WriteMagic, WriteStage, Validate, Trim, BypassQualifiers, EnableDetector,
           Post, AwaitAon, WriteShadow, WriteRequest, Poll, Unpend, EnterMain, At
  <1>2. /\ MaskAtReset => At("mask")
        /\ SetStack => At("stack")
        /\ SetLimit => At("limit")
        /\ SetVectors => At("vectors")
        /\ SetCore => At("set")
        /\ InitializeMemory => At("memory")
        /\ ClearRecord => At("clear")
        /\ WriteMagic => At("magic")
        /\ WriteStage => At("stage")
        /\ Validate => At("validate")
        /\ Trim => At("trim")
        /\ Poll => At("await")
        /\ BypassQualifiers => At("bypass")
        /\ EnableDetector => At("detector")
        /\ Post => At("post")
        /\ AwaitAon => At("sync")
        /\ WriteShadow => At("shadow")
        /\ WriteRequest => At("request")
        /\ Unpend => At("unpend")
        /\ EnterMain => At("main")
    BY DEF MaskAtReset, SetStack, SetLimit, SetVectors, SetCore, InitializeMemory,
           ClearRecord, WriteMagic, WriteStage, Validate, Trim, BypassQualifiers, EnableDetector,
           Post, AwaitAon, WriteShadow, WriteRequest, Poll, Unpend, EnterMain
  <1>3. /\ step \in 1 .. 40 /\ Subject = Table[step].of
        /\ MaskAtReset => step = 1
        /\ SetStack => step = 2
        /\ SetLimit => step = 3
        /\ SetVectors => step = 4
        /\ SetCore => step \in 5 .. 9
        /\ InitializeMemory => step = 10
        /\ ClearRecord => step \in {11, 12}
        /\ WriteMagic => step = 13
        /\ WriteStage => step \in {14, 39}
        /\ Validate => step = 15
        /\ Trim => step = 16
        /\ Poll => step \in {17, 27, 29, 32}
        /\ BypassQualifiers => step = 18
        /\ EnableDetector => step = 19
        /\ Post => step \in {20, 22, 30, 33, 34, 37}
        /\ AwaitAon => step \in {21, 23, 31, 35, 38}
        /\ WriteShadow => step \in {24, 25}
        /\ WriteRequest => step \in {26, 28}
        /\ Unpend => step = 36
        /\ EnterMain => step = 40
    BY <1>1, <1>2, InTurn
  <1> QED BY <1>1, <1>3 DEF BootStep

\* How a step of the boot moves the CPU on
LEMMA Moves ==
    ASSUME CpuOK, BootStep
    PROVE  /\ UNCHANGED <<level, faults>>
           /\ \/ UNCHANGED primask
              \/ step = 1 /\ primask' = TRUE
           /\ \/ pc' = "boot" /\ step' = step + 1 /\ step # 40 /\ polls' \in {0, polls}
                 /\ UNCHANGED store
              \/ pc' = "boot" /\ UNCHANGED <<step, store>> /\ step \in {17, 27, 29, 32}
                 /\ polls' = polls + 1 /\ polls + 1 # Budget
              \/ pc' = "panic" /\ UNCHANGED <<step, polls>> /\ store' = 0
                 /\ step \in {15, 17, 27, 29, 32}
              \/ pc' = "main" /\ UNCHANGED <<step, polls, store>> /\ step = 40
  <1>1. /\ MaskAtReset \/ SetStack \/ SetLimit \/ SetVectors \/ SetCore =>
               /\ step' = step + 1
               /\ UNCHANGED <<pc, polls, store, level, faults>>
               /\ SetStack \/ SetLimit \/ SetVectors \/ SetCore => UNCHANGED primask
               /\ MaskAtReset => primask' = TRUE
        /\ \/ InitializeMemory \/ ClearRecord \/ WriteMagic \/ WriteStage \/ Trim
           \/ BypassQualifiers \/ EnableDetector \/ Post \/ AwaitAon \/ WriteShadow
           \/ WriteRequest \/ Unpend
           => Advance
        /\ Validate => Advance \/ EnterPanic
        /\ Poll => \/ Advance \/ EnterPanic
                   \/ /\ polls' = polls + 1 /\ polls + 1 # Budget
                      /\ UNCHANGED <<pc, step, store, level, primask, core>>
        /\ EnterMain => pc' = "main" /\ UNCHANGED <<step, polls, store, level, primask, core>>
    BY DEF MaskAtReset, SetStack, SetLimit, SetVectors, SetCore, InitializeMemory, ResetStep,
           ClearRecord, WriteMagic, WriteStage, Validate, Trim, BypassQualifiers, EnableDetector,
           Post, AwaitAon, WriteShadow, WriteRequest, Poll, Unpend, EnterMain
  <1>2. pc = "boot" /\ step \in 1 .. 40
    BY Due
  <1>3. CASE step \in 1 .. 9
    <2>1. /\ MaskAtReset \/ SetStack \/ SetLimit \/ SetVectors \/ SetCore
          /\ step = 1 \/ SetStack \/ SetLimit \/ SetVectors \/ SetCore
      BY <1>3, Due
    <2>2. step' = step + 1 /\ UNCHANGED <<pc, polls, store, level, faults>>
      BY <1>1, <2>1, Zenon
    <2>3. step = 1 \/ UNCHANGED primask
      BY <1>1, <2>1, Zenon
    <2>4. step = 1 => primask' = TRUE
      BY <1>1, Due, Zenon
    <2>5. step # 40
      BY <1>3
    <2> QED BY <1>2, <2>2, <2>3, <2>4, <2>5, Zenon
  <1>4. CASE step \in {10, 11, 12, 13, 14, 16, 18, 19, 20, 21, 22, 23, 24, 25, 26, 28}
    BY <1>1, <1>2, <1>4, Due DEF Advance, core
  <1>5. CASE step \in {30, 31, 33, 34, 35, 36, 37, 38, 39}
    BY <1>1, <1>2, <1>5, Due DEF Advance, core
  <1>6. CASE step = 15
    BY <1>1, <1>2, <1>6, Due DEF Advance, EnterPanic, core
  <1>7. CASE step \in {17, 27, 29, 32}
    BY <1>1, <1>2, <1>7, Due DEF Advance, EnterPanic, core
  <1>8. CASE step = 40
    BY <1>1, <1>2, <1>8, Due DEF core
  <1>9. \/ step \in 1 .. 9 \/ step = 15 \/ step \in {17, 27, 29, 32} \/ step = 40
        \/ step \in {10, 11, 12, 13, 14, 16, 18, 19, 20, 21, 22, 23, 24, 25, 26, 28}
        \/ step \in {30, 31, 33, 34, 35, 36, 37, 38, 39}
    BY <1>2
  <1> QED BY <1>3, <1>4, <1>5, <1>6, <1>7, <1>8, <1>9, Zenon

\* What the boot leaves alone, and where
LEMMA LeftAlone ==
    ASSUME CpuOK, BootStep
    PROVE  /\ UNCHANGED <<fit, losses, lossReset, running, resetting, epoch, ack>>
           /\ UNCHANGED <<channels, event>>
           /\ step > 9 => UNCHANGED core
           /\ step # 10 => UNCHANGED memory
           /\ step \notin {11, 12, 13, 14, 39} => UNCHANGED record
           /\ step # 16 => UNCHANGED <<lf, increment>>
           /\ step # 18 => UNCHANGED qualifiers
           /\ step # 19 => UNCHANGED detector
           /\ step \notin {16, 20, 22, 30, 33, 34, 37} => UNCHANGED posted
           /\ step \notin {24, 25} => UNCHANGED shadow
           /\ step \notin {26, 28} => UNCHANGED request
           /\ step # 36 => UNCHANGED pending
  <1> USE DEF record, clocks, rtc, handshake, alarms
  <1>1. step \in 1 .. 40
    BY Due
  <1>2. CASE step \in 1 .. 9
    <2>1. UNCHANGED <<memory, record, clocks, posted, rtc>>
      <3>1. MaskAtReset \/ SetStack \/ SetLimit \/ SetVectors \/ SetCore
        BY <1>2, Due
      <3> QED BY <3>1 DEF MaskAtReset, SetStack, SetLimit, SetVectors, SetCore, ResetStep
    <2> QED BY <1>2, <2>1
  <1>3. CASE step \in {15, 17, 21, 23, 27, 29, 31, 32, 35, 38, 40}
    <2>1. UNCHANGED <<core, memory, record, clocks, posted, rtc>>
      BY <1>3, Due DEF Validate, Poll, AwaitAon, EnterMain, Advance, EnterPanic
    <2> QED BY <1>3, <2>1
  <1>4. CASE step = 10
    BY <1>4, Due DEF InitializeMemory, Advance
  <1>5. CASE step \in {11, 12, 13, 14, 39}
    <2>1. UNCHANGED <<core, memory, clocks, posted, rtc>>
      BY <1>5, Due DEF ClearRecord, WriteMagic, WriteStage, Advance
    <2> QED BY <1>5, <2>1
  <1>6. CASE step = 16
    BY <1>6, Due DEF Trim, Advance
  <1>7. CASE step = 18
    BY <1>7, Due DEF BypassQualifiers, Advance
  <1>8. CASE step = 19
    BY <1>8, Due DEF EnableDetector, Advance
  <1>9. CASE step \in {20, 22, 30, 33, 34, 37}
    <2>1. UNCHANGED <<core, memory, record, clocks, rtc>>
      BY <1>9, Due DEF Post, Advance
    <2> QED BY <1>9, <2>1
  <1>10. CASE step \in {24, 25}
    BY <1>10, Due DEF WriteShadow, Advance
  <1>11. CASE step \in {26, 28}
    BY <1>11, Due DEF WriteRequest, Advance
  <1>12. CASE step = 36
    BY <1>12, Due DEF Unpend, Advance
  <1> QED BY <1>1, <1>2, <1>3, <1>4, <1>5, <1>6, <1>7, <1>8, <1>9, <1>10, <1>11, <1>12

LEMMA BootKeepsCpu == ASSUME BootInv, BootStep PROVE CpuOK'
  <1>1. CpuOK /\ pc = "boot" /\ step \in 1 .. 40 /\ Budget \in Nat \ {0}
    BY Due, BudgetAssumption DEF BootInv
  <1>3. /\ level = "thread" /\ faults \in {0}
        /\ polls \in 0 .. Budget - 1 /\ store \in 0 .. 7 /\ primask \in BOOLEAN
    BY <1>1 DEF CpuOK
  <1>2. polls' \in 0 .. Budget - 1 /\ store' \in 0 .. 7
    BY <1>1, <1>3, Moves
  <1>6. primask' \in BOOLEAN
    BY <1>1, <1>3, Moves, Zenon
  <1>4. level' = "thread" /\ faults' \in {0} /\ pc' \in {"boot", "panic", "main"}
    BY <1>1, <1>3, Moves
  <1>5. /\ step' \in 1 .. 40 /\ (step' <= 4 => pc' = "boot") /\ (pc' = "panic" => step' > 14)
        /\ (pc' = "main" => step' = 40)
    BY <1>1, Moves
  <1> QED BY <1>2, <1>4, <1>5, <1>6 DEF CpuOK

LEMMA BootKeepsCore == ASSUME BootInv, BootStep PROVE CoreOK'
  <1>1. CpuOK /\ CoreOK /\ pc = "boot" /\ step \in 1 .. 40
    BY Due DEF BootInv
  <1>2. pc' \notin {"entry", "capture", "parked"}
    BY Moves, <1>1
  <1>3. CASE step \in 1 .. 4
    <2>1. /\ step = 1 => UNCHANGED <<vectors, stack, limit, settings>>
          /\ step = 2 => stack' = "main" /\ UNCHANGED <<vectors, limit, settings>>
          /\ step = 3 => limit' = "main" /\ UNCHANGED <<vectors, stack, settings>>
          /\ step = 4 => vectors' = "ours" /\ UNCHANGED <<stack, limit, settings>>
      BY <1>1, Due DEF MaskAtReset, SetStack, SetLimit, SetVectors
    <2>2. pc' = "boot" /\ step' = step + 1
      BY <1>1, <1>3, Moves
    <2> QED BY <1>1, <1>2, <1>3, <2>1, <2>2 DEF CoreOK
  <1>4. CASE step \in 5 .. 9
    <2>1. /\ pc' = "boot" /\ step' = step + 1 /\ settings' = settings \cup {Table[step].of}
          /\ UNCHANGED <<vectors, stack, limit>>
      BY <1>1, <1>4, Due DEF SetCore, ResetStep
    <2>3. Table[step].of \in Settings
      BY <1>4, SubjectAt DEF Settings
    <2>2. /\ settings' \subseteq Settings /\ settings \subseteq settings'
          /\ Table[step].of \in settings'
      BY <1>1, <2>1, <2>3 DEF CoreOK
    <2>4. /\ step = 5 => "secure" \in settings'
          /\ step = 6 => "fpu" \in settings'
          /\ step = 7 => "traps" \in settings'
          /\ step = 8 => "faults" \in settings'
          /\ step = 9 => "barrier" \in settings'
      BY <2>2, SubjectAt
    <2> QED BY <1>1, <1>2, <1>4, <2>1, <2>2, <2>4 DEF CoreOK
  <1>5. CASE step > 9
    <2>1. UNCHANGED <<vectors, stack, limit, settings>> /\ step' \in Nat /\ step' >= step
      BY <1>1, <1>5, LeftAlone, Moves DEF core
    <2> QED BY <1>1, <1>2, <1>5, <2>1 DEF CoreOK
  <1> QED BY <1>1, <1>3, <1>4, <1>5

LEMMA BootKeepsRecord == ASSUME BootInv, BootStep PROVE RecordOK'
  <1>1. CpuOK /\ RecordOK /\ pc = "boot" /\ step \in 1 .. 40
    BY Due DEF BootInv
  <1>2. /\ \/ pc' = "boot" /\ step' = step + 1
           \/ pc' = "boot" /\ step' = step /\ step \in {17, 27, 29, 32}
           \/ pc' = "panic" /\ step' = step /\ store' = 0 /\ step \in {15, 17, 27, 29, 32}
           \/ pc' = "main" /\ step' = step /\ step = 40
    BY <1>1, Moves
  <1>3. CASE step = 11
    <2>1. magic' = FALSE /\ stage' = "reset" /\ UNCHANGED words
      BY <1>1, <1>3, Due, SubjectAt DEF ClearRecord
    <2>2. pc' = "boot" /\ step' = 12
      BY <1>2, <1>3
    <2>3. stage' \in Stages /\ magic' \in BOOLEAN
      BY <2>1 DEF Stages
    <2> QED BY <1>1, <2>1, <2>2, <2>3 DEF RecordOK
  <1>7. CASE step = 12
    <2>1. words' = [w \in Words |-> "zero"] /\ UNCHANGED <<magic, stage>>
      BY <1>1, <1>7, Due, SubjectAt DEF ClearRecord
    <2> QED BY <1>1, <1>2, <1>7, <2>1 DEF RecordOK, AllFrom, Stages
  <1>4. CASE step = 13
    <2>1. magic' = TRUE /\ UNCHANGED <<stage, words>>
      BY <1>1, <1>4, Due DEF WriteMagic
    <2> QED BY <1>1, <1>2, <1>4, <2>1 DEF RecordOK, AllFrom, Stages
  <1>5. CASE step \in {14, 39}
    <2>1. UNCHANGED <<magic, words>> /\ stage' = IF step = 14 THEN "trim" ELSE "application"
      BY <1>1, <1>5, Due, SubjectAt DEF WriteStage
    <2> QED BY <1>1, <1>2, <1>5, <2>1 DEF RecordOK, AllFrom, Stages
  <1>6. CASE step \notin {11, 12, 13, 14, 39}
    <2>1. UNCHANGED <<magic, stage, words>>
      BY <1>1, <1>6, LeftAlone DEF record
    <2>2. pc' = "panic" => Stored' = {}
      BY <1>2 DEF Stored, Words
    <2>3. CASE pc' = "boot"
      BY <1>1, <1>2, <1>6, <2>1, <2>3 DEF RecordOK, AllFrom
    <2>4. CASE pc' = "panic"
      <3>1. step' = step /\ step > 14
        BY <1>2, <2>4
      <3>2. magic /\ stage \in {"trim", "application"} /\ AllFrom({"zero"})
        BY <1>1, <3>1 DEF RecordOK
      <3>3. \A w \in Words : words[w] = "zero"
        BY <3>2 DEF AllFrom
      <3> QED BY <1>1, <2>1, <2>2, <2>4, <3>1, <3>2, <3>3 DEF RecordOK, AllFrom
    <2>5. CASE pc' = "main"
      <3>1. magic /\ stage = "application" /\ AllFrom({"zero"})
        BY <1>1, <1>2, <2>5 DEF RecordOK
      <3> QED BY <1>1, <2>1, <2>5, <3>1 DEF RecordOK, AllFrom
    <2> QED BY <1>2, <2>3, <2>4, <2>5
  <1> QED BY <1>3, <1>4, <1>5, <1>6, <1>7

LEMMA BootKeepsClock == ASSUME BootInv, BootStep PROVE ClockOK'
  <1>1. CpuOK /\ ClockOK /\ step \in 1 .. 40
    BY Due DEF BootInv
  <1>2. /\ step' = step + 1 \/ (step' = step /\ step \in {15, 17, 27, 29, 32, 40})
        /\ UNCHANGED <<fit, losses>>
    BY <1>1, Moves, LeftAlone
  <1>3. CASE step = 10
    <2>1. memory' = "ready"
      BY <1>1, <1>3, Due DEF InitializeMemory
    <2>2. UNCHANGED <<lf, qualifiers, detector>>
      BY <1>1, <1>3, LeftAlone
    <2> QED BY <1>1, <1>2, <1>3, <2>1, <2>2 DEF ClockOK
  <1>4. CASE step = 15
    <2>1. step' = step + 1 => fit
      BY <1>1, <1>4, Due DEF Validate, EnterPanic
    <2>2. UNCHANGED <<memory, lf, qualifiers, detector>>
      BY <1>1, <1>4, LeftAlone
    <2> QED BY <1>1, <1>2, <1>4, <2>1, <2>2 DEF ClockOK
  <1>5. CASE step = 16
    <2>1. lf' = "switching"
      BY <1>1, <1>5, Due DEF Trim
    <2>2. UNCHANGED <<memory, qualifiers, detector>>
      BY <1>1, <1>5, LeftAlone
    <2> QED BY <1>1, <1>2, <1>5, <2>1, <2>2 DEF ClockOK
  <1>6. CASE step = 17
    <2>1. step' = step + 1 => lf = "crystal"
      BY <1>1, <1>6, Due, SubjectAt DEF Poll, Ready, EnterPanic
    <2>2. UNCHANGED <<memory, lf, qualifiers, detector>>
      BY <1>1, <1>6, LeftAlone
    <2> QED BY <1>1, <1>2, <1>6, <2>1, <2>2 DEF ClockOK
  <1>7. CASE step = 18
    <2>1. ~qualifiers' /\ qualifiers' \in BOOLEAN
      BY <1>1, <1>7, Due DEF BypassQualifiers
    <2>2. UNCHANGED <<memory, lf, detector>>
      BY <1>1, <1>7, LeftAlone
    <2>4. step' = 19
      BY <1>2, <1>7
    <2> QED BY <1>1, <1>2, <1>7, <2>1, <2>2, <2>4 DEF ClockOK
  <1>8. CASE step = 19
    <2>1. detector' = TRUE
      BY <1>1, <1>8, Due DEF EnableDetector
    <2>2. UNCHANGED <<memory, lf, qualifiers>>
      BY <1>1, <1>8, LeftAlone
    <2> QED BY <1>1, <1>2, <1>8, <2>1, <2>2 DEF ClockOK
  <1>9. CASE step \notin {10, 15, 16, 17, 18, 19}
    <2>1. UNCHANGED <<memory, lf, qualifiers, detector>>
      BY <1>1, <1>9, LeftAlone
    <2> QED BY <1>1, <1>2, <1>9, <2>1 DEF ClockOK
  <1> QED BY <1>3, <1>4, <1>5, <1>6, <1>7, <1>8, <1>9

\* Two writes in flight, and one that has been
LEMMA Pairs ==
    /\ Append(<<"run">>, "loss_reset") = <<"run", "loss_reset">>
    /\ Append(<<"channels">>, "events") = <<"channels", "events">>
    /\ Tail(<<"run", "loss_reset">>) = <<"loss_reset">>
    /\ Tail(<<"channels", "events">>) = <<"events">>
  <1>1. ASSUME NEW x \in Writes, NEW y \in Writes
        PROVE  Append(<<x>>, y) = <<x, y>> /\ Tail(<<x, y>>) = <<y>>
    <2> DEFINE s == Append(<<x>>, y)
    <2> DEFINE t == Tail(<<x, y>>)
    <2>1. /\ s \in Seq(Writes) /\ Len(s) = 2 /\ s[1] = x /\ s[2] = y
          /\ t \in Seq(Writes) /\ Len(t) = 1 /\ t[1] = y
      OBVIOUS
    <2> HIDE DEF s, t
    <2>2. s = <<s[1], s[2]>> /\ t = <<t[1]>>
      BY <2>1
    <2> QED BY <2>1, <2>2 DEF s, t
  <1>2. {"run", "loss_reset", "channels", "events"} \subseteq Writes
    BY DEF Writes
  <1> QED BY <1>1, <1>2

LEMMA BootKeepsPosted == ASSUME BootInv, BootStep PROVE PostedOK'
  <1>1. CpuOK /\ PostedOK /\ step \in 1 .. 40
    BY Due DEF BootInv
  <1>2. /\ step' = step + 1 \/ (step' = step /\ step \in {15, 17, 27, 29, 32, 40})
        /\ UNCHANGED <<lossReset, running>>
    BY <1>1, Moves, LeftAlone
  <1>3. CASE step \in {16, 20, 22, 30, 33, 34, 37}
    <2>1. step' = step + 1
      BY <1>2, <1>3
    <2>2. InFlightOK' /\ posted' # <<>>
      <3>1. CASE step = 16
        <4>1. posted' = posted \o <<"run">> /\ posted = <<>>
          BY <1>1, <3>1, Due DEF Trim, PostedOK, InFlightOK
        <4>2. posted' = <<"run">> /\ step' = 17
          BY <2>1, <3>1, <4>1
        <4> QED BY <4>2 DEF InFlightOK
      <3>2. CASE step = 20
        <4>1. posted' = Append(posted, "loss_reset") /\ posted \in {<<>>, <<"run">>}
          BY <1>1, <3>2, Due, SubjectAt DEF Post, PostedOK, InFlightOK
        <4>3. /\ Append(<<>>, "loss_reset") = <<"loss_reset">>
              /\ Append(<<"run">>, "loss_reset") = <<"run", "loss_reset">>
          BY Pairs
        <4>2. posted' \in {<<"loss_reset">>, <<"run", "loss_reset">>}
          BY <4>1, <4>3, Zenon
        <4>4. posted' # <<>> /\ step' = 21
          BY <2>1, <3>2, <4>2
        <4> QED BY <4>2, <4>4 DEF InFlightOK
      <3>3. CASE step = 34
        <4>1. posted' = Append(posted, "events") /\ posted \in {<<>>, <<"channels">>}
          BY <1>1, <3>3, Due, SubjectAt DEF Post, PostedOK, InFlightOK
        <4>3. /\ Append(<<>>, "events") = <<"events">>
              /\ Append(<<"channels">>, "events") = <<"channels", "events">>
          BY Pairs
        <4>2. posted' \in {<<"events">>, <<"channels", "events">>}
          BY <4>1, <4>3, Zenon
        <4>4. posted' # <<>> /\ step' = 35
          BY <2>1, <3>3, <4>2
        <4> QED BY <4>2, <4>4 DEF InFlightOK
      <3>4. CASE step \in {22, 30, 33, 37}
        <4>1. posted' = Append(posted, Table[step].of) /\ posted = <<>>
          BY <1>1, <3>4, Due DEF Post, PostedOK, InFlightOK
        <4>2. posted' = <<Table[step].of>> /\ step' \in {23, 31, 34, 38}
          BY <2>1, <3>4, <4>1
        <4>3. /\ step' = 23 => posted' = <<"stop">>
              /\ step' = 31 => posted' = <<"reset">>
              /\ step' = 34 => posted' = <<"channels">>
              /\ step' = 38 => posted' = <<"run">>
          BY <1>1, <2>1, <4>2, SubjectAt
        <4>4. posted' # <<>>
          BY <4>2
        <4> QED BY <4>2, <4>3, <4>4 DEF InFlightOK
      <3> QED BY <1>3, <3>1, <3>2, <3>3, <3>4
    <2> QED BY <1>1, <1>2, <1>3, <2>1, <2>2 DEF PostedOK
  <1>4. CASE step \in {21, 23, 31, 35, 38}
    <2>1. posted = <<>> /\ posted' = <<>> /\ step' = step + 1
      BY <1>1, <1>2, <1>4, Due DEF AwaitAon
    <2>2. InFlightOK'
      BY <2>1 DEF InFlightOK
    <2> QED BY <1>1, <1>2, <1>4, <2>1, <2>2 DEF PostedOK
  <1>5. CASE step \notin {16, 20, 22, 30, 33, 34, 37, 21, 23, 31, 35, 38}
    <2>1. UNCHANGED posted
      BY <1>1, <1>5, LeftAlone
    <2>2. InFlightOK'
      BY <1>1, <1>2, <1>5, <2>1 DEF PostedOK, InFlightOK
    <2> QED BY <1>1, <1>2, <1>5, <2>1, <2>2 DEF PostedOK
  <1> QED BY <1>3, <1>4, <1>5

LEMMA BootKeepsHandshake == ASSUME BootInv, BootStep PROVE HandshakeOK'
  <1>1. CpuOK /\ HandshakeOK /\ step \in 1 .. 40
    BY Due DEF BootInv
  <1>2. /\ step' = step + 1 \/ (step' = step /\ step \in {15, 17, 27, 29, 32, 40})
        /\ UNCHANGED ack
    BY <1>1, Moves, LeftAlone
  <1>3. CASE step \in {24, 25}
    <2>1. shadow' = [shadow EXCEPT ![Table[step].of] = TRUE]
      BY <1>1, <1>3, Due DEF WriteShadow
    <2>2. UNCHANGED <<request, increment>>
      BY <1>1, <1>3, LeftAlone
    <2>3. step' = step + 1
      BY <1>2, <1>3
    <2>5. ASSUME step = 24
          PROVE  /\ shadow' \in [low : BOOLEAN, high : BOOLEAN]
                 /\ shadow'.low /\ shadow'.high = shadow.high
      <3>1. shadow \in [low : BOOLEAN, high : BOOLEAN] /\ shadow' = [shadow EXCEPT !["low"] = TRUE]
        BY <1>1, <2>1, <2>5, SubjectAt DEF HandshakeOK
      <3> QED BY <3>1
    <2>6. ASSUME step = 25
          PROVE  /\ shadow' \in [low : BOOLEAN, high : BOOLEAN]
                 /\ shadow'.high /\ shadow'.low = shadow.low
      <3>1. shadow \in [low : BOOLEAN, high : BOOLEAN] /\ shadow' = [shadow EXCEPT !["high"] = TRUE]
        BY <1>1, <2>1, <2>6, SubjectAt DEF HandshakeOK
      <3> QED BY <3>1
    <2> QED BY <1>1, <1>2, <1>3, <2>2, <2>3, <2>5, <2>6 DEF HandshakeOK
  <1>4. CASE step \in {26, 28}
    <2>1. request' = (Table[step].of = "set")
      BY <1>1, <1>4, Due DEF WriteRequest
    <2>2. UNCHANGED <<shadow, increment>>
      BY <1>1, <1>4, LeftAlone
    <2>3. step' = step + 1
      BY <1>2, <1>4
    <2>4. request' \in BOOLEAN /\ (step = 26 => request') /\ (step = 28 => ~request')
      <3>1. (step = 26 => Table[step].of = "set") /\ (step = 28 => Table[step].of # "set")
        BY SubjectAt
      <3> QED BY <2>1, <3>1
    <2> QED BY <1>1, <1>2, <1>4, <2>2, <2>3, <2>4 DEF HandshakeOK
  <1>5. CASE step = 16
    <2>1. increment' = "temporary"
      BY <1>1, <1>5, Due DEF Trim
    <2>2. UNCHANGED <<shadow, request>>
      BY <1>1, <1>5, LeftAlone
    <2> QED BY <1>1, <1>2, <1>5, <2>1, <2>2 DEF HandshakeOK
  <1>6. CASE step \notin {16, 24, 25, 26, 28}
    <2>1. UNCHANGED <<shadow, request, increment>>
      BY <1>1, <1>6, LeftAlone
    <2>4. step \in {27, 29} /\ step' = step + 1 => Ready
      BY <1>1, Due DEF Poll, EnterPanic
    <2>5. (step = 27 => Subject = "ack") /\ (step = 29 => Subject = "idle")
      BY <1>1, Due, SubjectAt
    <2>2. step = 27 /\ step' = 28 => ack
      BY <2>4, <2>5 DEF Ready
    <2>3. step = 29 /\ step' = 30 => ~ack
      BY <2>4, <2>5 DEF Ready
    <2> QED BY <1>1, <1>2, <1>6, <2>1, <2>2, <2>3 DEF HandshakeOK
  <1> QED BY <1>3, <1>4, <1>5, <1>6

LEMMA BootKeepsEpoch == ASSUME BootInv, BootStep PROVE EpochOK'
  <1>1. CpuOK /\ PostedOK /\ EpochOK /\ step \in 1 .. 40
    BY Due DEF BootInv
  <1>2. /\ step' = step + 1 \/ (step' = step /\ step \in {15, 17, 27, 29, 32, 40})
        /\ UNCHANGED <<epoch, resetting>>
    BY <1>1, Moves, LeftAlone
  <1>3. CASE step = 30
    <2>1. posted' = Append(posted, "reset") /\ posted = <<>>
      BY <1>1, <1>3, Due, SubjectAt DEF Post, PostedOK, InFlightOK
    <2>2. posted' # <<>>
      BY <2>1
    <2> QED BY <1>1, <1>2, <1>3, <2>2 DEF EpochOK
  <1>4. CASE step = 31
    <2>1. posted = <<>>
      BY <1>1, <1>4, Due DEF AwaitAon
    <2> QED BY <1>1, <1>2, <1>4, <2>1 DEF EpochOK
  <1>5. CASE step = 32
    <2>1. step' = 33 => ~resetting
      BY <1>1, <1>5, Due, SubjectAt DEF Poll, Ready, EnterPanic
    <2> QED BY <1>1, <1>2, <1>5, <2>1 DEF EpochOK
  <1>6. CASE step \notin {30, 31, 32}
    BY <1>1, <1>2, <1>6 DEF EpochOK
  <1> QED BY <1>3, <1>4, <1>5, <1>6

LEMMA BootKeepsAlarms == ASSUME BootInv, BootStep PROVE AlarmsOK'
  <1>1. CpuOK /\ PostedOK /\ AlarmsOK /\ step \in 1 .. 40
    BY Due DEF BootInv
  <1>2. /\ step' = step + 1 \/ (step' = step /\ step \in {15, 17, 27, 29, 32, 40})
        /\ UNCHANGED <<channels, event>>
    BY <1>1, Moves, LeftAlone
  <1>3. CASE step = 33
    <2>1. posted' = Append(posted, "channels") /\ posted = <<>>
      BY <1>1, <1>3, Due, SubjectAt DEF Post, PostedOK, InFlightOK
    <2>2. posted' # <<>> /\ UNCHANGED pending
      BY <1>1, <1>3, <2>1, LeftAlone
    <2> QED BY <1>1, <1>2, <1>3, <2>2 DEF AlarmsOK
  <1>4. CASE step = 34
    <2>1. posted' = Append(posted, "events") /\ posted \in {<<>>, <<"channels">>}
      BY <1>1, <1>4, Due, SubjectAt DEF Post, PostedOK, InFlightOK
    <2>2. posted' # <<>>
      BY <2>1
    <2>4. posted # <<>> => posted' = <<"channels", "events">>
      BY <2>1, Pairs
    <2>3. UNCHANGED pending
      BY <1>1, <1>4, LeftAlone
    <2> QED BY <1>1, <1>2, <1>4, <2>2, <2>3, <2>4 DEF AlarmsOK
  <1>5. CASE step = 35
    <2>1. posted = <<>> /\ UNCHANGED pending /\ step' = 36
      BY <1>1, <1>2, <1>5, Due, LeftAlone DEF AwaitAon
    <2> QED BY <1>1, <1>2, <1>5, <2>1 DEF AlarmsOK
  <1>6. CASE step = 36
    <2>1. ~pending' /\ pending' \in BOOLEAN
      BY <1>1, <1>6, Due DEF Unpend
    <2> QED BY <1>1, <1>2, <1>6, <2>1 DEF AlarmsOK
  <1>7. CASE step \notin {33, 34, 35, 36}
    <2>1. UNCHANGED pending
      BY <1>1, <1>7, LeftAlone
    <2> QED BY <1>1, <1>2, <1>7, <2>1 DEF AlarmsOK
  <1> QED BY <1>3, <1>4, <1>5, <1>6, <1>7

LEMMA BootKeeps == ASSUME BootInv, BootStep PROVE BootInv'
  BY BootKeepsCpu, BootKeepsCore, BootKeepsRecord, BootKeepsClock, BootKeepsPosted,
     BootKeepsHandshake, BootKeepsEpoch, BootKeepsAlarms DEF BootInv

-----------------------------------------------------------------------------
(* The hardware keeps it *)

\* The parts of the invariant that are about the CPU ask for nothing else.
LEMMA CpuSame ==
    ASSUME CpuOK, CoreOK, RecordOK, UNCHANGED <<cpu, record>>
    PROVE  CpuOK' /\ CoreOK' /\ RecordOK'
  <1>1. /\ UNCHANGED <<pc, step, polls, store, level, primask, vectors, stack, limit, settings>>
        /\ UNCHANGED <<faults, magic, stage, words>>
    BY DEF cpu, core, record
  <1> QED BY <1>1 DEF CpuOK, CoreOK, RecordOK, AllFrom, Stored, Terminal, Origin

\* What Land does, by the write that lands
LEMMA Landing ==
    ASSUME BootInv, Land
    PROVE  /\ step \in Nat
           /\ step \in 17 .. 20 => Head(posted) = "run" /\ posted' = <<>>
           /\ step = 21 => \/ Head(posted) = "loss_reset" /\ posted' = <<>>
                           \/ Head(posted) = "run" /\ posted' = <<"loss_reset">>
           /\ step = 23 => Head(posted) = "stop" /\ posted' = <<>>
           /\ step = 31 => Head(posted) = "reset" /\ posted' = <<>>
           /\ step = 34 => Head(posted) = "channels" /\ posted' = <<>>
           /\ step = 35 => \/ Head(posted) = "events" /\ posted' = <<>> /\ posted = <<"events">>
                           \/ Head(posted) = "channels" /\ posted' = <<"events">>
           /\ step = 38 => Head(posted) = "run" /\ posted' = <<>>
           /\ step \in 17 .. 21 \cup {23, 31, 34, 35, 38}
  <1>8. step \in Nat
    BY DEF BootInv, CpuOK
  <1>1. step \in Nat /\ InFlightOK
    BY <1>8 DEF BootInv, PostedOK
  <1>2. posted # <<>> /\ posted' = Tail(posted)
    BY DEF Land
  <1>3. \A x : Head(<<x>>) = x /\ Tail(<<x>>) = <<>>
    OBVIOUS
  <1>4. \A x, y : Head(<<x, y>>) = x
    OBVIOUS
  <1>5. CASE step = 21
    <2>1. posted \in {<<"loss_reset">>, <<"run", "loss_reset">>}
      BY <1>1, <1>2, <1>5 DEF InFlightOK
    <2>2. \/ Head(posted) = "loss_reset" /\ posted' = <<>>
          \/ Head(posted) = "run" /\ posted' = <<"loss_reset">>
      BY <1>2, <1>3, <1>4, <2>1, Pairs, Zenon
    <2> QED BY <1>1, <1>5, <2>2
  <1>6. CASE step = 35
    <2>1. posted \in {<<"events">>, <<"channels", "events">>}
      BY <1>1, <1>2, <1>6 DEF InFlightOK
    <2>2. \/ Head(posted) = "events" /\ posted' = <<>> /\ posted = <<"events">>
          \/ Head(posted) = "channels" /\ posted' = <<"events">>
      BY <1>2, <1>3, <1>4, <2>1, Pairs, Zenon
    <2> QED BY <1>1, <1>6, <2>2
  <1>7. CASE step \notin {21, 35}
    <2>1. /\ step \in 17 .. 20 \cup {23, 31, 34, 38}
          /\ step \in 17 .. 20 \cup {38} => posted = <<"run">>
          /\ step = 23 => posted = <<"stop">>
          /\ step = 31 => posted = <<"reset">>
          /\ step = 34 => posted = <<"channels">>
      BY <1>1, <1>2, <1>7 DEF InFlightOK
    <2> QED BY <1>1, <1>2, <1>3, <1>7, <2>1
  <1> QED BY <1>5, <1>6, <1>7

LEMMA LandKeeps == ASSUME BootInv, Land PROVE BootInv'
  <1>1. /\ step \in Nat /\ CpuOK /\ CoreOK /\ RecordOK
        /\ ClockOK /\ PostedOK /\ HandshakeOK /\ EpochOK /\ AlarmsOK
    BY DEF BootInv, CpuOK
  <1>11. /\ UNCHANGED <<cpu, record, memory, fit, lf, qualifiers>>
         /\ UNCHANGED <<detector, losses, epoch, handshake, pending>>
    BY DEF Land
  <1>2. UNCHANGED <<pc, step, shadow, increment, request, ack>>
    BY <1>11 DEF cpu, handshake
  <1>3. /\ lossReset \in BOOLEAN /\ running \in BOOLEAN /\ resetting \in BOOLEAN
        /\ channels \in BOOLEAN /\ event \in BOOLEAN
    BY DEF BootInv, PostedOK, EpochOK, AlarmsOK
  <1>4. /\ Head(posted) \in {"stop", "reset"} => ~running'
        /\ Head(posted) = "run" => running'
        /\ Head(posted) \notin {"stop", "reset", "run"} => (running' <=> running)
        /\ resetting' <=> resetting \/ Head(posted) = "reset"
        /\ lossReset' <=> lossReset \/ Head(posted) = "loss_reset"
        /\ channels' <=> channels /\ Head(posted) # "channels"
        /\ event' <=> event /\ Head(posted) # "events"
    BY <1>3 DEF Land
  <1>5. InFlightOK'
    BY <1>2, Landing DEF InFlightOK
  <1>6. /\ lossReset' \in BOOLEAN /\ running' \in BOOLEAN /\ resetting' \in BOOLEAN
        /\ channels' \in BOOLEAN /\ event' \in BOOLEAN
    BY <1>3 DEF Land
  <1>7. PostedOK'
    <2>1. /\ step <= 20 => ~lossReset
          /\ step > 21 => lossReset
          /\ step \in 24 .. 37 => ~running
          /\ step > 38 => running
      BY <1>1 DEF PostedOK
    <2>2. /\ step = 21 => lossReset' \/ posted' # <<>>
          /\ step = 23 => ~running'
          /\ step = 38 => running' /\ posted' = <<>>
      <3>1. <<"loss_reset">> # <<>>
        OBVIOUS
      <3>2. step = 21 => Head(posted) = "loss_reset" \/ posted' # <<>>
        BY <3>1, Landing
      <3> QED BY <1>4, <3>2, Landing
    <2>3. step <= 20 => ~lossReset'
      <3>1. step <= 20 => Head(posted) = "run"
        BY <1>1, Landing
      <3> QED BY <1>4, <2>1, <3>1
    <2>4. step > 21 => lossReset'
      BY <1>4, <2>1
    <2>5. step \in 24 .. 37 => ~running'
      <3>1. step \in 24 .. 37 => Head(posted) \in {"reset", "channels", "events"}
        BY <1>1, Landing
      <3> QED BY <1>4, <2>1, <3>1
    <2>6. step <= 38
      BY <1>1, Landing
    <2> QED BY <1>1, <1>2, <1>5, <1>6, <2>2, <2>3, <2>4, <2>5, <2>6 DEF PostedOK
  <1>8. EpochOK'
    <2>1. step = 31 <=> Head(posted) = "reset"
      BY <1>1, Landing
    <2>2. (step = 31 => resetting') /\ (step # 31 => (resetting' <=> resetting))
      BY <1>4, <2>1
    <2>3. UNCHANGED <<step, epoch>>
      BY <1>2, <1>11
    <2> QED BY <1>1, <1>6, <2>2, <2>3 DEF EpochOK
  <1>9. AlarmsOK'
    <2>1. /\ step = 34 => Head(posted) = "channels"
          /\ step = 35 => \/ Head(posted) = "events" /\ posted = <<"events">>
                          \/ Head(posted) = "channels" /\ posted' = <<"events">>
      BY Landing
    <2>2. <<"events">> # <<>> /\ <<"events">> # <<"channels", "events">>
      OBVIOUS
    <2>3. (step = 34 => ~channels') /\ (step = 35 => ~channels' /\ (~event' \/ posted' # <<>>))
      BY <1>1, <1>4, <2>1, <2>2 DEF AlarmsOK
    <2>4. (step > 35 => ~channels' /\ ~event') /\ (step > 36 => ~pending)
      BY <1>1, <1>4 DEF AlarmsOK
    <2>5. UNCHANGED <<step, pending>> /\ pending \in BOOLEAN
      BY <1>1, <1>2, <1>11 DEF AlarmsOK
    <2> QED BY <1>1, <1>6, <2>3, <2>4, <2>5 DEF AlarmsOK
  <1>10. ClockOK' /\ HandshakeOK'
    BY <1>1, <1>2, <1>11 DEF ClockOK, HandshakeOK
  <1> QED BY <1>1, <1>7, <1>8, <1>9, <1>10, <1>11, CpuSame DEF BootInv

LEMMA SelectCrystalKeeps == ASSUME BootInv, SelectCrystal PROVE BootInv'
  <1>1. /\ CpuOK /\ CoreOK /\ RecordOK /\ ClockOK /\ PostedOK /\ HandshakeOK /\ EpochOK /\ AlarmsOK
        /\ lf = "switching" /\ lf' = "crystal"
        /\ UNCHANGED <<cpu, record, memory, fit, qualifiers, detector, lossReset, losses, posted>>
        /\ UNCHANGED <<running, resetting, epoch, shadow, increment, request, ack>>
        /\ UNCHANGED <<channels, event, pending>>
    BY DEF BootInv, SelectCrystal, rtc, handshake, alarms
  <1>2. step \in Nat /\ UNCHANGED step
    BY <1>1 DEF CpuOK, cpu
  <1>3. ClockOK'
    BY <1>1, <1>2 DEF ClockOK
  <1>4. PostedOK' /\ HandshakeOK' /\ EpochOK' /\ AlarmsOK'
    BY <1>1, <1>2 DEF PostedOK, InFlightOK, HandshakeOK, EpochOK, AlarmsOK
  <1> QED BY <1>1, <1>3, <1>4, CpuSame DEF BootInv

LEMMA RtcTickKeeps == ASSUME BootInv, RtcTick PROVE BootInv'
  <1>1. /\ CpuOK /\ CoreOK /\ RecordOK /\ ClockOK /\ PostedOK /\ HandshakeOK /\ EpochOK /\ AlarmsOK
        /\ running
        /\ UNCHANGED <<cpu, record, memory, fit, lf, qualifiers, detector, lossReset, losses>>
        /\ UNCHANGED <<posted, running, resetting, shadow, increment, request, ack>>
        /\ UNCHANGED <<channels, pending>>
    BY DEF BootInv, RtcTick, clocks, handshake
  <1>6. step \in Nat /\ UNCHANGED step
    BY <1>1 DEF CpuOK, cpu
  <1>7. step \notin 24 .. 37
    BY <1>1, <1>6 DEF PostedOK
  <1>2. step \in Nat /\ UNCHANGED step /\ step \notin 24 .. 37
    BY <1>6, <1>7
  <1>3. EpochOK'
    <2>1. epoch' \in {"exact", "mixed"}
      BY DEF RtcTick
    <2>2. CASE step > 30
      <3>1. lf = "crystal" /\ increment = "exact" /\ epoch # "mixed"
        BY <1>1, <1>2, <2>2 DEF ClockOK, HandshakeOK, EpochOK
      <3>2. epoch' = "exact"
        BY <3>1 DEF RtcTick
      <3> QED BY <1>1, <1>2, <3>2 DEF EpochOK
    <2> QED BY <1>1, <1>2, <2>1, <2>2 DEF EpochOK
  <1>4. AlarmsOK'
    <2>1. channels \in BOOLEAN /\ event \in BOOLEAN /\ event' \in {event, event \/ channels}
      BY <1>1 DEF AlarmsOK, RtcTick
    <2>2. event' \in BOOLEAN /\ (~channels => event' = event)
      BY <2>1
    <2> QED BY <1>1, <1>2, <2>2 DEF AlarmsOK
  <1>5. ClockOK' /\ PostedOK' /\ HandshakeOK'
    BY <1>1, <1>2 DEF ClockOK, PostedOK, InFlightOK, HandshakeOK
  <1> QED BY <1>1, <1>3, <1>4, <1>5, CpuSame DEF BootInv

LEMMA RtcResetKeeps == ASSUME BootInv, RtcReset PROVE BootInv'
  <1>1. /\ CpuOK /\ CoreOK /\ RecordOK /\ ClockOK /\ PostedOK /\ HandshakeOK /\ EpochOK /\ AlarmsOK
        /\ ~resetting' /\ resetting' \in BOOLEAN /\ epoch' = "zero"
        /\ UNCHANGED <<cpu, record, memory, fit, lf, qualifiers, detector, lossReset, losses>>
        /\ UNCHANGED <<posted, running, shadow, increment, request, ack>>
        /\ UNCHANGED <<channels, event, pending>>
    BY DEF BootInv, RtcReset, clocks, handshake, alarms
  <1>2. step \in Nat /\ UNCHANGED step
    BY <1>1 DEF CpuOK, cpu
  <1>3. EpochOK'
    BY <1>1, <1>2 DEF EpochOK
  <1>4. ClockOK' /\ PostedOK' /\ HandshakeOK' /\ AlarmsOK'
    BY <1>1, <1>2 DEF ClockOK, PostedOK, InFlightOK, HandshakeOK, AlarmsOK
  <1> QED BY <1>1, <1>3, <1>4, CpuSame DEF BootInv

LEMMA AcknowledgeKeeps == ASSUME BootInv, Acknowledge PROVE BootInv'
  <1>1. /\ CpuOK /\ CoreOK /\ RecordOK /\ ClockOK /\ PostedOK /\ HandshakeOK /\ EpochOK /\ AlarmsOK
        /\ ack # request /\ ack' = request
        /\ UNCHANGED <<cpu, record, memory, fit, lf, qualifiers, detector, lossReset, losses>>
        /\ UNCHANGED <<posted, running, resetting, epoch, shadow, request>>
        /\ UNCHANGED <<channels, event, pending>>
    BY DEF BootInv, Acknowledge, clocks, alarms
  <1>2. step \in Nat /\ UNCHANGED step
    BY <1>1 DEF CpuOK, cpu
  <1>3. request \in BOOLEAN /\ ack \in BOOLEAN /\ step \in {27, 29}
    BY <1>1, <1>2 DEF HandshakeOK
  <1>4. /\ step = 27 => request /\ shadow.low /\ shadow.high
        /\ step = 29 => ~request /\ increment = "exact"
    BY <1>1, <1>3 DEF HandshakeOK
  <1>5. increment' = "exact" /\ (step = 29 => ~ack')
    BY <1>1, <1>3, <1>4 DEF Acknowledge
  <1>6. HandshakeOK'
    BY <1>1, <1>2, <1>3, <1>4, <1>5 DEF HandshakeOK
  <1>7. ClockOK' /\ PostedOK' /\ EpochOK' /\ AlarmsOK'
    BY <1>1, <1>2 DEF ClockOK, PostedOK, InFlightOK, EpochOK, AlarmsOK
  <1> QED BY <1>1, <1>6, <1>7, CpuSame DEF BootInv

LEMMA PendKeeps == ASSUME BootInv, Pend PROVE BootInv'
  <1>1. /\ CpuOK /\ CoreOK /\ RecordOK /\ ClockOK /\ PostedOK /\ HandshakeOK /\ EpochOK /\ AlarmsOK
        /\ event /\ pending' \in BOOLEAN
        /\ UNCHANGED <<cpu, record, memory, fit, lf, qualifiers, detector, lossReset, losses>>
        /\ UNCHANGED <<posted, running, resetting, epoch, shadow, increment, request, ack>>
        /\ UNCHANGED <<channels, event>>
    BY DEF BootInv, Pend, clocks, handshake
  <1>2. step \in Nat /\ UNCHANGED step
    BY <1>1 DEF CpuOK, cpu
  <1>3. AlarmsOK'
    BY <1>1, <1>2 DEF AlarmsOK
  <1>4. ClockOK' /\ PostedOK' /\ HandshakeOK' /\ EpochOK'
    BY <1>1, <1>2 DEF ClockOK, PostedOK, InFlightOK, HandshakeOK, EpochOK
  <1> QED BY <1>1, <1>3, <1>4, CpuSame DEF BootInv

LEMMA LoseClockKeeps == ASSUME BootInv, LoseClock PROVE BootInv'
  <1>1. /\ pc' = "boot" /\ step' = 1 /\ polls' = 0 /\ store' = 0
        /\ level' = "thread" /\ primask' \in BOOLEAN
        /\ vectors' = "rom" /\ stack' = "rom" /\ limit' = "none" /\ settings' = {} /\ faults' = 0
    BY DEF LoseClock
  <1>2. /\ memory' = "raw" /\ UNCHANGED <<fit, magic, stage, words>>
        /\ losses < MaxLosses /\ losses' = losses + 1
        /\ lf' = "derived" /\ qualifiers' \in BOOLEAN
        /\ ~detector' /\ detector' \in BOOLEAN /\ ~lossReset' /\ lossReset' \in BOOLEAN
    BY DEF LoseClock, record
  <1>3. /\ posted' = <<>>
        /\ running' \in BOOLEAN /\ ~resetting' /\ resetting' \in BOOLEAN /\ epoch' = "mixed"
        /\ channels' \in BOOLEAN /\ event' \in BOOLEAN /\ ~pending' /\ pending' \in BOOLEAN
    BY DEF LoseClock
  <1>4. /\ shadow' = [low |-> FALSE, high |-> FALSE] /\ increment' = "unknown"
        /\ ~request' /\ request' \in BOOLEAN /\ ~ack' /\ ack' \in BOOLEAN
    BY DEF LoseClock
  <1>12. shadow' \in [low : BOOLEAN, high : BOOLEAN] /\ ~shadow'.low /\ ~shadow'.high
    BY <1>4
  <1>5. CpuOK'
    BY <1>1, BudgetAssumption DEF CpuOK
  <1>6. CoreOK'
    BY <1>1 DEF CoreOK
  <1>7. RecordOK'
    BY <1>1, <1>2 DEF BootInv, RecordOK, AllFrom
  <1>8. ClockOK'
    BY <1>1, <1>2, LossesAssumption DEF BootInv, ClockOK
  <1>9. PostedOK'
    BY <1>1, <1>2, <1>3 DEF PostedOK, InFlightOK
  <1>10. HandshakeOK'
    BY <1>1, <1>4, <1>12 DEF HandshakeOK
  <1>11. EpochOK' /\ AlarmsOK'
    BY <1>1, <1>3 DEF EpochOK, AlarmsOK
  <1> QED BY <1>5, <1>6, <1>7, <1>8, <1>9, <1>10, <1>11 DEF BootInv

-----------------------------------------------------------------------------
(* The ends keep it *)

\* The parts of the invariant that are not about the CPU ask only how far the
\* boot has come.
LEMMA HardwareSame ==
    ASSUME BootInv, UNCHANGED <<step, memory, clocks, posted, rtc>>
    PROVE  ClockOK' /\ PostedOK' /\ HandshakeOK' /\ EpochOK' /\ AlarmsOK'
  <1>1. ClockOK /\ PostedOK /\ HandshakeOK /\ EpochOK /\ AlarmsOK
    BY DEF BootInv
  <1>2. /\ UNCHANGED <<step, memory, fit, lf, qualifiers, detector, lossReset, losses, posted>>
        /\ UNCHANGED <<running, resetting, epoch, shadow, increment, request, ack>>
        /\ UNCHANGED <<channels, event, pending>>
    BY DEF clocks, rtc, handshake, alarms
  <1> QED BY <1>1, <1>2 DEF ClockOK, PostedOK, InFlightOK, HandshakeOK, EpochOK, AlarmsOK

LEMMA ApplicationKeeps == ASSUME BootInv, Application PROVE BootInv'
  <1>1. CpuOK /\ CoreOK /\ RecordOK /\ pc = "main"
    BY DEF BootInv, Application
  <1>2. /\ pc' = pc \/ (pc' = "panic" /\ store' = 0)
        /\ UNCHANGED <<step, polls, level, vectors, stack, limit, settings, faults>>
        /\ pc' = pc => UNCHANGED store
        /\ UNCHANGED <<record, memory, clocks, posted, rtc>>
    BY DEF Application, EnterPanic, core
  <1>3. primask' \in BOOLEAN
    BY <1>1 DEF CpuOK, Application, EnterPanic
  <1>4. step = 40 /\ level = "thread" /\ UNCHANGED <<magic, stage, words>>
    BY <1>1, <1>2 DEF CpuOK, record
  <1>5. CpuOK'
    BY <1>1, <1>2, <1>3, <1>4 DEF CpuOK
  <1>6. CoreOK'
    BY <1>1, <1>2, <1>4 DEF CoreOK
  <1>7. RecordOK'
    <2>1. magic /\ stage = "application" /\ \A w \in Words : words[w] = "zero"
      BY <1>1 DEF RecordOK, AllFrom
    <2>2. pc' = "panic" => Stored' = {}
      BY <1>1, <1>2 DEF Stored, Words
    <2> QED BY <1>1, <1>2, <1>4, <2>1, <2>2 DEF RecordOK, AllFrom
  <1> QED BY <1>2, <1>5, <1>6, <1>7, HardwareSame DEF BootInv

LEMMA FaultKeeps == ASSUME BootInv, Fault PROVE BootInv'
  <1>1. CpuOK /\ CoreOK /\ RecordOK /\ pc \notin {"lockup", "rom"}
    BY DEF BootInv, Fault
  <1>2. /\ faults' = faults + 1
        /\ UNCHANGED <<step, polls, primask, vectors, stack, limit, settings>>
        /\ UNCHANGED <<record, memory, clocks, posted, rtc>>
    BY DEF Fault
  <1>8. level \in {"thread", "configurable", "hard"} /\ step \in 1 .. 40
    BY <1>1 DEF CpuOK
  <1>9. vectors # "rom" => TakeFault
    BY DEF Fault
  <1>10. vectors = "rom" => pc' = "rom" /\ UNCHANGED <<store, level>>
    BY DEF Fault
  <1>3. \/ vectors = "rom" /\ pc' = "rom" /\ UNCHANGED <<store, level>>
        \/ vectors # "rom" /\ level = "hard" /\ pc' = "lockup" /\ UNCHANGED <<store, level>>
        \/ vectors # "rom" /\ level = "configurable" /\ pc' = "entry" /\ store' = 1
           /\ level' = "hard"
        \/ vectors # "rom" /\ level = "thread" /\ pc' = "entry" /\ store' = 1
           /\ level' \in {"configurable", "hard"}
    BY <1>8, <1>9, <1>10 DEF TakeFault
  <1>12. vectors = IF step > 4 THEN "ours" ELSE "rom"
    BY <1>1 DEF CoreOK
  <1>4. vectors = "rom" => step <= 4
    BY <1>8, <1>12
  <1>11. vectors # "rom" => step > 4
    BY <1>8, <1>12
  <1>5. CpuOK'
    <2>1. CASE vectors = "rom"
      <3>1. pc = "boot" /\ level = "thread" /\ faults = 0
        BY <1>1, <1>4, <1>8, <2>1 DEF CpuOK
      <3> QED BY <1>1, <1>2, <1>4, <1>10, <2>1, <3>1 DEF CpuOK
    <2>2. CASE vectors # "rom"
      <3>1. step > 4 /\ pc' \in {"entry", "lockup"} /\ store' \in 0 .. 7
        BY <1>1, <1>3, <1>11, <2>2 DEF CpuOK
      <3>2. /\ pc' = "lockup" => level' = "hard" /\ faults' \in {2, 3}
            /\ pc' = "entry" => /\ store' > 0 /\ faults' \in {1, 2}
                                /\ level' = "hard" \/ (level' = "configurable" /\ faults' = 1)
        <4>1. /\ level = "thread" => faults = 0
              /\ level = "configurable" => faults = 1
              /\ level = "hard" => faults \in {1, 2}
          BY <1>1 DEF CpuOK
        <4>2. CASE level = "hard"
          BY <1>2, <1>3, <2>2, <4>1, <4>2
        <4>3. CASE level = "configurable"
          BY <1>2, <1>3, <2>2, <4>1, <4>3
        <4>4. CASE level = "thread"
          BY <1>2, <1>3, <2>2, <4>1, <4>4
        <4> QED BY <1>8, <4>2, <4>3, <4>4
      <3>3. step' = step /\ step' \in 1 .. 40 /\ polls' \in 0 .. Budget - 1 /\ primask' \in BOOLEAN
        BY <1>1, <1>2 DEF CpuOK
      <3>4. CASE pc' = "lockup"
        BY <3>1, <3>2, <3>3, <3>4 DEF CpuOK
      <3>5. CASE pc' = "entry"
        <4>1. /\ level' \in {"configurable", "hard"} /\ store' \in 1 .. 7 /\ step' > 4
              /\ faults' \in {1, 2} /\ (level' = "configurable" => faults' = 1)
          BY <3>1, <3>2, <3>3, <3>5
        <4> QED BY <3>3, <3>5, <4>1 DEF CpuOK
      <3> QED BY <3>1, <3>4, <3>5
    <2> QED BY <2>1, <2>2
  <1>6. CoreOK'
    BY <1>1, <1>2, <1>3 DEF CoreOK
  <1>7. RecordOK'
    BY <1>1, <1>2, <1>3 DEF RecordOK, AllFrom, record
  <1> QED BY <1>2, <1>5, <1>6, <1>7, HardwareSame DEF BootInv

LEMMA FaultEntryKeeps == ASSUME BootInv, FaultEntry PROVE BootInv'
  <1>1. CpuOK /\ CoreOK /\ RecordOK /\ pc = "entry"
    BY DEF BootInv, FaultEntry
  <1>2. /\ UNCHANGED <<step, polls, vectors, settings, faults>>
        /\ UNCHANGED <<record, memory, clocks, posted, rtc>>
    BY DEF FaultEntry
  <1>3. store = 3 => limit = "none"
    BY <1>1 DEF CoreOK
  <1>4. /\ UNCHANGED level
        /\ \/ store = 1 /\ store' = 2 /\ UNCHANGED <<pc, stack, limit>>
           \/ store = 2 /\ limit' = "none" /\ store' = 3 /\ UNCHANGED <<pc, stack>>
           \/ store = 3 /\ pc' = "capture" /\ stack' = "fault" /\ store' = 1 /\ UNCHANGED limit
    BY <1>3 DEF FaultEntry
  <1>5. primask' \in BOOLEAN
    BY <1>1 DEF CpuOK, FaultEntry
  <1>6. CpuOK'
    BY <1>1, <1>2, <1>4, <1>5 DEF CpuOK
  <1>7. CoreOK'
    BY <1>1, <1>2, <1>3, <1>4 DEF CoreOK
  <1>8. RecordOK'
    <2>1. pc' = "capture" => Stored' = {}
      BY <1>1, <1>4 DEF Stored, Words
    <2> QED BY <1>1, <1>2, <1>4, <2>1 DEF RecordOK, AllFrom, record
  <1> QED BY <1>2, <1>6, <1>7, <1>8, HardwareSame DEF BootInv

LEMMA MaskInterruptsKeeps == ASSUME BootInv, MaskInterrupts PROVE BootInv'
  <1>1. CpuOK /\ CoreOK /\ RecordOK /\ pc = "panic" /\ store = 0
    BY DEF BootInv, MaskInterrupts
  <1>2. /\ UNCHANGED <<pc, step, polls, level, vectors, stack, limit, settings, faults>>
        /\ store' = 1
        /\ UNCHANGED <<record, memory, clocks, posted, rtc>>
    BY DEF MaskInterrupts, core
  <1>3. primask' \in BOOLEAN
    BY DEF MaskInterrupts
  <1>4. CpuOK' /\ CoreOK'
    BY <1>1, <1>2, <1>3 DEF CpuOK, CoreOK
  <1>5. RecordOK'
    <2>1. Stored = {} /\ Stored' = {}
      BY <1>1, <1>2 DEF Stored, Words
    <2> QED BY <1>1, <1>2, <2>1 DEF RecordOK, AllFrom, record
  <1> QED BY <1>2, <1>4, <1>5, HardwareSame DEF BootInv

LEMMA StoreKeeps == ASSUME BootInv, Store PROVE BootInv'
  <1>1. CpuOK /\ CoreOK /\ RecordOK /\ pc \in {"capture", "panic"} /\ store \in 1 .. 7
    BY DEF BootInv, CpuOK, Store
  <1>2. /\ UNCHANGED <<step, polls, level, primask, vectors, stack, limit, settings, faults>>
        /\ UNCHANGED <<memory, clocks, posted, rtc>>
        /\ IF store = 7 THEN store' = 0 /\ pc' = "parked" ELSE store' = store + 1 /\ pc' = pc
    BY DEF Store, core
  <1>3. /\ magic' = TRUE
        /\ words' = IF store \in 2 .. 6 THEN [words EXCEPT ![store - 1] = Origin] ELSE words
        /\ stage' = IF store = 7 THEN Terminal ELSE stage
    BY DEF Store
  <1>4. /\ pc = "capture" => level \in {"configurable", "hard"} /\ Origin = level
        /\ pc = "panic" => level = "thread" /\ Origin = "panic"
        /\ UNCHANGED <<Origin, Terminal>>
    BY <1>1, <1>2 DEF CpuOK, Origin, Terminal
  <1>5. CpuOK'
    BY <1>1, <1>2 DEF CpuOK
  <1>6. CoreOK'
    BY <1>1, <1>2, <1>4 DEF CpuOK, CoreOK
  <1>7. RecordOK'
    <2>1. \A w \in Words : w \in Stored => words[w] = Origin
      BY <1>1, <1>4 DEF RecordOK
    <2>2. CASE store = 7
      <3>1. \A w \in Words : words'[w] = Origin
        BY <1>3, <2>1, <2>2 DEF Stored, Words
      <3> QED BY <1>1, <1>2, <1>3, <1>4, <2>2, <3>1 DEF RecordOK, AllFrom, Terminal, Origin, Stages
    <2>3. CASE store < 7
      <3>1. pc' = pc /\ store' = store + 1 /\ UNCHANGED stage
        BY <1>1, <1>2, <1>3, <2>3
      <3>3. /\ words \in [Words -> {"garbage", "zero", "panic", "configurable", "hard"}]
            /\ Origin \in {"panic", "configurable", "hard"}
        BY <1>1, <1>4 DEF RecordOK
      <3>4. words' \in [Words -> {"garbage", "zero", "panic", "configurable", "hard"}]
        BY <1>3, <3>3
      <3>5. ASSUME NEW w \in Words
            PROVE  words'[w] = IF w \in Stored' THEN Origin ELSE words[w]
        <4>1. (w \in Stored' <=> w < store) /\ (w \in Stored <=> w < store - 1)
          BY <1>1, <3>1 DEF Stored, Words
        <4> QED BY <1>1, <1>3, <2>1, <2>3, <3>3, <4>1 DEF Words
      <3>2. /\ words' \in [Words -> {"garbage", "zero", "panic", "configurable", "hard"}]
            /\ \A w \in Words : words'[w] = IF w \in Stored' THEN Origin ELSE words[w]
        BY <3>4, <3>5
      <3>6. CASE pc = "capture"
        <4>1. \A w \in Stored' : words'[w] = level'
          BY <1>2, <1>4, <3>2, <3>6 DEF Stored
        <4>2. stage = "fault" => \A w \in Words : words'[w] \in {"configurable", "hard"}
          BY <1>1, <1>4, <3>2, <3>6 DEF RecordOK, AllFrom
        <4> QED BY <1>1, <1>3, <3>1, <3>2, <3>6, <4>1, <4>2 DEF RecordOK, AllFrom
      <3>7. CASE pc = "panic"
        <4>1. \A w \in Words : words'[w] = IF w \in Stored' THEN "panic" ELSE "zero"
          <5>1. \A w \in Words : w \in Stored => w \in Stored'
            BY <1>1, <3>1 DEF Stored, Words
          <5> QED BY <1>1, <1>4, <3>2, <3>7, <5>1 DEF RecordOK
        <4>2. step' > 14 /\ stage' \in {"trim", "application"} /\ stage' \in Stages
          BY <1>1, <1>2, <3>1, <3>7 DEF CpuOK, RecordOK
        <4> QED BY <1>3, <3>1, <3>2, <3>7, <4>1, <4>2 DEF RecordOK
      <3> QED BY <1>1, <3>6, <3>7
    <2> QED BY <1>1, <2>2, <2>3
  <1> QED BY <1>2, <1>5, <1>6, <1>7, HardwareSame DEF BootInv

-----------------------------------------------------------------------------
(* The theorems *)

LEMMA BootInvInit == Init => BootInv
  <1> SUFFICES ASSUME Init PROVE BootInv
    OBVIOUS
  <1>1. /\ pc = "boot" /\ step = 1 /\ polls = 0 /\ store = 0
        /\ level = "thread" /\ primask \in BOOLEAN
        /\ vectors = "rom" /\ stack = "rom" /\ limit = "none" /\ settings = {} /\ faults = 0
        /\ stage = "garbage" /\ words = [w \in Words |-> "garbage"]
    BY DEF Init
  <1>2. /\ magic \in BOOLEAN /\ memory = "raw" /\ fit \in BOOLEAN /\ losses = 0
        /\ lf = "derived" /\ qualifiers \in BOOLEAN
        /\ ~detector /\ detector \in BOOLEAN /\ ~lossReset /\ lossReset \in BOOLEAN
    BY DEF Init
  <1>3. /\ posted = <<>>
        /\ running \in BOOLEAN /\ ~resetting /\ resetting \in BOOLEAN /\ epoch = "mixed"
        /\ channels \in BOOLEAN /\ event \in BOOLEAN /\ ~pending /\ pending \in BOOLEAN
    BY DEF Init
  <1>4. /\ shadow = [low |-> FALSE, high |-> FALSE] /\ increment = "unknown"
        /\ ~request /\ request \in BOOLEAN /\ ~ack /\ ack \in BOOLEAN
    BY DEF Init
  <1>5. CpuOK
    BY <1>1, BudgetAssumption DEF CpuOK
  <1>6. CoreOK
    BY <1>1 DEF CoreOK
  <1>7. RecordOK
    BY <1>1, <1>2 DEF RecordOK, Stages
  <1>8. ClockOK
    BY <1>1, <1>2, LossesAssumption DEF ClockOK
  <1>9. PostedOK
    BY <1>1, <1>2, <1>3 DEF PostedOK, InFlightOK
  <1>10. HandshakeOK
    <2>1. shadow \in [low : BOOLEAN, high : BOOLEAN] /\ ~shadow.low /\ ~shadow.high
      BY <1>4
    <2> QED BY <1>1, <1>4, <2>1 DEF HandshakeOK
  <1>11. EpochOK /\ AlarmsOK
    BY <1>1, <1>3 DEF EpochOK, AlarmsOK
  <1> QED BY <1>5, <1>6, <1>7, <1>8, <1>9, <1>10, <1>11 DEF BootInv

LEMMA BootInvNext == BootInv /\ [Next]_vars => BootInv'
  <1> SUFFICES ASSUME BootInv, [Next]_vars PROVE BootInv'
    OBVIOUS
  <1>1. CASE Land
    BY <1>1, LandKeeps
  <1>2. CASE SelectCrystal
    BY <1>2, SelectCrystalKeeps
  <1>3. CASE RtcTick
    BY <1>3, RtcTickKeeps
  <1>4. CASE RtcReset
    BY <1>4, RtcResetKeeps
  <1>5. CASE Acknowledge
    BY <1>5, AcknowledgeKeeps
  <1>6. CASE Pend
    BY <1>6, PendKeeps
  <1>7. CASE LoseClock
    BY <1>7, LoseClockKeeps
  <1>8. CASE BootStep
    BY <1>8, BootKeeps
  <1>9. CASE Application
    BY <1>9, ApplicationKeeps
  <1>10. CASE Fault
    BY <1>10, FaultKeeps
  <1>11. CASE FaultEntry
    BY <1>11, FaultEntryKeeps
  <1>12. CASE MaskInterrupts
    BY <1>12, MaskInterruptsKeeps
  <1>13. CASE Store
    BY <1>13, StoreKeeps
  <1>14. CASE UNCHANGED vars
    <2>1. UNCHANGED <<cpu, step, record, memory, clocks, posted, rtc>>
      BY <1>14 DEF vars, cpu
    <2> QED BY <2>1, CpuSame, HardwareSame DEF BootInv
  <1> QED BY <1>1, <1>2, <1>3, <1>4, <1>5, <1>6, <1>7, <1>8, <1>9, <1>10, <1>11, <1>12, <1>13, <1>14
          DEF Next

\* The invariant holds, whether or not the schedule is fair.
LEMMA BootInvHolds == Spec => []BootInv
  <1> QED BY BootInvInit, BootInvNext, PTL DEF Spec

\* Type correctness of the boot, its one sequence of 40 accesses and its
\* posted writes, of which two at most are ever in flight.
THEOREM BootTypeCorrect == Spec => []TypeOK
  <1>1. BootInv => TypeOK
    <2> SUFFICES ASSUME BootInv PROVE TypeOK
      OBVIOUS
    <2>1. /\ CpuOK /\ CoreOK /\ RecordOK /\ ClockOK /\ PostedOK /\ HandshakeOK
          /\ EpochOK /\ AlarmsOK /\ step \in 1 .. 40 /\ Len(Script) = 40
      BY ScriptIs DEF BootInv, CpuOK
    <2>2. /\ pc \in {"boot", "main", "entry", "capture", "panic", "parked", "lockup", "rom"}
          /\ step \in 1 .. Len(Script) /\ polls \in 0 .. Budget - 1 /\ store \in 0 .. 7
          /\ level \in {"thread", "configurable", "hard"} /\ primask \in BOOLEAN
          /\ faults \in 0 .. 3
      BY <2>1 DEF CpuOK
    <2>3. /\ vectors \in {"rom", "ours"} /\ stack \in {"rom", "main", "fault"}
          /\ limit \in {"none", "main"} /\ settings \subseteq Settings
      BY <2>1 DEF CoreOK
    <2>4. /\ magic \in BOOLEAN /\ stage \in Stages
          /\ words \in [Words -> {"garbage", "zero", "panic", "configurable", "hard"}]
      BY <2>1 DEF RecordOK
    <2>5. /\ memory \in {"raw", "ready"}
          /\ fit \in BOOLEAN /\ lf \in {"derived", "switching", "crystal"}
          /\ qualifiers \in BOOLEAN /\ detector \in BOOLEAN /\ losses \in 0 .. MaxLosses
      BY <2>1 DEF ClockOK
    <2>6. lossReset \in BOOLEAN /\ running \in BOOLEAN
      BY <2>1 DEF PostedOK
    <2>7. posted \in Seq(Writes) /\ Len(posted) <= 2
      <3>1. InFlightOK
        BY <2>1 DEF PostedOK
      <3>2. \A w \in Writes : <<w>> \in Seq(Writes) /\ Len(<<w>>) <= 2
        OBVIOUS
      <3>3. \A w, x \in Writes : <<w, x>> \in Seq(Writes) /\ Len(<<w, x>>) <= 2
        OBVIOUS
      <3>4. \/ posted = <<>>
            \/ \E w \in Writes : posted = <<w>>
            \/ \E w, x \in Writes : posted = <<w, x>>
        <4>1. CASE step = 21
          BY <3>1, <4>1 DEF InFlightOK, Writes
        <4>2. CASE step = 35
          BY <3>1, <4>2 DEF InFlightOK, Writes
        <4>3. CASE step \notin {21, 35}
          BY <2>1, <3>1, <4>3 DEF InFlightOK, Writes
        <4> QED BY <4>1, <4>2, <4>3
      <3>5. <<>> \in Seq(Writes) /\ Len(<<>>) <= 2
        OBVIOUS
      <3> QED BY <3>2, <3>3, <3>4, <3>5, Zenon
    <2>8. /\ resetting \in BOOLEAN /\ epoch \in {"zero", "exact", "mixed"}
          /\ channels \in BOOLEAN /\ event \in BOOLEAN /\ pending \in BOOLEAN
      BY <2>1 DEF EpochOK, AlarmsOK
    <2>9. /\ shadow \in [low : BOOLEAN, high : BOOLEAN]
          /\ increment \in {"unknown", "temporary", "partial", "exact"}
          /\ request \in BOOLEAN /\ ack \in BOOLEAN
      BY <2>1 DEF HandshakeOK
    <2> QED BY <2>2, <2>3, <2>4, <2>5, <2>6, <2>7, <2>8, <2>9 DEF TypeOK
  <1> QED BY <1>1, BootInvHolds, PTL

\* setup::initialize keeps its promises to main, for every polling budget and
\* any number of clock losses: the epoch holds exact crystal ticks only, the
\* handshake is finished, nothing is armed or pending; all Rust code runs on a
\* core set up and on a guarded stack; and no clock loss resets the chip while
\* the LF source is still being switched.
THEOREM MainIsReady == Spec => []MainReady
  <1>1. BootInv => MainReady
    <2> SUFFICES ASSUME BootInv PROVE MainReady
      OBVIOUS
    <2>1. /\ CpuOK /\ CoreOK /\ ClockOK /\ PostedOK /\ HandshakeOK
          /\ EpochOK /\ AlarmsOK /\ step \in 1 .. 40
      BY DEF BootInv, CpuOK
    <2>2. Len(Reset) = 9
      BY DEF Reset
    <2>3. /\ pc = "main" => step = 40
          /\ pc = "panic" => step > 14
      BY <2>1 DEF CpuOK
    <2>4. pc \in {"main", "panic"} \/ (pc = "boot" /\ step > Len(Reset)) =>
              vectors = "ours" /\ stack = "main" /\ limit = "main" /\ settings = Settings
      <3> SUFFICES ASSUME step > 9, pc \in {"boot", "main", "panic"}
                   PROVE  vectors = "ours" /\ stack = "main" /\ limit = "main"
                          /\ settings = Settings
        <4>1. pc \in {"main", "panic"} \/ (pc = "boot" /\ step > Len(Reset)) =>
                  step > 9 /\ pc \in {"boot", "main", "panic"}
          BY <2>1, <2>2, <2>3
        <4> QED BY <4>1, Zenon
      <3>1. vectors = "ours" /\ stack = "main" /\ limit = "main"
        BY <2>1 DEF CoreOK
      <3>2. settings \subseteq Settings
        BY <2>1 DEF CoreOK
      <3>3. {"secure", "fpu", "traps", "faults", "barrier"} \subseteq settings
        BY <2>1 DEF CoreOK
      <3> QED BY <3>1, <3>2, <3>3 DEF Settings
    <2>5. pc = "main" => /\ fit /\ memory = "ready"
                         /\ lf = "crystal" /\ ~qualifiers /\ detector
      BY <2>1, <2>3 DEF ClockOK
    <2>6. pc = "main" => lossReset /\ running /\ posted = <<>>
      BY <2>1, <2>3 DEF PostedOK, InFlightOK
    <2>7. pc = "main" => ~resetting /\ epoch # "mixed"
      BY <2>1, <2>3 DEF EpochOK
    <2>8. pc = "main" => increment = "exact" /\ ~request /\ ~ack
      BY <2>1, <2>3 DEF HandshakeOK
    <2>9. pc = "main" => ~channels /\ ~event /\ ~pending
      BY <2>1, <2>3 DEF AlarmsOK
    <2>10. detector \/ lossReset => lf = "crystal"
      <3>1. detector \/ lossReset => step > 19
        BY <2>1 DEF ClockOK, PostedOK
      <3> QED BY <2>1, <3>1 DEF ClockOK
    <2> QED BY <2>4, <2>5, <2>6, <2>7, <2>8, <2>9, <2>10 DEF MainReady
  <1> QED BY <1>1, BootInvHolds, PTL

\* BOOT_DIAGNOSTIC tells a debugger the truth wherever faults interrupt the
\* boot, main, panic or another fault's capture, and however often.
THEOREM TheRecordTells == Spec => []RecordTells
  <1>1. BootInv => RecordTells
    <2> SUFFICES ASSUME BootInv PROVE RecordTells
      OBVIOUS
    <2>1. CpuOK /\ CoreOK /\ RecordOK /\ step \in 1 .. 40
      BY DEF BootInv, CpuOK
    <2>2. pc = "boot" /\ Recording => step > 14
      <3>1. ASSUME NEW j \in 1 .. step - 1, Script[j].do = "stage"
            PROVE  step > 14
        <4>1. j \in 1 .. 40 /\ Table[j].do = "stage"
          BY <2>1, <3>1, ScriptIs
        <4>2. j \in {14, 39}
          BY <4>1, Places
        <4> QED BY <2>1, <4>2
      <3> QED BY <3>1 DEF Recording
    <2>3. pc = "capture" \/ (pc = "parked" /\ level # "thread") => stack = "fault" /\ limit = "none"
      BY <2>1 DEF CoreOK
    <2>4. pc = "lockup" => faults >= 2
      BY <2>1 DEF CpuOK
    <2>5. pc = "parked" => magic /\ stage = Terminal /\ AllFrom({Origin})
      BY <2>1 DEF RecordOK
    <2>6. pc \in {"capture", "parked", "lockup"} /\ stage = "fault" =>
              AllFrom({"configurable", "hard"})
      BY <2>1 DEF RecordOK
    <2>7. pc \in {"panic", "parked"} /\ level = "thread" /\ stage = "panic" => AllFrom({"panic"})
      <3>1. pc = "panic" => stage # "panic"
        BY <2>1 DEF CpuOK, RecordOK
      <3>2. level = "thread" => Origin = "panic"
        BY DEF Origin
      <3> QED BY <2>5, <3>1, <3>2
    <2>8. pc = "boot" /\ Recording => /\ magic /\ stage \in {"trim", "application"}
                                      /\ AllFrom({"zero"})
      BY <2>1, <2>2 DEF RecordOK
    <2>9. pc = "main" => magic /\ stage = "application" /\ AllFrom({"zero"})
      BY <2>1 DEF RecordOK
    <2> QED BY <2>3, <2>4, <2>5, <2>6, <2>7, <2>8, <2>9 DEF RecordTells
  <1> QED BY <1>1, BootInvHolds, PTL
=============================================================================
