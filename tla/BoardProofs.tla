----------------------------- MODULE BoardProofs -----------------------------
(***************************************************************************)
(* take() and the clock switch, for every polling budget, whatever the     *)
(* owner of the board does and whenever, if at all, the hardware follows.  *)
(*                                                                         *)
(* The invariant says of each thing take() sets up how far it is, by the   *)
(* accesses that are done: Before and InForce. What is done before what is *)
(* read off the sequence, written out once as Table.                       *)
(***************************************************************************)
EXTENDS Clock, TLAPS

\* The sequence of take(), written out
Table == <<
    Access("undivide", "clocks"), Access("load", "clocks"), Access("await_load", "clocks"),
    Access("request", "periph"), Access("await_power", "periph"),
    Access("gate", "gpio"), Access("load", "clocks"), Access("await_load", "clocks"),
    Access("clear", "dio6"), Access("route", "dio6"), Access("drive", "dio6"),
    Access("return", "dio6"),
    Access("request", "periph"), Access("await_power", "periph"),
    Access("gate", "gpio"), Access("load", "clocks"), Access("await_load", "clocks"),
    Access("clear", "dio7"), Access("route", "dio7"), Access("drive", "dio7"),
    Access("return", "dio7"),
    Access("request", "periph"), Access("await_power", "periph"),
    Access("gate", "gpt1"), Access("load", "clocks"), Access("await_load", "clocks"),
    Access("halt", "gpt1"), Access("format", "gpt1"), Access("start", "gpt1"),
    Access("return", "gpt1"),
    Access("request", "periph"), Access("await_power", "periph"),
    Access("gate", "gpt0"), Access("load", "clocks"), Access("await_load", "clocks"),
    Access("halt", "gpt0"), Access("return", "gpt0"),
    Access("request", "serial"), Access("await_power", "serial"),
    Access("gate", "uart0"), Access("load", "clocks"), Access("await_load", "clocks"),
    Access("route", "dio12"), Access("route", "dio13"),
    Access("halt", "uart0"), Access("divide", "uart0"), Access("format", "uart0"),
    Access("start", "uart0"), Access("return", "uart0"),
    Access("wake", "pads"), Access("thaw", "pads"), Access("unmask", "cpu")>>

\* An access that is done
Before(kind, of) == \E j \in 1 .. step - 1 : Script[j].do = kind /\ Script[j].of = of

\* A clock setting that has been waited for since it was staged
InForce(kind, of) ==
    \E j, k \in 1 .. step - 1 :
        j < k /\ Script[j].do = kind /\ Script[j].of = of /\ Script[k].do = "await_load"

-----------------------------------------------------------------------------
(* The invariant *)

\* take() is within its sequence until it has come to an end.
ProgressOK ==
    /\ step \in 1 .. 53 /\ polls \in 0 .. Budget
    /\ outcome \in {"idle", "running", "board", "none", "panic"}
    /\ taken \in BOOLEAN /\ (taken <=> outcome # "idle")
    /\ outcome = "idle" => step = 1 /\ polls = 0
    /\ outcome = "running" => step < 53 /\ polls < Budget
    /\ outcome \in {"board", "none"} => step = 53

\* Domains waited for are on, and no domain goes off.
PowerOK ==
    /\ powered \subseteq requested /\ requested \subseteq Domains
    /\ \A d \in Domains : Before("await_power", d) => d \in powered

\* LOAD_DONE tells the truth; nothing once staged or in force is taken back.
LoadOK ==
    /\ staged \in Clocks /\ applied \in Clocks /\ loading \in BOOLEAN /\ loadDone \in BOOLEAN
    /\ loadDone => applied = staged
    /\ applied.gates \subseteq staged.gates
    /\ applied.undivided => staged.undivided
    /\ \A p \in Peripherals : Before("gate", p) => p \in staged.gates
    /\ Before("undivide", "clocks") => staged.undivided
    /\ \A p \in Peripherals : InForce("gate", p) => p \in applied.gates
    /\ InForce("undivide", "clocks") => applied.undivided

\* How far the registers of a peripheral are set up
Stage(p) ==
    IF Before("start", p) THEN "running"
    ELSE IF Before("format", p) THEN "formatted"
    ELSE IF Before("halt", p) THEN "halted"
    ELSE "reset"

DivisorStage ==
    IF Before("format", "uart0") THEN "committed"
    ELSE IF Before("divide", "uart0") THEN "written"
    ELSE "unset"

ModeOK == mode = [p \in Peripherals |-> Stage(p)] /\ divisor = DivisorStage

\* An output is cleared, then driven; a pin has been routed once and for all.
PinOK ==
    /\ route \in [Dios -> {"none", "gpio", "uart_rx", "uart_tx"}]
    /\ driven \subseteq Dios /\ high \subseteq Dios
    /\ \A d \in Dios : Before("route", d) => route[d] = SignalOf(d)
    /\ \A d \in Dios : Before("clear", d) => d \notin high
    /\ \A d \in Dios : d \in driven <=> Before("drive", d)

ReturnOK == built = {h \in Handles : Before("return", h)}

\* Handles are not used before take() has returned.
ExposureOK ==
    /\ asleep \in BOOLEAN /\ frozen \in BOOLEAN /\ primask \in BOOLEAN /\ saved \in BOOLEAN
    /\ turn # "idle" => outcome \in {"board", "none"}

BInv ==
    /\ ProgressOK /\ PowerOK /\ LoadOK /\ ModeOK /\ PinOK /\ ReturnOK /\ ExposureOK

-----------------------------------------------------------------------------
(* take()'s sequence *)

\* The sequence the functions add up to
LEMMA ScriptIs == Len(Script) = 52 /\ \A i \in 1 .. 52 : Script[i] = Table[i]
  <1> USE DEF Script, InitializeTimerClock, Configure, ReleaseRetention, ConfigureOutput,
              CounterInitialize, TimerInitialize, UartInitialize, ConfigureUart, PowerPeriph,
              PowerSerial, EnableClock, ApplyClockSettings, RedLed, GreenLed, UartRx, UartTx,
              CounterGpt, TimerGpt
  <1>1. Len(Script) = 52
    OBVIOUS
  <1>2. \A i \in 1 .. 52 : Script[i] = Table[i]
    BY DEF Table
  <1> QED BY <1>1, <1>2

\* A position is one of these.
LEMMA Numbered ==
    \A i \in 1 .. 52 :
        \/ i = 1 \/ i = 2 \/ i = 3 \/ i = 4 \/ i = 5 \/ i = 6 \/ i = 7 \/ i = 8 \/ i = 9
        \/ i = 10 \/ i = 11 \/ i = 12 \/ i = 13 \/ i = 14 \/ i = 15 \/ i = 16 \/ i = 17 \/ i = 18
        \/ i = 19 \/ i = 20 \/ i = 21 \/ i = 22 \/ i = 23 \/ i = 24 \/ i = 25 \/ i = 26 \/ i = 27
        \/ i = 28 \/ i = 29 \/ i = 30 \/ i = 31 \/ i = 32 \/ i = 33 \/ i = 34 \/ i = 35 \/ i = 36
        \/ i = 37 \/ i = 38 \/ i = 39 \/ i = 40 \/ i = 41 \/ i = 42 \/ i = 43 \/ i = 44 \/ i = 45
        \/ i = 46 \/ i = 47 \/ i = 48 \/ i = 49 \/ i = 50 \/ i = 51 \/ i = 52
  OBVIOUS

\* Where the accesses of each kind are
LEMMA Places ==
    \A i \in 1 .. 52 :
        /\ Table[i].do = "undivide" => i = 1
        /\ Table[i].do = "await_power" => i \in {5, 14, 23, 32, 39}
        /\ Table[i].do = "gate" => i \in {6, 15, 24, 33, 40}
        /\ Table[i].do = "await_load" => i \in {3, 8, 17, 26, 35, 42}
        /\ Table[i].do = "clear" => i \in {9, 18}
        /\ Table[i].do = "route" => i \in {10, 19, 43, 44}
        /\ Table[i].do = "drive" => i \in {11, 20}
        /\ Table[i].do = "halt" => i \in {27, 36, 45}
        /\ Table[i].do = "format" => i \in {28, 47}
        /\ Table[i].do = "start" => i \in {29, 48}
        /\ Table[i].do = "divide" => i = 46
        /\ Table[i].do = "return" => i \in {12, 21, 30, 37, 49}
        /\ Table[i].do = "wake" => i = 50
        /\ Table[i].do = "thaw" => i = 51
        /\ Table[i].do = "unmask" => i = 52
  BY Numbered DEF Table, Access

\* The first of the accesses to a subject of one kind
First(kind, of, n) ==
    /\ Table[n].do = kind /\ Table[n].of = of
    /\ \A j \in 1 .. 52 : Table[j].do = kind /\ Table[j].of = of => j >= n

LEMMA Firsts ==
    /\ First("undivide", "clocks", 1)
    /\ First("await_power", "periph", 5) /\ First("await_power", "serial", 39)
    /\ First("clear", "dio6", 9) /\ First("route", "dio6", 10)
    /\ First("drive", "dio6", 11) /\ First("return", "dio6", 12)
    /\ First("clear", "dio7", 18) /\ First("route", "dio7", 19)
    /\ First("drive", "dio7", 20) /\ First("return", "dio7", 21)
    /\ First("halt", "gpt1", 27) /\ First("format", "gpt1", 28)
    /\ First("start", "gpt1", 29) /\ First("return", "gpt1", 30)
    /\ First("halt", "gpt0", 36) /\ First("return", "gpt0", 37)
    /\ First("route", "dio12", 43) /\ First("route", "dio13", 44)
    /\ First("halt", "uart0", 45) /\ First("divide", "uart0", 46)
    /\ First("format", "uart0", 47) /\ First("start", "uart0", 48)
    /\ First("return", "uart0", 49)
  <1>1. First("undivide", "clocks", 1)
    BY Numbered DEF First, Table, Access
  <1>2. /\ First("await_power", "periph", 5) /\ First("await_power", "serial", 39)
    BY Numbered DEF First, Table, Access
  <1>3. /\ First("clear", "dio6", 9) /\ First("route", "dio6", 10)
    BY Numbered DEF First, Table, Access
  <1>4. /\ First("drive", "dio6", 11) /\ First("return", "dio6", 12)
    BY Numbered DEF First, Table, Access
  <1>5. /\ First("clear", "dio7", 18) /\ First("route", "dio7", 19)
    BY Numbered DEF First, Table, Access
  <1>6. /\ First("drive", "dio7", 20) /\ First("return", "dio7", 21)
    BY Numbered DEF First, Table, Access
  <1>7. /\ First("halt", "gpt1", 27) /\ First("format", "gpt1", 28)
    BY Numbered DEF First, Table, Access
  <1>8. /\ First("start", "gpt1", 29) /\ First("return", "gpt1", 30)
    BY Numbered DEF First, Table, Access
  <1>9. /\ First("halt", "gpt0", 36) /\ First("return", "gpt0", 37)
    BY Numbered DEF First, Table, Access
  <1>10. /\ First("route", "dio12", 43) /\ First("route", "dio13", 44)
    BY Numbered DEF First, Table, Access
  <1>11. /\ First("halt", "uart0", 45) /\ First("divide", "uart0", 46)
    BY Numbered DEF First, Table, Access
  <1>12. /\ First("format", "uart0", 47) /\ First("start", "uart0", 48)
    BY Numbered DEF First, Table, Access
  <1>13. First("return", "uart0", 49)
    BY Numbered DEF First, Table, Access
  <1> QED BY <1>1, <1>2, <1>3, <1>4, <1>5, <1>6, <1>7, <1>8, <1>9, <1>10, <1>11, <1>12, <1>13

LEMMA Passed ==
    ASSUME step \in 1 .. 53, NEW kind, NEW of, NEW n \in 1 .. 52, First(kind, of, n)
    PROVE  Before(kind, of) <=> step > n
  <1>1. \A j \in 1 .. step - 1 : j \in 1 .. 52 /\ Script[j] = Table[j]
    BY ScriptIs
  <1>2. ASSUME step > n PROVE Before(kind, of)
    <2>1. n \in 1 .. step - 1
      BY <1>2
    <2> QED BY <1>1, <2>1 DEF First, Before
  <1>3. ASSUME Before(kind, of) PROVE step > n
    <2>1. PICK j \in 1 .. step - 1 : Script[j].do = kind /\ Script[j].of = of
      BY <1>3 DEF Before
    <2>2. j >= n
      BY <1>1, <2>1 DEF First
    <2> QED BY <2>2
  <1> QED BY <1>2, <1>3

\* The one-shot timer is halted, never formatted or started.
LEMMA Never == ASSUME step \in 1 .. 53 PROVE ~Before("format", "gpt0") /\ ~Before("start", "gpt0")
  <1>1. \A j \in 1 .. step - 1 : j \in 1 .. 52 /\ Script[j] = Table[j]
    BY ScriptIs
  <1>2. \A j \in 1 .. 52 : Table[j].do \in {"format", "start"} => Table[j].of # "gpt0"
    BY Numbered DEF Table, Access
  <1> QED BY <1>1, <1>2 DEF Before

\* A gate is in force once its constructor has applied it.
LEMMA Applied ==
    ASSUME step \in 1 .. 53
    PROVE  /\ step > 3 => InForce("undivide", "clocks")
           /\ step > 8 => InForce("gate", "gpio")
           /\ step > 26 => InForce("gate", "gpt1")
           /\ step > 35 => InForce("gate", "gpt0")
           /\ step > 42 => InForce("gate", "uart0")
  <1>1. ASSUME step > 3 PROVE InForce("undivide", "clocks")
    <2>1. 1 \in 1 .. step - 1 /\ 3 \in 1 .. step - 1
      BY <1>1
    <2>2. Script[1].do = "undivide" /\ Script[1].of = "clocks" /\ Script[3].do = "await_load"
      BY ScriptIs DEF Table, Access
    <2> QED BY <2>1, <2>2 DEF InForce
  <1>2. ASSUME step > 8 PROVE InForce("gate", "gpio")
    <2>1. 6 \in 1 .. step - 1 /\ 8 \in 1 .. step - 1
      BY <1>2
    <2>2. Script[6].do = "gate" /\ Script[6].of = "gpio" /\ Script[8].do = "await_load"
      BY ScriptIs DEF Table, Access
    <2> QED BY <2>1, <2>2 DEF InForce
  <1>3. ASSUME step > 26 PROVE InForce("gate", "gpt1")
    <2>1. 24 \in 1 .. step - 1 /\ 26 \in 1 .. step - 1
      BY <1>3
    <2>2. Script[24].do = "gate" /\ Script[24].of = "gpt1" /\ Script[26].do = "await_load"
      BY ScriptIs DEF Table, Access
    <2> QED BY <2>1, <2>2 DEF InForce
  <1>4. ASSUME step > 35 PROVE InForce("gate", "gpt0")
    <2>1. 33 \in 1 .. step - 1 /\ 35 \in 1 .. step - 1
      BY <1>4
    <2>2. Script[33].do = "gate" /\ Script[33].of = "gpt0" /\ Script[35].do = "await_load"
      BY ScriptIs DEF Table, Access
    <2> QED BY <2>1, <2>2 DEF InForce
  <1>5. ASSUME step > 42 PROVE InForce("gate", "uart0")
    <2>1. 40 \in 1 .. step - 1 /\ 42 \in 1 .. step - 1
      BY <1>5
    <2>2. Script[40].do = "gate" /\ Script[40].of = "uart0" /\ Script[42].do = "await_load"
      BY ScriptIs DEF Table, Access
    <2> QED BY <2>1, <2>2 DEF InForce
  <1> QED BY <1>1, <1>2, <1>3, <1>4, <1>5

\* What a step past an access adds to what is done ...
LEMMA OneMore ==
    ASSUME step \in 1 .. 53, step' = step + 1, NEW kind, NEW of
    PROVE  /\ Before(kind, of)' <=>
                  Before(kind, of) \/ (Script[step].do = kind /\ Script[step].of = of)
           /\ InForce(kind, of)' <=>
                  InForce(kind, of) \/ (Before(kind, of) /\ Script[step].do = "await_load")
  <1>1. 1 .. step' - 1 = (1 .. step - 1) \cup {step}
    OBVIOUS
  <1>2. \A j \in 1 .. step - 1 : j < step /\ ~ step < j
    OBVIOUS
  <1>3. Before(kind, of)' <=> Before(kind, of) \/ (Script[step].do = kind /\ Script[step].of = of)
    BY <1>1 DEF Before
  <1>4. InForce(kind, of)' <=>
            InForce(kind, of) \/ (Before(kind, of) /\ Script[step].do = "await_load")
    BY <1>1, <1>2 DEF InForce, Before
  <1> QED BY <1>3, <1>4

\* ... and that nothing else does
LEMMA NoMore ==
    ASSUME step' = step, NEW kind, NEW of
    PROVE  Before(kind, of)' = Before(kind, of) /\ InForce(kind, of)' = InForce(kind, of)
  BY DEF Before, InForce

\* The subjects of accesses
LEMMA SubjectsOf ==
    \A i \in 1 .. 52 :
        /\ Table[i].do = "undivide" => Table[i].of = "clocks"
        /\ Table[i].do = "request" => Table[i].of \in Domains
        /\ Table[i].do = "gate" => Table[i].of \in Peripherals
        /\ Table[i].do \in {"clear", "drive"} => Table[i].of \in {"dio6", "dio7"}
        /\ Table[i].do = "route" => Table[i].of \in Dios
        /\ Table[i].do = "halt" => Table[i].of \in {"gpt0", "gpt1", "uart0"}
        /\ Table[i].do \in {"format", "start"} => Table[i].of \in {"gpt1", "uart0"}
        /\ Table[i].do = "divide" => Table[i].of = "uart0"
        /\ Table[i].do = "return" => Table[i].of \in Handles
  <1> USE DEF Domains, Peripherals, Dios, Handles, RedLed, GreenLed, UartRx, UartTx, CounterGpt,
              TimerGpt
  <1> QED BY Numbered DEF Table, Access

-----------------------------------------------------------------------------
(* take() keeps the invariant *)

\* A step of take() carries out an access, or polls in vain.
LEMMA Proceeding ==
    ASSUME BInv, Proceed
    PROVE  /\ outcome = "running" /\ step \in 1 .. 52 /\ Script[step] = Table[step]
           /\ \/ Advance
              \/ /\ Poll /\ ~Ready /\ step' = step /\ polls' = polls + 1 /\ taken' = taken
                 /\ outcome' = IF polls + 1 = Budget THEN "panic" ELSE outcome
  <1>1. outcome = "running"
    BY DEF Proceed, At, Request, Gate, Undivide, StartLoad, Poll, ClearOutput, DriveOutput,
           RoutePin, Halt, Divide, Format, StartPeripheral, Wake, Thaw, Unmask, ReturnHandle
  <1>2. step \in 1 .. 52 /\ Script[step] = Table[step]
    BY <1>1, ScriptIs DEF BInv, ProgressOK
  <1>3. CASE Poll
    BY <1>1, <1>2, <1>3 DEF Poll, Advance
  <1>4. CASE ~Poll
    BY <1>1, <1>2, <1>4
       DEF Proceed, Request, Gate, Undivide, StartLoad, ClearOutput, DriveOutput,
           RoutePin, Halt, Divide, Format, StartPeripheral, Wake, Thaw, Unmask, ReturnHandle
  <1> QED BY <1>1, <1>2, <1>3, <1>4

LEMMA ProgressKeeps == ASSUME BInv, Proceed PROVE ProgressOK'
  <1>1. ProgressOK
    BY DEF BInv
  <1>2. CASE Advance
    BY <1>1, <1>2, Proceeding, ScriptIs, BudgetAssumption DEF ProgressOK, Advance
  <1>3. CASE ~Advance
    <2>1. /\ step' = step /\ polls' = polls + 1 /\ taken' = taken /\ outcome = "running"
          /\ outcome' = IF polls + 1 = Budget THEN "panic" ELSE outcome
      BY <1>3, Proceeding
    <2>2. polls' \in 0 .. Budget /\ (outcome' = "running" => polls' < Budget)
      BY <1>1, <2>1, BudgetAssumption DEF ProgressOK
    <2> QED BY <1>1, <2>1, <2>2 DEF ProgressOK
  <1> QED BY <1>2, <1>3

LEMMA PowerKeeps == ASSUME BInv, Proceed PROVE PowerOK'
  <1>1. PowerOK /\ step \in 1 .. 52 /\ Script[step] = Table[step]
    BY Proceeding DEF BInv
  <1>2. CASE Request
    <2>1. /\ step' = step + 1 /\ Script[step].do = "request" /\ Script[step].of \in Domains
          /\ requested' = requested \cup {Script[step].of} /\ powered' = powered
      BY <1>1, <1>2, SubjectsOf DEF Request, At, Subject, Advance
    <2>2. \A d : Before("await_power", d)' <=> Before("await_power", d)
      BY <1>1, <2>1, OneMore
    <2> QED BY <1>1, <2>1, <2>2 DEF PowerOK
  <1>3. CASE Poll
    <2>1. UNCHANGED <<requested, powered>>
      BY <1>3 DEF Poll, prcm
    <2>2. CASE Ready
      <3>1. step' = step + 1 /\ (Script[step].do = "await_power" => Script[step].of \in powered)
        BY <1>3, <2>2 DEF Poll, Ready, At, Subject, Advance
      <3>2. \A d : Before("await_power", d)' <=>
                       \/ Before("await_power", d)
                       \/ Script[step].do = "await_power" /\ Script[step].of = d
        BY <1>1, <3>1, OneMore
      <3> QED BY <1>1, <2>1, <3>1, <3>2 DEF PowerOK
    <2>3. CASE ~Ready
      <3>1. step' = step
        BY <1>3, <2>3 DEF Poll
      <3> QED BY <1>1, <2>1, <3>1, NoMore DEF PowerOK
    <2> QED BY <2>2, <2>3
  <1>4. CASE ~Request /\ ~Poll
    <2>1. UNCHANGED <<requested, powered>> /\ step' = step + 1 /\ Script[step].do # "await_power"
      BY <1>4 DEF Proceed, Gate, Undivide, StartLoad, ClearOutput, DriveOutput, RoutePin, Halt,
                  Divide, Format, StartPeripheral, Wake, Thaw, Unmask, ReturnHandle, At, Advance,
                  prcm
    <2>2. \A d : Before("await_power", d)' <=> Before("await_power", d)
      BY <1>1, <2>1, OneMore
    <2> QED BY <1>1, <2>1, <2>2 DEF PowerOK
  <1> QED BY <1>2, <1>3, <1>4

LEMMA LoadKeeps == ASSUME BInv, Proceed PROVE LoadOK'
  <1>1. LoadOK /\ step \in 1 .. 52 /\ Script[step] = Table[step]
    BY Proceeding DEF BInv
  <1>2. ASSUME step' = step + 1
        PROVE  /\ \A p : Before("gate", p)' <=>
                             Before("gate", p) \/ (Script[step].do = "gate" /\ Script[step].of = p)
               /\ Before("undivide", "clocks")' =>
                      Before("undivide", "clocks") \/ Script[step].do = "undivide"
               /\ \A p : InForce("gate", p)' <=>
                             \/ InForce("gate", p)
                             \/ Before("gate", p) /\ Script[step].do = "await_load"
               /\ InForce("undivide", "clocks")' <=>
                      InForce("undivide", "clocks")
                          \/ (Before("undivide", "clocks") /\ Script[step].do = "await_load")
    BY <1>1, <1>2, OneMore, SubjectsOf
  <1>3. CASE Gate
    <2>1. /\ step' = step + 1 /\ Script[step].do = "gate" /\ Script[step].of \in Peripherals
          /\ staged' = [staged EXCEPT !.gates = @ \cup {Script[step].of}]
          /\ loadDone' = FALSE /\ UNCHANGED <<applied, loading>>
      BY <1>1, <1>3, SubjectsOf DEF Gate, At, Subject, Advance
    <2> QED BY <1>1, <1>2, <2>1 DEF LoadOK, Clocks
  <1>4. CASE Undivide
    <2>1. /\ step' = step + 1 /\ Script[step].do = "undivide"
          /\ staged' = [staged EXCEPT !.undivided = TRUE]
          /\ loadDone' = FALSE /\ UNCHANGED <<applied, loading>>
      BY <1>1, <1>4 DEF Undivide, At, Subject, Advance
    <2> QED BY <1>1, <1>2, <2>1 DEF LoadOK, Clocks
  <1>5. CASE StartLoad
    <2>1. /\ step' = step + 1 /\ Script[step].do = "load" /\ loading' = TRUE
          /\ UNCHANGED <<staged, applied, loadDone>>
      BY <1>5 DEF StartLoad, At, Advance
    <2> QED BY <1>1, <1>2, <2>1 DEF LoadOK
  <1>6. CASE Poll
    <2>1. UNCHANGED <<staged, applied, loading, loadDone>>
      BY <1>6 DEF Poll, prcm
    <2>2. CASE Ready
      <3>1. /\ step' = step + 1 /\ Script[step].do \in {"await_power", "await_load"}
            /\ Script[step].do = "await_load" => loadDone
        BY <1>6, <2>2 DEF Poll, Ready, At, Subject, Advance
      <3> QED BY <1>1, <1>2, <2>1, <3>1 DEF LoadOK
    <2>3. CASE ~Ready
      <3>1. step' = step
        BY <1>6, <2>3 DEF Poll
      <3> QED BY <1>1, <2>1, <3>1, NoMore DEF LoadOK
    <2> QED BY <2>2, <2>3
  <1>7. CASE ~Gate /\ ~Undivide /\ ~StartLoad /\ ~Poll
    <2>1. /\ UNCHANGED <<staged, applied, loading, loadDone>> /\ step' = step + 1
          /\ Script[step].do \notin {"gate", "undivide", "await_load"}
      BY <1>7 DEF Proceed, Request, ClearOutput, DriveOutput, RoutePin, Halt,
                  Divide, Format, StartPeripheral, Wake, Thaw, Unmask, ReturnHandle, At, Advance,
                  prcm
    <2> QED BY <1>1, <1>2, <2>1 DEF LoadOK
  <1> QED BY <1>3, <1>4, <1>5, <1>6, <1>7

\* The subjects of some of them, by position
LEMMA SubjectAt ==
    /\ Table[27].of = "gpt1" /\ Table[28].of = "gpt1" /\ Table[29].of = "gpt1"
    /\ Table[36].of = "gpt0"
    /\ Table[45].of = "uart0" /\ Table[46].of = "uart0"
    /\ Table[47].of = "uart0" /\ Table[48].of = "uart0"
    /\ Table[11].of = "dio6" /\ Table[20].of = "dio7"
  BY DEF Table, Access

\* A format is written to a halted peripheral and a start to a formatted one.
LEMMA InOrder ==
    ASSUME BInv, step \in 1 .. 52, Script[step] = Table[step], NEW p, p = Table[step].of
    PROVE  /\ Table[step].do = "halt" => ~Before("format", p) /\ ~Before("start", p)
           /\ Table[step].do = "format" =>
                  /\ Before("halt", p) /\ ~Before("format", p) /\ ~Before("start", p)
                  /\ p = "uart0" => Before("divide", p)
           /\ Table[step].do = "start" => Before("format", p) /\ ~Before("start", p)
           /\ Table[step].do = "divide" => ~Before("format", "uart0")
           /\ Table[step].do = "drive" => Before("clear", p)
  <1>1. step \in 1 .. 53
    OBVIOUS
  <1>2. CASE Table[step].do = "halt"
    <2>1. (step = 27 /\ p = "gpt1") \/ (step = 36 /\ p = "gpt0") \/ (step = 45 /\ p = "uart0")
      BY <1>2, Places, SubjectAt
    <2>2. /\ ~Before("format", "gpt0") /\ ~Before("start", "gpt0")
          /\ Before("format", "gpt1") <=> step > 28
          /\ Before("start", "gpt1") <=> step > 29
          /\ Before("format", "uart0") <=> step > 47
          /\ Before("start", "uart0") <=> step > 48
      BY <1>1, Never, Firsts, Passed
    <2> QED BY <1>2, <2>1, <2>2
  <1>3. CASE Table[step].do = "format"
    <2>1. (step = 28 /\ p = "gpt1") \/ (step = 47 /\ p = "uart0")
      BY <1>3, Places, SubjectAt
    <2>2. /\ Before("halt", "gpt1") <=> step > 27
          /\ Before("format", "gpt1") <=> step > 28
          /\ Before("start", "gpt1") <=> step > 29
          /\ Before("halt", "uart0") <=> step > 45
          /\ Before("divide", "uart0") <=> step > 46
          /\ Before("format", "uart0") <=> step > 47
          /\ Before("start", "uart0") <=> step > 48
      BY <1>1, Firsts, Passed
    <2> QED BY <1>3, <2>1, <2>2
  <1>4. CASE Table[step].do = "start"
    <2>1. (step = 29 /\ p = "gpt1") \/ (step = 48 /\ p = "uart0")
      BY <1>4, Places, SubjectAt
    <2>2. /\ Before("format", "gpt1") <=> step > 28
          /\ Before("start", "gpt1") <=> step > 29
          /\ Before("format", "uart0") <=> step > 47
          /\ Before("start", "uart0") <=> step > 48
      BY <1>1, Firsts, Passed
    <2> QED BY <1>4, <2>1, <2>2
  <1>5. CASE Table[step].do = "divide"
    <2>1. step = 46 /\ (Before("format", "uart0") <=> step > 47)
      <3>1. First("format", "uart0", 47)
        BY Firsts
      <3> QED BY <1>1, <1>5, <3>1, Places, Passed
    <2> QED BY <1>5, <2>1
  <1>6. CASE Table[step].do = "drive"
    <2>1. (step = 11 /\ p = "dio6") \/ (step = 20 /\ p = "dio7")
      BY <1>6, Places, SubjectAt
    <2>2. /\ Before("clear", "dio6") <=> step > 9
          /\ Before("clear", "dio7") <=> step > 18
      BY <1>1, Firsts, Passed
    <2> QED BY <1>6, <2>1, <2>2
  <1> QED BY <1>2, <1>3, <1>4, <1>5, <1>6

LEMMA ModeKeeps == ASSUME BInv, Proceed PROVE ModeOK'
  <1>1. ModeOK /\ step \in 1 .. 52 /\ Script[step] = Table[step]
    BY Proceeding DEF BInv
  <1> DEFINE do == Script[step].do
             of == Script[step].of
  <1>2. ASSUME step' = step + 1
        PROVE  /\ \A p : Before("halt", p)' <=> Before("halt", p) \/ (do = "halt" /\ of = p)
               /\ \A p : Before("format", p)' <=> Before("format", p) \/ (do = "format" /\ of = p)
               /\ \A p : Before("start", p)' <=> Before("start", p) \/ (do = "start" /\ of = p)
               /\ Before("divide", "uart0")' <=>
                      Before("divide", "uart0") \/ (do = "divide" /\ of = "uart0")
    BY <1>1, <1>2, OneMore
  <1>3. CASE Halt
    <2>1. /\ step' = step + 1 /\ do = "halt" /\ of \in Peripherals
          /\ mode' = [mode EXCEPT ![of] = "halted"] /\ divisor' = divisor
      BY <1>1, <1>3, SubjectsOf DEF Halt, At, Subject, Advance, Peripherals
    <2>2. ~Before("format", of) /\ ~Before("start", of)
      BY <1>1, <2>1, InOrder
    <2> QED BY <1>1, <1>2, <2>1, <2>2 DEF ModeOK, Stage, DivisorStage
  <1>4. CASE Divide
    <2>1. step' = step + 1 /\ do = "divide" /\ of = "uart0" /\ divisor' = "written" /\ mode' = mode
      BY <1>1, <1>4, SubjectsOf DEF Divide, At, Advance
    <2>2. ~Before("format", "uart0")
      BY <1>1, <2>1, InOrder
    <2> QED BY <1>1, <1>2, <2>1, <2>2 DEF ModeOK, Stage, DivisorStage
  <1>5. CASE Format
    <2>1. /\ step' = step + 1 /\ do = "format" /\ of \in {"gpt1", "uart0"}
          /\ mode' = [mode EXCEPT ![of] = IF @ = "halted" THEN "formatted" ELSE @]
          /\ divisor' = IF of = "uart0" /\ divisor = "written" THEN "committed" ELSE divisor
      BY <1>1, <1>5, SubjectsOf DEF Format, At, Subject, Advance
    <2>2. /\ Before("halt", of) /\ ~Before("format", of) /\ ~Before("start", of)
          /\ of = "uart0" => Before("divide", of)
      BY <1>1, <2>1, InOrder
    <2> QED BY <1>1, <1>2, <2>1, <2>2 DEF ModeOK, Stage, DivisorStage, Peripherals
  <1>6. CASE StartPeripheral
    <2>1. /\ step' = step + 1 /\ do = "start" /\ of \in {"gpt1", "uart0"} /\ divisor' = divisor
          /\ mode' = [mode EXCEPT ![of] = IF @ = "formatted" THEN "running" ELSE "garbled"]
      BY <1>1, <1>6, SubjectsOf DEF StartPeripheral, At, Subject, Advance
    <2>2. Before("format", of) /\ ~Before("start", of)
      BY <1>1, <2>1, InOrder
    <2> QED BY <1>1, <1>2, <2>1, <2>2 DEF ModeOK, Stage, DivisorStage, Peripherals
  <1>7. CASE Poll /\ step' = step
    <2>1. UNCHANGED <<mode, divisor>>
      BY <1>7 DEF Poll, devices
    <2> QED BY <1>1, <1>7, <2>1, NoMore DEF ModeOK, Stage, DivisorStage
  <1>8. CASE /\ ~Halt /\ ~Divide /\ ~Format /\ ~StartPeripheral /\ ~(Poll /\ step' = step)
    <2>1. /\ UNCHANGED <<mode, divisor>> /\ step' = step + 1
          /\ do \notin {"halt", "format", "start", "divide"}
      BY <1>8 DEF Proceed, Poll, Request, Gate, Undivide, StartLoad, ClearOutput, DriveOutput,
                  RoutePin, Wake, Thaw, Unmask, ReturnHandle, At, Advance, devices
    <2> QED BY <1>1, <1>2, <2>1 DEF ModeOK, Stage, DivisorStage
  <1> QED BY <1>3, <1>4, <1>5, <1>6, <1>7, <1>8

LEMMA PinKeeps == ASSUME BInv, Proceed PROVE PinOK'
  <1>1. PinOK /\ step \in 1 .. 52 /\ Script[step] = Table[step]
    BY Proceeding DEF BInv
  <1> DEFINE do == Script[step].do
             of == Script[step].of
  <1>2. ASSUME step' = step + 1
        PROVE  /\ \A d : Before("route", d)' <=> Before("route", d) \/ (do = "route" /\ of = d)
               /\ \A d : Before("clear", d)' <=> Before("clear", d) \/ (do = "clear" /\ of = d)
               /\ \A d : Before("drive", d)' <=> Before("drive", d) \/ (do = "drive" /\ of = d)
    BY <1>1, <1>2, OneMore
  <1>3. CASE ClearOutput
    <2>1. /\ step' = step + 1 /\ do = "clear" /\ of \in Dios
          /\ high' = high \ {of} /\ UNCHANGED <<route, driven>>
      BY <1>1, <1>3, SubjectsOf DEF ClearOutput, At, Subject, Advance, Dios, RedLed, GreenLed
    <2> QED BY <1>1, <1>2, <2>1 DEF PinOK
  <1>4. CASE DriveOutput
    <2>1. /\ step' = step + 1 /\ do = "drive" /\ of \in Dios
          /\ driven' = driven \cup {of} /\ UNCHANGED <<route, high>>
      BY <1>1, <1>4, SubjectsOf DEF DriveOutput, At, Subject, Advance, Dios, RedLed, GreenLed
    <2> QED BY <1>1, <1>2, <2>1 DEF PinOK
  <1>5. CASE RoutePin
    <2>1. /\ step' = step + 1 /\ do = "route" /\ of \in Dios
          /\ route' = [route EXCEPT ![of] = SignalOf(of)] /\ UNCHANGED <<driven, high>>
      BY <1>1, <1>5, SubjectsOf DEF RoutePin, At, Subject, Advance
    <2>2. \A d : SignalOf(d) \in {"none", "gpio", "uart_rx", "uart_tx"}
      BY DEF SignalOf
    <2> QED BY <1>1, <1>2, <2>1, <2>2 DEF PinOK
  <1>6. CASE Poll /\ step' = step
    <2>1. UNCHANGED <<route, driven, high>>
      BY <1>6 DEF Poll, devices
    <2> QED BY <1>1, <1>6, <2>1, NoMore DEF PinOK
  <1>7. CASE ~ClearOutput /\ ~DriveOutput /\ ~RoutePin /\ ~(Poll /\ step' = step)
    <2>1. /\ UNCHANGED <<route, driven, high>> /\ step' = step + 1
          /\ do \notin {"clear", "drive", "route"}
      BY <1>7 DEF Proceed, Poll, Request, Gate, Undivide, StartLoad, Halt, Divide, Format,
                  StartPeripheral, Wake, Thaw, Unmask, ReturnHandle, At, Advance, devices
    <2> QED BY <1>1, <1>2, <2>1 DEF PinOK
  <1> QED BY <1>3, <1>4, <1>5, <1>6, <1>7

LEMMA ReturnKeeps == ASSUME BInv, Proceed PROVE ReturnOK'
  <1>1. ReturnOK /\ step \in 1 .. 52 /\ Script[step] = Table[step]
    BY Proceeding DEF BInv
  <1> DEFINE do == Script[step].do
             of == Script[step].of
  <1>2. CASE ReturnHandle
    <2>1. step' = step + 1 /\ do = "return" /\ of \in Handles /\ built' = built \cup {of}
      BY <1>1, <1>2, SubjectsOf DEF ReturnHandle, At, Subject, Advance
    <2>2. \A h : Before("return", h)' <=> Before("return", h) \/ (do = "return" /\ of = h)
      BY <1>1, <2>1, OneMore
    <2> QED BY <1>1, <2>1, <2>2 DEF ReturnOK
  <1>3. CASE Poll /\ step' = step
    <2>1. UNCHANGED built
      BY <1>3 DEF Poll
    <2> QED BY <1>1, <1>3, <2>1, NoMore DEF ReturnOK
  <1>4. CASE ~ReturnHandle /\ ~(Poll /\ step' = step)
    <2>1. UNCHANGED built /\ step' = step + 1 /\ do # "return"
      BY <1>4 DEF Proceed, Poll, Request, Gate, Undivide, StartLoad, ClearOutput, DriveOutput,
                  RoutePin, Halt, Divide, Format, StartPeripheral, Wake, Thaw, Unmask, At, Advance
    <2>2. \A h : Before("return", h)' <=> Before("return", h)
      BY <1>1, <2>1, OneMore
    <2> QED BY <1>1, <2>1, <2>2 DEF ReturnOK
  <1> QED BY <1>2, <1>3, <1>4

LEMMA ExposureKeeps ==
    ASSUME BInv, Proceed, UNCHANGED <<osc, call, wanted>>
    PROVE  ExposureOK'
  <1>1. outcome = "running" /\ ExposureOK
    BY Proceeding DEF BInv
  <1>2. asleep' \in {asleep, FALSE} /\ frozen' \in {frozen, FALSE} /\ primask' \in {primask, FALSE}
    BY DEF Proceed, Poll, Request, Gate, Undivide, StartLoad, ClearOutput, DriveOutput, RoutePin,
           Halt, Divide, Format, StartPeripheral, Wake, Thaw, Unmask, ReturnHandle, pads
  <1>3. turn' = turn /\ saved' = saved
    BY DEF call
  <1> QED BY <1>1, <1>2, <1>3 DEF ExposureOK

LEMMA HardwareKeeps == ASSUME BInv, Power \/ Load, UNCHANGED <<osc, call, wanted>> PROVE BInv'
  <1>1. UNCHANGED <<devices, pads, primask, fg, call>>
    BY DEF Power, Load
  <1>2. ProgressOK' /\ ModeOK' /\ PinOK' /\ ReturnOK' /\ ExposureOK'
    BY <1>1, NoMore
       DEF BInv, ProgressOK, ModeOK, Stage, DivisorStage, PinOK, ReturnOK, ExposureOK,
           devices, pads, fg, call
  <1>3. CASE Power
    BY <1>1, <1>2, <1>3, NoMore DEF Power, BInv, PowerOK, LoadOK, fg
  <1>4. CASE Load
    BY <1>1, <1>2, <1>4, NoMore DEF Load, BInv, PowerOK, LoadOK, Clocks, fg
  <1> QED BY <1>3, <1>4

LEMMA TakeKeeps ==
    ASSUME BInv, turn = "idle" /\ Take, UNCHANGED <<osc, call, wanted>>
    PROVE  BInv'
  <1>1. UNCHANGED <<step, polls, built, prcm, devices, pads, primask, call>>
    BY DEF Take
  <1>2. PowerOK' /\ LoadOK' /\ ModeOK' /\ PinOK' /\ ReturnOK'
    BY <1>1, NoMore
       DEF BInv, PowerOK, LoadOK, ModeOK, Stage, DivisorStage, PinOK, ReturnOK, prcm, devices
  <1>3. ProgressOK'
    <2>1. CASE outcome = "idle"
      <3>1. taken = FALSE /\ taken' = TRUE /\ outcome' = "running" /\ step' = 1 /\ polls' = 0
        BY <2>1 DEF Take, BInv, ProgressOK
      <3> QED BY <3>1, BudgetAssumption DEF ProgressOK
    <2>2. CASE outcome \in {"board", "none"}
      <3>1. taken = TRUE /\ taken' = TRUE /\ outcome' = "none" /\ step' = 53 /\ polls' = polls
        BY <2>2 DEF Take, BInv, ProgressOK
      <3>2. polls' \in 0 .. Budget
        BY <3>1 DEF BInv, ProgressOK
      <3> QED BY <3>1, <3>2 DEF ProgressOK
    <2> QED BY <2>1, <2>2 DEF Take
  <1>4. ExposureOK'
    BY <1>1 DEF BInv, ExposureOK, pads, call
  <1> QED BY <1>2, <1>3, <1>4 DEF BInv

\* The clock switch only masks interrupts.
LEMMA ClockKeeps ==
    ASSUME BInv,
           \/ CrystalStarts \/ \E on \in BOOLEAN : Mask(on)
           \/ RequestHfCrystal \/ HfCrystalReady \/ TrySwitch
           \/ SaveAndDisable \/ HfSourceSafeSwitch \/ ReturnDcdc \/ RestoreMask
    PROVE  BInv'
  <1> USE DEF CrystalStarts, Mask, RequestHfCrystal, HfCrystalReady, TrySwitch, SaveAndDisable,
              HfSourceSafeSwitch, ReturnDcdc, RestoreMask
  <1>1. UNCHANGED board
    OBVIOUS
  <1>2. ProgressOK' /\ PowerOK' /\ LoadOK' /\ ModeOK' /\ PinOK' /\ ReturnOK'
    BY <1>1, NoMore
       DEF BInv, ProgressOK, PowerOK, LoadOK, ModeOK, Stage, DivisorStage, PinOK, ReturnOK,
           board, prcm, devices, fg
  <1>3. ExposureOK'
    BY <1>1 DEF BInv, ExposureOK, HasHandle, board, pads, fg, call
  <1> QED BY <1>2, <1>3 DEF BInv

LEMMA BInvInit == ClockInit => BInv
  <1> SUFFICES ASSUME ClockInit PROVE BInv
    OBVIOUS
  <1>1. step = 1 /\ 1 .. step - 1 = {}
    BY DEF ClockInit, Init
  <1>2. \A kind, of : ~Before(kind, of) /\ ~InForce(kind, of)
    BY <1>1 DEF Before, InForce
  <1>3. ProgressOK
    <2>1. step = 1 /\ polls = 0 /\ outcome = "idle" /\ taken = FALSE
      BY DEF ClockInit, Init
    <2>2. step \in 1 .. 53 /\ polls \in 0 .. Budget
      BY <2>1, BudgetAssumption
    <2> QED BY <2>1, <2>2, Zenon DEF ProgressOK
  <1>4. ExposureOK
    BY DEF ClockInit, Init, ExposureOK
  <1>5. PowerOK
    BY <1>2 DEF ClockInit, Init, PowerOK
  <1>6. LoadOK
    <2>1. PICK u \in BOOLEAN : staged = [gates |-> {}, undivided |-> u] /\ applied = staged
      BY DEF ClockInit, Init
    <2> QED BY <1>2, <2>1 DEF ClockInit, Init, LoadOK, Clocks
  <1>7. ModeOK /\ PinOK /\ ReturnOK
    BY <1>2 DEF ClockInit, Init, ModeOK, Stage, DivisorStage, PinOK, ReturnOK, Dios,
           RedLed, GreenLed
  <1> QED BY <1>3, <1>4, <1>5, <1>6, <1>7 DEF BInv

LEMMA BInvNext == BInv /\ [ClockNext]_clockVars => BInv'
  <1> SUFFICES ASSUME BInv, [ClockNext]_clockVars PROVE BInv'
    OBVIOUS
  <1>1. CASE UNCHANGED clockVars
    BY <1>1, NoMore
       DEF clockVars, vars, call, BInv, ProgressOK, PowerOK, LoadOK, ModeOK, Stage, DivisorStage,
           PinOK, ReturnOK, ExposureOK, prcm, devices, pads, fg
  <1>2. CASE BoardStep
    <2>1. UNCHANGED <<osc, call, wanted>>
      BY <1>2 DEF BoardStep
    <2>2. CASE Proceed
      BY <2>1, <2>2, ProgressKeeps, PowerKeeps, LoadKeeps, ModeKeeps, PinKeeps, ReturnKeeps,
         ExposureKeeps DEF BInv
    <2> QED BY <1>2, <2>1, <2>2, HardwareKeeps, TakeKeeps DEF BoardStep
  <1>3. CASE ~BoardStep /\ ClockNext
    BY <1>3, ClockKeeps DEF ClockNext
  <1> QED BY <1>1, <1>2, <1>3

LEMMA BInvHolds == ClockSpec => []BInv
  BY BInvInit, BInvNext, PTL DEF ClockSpec

-----------------------------------------------------------------------------
(* What follows *)

LEMMA StepsOfScript == Len(Script) + 1 = 53
  BY ScriptIs

\* The board's variables keep their types, and no peripheral is ever started
\* before it has its format.
THEOREM BoardTypeCorrect == ClockSpec => []TypeOK
  <1>1. BInv => TypeOK
    <2> SUFFICES ASSUME BInv PROVE TypeOK
      OBVIOUS
    <2>1. mode \in [Peripherals -> {"reset", "halted", "formatted", "running"}]
      BY DEF BInv, ModeOK, Stage
    <2>2. divisor \in {"unset", "written", "committed"}
      BY DEF BInv, ModeOK, DivisorStage
    <2>3. powered \subseteq Domains /\ built \subseteq Handles
      BY DEF BInv, PowerOK, ReturnOK
    <2> QED BY <2>1, <2>2, <2>3, StepsOfScript
            DEF BInv, ProgressOK, PowerOK, LoadOK, PinOK, ExposureOK, TypeOK
  <1> QED BY <1>1, BInvHolds, PTL

\* The access in turn finds the domain on and the clock in force, whichever
\* handshakes are slow and however many polls they may take.
THEOREM AccessesAreReachable == ClockSpec => []AccessesReachable
  <1>1. BInv => AccessesReachable
    <2> SUFFICES ASSUME BInv, outcome = "running", NEW p \in Touched PROVE Reachable(p)
      BY DEF AccessesReachable
    <2>1. step \in 1 .. 52 /\ step \in 1 .. 53 /\ Script[step] = Table[step]
      BY ScriptIs DEF BInv, ProgressOK
    <2>2. /\ step > 5 => "periph" \in powered
          /\ step > 39 => "serial" \in powered
      BY <2>1, Firsts, Passed DEF BInv, PowerOK, Domains
    <2>3. /\ step > 8 => "gpio" \in applied.gates
          /\ step > 26 => "gpt1" \in applied.gates
          /\ step > 35 => "gpt0" \in applied.gates
          /\ step > 42 => "uart0" \in applied.gates
      BY <2>1, Applied DEF BInv, LoadOK, Peripherals
    <2>4. CASE Table[step].do \in {"clear", "drive"}
      <3>1. step > 8 /\ p = "gpio"
        BY <2>1, <2>4, Places DEF Touched
      <3> QED BY <2>1, <2>2, <2>3, <3>1 DEF Reachable, DomainOf
    <2>5. CASE Table[step].do \in {"halt", "divide", "format", "start"}
      <3>1. step \in {27, 28, 29, 36, 45, 46, 47, 48} /\ p = Table[step].of
        BY <2>1, <2>5, Places DEF Touched, Subject
      <3>2. \/ step > 26 /\ p = "gpt1"
            \/ step > 35 /\ p = "gpt0"
            \/ step > 42 /\ p = "uart0"
        BY <3>1, SubjectAt
      <3> QED BY <2>1, <2>2, <2>3, <3>2 DEF Reachable, DomainOf
    <2> QED BY <2>1, <2>4, <2>5 DEF Touched
  <1> QED BY <1>1, BInvHolds, PTL

\* What a returned handle needs was done before it was returned.
LEMMA ReturnedReady ==
    ASSUME BInv, NEW h \in built
    PROVE  HandleReady(h)
  <1>1. step \in 1 .. 53 /\ h \in Handles /\ Before("return", h)
    BY DEF BInv, ProgressOK, ReturnOK
  <1>2. /\ step > 5 => "periph" \in powered
        /\ step > 39 => "serial" \in powered
    BY <1>1, Firsts, Passed DEF BInv, PowerOK, Domains
  <1>3. /\ step > 3 => applied.undivided
        /\ step > 8 => "gpio" \in applied.gates
        /\ step > 26 => "gpt1" \in applied.gates
        /\ step > 35 => "gpt0" \in applied.gates
        /\ step > 42 => "uart0" \in applied.gates
    BY <1>1, Applied DEF BInv, LoadOK, Peripherals
  <1>4. \A d \in Dios :
            /\ Before("route", d) => route[d] = SignalOf(d)
            /\ Before("drive", d) => d \in driven
    BY DEF BInv, PinOK
  <1>5. \A p \in Peripherals : mode[p] = Stage(p)
    BY DEF BInv, ModeOK
  <1>6. CASE h \in {RedLed, GreenLed}
    <2>1. step > 12 /\ Before("route", h) /\ Before("drive", h)
      <3>1. (h = "dio6" /\ step > 12) \/ (h = "dio7" /\ step > 21)
        BY <1>1, <1>6, Firsts, Passed DEF RedLed, GreenLed
      <3> QED BY <1>1, <3>1, Firsts, Passed
    <2>2. h \in Dios /\ SignalOf(h) = "gpio"
      BY <1>6 DEF Dios, SignalOf, RedLed, GreenLed, UartRx, UartTx
    <2>3. LedReady(h)
      BY <1>1, <1>2, <1>3, <1>4, <2>1, <2>2 DEF LedReady, Reachable, DomainOf
    <2> QED BY <1>6, <2>3 DEF HandleReady, CounterGpt, TimerGpt, RedLed, GreenLed
  <1>7. CASE h = CounterGpt
    <2>1. step > 30 /\ Before("start", "gpt1")
      BY <1>1, <1>7, Firsts, Passed DEF CounterGpt
    <2>2. mode["gpt1"] = "running"
      BY <1>5, <2>1 DEF Stage, Peripherals
    <2> QED BY <1>1, <1>2, <1>3, <1>7, <2>1, <2>2
            DEF HandleReady, Reachable, DomainOf, CounterGpt, TimerGpt, RedLed, GreenLed
  <1>8. CASE h = TimerGpt
    <2>1. step > 37 /\ Before("halt", "gpt0")
      BY <1>1, <1>8, Firsts, Passed DEF TimerGpt
    <2>2. mode["gpt0"] = "halted"
      BY <1>1, <1>5, <2>1, Never DEF Stage, Peripherals
    <2> QED BY <1>1, <1>2, <1>3, <1>8, <2>1, <2>2
            DEF HandleReady, Reachable, DomainOf, CounterGpt, TimerGpt, RedLed, GreenLed
  <1>9. CASE h = "uart0"
    <2>1. step > 49
      BY <1>1, <1>9, Firsts, Passed
    <2>2. /\ Before("route", "dio12") /\ Before("route", "dio13")
          /\ Before("start", "uart0") /\ Before("format", "uart0")
      BY <1>1, <2>1, Firsts, Passed
    <2>3. mode["uart0"] = "running" /\ divisor = "committed"
      BY <1>5, <2>2 DEF Stage, Peripherals, BInv, ModeOK, DivisorStage
    <2>4. route["dio12"] = "uart_rx" /\ route["dio13"] = "uart_tx"
      BY <1>4, <2>2 DEF Dios, SignalOf, UartRx, UartTx
    <2> QED BY <1>1, <1>2, <1>3, <1>9, <2>1, <2>3, <2>4
            DEF HandleReady, UartReady, Reachable, DomainOf, CounterGpt, TimerGpt, RedLed, GreenLed,
                UartRx, UartTx
  <1> QED BY <1>1, <1>6, <1>7, <1>8, <1>9 DEF Handles

\* A returned handle stays good through the later constructors, further calls
\* of take() and whatever the clock switch does.
THEOREM HandlesAreReady == ClockSpec => []HandlesStayReady
  <1>1. BInv => driven \cap high = {}
    <2> SUFFICES ASSUME BInv, NEW d \in driven PROVE d \notin high
      OBVIOUS
    <2>1. d \in Dios /\ Before("drive", d) /\ step \in 1 .. 53
      BY DEF BInv, PinOK, ProgressOK
    <2>2. PICK j \in 1 .. step - 1 : Script[j].do = "drive" /\ Script[j].of = d
      BY <2>1 DEF Before
    <2>3. j \in 1 .. 52 /\ Table[j].do = "drive" /\ Table[j].of = d
      BY <2>1, <2>2, ScriptIs
    <2>4. (j = 11 /\ d = "dio6") \/ (j = 20 /\ d = "dio7")
      <3>1. j \in {11, 20}
        BY <2>3, Places
      <3> QED BY <2>3, <3>1, SubjectAt
    <2>5. Before("clear", d)
      BY <2>1, <2>4, Firsts, Passed
    <2> QED BY <2>1, <2>5 DEF BInv, PinOK
  <1>2. BInv => HandlesStayReady
    BY <1>1, ReturnedReady DEF HandlesStayReady
  <1> QED BY <1>2, BInvHolds, PTL

\* Pads are released, frozen latches let go and the interrupt mask moved over
\* a complete board only, by take() and by the clock switch.
THEOREM BoardExposedLast == ClockSpec => ExposedLast
  <1> DEFINE Exposes == asleep' # asleep \/ frozen' # frozen \/ primask' # primask
  <1>1. ASSUME BInv, step \in 50 .. 53 PROVE built = Handles
    <2>1. step \in 1 .. 53
      BY <1>1
    <2>2. /\ Before("return", "dio6") /\ Before("return", "dio7") /\ Before("return", "gpt1")
          /\ Before("return", "gpt0") /\ Before("return", "uart0")
      BY <1>1, <2>1, Firsts, Passed
    <2> QED BY <1>1, <2>2 DEF BInv, ReturnOK, Handles, RedLed, GreenLed, CounterGpt, TimerGpt
  <1>2. ASSUME BInv, Proceed, Exposes PROVE step \in 50 .. 53
    <2>1. Wake \/ Thaw \/ Unmask
      BY <1>2 DEF Proceed, Poll, Request, Gate, Undivide, StartLoad, ClearOutput, DriveOutput,
                  RoutePin, Halt, Divide, Format, StartPeripheral, ReturnHandle, pads
    <2>2. Script[step].do \in {"wake", "thaw", "unmask"}
      BY <2>1 DEF Wake, Thaw, Unmask, At
    <2>3. step \in 1 .. 52 /\ Script[step] = Table[step]
      BY <1>2, Proceeding
    <2> QED BY <2>2, <2>3, Places
  <1>3. ASSUME BInv, ~Proceed, ClockNext, Exposes PROVE step \in 50 .. 53
    <2>1. outcome \in {"board", "none"}
      BY <1>3 DEF ClockNext, BoardStep, Power, Load, Take, CrystalStarts, Mask, RequestHfCrystal,
                  HfCrystalReady, TrySwitch, SaveAndDisable, HfSourceSafeSwitch, ReturnDcdc,
                  RestoreMask, HasHandle, BInv, ExposureOK, board, pads
    <2> QED BY <1>3, <2>1 DEF BInv, ProgressOK
  <1>4. BInv /\ [ClockNext]_clockVars => [Exposes => built = Handles]_vars
    BY <1>1, <1>2, <1>3 DEF clockVars
  <1> QED BY <1>4, BInvHolds, PTL DEF ClockSpec, ExposedLast

-----------------------------------------------------------------------------
(* The clock switch *)

\* Without a handle no clock is touched.
Untouched ==
    /\ turn = "idle" /\ ~switched /\ wanted = FALSE
    /\ ~onCrystal /\ ClkDcdcSrcSel \in ctl0

\* A call in progress: a switch follows only readiness, the regulator only the
\* switch, and the mask to be restored is the owner's.
CallSound ==
    /\ turn = "idle" => (onCrystal <=> ClkDcdcSrcSel \notin ctl0)
    /\ turn \in {"mask", "rom"} => pending /\ ~onCrystal /\ ClkDcdcSrcSel \in ctl0
    /\ turn = "dcdc" => onCrystal
    /\ turn = "restore" => onCrystal /\ ClkDcdcSrcSel \notin ctl0
    /\ turn \in {"rom", "dcdc", "restore"} => primask /\ saved = wanted
    /\ turn = "mask" => primask = wanted

CInv ==
    /\ turn \in {"idle", "mask", "rom", "dcdc", "restore"}
    /\ outcome \in {"idle", "running", "board", "none", "panic"}
    /\ outcome # "idle" <=> taken
    /\ outcome \in {"idle", "running", "panic"} => Untouched
    /\ HasHandle => primask = wanted
    /\ CallSound
    /\ ready => onCrystal \/ pending
    /\ switched => onCrystal

\* The last thing take() does is to unmask interrupts.
LEMMA UnmaskedLast == Script[Len(Script)].do = "unmask"
  BY ScriptIs DEF Table, Access

LEMMA CInvInit == ClockInit => CInv
  BY DEF ClockInit, Init, CInv, Untouched, CallSound, HasHandle, ClkDcdcSrcSel

\* No step of take() but its last hands out the board, and that one unmasks.
LEMMA TakeStep ==
    ASSUME Proceed
    PROVE  /\ outcome = "running"
           /\ outcome' \in {"running", "board", "panic"}
           /\ outcome' = "board" => primask' = FALSE
           /\ UNCHANGED taken
  <1> USE DEF At
  <1>1. CASE Unmask
    BY <1>1 DEF Unmask, Advance
  <1>2. CASE Poll
    <2>1. At("await_power") \/ At("await_load")
      BY <1>2 DEF Poll
    <2>2. step # Len(Script)
      BY <2>1, UnmaskedLast
    <2> QED BY <1>2, <2>1, <2>2 DEF Poll, Advance
  <1>3. CASE Proceed /\ ~Unmask /\ ~Poll
    <2>1. outcome = "running" /\ Script[step].do # "unmask" /\ Advance
      BY <1>3 DEF Proceed, Request, Gate, Undivide, StartLoad, ClearOutput, DriveOutput,
                  RoutePin, Halt, Divide, Format, StartPeripheral, Wake, Thaw, ReturnHandle
    <2>2. step # Len(Script)
      BY <2>1, UnmaskedLast
    <2> QED BY <2>1, <2>2 DEF Advance
  <1> QED BY <1>1, <1>2, <1>3

LEMMA BoardKeeps ==
    ASSUME CInv, BoardStep
    PROVE  CInv'
  <1>1. UNCHANGED <<osc, call, wanted>>
    BY DEF BoardStep
  <1>2. CASE Power \/ Load
    BY <1>1, <1>2 DEF Power, Load, CInv, Untouched, CallSound, HasHandle, osc, call, fg
  <1>3. CASE Proceed
    <2>1. /\ outcome = "running"
          /\ outcome' \in {"running", "board", "panic"}
          /\ outcome' = "board" => primask' = FALSE
          /\ UNCHANGED taken
      BY <1>3, TakeStep, Zenon
    <2>2. turn = "idle" /\ Untouched
      BY <2>1 DEF CInv, Untouched
    <2> QED BY <1>1, <2>1, <2>2 DEF CInv, Untouched, CallSound, HasHandle, osc, call
  <1>4. CASE turn = "idle" /\ Take
    BY <1>1, <1>4 DEF Take, CInv, Untouched, CallSound, HasHandle, osc, call
  <1> QED BY <1>2, <1>3, <1>4 DEF BoardStep

\* The crystal and the owner's calls
LEMMA OwnerKeeps ==
    ASSUME CInv,
           \/ CrystalStarts \/ \E on \in BOOLEAN : Mask(on)
           \/ RequestHfCrystal \/ HfCrystalReady \/ TrySwitch
    PROVE  CInv'
  <1> USE DEF CInv, Untouched, CallSound, HasHandle, osc, call, board, fg
  <1>1. CASE CrystalStarts
    BY <1>1 DEF CrystalStarts
  <1>2. ASSUME NEW on \in BOOLEAN, Mask(on) PROVE CInv'
    BY <1>2 DEF Mask
  <1>3. CASE RequestHfCrystal
    BY <1>3 DEF RequestHfCrystal, SetBits, SclkHfSrcSel, ClkDcdcSrcSel
  <1>4. CASE HfCrystalReady
    BY <1>4 DEF HfCrystalReady
  <1>5. CASE TrySwitch
    BY <1>5 DEF TrySwitch
  <1> QED BY <1>1, <1>2, <1>3, <1>4, <1>5

\* The masked section
LEMMA SwitchKeeps ==
    ASSUME CInv, SaveAndDisable \/ HfSourceSafeSwitch \/ ReturnDcdc \/ RestoreMask
    PROVE  CInv'
  <1> USE DEF CInv, Untouched, CallSound, HasHandle, osc, call, board, fg
  <1>1. CASE SaveAndDisable
    BY <1>1 DEF SaveAndDisable
  <1>2. CASE HfSourceSafeSwitch
    BY <1>2 DEF HfSourceSafeSwitch
  <1>3. CASE ReturnDcdc
    BY <1>3 DEF ReturnDcdc, ClearBits
  <1>4. CASE RestoreMask
    BY <1>4 DEF RestoreMask
  <1> QED BY <1>1, <1>2, <1>3, <1>4

LEMMA CInvNext == CInv /\ [ClockNext]_clockVars => CInv'
  <1> SUFFICES ASSUME CInv, [ClockNext]_clockVars PROVE CInv'
    OBVIOUS
  <1>1. CASE UNCHANGED clockVars
    BY <1>1 DEF clockVars, vars, osc, call, fg, CInv, Untouched, CallSound, HasHandle
  <1> QED BY <1>1, BoardKeeps, OwnerKeeps, SwitchKeeps DEF ClockNext

\* The HF source changes only masked and only to a crystal that has started,
\* the regulator follows it, masks are restored and answers are true: for any
\* order of calls of Clocks' methods and of take().
THEOREM SwitchIsSound == ClockSpec => []SwitchSound
  <1>1. CInv => SwitchSound
    BY DEF CInv, CallSound, Untouched, HasHandle, SwitchSound
  <1> QED BY <1>1, CInvInit, CInvNext, PTL DEF ClockSpec
=============================================================================
