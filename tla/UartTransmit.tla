---------------------------- MODULE UartTransmit ----------------------------
(***************************************************************************)
(* firmware/uart.rs, sending: write_timeout and its try_write, between a   *)
(* transmit FIFO that drains at the line's pace and a free-running counter *)
(* that wraps. Handlers may delay the foreground anywhere, so time passes  *)
(* between any two of its steps; MaxGap bounds the ticks it can lose       *)
(* between two readings of the counter.                                    *)
(***************************************************************************)
EXTENDS Integers

CONSTANTS
    Depth,      \* entries of the transmit FIFO
    MaxBytes,   \* longest slice written
    Half,       \* half the counter's range: 2^31 on the chip
    Limits,     \* timeouts a caller asks for, in ticks
    MaxGap,     \* most ticks between two readings of the counter
    Horizon     \* bound of the model: ticks followed in one call

ASSUME DepthAssumption == Depth \in Nat \ {0}
ASSUME BytesAssumption == MaxBytes \in Nat
ASSUME TickAssumption == Half \in Nat \ {0}
ASSUME LimitsAssumption == Limits \subseteq Nat
ASSUME GapAssumption == MaxGap \in Nat \ {0} /\ Horizon \in Nat

\* Modulus of the counter, and i32::MAX on the chip.
TickMod == 2 * Half
MaxLimit == Half - 1

VARIABLES
    fifo,     \* entries of the transmit FIFO in use
    now,      \* the counter
    pc,       \* the next step of write_timeout, or "idle"
    bytes,    \* length of the slice
    limit,    \* timeout_ticks
    start,    \* the counter at the call
    next,     \* bytes of the slice already handed over
    result,   \* "none" while running, then "ok" or "timeout"
    entered,  \* history: bytes of the slice that did enter the FIFO
    spent,    \* history: ticks since start, not wrapped
    gap       \* history: ticks since the counter was last read

args == <<bytes, limit, start>>
time == <<now, spent, gap>>
vars == <<fifo, pc, next, result, entered, args, time>>

Init ==
    /\ fifo = 0
    /\ now = 0
    /\ pc = "idle"
    /\ bytes = 0
    /\ limit = 0
    /\ start = 0
    /\ next = 0
    /\ result = "none"
    /\ entered = 0
    /\ spent = 0
    /\ gap = 0

-----------------------------------------------------------------------------
(* The hardware *)

\* The line takes a byte from the FIFO.
Drain ==
    /\ fifo > 0
    /\ fifo' = fifo - 1
    /\ UNCHANGED <<pc, next, result, entered, args, time>>

\* The counter advances during a call; between calls Write picks its value.
Tick ==
    /\ pc # "idle"
    /\ gap < MaxGap
    /\ spent < Horizon
    /\ now' = IF now + 1 = TickMod THEN 0 ELSE now + 1
    /\ spent' = spent + 1
    /\ gap' = gap + 1
    /\ UNCHANGED <<fifo, pc, next, result, entered, args>>

-----------------------------------------------------------------------------
(* write_timeout *)

\* Mutation: the distance between two readings, whichever is larger.
Distance(t) == IF now >= t THEN now - t ELSE t - now

\* Mutation: a saturating subtraction.
Saturating(t) == IF now >= t THEN now - t ELSE 0

\* Counter::elapsed_since: a wrapping subtraction.
ElapsedSince(t) == IF now >= t THEN now - t ELSE now - t + TickMod

Return(r) == pc' = "idle" /\ result' = r

\* The timeout is refused, or the counter is read and the loop entered; an
\* empty slice is written at once.
Write(n, l, t) ==
    /\ pc = "idle"
    /\ bytes' = n
    /\ limit' = l
    /\ start' = t
    /\ now' = t
    /\ spent' = 0
    /\ gap' = 0
    /\ next' = 0
    /\ entered' = 0
    /\ IF l > MaxLimit THEN Return("timeout")
       ELSE IF n = 0 THEN Return("ok")
       ELSE pc' = "poll" /\ result' = "none"
    /\ UNCHANGED fifo

Poll ==
    /\ pc = "poll"
    /\ IF ElapsedSince(start) >= limit
       THEN Return("timeout")
       ELSE pc' = "flags" /\ UNCHANGED result
    /\ gap' = 0
    /\ UNCHANGED <<fifo, next, entered, args, now, spent>>

\* Mutation: DR written without looking at FR.
ReadNoFlags ==
    /\ pc = "flags"
    /\ pc' = "store"
    /\ UNCHANGED <<fifo, next, result, entered, args, time>>

\* Mutation: a full FIFO waited for without reading the counter again.
SpinOnFlags ==
    /\ pc = "flags"
    /\ pc' = IF fifo = Depth THEN "flags" ELSE "store"
    /\ UNCHANGED <<fifo, next, result, entered, args, time>>

\* try_write reads FR: a full FIFO means WouldBlock, and the loop spins.
ReadFlags ==
    /\ pc = "flags"
    /\ pc' = IF fifo = Depth THEN "poll" ELSE "store"
    /\ UNCHANGED <<fifo, next, result, entered, args, time>>

\* Mutation: the loop taken once too often.
WriteOneMore ==
    /\ pc = "store"
    /\ fifo' = IF fifo < Depth THEN fifo + 1 ELSE fifo
    /\ entered' = IF fifo < Depth THEN entered + 1 ELSE entered
    /\ next' = next + 1
    /\ IF next = bytes THEN Return("ok") ELSE pc' = "poll" /\ UNCHANGED result
    /\ UNCHANGED <<args, time>>

\* try_write writes DR; a byte written to a full FIFO would be lost.
WriteData ==
    /\ pc = "store"
    /\ fifo' = IF fifo < Depth THEN fifo + 1 ELSE fifo
    /\ entered' = IF fifo < Depth THEN entered + 1 ELSE entered
    /\ next' = next + 1
    /\ IF next + 1 = bytes THEN Return("ok") ELSE pc' = "poll" /\ UNCHANGED result
    /\ UNCHANGED <<args, time>>

Proceed == Poll \/ ReadFlags \/ WriteData

Next ==
    \/ Drain
    \/ Tick
    \/ \E n \in 0 .. MaxBytes, l \in Limits, t \in 0 .. TickMod - 1 : Write(n, l, t)
    \/ Proceed

Spec == Init /\ [][Next]_vars

\* The counter runs and the foreground gets to run; the line may be stuck.
Fairness == WF_vars(Tick) /\ WF_vars(Proceed)

FairSpec == Spec /\ Fairness

-----------------------------------------------------------------------------
(* Properties *)

\* Every variable keeps its type.
TypeOK ==
    /\ fifo \in 0 .. Depth
    /\ now \in 0 .. TickMod - 1
    /\ pc \in {"idle", "poll", "flags", "store"}
    /\ bytes \in 0 .. MaxBytes
    /\ limit \in {0} \cup Limits
    /\ start \in 0 .. TickMod - 1
    /\ next \in 0 .. bytes
    /\ result \in {"none", "ok", "timeout"}
    /\ entered \in 0 .. bytes
    /\ spent \in 0 .. Horizon
    /\ gap \in 0 .. MaxGap

\* Every byte the loop has moved past is in the FIFO or beyond: none is
\* stored on the strength of a stale FR into a FIFO that has no room.
BytesEnter == entered = next

\* Ok means the whole slice, Timeout a strict prefix of it - nothing at all if
\* the limit is zero or refused - and only after that many ticks did pass.
OutcomeTrue ==
    /\ result = "ok" => next = bytes
    /\ result = "timeout" => next < bytes \/ bytes = 0
    /\ result = "timeout" /\ limit <= MaxLimit => spent >= limit
    /\ limit = 0 \/ limit > MaxLimit => next = 0

\* write_timeout bounds the whole operation: it never runs on for longer
\* than its limit and the one gap in which the limit was reached.
DeadlineHonoured == pc # "idle" => spent <= limit + MaxGap

\* The call returns even if the line takes no byte any more.
WriteReturns == pc # "idle" ~> pc = "idle"
=============================================================================
