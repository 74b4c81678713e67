---------------------------- MODULE TimerParams ----------------------------
(***************************************************************************)
(* What the timer driver and its contract share: the GPT instances, the    *)
(* intervals clients ask for, the conversion of microseconds to ticks and  *)
(* the wrapping acknowledgement counter.                                   *)
(***************************************************************************)
EXTENDS Integers

CONSTANTS
    Timers,      \* GPT instances driven as timers, by number (Instance)
    Requests,    \* microseconds a client may ask for, zero and overflowing ones included
    TicksPerUs,  \* GPT_CLOCK_HZ / 1_000_000: 48 on the chip
    MaxTicks,    \* largest tick count of the 32-bit timer: 2^32 - 1 on the chip
    CountMod     \* modulus of the AtomicU32 acknowledgement counter: 2^32 on the chip

ASSUME TimersAssumption == Timers \subseteq 0 .. 3
ASSUME RequestsAssumption == Requests \subseteq Nat
ASSUME TicksAssumption == TicksPerUs \in Nat \ {0} /\ MaxTicks \in Nat \ {0}
\* Three values tell "none", "one" and "two" owed acknowledgements apart.
ASSUME CountModAssumption == CountMod \in Nat /\ CountMod > 2

\* ticks_from_us: the product, when checked_mul does not overflow ...
TicksFromUs(us) == us * TicksPerUs

\* Mutation: arm without its filter on zero.
ValidUnlessOverflow(us) == TicksFromUs(us) <= MaxTicks

\* ... and arm's filter: overflow (None) and zero are both refused.
ValidRequest(us) == TicksFromUs(us) # 0 /\ TicksFromUs(us) <= MaxTicks

\* fetch_add(1) on the wrapping counter, and its inverse.
Bump(n) == IF n + 1 = CountMod THEN 0 ELSE n + 1
Unbump(n) == IF n = 0 THEN CountMod - 1 ELSE n - 1

\* The calls a client makes on a Timer handle.
StartOps == {"once", "periodic"}
NoCall == [op |-> "none", timer |-> -1, us |-> 0]
TimerCalls ==
    [op : StartOps, timer : Timers, us : Requests]
        \cup [op : {"stop"}, timer : Timers, us : {0}]
=============================================================================
