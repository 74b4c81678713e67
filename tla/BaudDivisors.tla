---------------------------- MODULE BaudDivisors ----------------------------
(***************************************************************************)
(* firmware/uart.rs, baud_divisors: the 16.6 fixed-point divisor of the    *)
(* UART clock for a requested baud. The UART runs at 4 * Clock / divisor   *)
(* baud when the divisor is counted in 64ths.                              *)
(***************************************************************************)
EXTENDS Integers

CONSTANTS
    Clock,  \* HF_CLOCK_HZ: 48_000_000 on the chip
    Bauds   \* bauds asked for

ASSUME ClockAssumption == Clock \in Nat \ {0}
ASSUME BaudsAssumption == Bauds \subseteq Nat

None == [integer |-> 0, fraction |-> 0]

\* Mutation: integer and fraction computed apart, so that a fraction that
\* rounds up to a whole is lost.
ScaledApart(b) ==
    LET integer == Clock \div (16 * b)
        rest == Clock % (16 * b)
    IN  (64 * integer) + (((4 * rest + b \div 2) \div b) % 64)

\* The divisor in 64ths, rounded to the nearest.
Scaled(b) == (4 * Clock + b \div 2) \div b

\* The registers hold 1 to 65535, the latter without a fraction.
MaxInteger == 65535
InRange(scaled) == 64 <= scaled /\ scaled <= MaxInteger * 64

Divisors(b) ==
    IF b = 0 \/ b > Clock \div 16 \/ ~InRange(Scaled(b))
    THEN None
    ELSE [integer |-> Scaled(b) \div 64, fraction |-> Scaled(b) % 64]

VARIABLES
    baud,      \* the baud last asked for
    divisors   \* the answer to it: IBRD and FBRD, or None

vars == <<baud, divisors>>

Init == baud = 0 /\ divisors = None

Ask(b) ==
    /\ baud' = b
    /\ divisors' = Divisors(b)

Next == \E b \in Bauds : Ask(b)

Spec == Init /\ [][Next]_vars

-----------------------------------------------------------------------------
(* Properties *)

\* The divisor an answer stands for, in 64ths.
Combined == 64 * divisors.integer + divisors.fraction

\* How far a divisor is off the exact 4 * Clock / baud, times baud.
Off(scaled) == IF scaled * baud >= 4 * Clock THEN scaled * baud - 4 * Clock
                                             ELSE 4 * Clock - scaled * baud

\* An answer is the register pair nearest to the exact divisor, the carry from
\* fraction to integer included. A baud is refused only if it is zero, if it
\* exceeds the undivided rate, or if the exact divisor is half a step or more
\* beyond what the registers hold.
DivisorNearest ==
    IF divisors # None
    THEN /\ divisors.integer \in 1 .. MaxInteger /\ divisors.fraction \in 0 .. 63
         /\ divisors.integer = MaxInteger => divisors.fraction = 0
         /\ 2 * Off(Combined) <= baud
    ELSE \/ baud = 0
         \/ 16 * baud > Clock
         \/ (2 * MaxInteger * 64 + 1) * baud <= 8 * Clock
=============================================================================
