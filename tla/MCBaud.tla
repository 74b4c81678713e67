------------------------------- MODULE MCBaud -------------------------------
(* BaudDivisors on the chip's clock, around its limits and carries. *)
EXTENDS BaudDivisors

AroundLimits ==
    (0 .. 2500) \cup (1499900 .. 1500100) \cup (2999900 .. 3000100)
        \cup {9600, 19200, 38400, 57600, 115200, 230400, 460800, 921600}
=============================================================================
