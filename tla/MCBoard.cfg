CONSTANT Budget = 3

SPECIFICATION ClockSpec

INVARIANTS
    TypeOK
    AccessesReachable
    HandlesStayReady
    SwitchSound

PROPERTIES
    ExposedLast
    TakeEnds

\* A panic parks the CPU.
CHECK_DEADLOCK FALSE
