CONSTANTS
    Timers = {0}
    Requests = {0, 1, 4, 13}
    TicksPerUs = 1
    MaxTicks = 12
    CountMod = 12
    Fast = 1
    Slow = 4
    Overflow = 13
    Needed = 3
    Quiet = 3
    Timeout = 8
    LineTime = 2
    MaxGap = 2
    PollTicks = 2
    Budget = 8
    QuietBudget = 6

SPECIFICATION FairSpec

INVARIANTS
    TypeOK
    PanicsExplained
    VerdictTrue
    BlinksFollow

PROPERTIES
    Concludes

\* A panic parks the CPU.
CHECK_DEADLOCK FALSE
