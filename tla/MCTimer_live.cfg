CONSTANTS
    Timers = {0}
    Requests = {0, 1, 2, 3}
    TicksPerUs = 3
    MaxTicks = 8
    CountMod = 3

SPECIFICATION FairSpec

PROPERTIES
    CallsReturn
    EngagedTimerServed
