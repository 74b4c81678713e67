CONSTANTS
    Timers = {1, 2}
    Requests = {0, 2}
    TicksPerUs = 3
    MaxTicks = 8
    CountMod = 3

SPECIFICATION Spec

INVARIANTS
    TimeoutsAccounted
    ReconfiguresAlone
    StoppedIsClean
    IInv

PROPERTIES
    StopIsFinal
    ImplementsContract
