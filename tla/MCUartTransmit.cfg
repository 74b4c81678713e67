CONSTANTS
    Depth = 2
    MaxBytes = 3
    Half = 4
    Limits = {0, 1, 2, 3, 5}
    MaxGap = 5
    Horizon = 16

SPECIFICATION FairSpec

INVARIANTS
    TypeOK
    BytesEnter
    OutcomeTrue
    DeadlineHonoured

PROPERTIES
    WriteReturns
