CONSTANTS
    Budget = 2
    MaxLosses = 1

SPECIFICATION FairSpec

INVARIANTS
    TypeOK
    MainReady
    RecordTells

PROPERTIES
    BootEnds

\* A locked-up CPU stops.
CHECK_DEADLOCK FALSE
