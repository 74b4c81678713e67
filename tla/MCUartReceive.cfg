CONSTANTS
    Depth = 2
    Stream = 8

SPECIFICATION Spec

INVARIANTS
    TypeOK
    EachOnce

PROPERTIES
    LossAnnounced

