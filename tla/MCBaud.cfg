CONSTANTS
    Clock = 48000000
    Bauds <- AroundLimits

SPECIFICATION Spec

INVARIANTS
    DivisorNearest
