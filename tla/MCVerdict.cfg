CONSTANTS
    Lines <- MCLines
    Codes = {0, 1, 7}
    MaxLines = 4

SPECIFICATION VerdictSpec

INVARIANTS
    ScanTrue
    VerdictEarned

\* A report ends it.
CHECK_DEADLOCK FALSE
