CONSTANTS
    Runners = {r1, r2}
    NoRunner = NoRunner
    Transcripts <- MCTranscripts
    Codes = {0, 1}

SPECIFICATION FairSpec

INVARIANTS
    TypeOK
    ProbeExclusive
    NothingLost
    PassEarned

PROPERTY RunsEnd

\* Every runner exits.
CHECK_DEADLOCK FALSE
