CONSTANTS
    Runners = {r1, r2}
    NoRunner = NoRunner
    Transcripts <- MCTranscripts
    Codes = {0, 1}

SPECIFICATION InterruptedSpec

INVARIANT ProbeExclusive

CHECK_DEADLOCK FALSE
