----------------------------- MODULE MCVerdict -----------------------------
(* Verdict on all transcripts of up to four of these lines: each kind of    *)
(* line, with counts that agree with a start and counts that do not.        *)
EXTENDS Verdict

MCLines ==
    {Note, Bad, Test, Started(0), Started(1), Started(-1),
     Ended(TRUE, 1, 0, 0), Ended(FALSE, 0, 1, 0), Ended(TRUE, 0, 0, 1),
     Ended(TRUE, 0, 0, 0), Ended(TRUE, 0, 1, 0), Ended(TRUE, 2, 0, -1)}
=============================================================================
