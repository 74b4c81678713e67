----------------------------- MODULE MCRunner -----------------------------
(* Runner with what probe-rs may write to stdout. It may end anywhere, so   *)
(* the first of these covers a complete passing suite and its beginnings,   *)
(* too.                                                                     *)
EXTENDS Runner

MCTranscripts ==
    {<<Started(1), Ended(TRUE, 1, 0, 0), Test>>,
     <<Started(1), Ended(FALSE, 0, 1, 0)>>,
     <<Note>>}
=============================================================================
