------------------------------ MODULE MCTimer ------------------------------
(* Timer on one timer, and on two whose IRQs share an IPR word: 3 ticks per  *)
(* microsecond and at most 8 ticks, so that 0 and 3 microseconds are the     *)
(* refused requests.                                                         *)
EXTENDS TimerInduction
=============================================================================
