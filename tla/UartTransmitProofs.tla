------------------------ MODULE UartTransmitProofs ------------------------
(***************************************************************************)
(* Proofs about UartTransmit, for every FIFO depth, slice, counter width   *)
(* and timeout. The one thing they need from outside the driver is named:  *)
(* GapFits, how often the foreground gets to read the counter.             *)
(***************************************************************************)
EXTENDS UartTransmit, TLAPS

USE DepthAssumption, BytesAssumption, TickAssumption, LimitsAssumption, GapAssumption

\* The longest timeout and one more gap stay within the counter's range.
GapFits == MaxLimit + MaxGap <= TickMod /\ MaxGap < TickMod

\* A call in progress has an accepted limit and bytes left, and DR is written
\* only into a FIFO with room, which can but grow in the meantime.
LoopOK ==
    /\ pc # "idle" => result = "none" /\ limit <= MaxLimit /\ next < bytes
    /\ pc = "store" => fifo < Depth
    /\ pc \in {"flags", "store"} => limit > 0
    /\ limit = 0 => next = 0

\* At the last reading of the counter the limit was not reached.
GapOK ==
    pc # "idle" => gap <= spent /\ (spent = gap \/ spent - gap < limit)

\* The wrapped difference is the ticks that really passed.
ClockOK == pc # "idle" => ElapsedSince(start) = spent

\* What needs no clock, and all of it.
LoopInv == TypeOK /\ LoopOK /\ BytesEnter
TimeInv == LoopInv /\ OutcomeTrue /\ GapOK /\ ClockOK

\* TypeOK, BytesEnter and OutcomeTrue hold at the start of time ...
LEMMA InitInv == Init => TimeInv
BY DEF Init, TimeInv, LoopInv, TypeOK, LoopOK, BytesEnter, OutcomeTrue, GapOK, ClockOK, TickMod

\* ... and every step keeps what needs no clock.
LEMMA LoopStep == LoopInv /\ [Next]_vars => LoopInv'
<1> SUFFICES ASSUME LoopInv, [Next]_vars PROVE LoopInv'
  OBVIOUS
<1> USE DEF LoopInv, TypeOK, LoopOK, BytesEnter, TickMod, MaxLimit, args, time
<1>1. CASE Drain
  BY <1>1 DEF Drain
<1>2. CASE Tick
  BY <1>2 DEF Tick
<1>3. ASSUME NEW n \in 0 .. MaxBytes, NEW l \in Limits, NEW t \in 0 .. TickMod - 1, Write(n, l, t)
      PROVE  LoopInv'
  BY <1>3 DEF Write, Return
<1>4. CASE Poll
  BY <1>4 DEF Poll, Return, ElapsedSince
<1>5. CASE ReadFlags
  BY <1>5 DEF ReadFlags
<1>6. CASE WriteData
  BY <1>6 DEF WriteData, Return
<1>7. CASE UNCHANGED vars
  BY <1>7 DEF vars
<1> QED
  BY <1>1, <1>2, <1>3, <1>4, <1>5, <1>6, <1>7 DEF Next, Proceed

\* With gaps that fit, no poll mistakes a late reading for an early one.
LEMMA ClockStep ==
    ASSUME GapFits, TimeInv, [Next]_vars
    PROVE  GapOK' /\ ClockOK'
<1> USE DEF GapFits, TimeInv, LoopInv, TypeOK, LoopOK, GapOK, ClockOK, ElapsedSince, TickMod, MaxLimit, args, time
<1>1. CASE Drain
  BY <1>1 DEF Drain
<1>2. CASE Tick
  BY <1>2 DEF Tick
<1>3. ASSUME NEW n \in 0 .. MaxBytes, NEW l \in Limits, NEW t \in 0 .. TickMod - 1, Write(n, l, t)
      PROVE  GapOK' /\ ClockOK'
  BY <1>3 DEF Write, Return
<1>4. CASE Poll
  BY <1>4 DEF Poll, Return
<1>5. CASE ReadFlags
  BY <1>5 DEF ReadFlags
<1>6. CASE WriteData
  BY <1>6 DEF WriteData, Return
<1>7. CASE UNCHANGED vars
  BY <1>7 DEF vars
<1> QED
  BY <1>1, <1>2, <1>3, <1>4, <1>5, <1>6, <1>7 DEF Next, Proceed

\* The outcome reported is true: only Poll's timeout needs the clock.
LEMMA OutcomeStep ==
    ASSUME GapFits, TimeInv, [Next]_vars
    PROVE  OutcomeTrue'
<1> USE DEF GapFits, TimeInv, LoopInv, TypeOK, LoopOK, BytesEnter, OutcomeTrue, TickMod, MaxLimit, args, time
<1>1. CASE Drain
  BY <1>1 DEF Drain
<1>2. CASE Tick
  BY <1>2 DEF Tick
<1>3. ASSUME NEW n \in 0 .. MaxBytes, NEW l \in Limits, NEW t \in 0 .. TickMod - 1, Write(n, l, t)
      PROVE  OutcomeTrue'
  BY <1>3 DEF Write, Return
<1>4. CASE Poll
  BY <1>4 DEF Poll, Return, ClockOK
<1>5. CASE ReadFlags
  BY <1>5 DEF ReadFlags
<1>6. CASE WriteData
  BY <1>6 DEF WriteData, Return
<1>7. CASE UNCHANGED vars
  BY <1>7 DEF vars
<1> QED
  BY <1>1, <1>2, <1>3, <1>4, <1>5, <1>6, <1>7 DEF Next, Proceed

-----------------------------------------------------------------------------
LEMMA LoopInvariant == Spec => []LoopInv
<1>1. Init => LoopInv
  BY InitInv DEF TimeInv
<1> QED
  BY <1>1, LoopStep, PTL DEF Spec

LEMMA TimeInvariant == ASSUME GapFits PROVE Spec => []TimeInv
<1>1. TimeInv /\ [Next]_vars => TimeInv'
  BY LoopStep, ClockStep, OutcomeStep DEF TimeInv
<1> QED
  BY <1>1, InitInv, PTL DEF Spec

\* Every variable keeps its type, whatever the gaps.
THEOREM TransmitTypeCorrect == Spec => []TypeOK
<1>1. LoopInv => TypeOK
  BY DEF LoopInv
<1> QED
  BY <1>1, LoopInvariant, PTL

\* No byte is stored into a full FIFO, whatever happens between reading FR and
\* writing DR (try_write), and whatever the gaps.
THEOREM EveryByteEnters == Spec => []BytesEnter
<1>1. LoopInv => BytesEnter
  BY DEF LoopInv
<1> QED
  BY <1>1, LoopInvariant, PTL

\* With gaps that fit, write_timeout reports what happened: Ok for the whole
\* slice, Timeout for a strict prefix and not before its ticks have passed.
THEOREM OutcomeIsTrue == ASSUME GapFits PROVE Spec => []OutcomeTrue
<1>1. TimeInv => OutcomeTrue
  BY DEF TimeInv
<1> QED
  BY <1>1, TimeInvariant, PTL

\* With gaps that fit, write_timeout overruns its limit by at most one gap,
\* across every wrap of the counter.
THEOREM DeadlineIsHonoured == ASSUME GapFits PROVE Spec => []DeadlineHonoured
<1>1. TimeInv => DeadlineHonoured
  BY DEF TimeInv, LoopInv, TypeOK, GapOK, DeadlineHonoured, LoopOK
<1> QED
  BY <1>1, TimeInvariant, PTL
=============================================================================
