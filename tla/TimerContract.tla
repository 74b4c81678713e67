--------------------------- MODULE TimerContract ---------------------------
(***************************************************************************)
(* What the timer driver promises to its client, with no hardware in it.   *)
(*                                                                         *)
(* A call takes effect between its invocation and its return. A refused    *)
(* request has no effect at all. Any other call first silences its timer:  *)
(* from then on nothing of the earlier interval is acknowledged; a start   *)
(* then engages the new interval. An engaged one-shot is acknowledged at   *)
(* most once, an engaged periodic timer any number of times, and the       *)
(* count of acknowledgements survives every call.                          *)
(***************************************************************************)
EXTENDS TimerParams

VARIABLES
    call,      \* the client call in progress, or NoCall
    stage,     \* how far it has got
    result,    \* what the last call returned
    mode,      \* [Timers -> {"off", "once", "periodic", "expired"}]
    interval,  \* [Timers -> ticks of the engaged interval; 0 while off]
    count      \* [Timers -> acknowledgements modulo CountMod]

vars == <<call, stage, result, mode, interval, count>>

Init ==
    /\ call = NoCall
    /\ stage = "idle"
    /\ result = "none"
    /\ mode = [i \in Timers |-> "off"]
    /\ interval = [i \in Timers |-> 0]
    /\ count = [i \in Timers |-> 0]

Invoke(c) ==
    /\ stage = "idle"
    /\ call' = c
    /\ stage' = "invoked"
    /\ result' = "none"
    /\ UNCHANGED <<mode, interval, count>>

Return(r) ==
    /\ call' = NoCall
    /\ stage' = "idle"
    /\ result' = r
    /\ UNCHANGED <<mode, interval, count>>

Reject ==
    /\ stage = "invoked"
    /\ call.op \in StartOps
    /\ ~ValidRequest(call.us)
    /\ Return("err")

Silence ==
    /\ stage = "invoked"
    /\ call.op \in StartOps => ValidRequest(call.us)
    /\ stage' = "silent"
    /\ mode' = [mode EXCEPT ![call.timer] = "off"]
    /\ interval' = [interval EXCEPT ![call.timer] = 0]
    /\ UNCHANGED <<call, result, count>>

Engage ==
    /\ stage = "silent"
    /\ call.op \in StartOps
    /\ stage' = "engaged"
    /\ mode' = [mode EXCEPT ![call.timer] = call.op]
    /\ interval' = [interval EXCEPT ![call.timer] = TicksFromUs(call.us)]
    /\ UNCHANGED <<call, result, count>>

Complete ==
    /\ \/ stage = "silent" /\ call.op = "stop"
       \/ stage = "engaged"
    /\ Return("ok")

Acknowledge(i) ==
    /\ mode[i] \in StartOps
    /\ mode' = [mode EXCEPT ![i] = IF @ = "once" THEN "expired" ELSE @]
    /\ count' = [count EXCEPT ![i] = Bump(@)]
    /\ UNCHANGED <<call, stage, result, interval>>

Next ==
    \/ \E c \in TimerCalls : Invoke(c)
    \/ Reject
    \/ Silence
    \/ Engage
    \/ Complete
    \/ \E i \in Timers : Acknowledge(i)

Spec == Init /\ [][Next]_vars
=============================================================================
