-------------------------- MODULE TimerInduction --------------------------
(***************************************************************************)
(* The inductive invariant of Timer. Each part follows one thing - the     *)
(* call, the handler, a register - through the steps of stop(), arm() and  *)
(* the handler; together they imply the safety properties of Timer.        *)
(***************************************************************************)
EXTENDS Timer

\* The timer of a call in progress, at one of these steps.
CallAt(i, steps) == call.timer = i /\ pc \in steps

\* A step belongs to a call that takes it.
CallOK ==
    /\ pc = "idle" <=> call = NoCall
    /\ pc = "masked" <=> call = Switch
    /\ pc = "check" => call.op \in StartOps
    /\ pc \in Arming \cup {"started"} => call.op \in StartOps
    /\ pc \notin {"check"} /\ call.op \in StartOps => ValidRequest(call.us)

\* The interrupts of a handed-out timer were set up by its constructor, whose
\* write of the shared IPR word left the other timers' priorities alone.
BoardOK ==
    /\ ~primask \/ ~saved => built = Timers
    /\ call.op \in StartOps \cup {"stop"} => built = Timers
    /\ \A i \in built : Priority(i) = 2
    /\ \A i \in Timers : enabled[i] \/ imr[i] => i \in built
    /\ call.op = "initialize" => call.timer \notin built

HandlerOK ==
    /\ active = NoTimer <=> isr = "none"
    /\ active # NoTimer /\ isr = "iclr" =>
           ris[active] /\ line[active] /\ ~pending[active]

\* After the barrier the timer is quiet, register after register.
QuietOK ==
    /\ \A i \in Timers : posted[i] => CallAt(i, {"barrier"})
    /\ pc = "barrier" => posted[call.timer] \/ ~enabled[call.timer]
    /\ pc \in Quieting \cup {"configure", "iser"} => ~enabled[call.timer]
    /\ pc \in Quieting \cup Arming => active # call.timer
    /\ pc \in (Quieting \ {"ctl"}) \cup Arming => ~taen[call.timer]
    /\ pc \in {"iclr", "sync", "icpr", "stopped", "configure"} => ~imr[call.timer]
    /\ pc \in {"sync", "icpr", "stopped"} \cup Arming => ~ris[call.timer]
    /\ pc \in {"icpr", "stopped"} \cup Arming => ~line[call.timer]
    /\ pc \in {"stopped"} \cup Arming => ~pending[call.timer]
    /\ pc \in {"iser", "taen"} => imr[call.timer]

\* Outside of a reconfiguration a masked timer is clean.
CleanOK ==
    \A i \in Timers : ~Reconfiguring(i) /\ ~imr[i] =>
        /\ ~taen[i] /\ ~ris[i] /\ ~line[i] /\ ~enabled[i] /\ ~pending[i]
        /\ active # i

\* An asserted line or a pending request stands for a latched timeout, except
\* while an acknowledgement propagates.
SignalOK ==
    \A i \in Timers :
        /\ enabled[i] => imr[i]
        /\ line[i] => ris[i] \/ CallAt(i, {"sync"}) \/ (active = i /\ isr = "sync")
        /\ pending[i] => ris[i] \/ CallAt(i, {"sync", "icpr"})
        /\ pending[i] /\ imr[i] => line[i]

\* A one-shot whose timeout is latched, or is being handled, has stopped.
OneShotOK ==
    \A i \in Timers :
        /\ imr[i] => tamr[i] # 0
        /\ tamr[i] = ONE_SHOT /\ (ris[i] \/ active = i) => ~taen[i]
        /\ tamr[i] = ONE_SHOT /\ active = i /\ isr # "iclr" => ~ris[i]

IInv ==
    /\ TypeOK
    /\ CallOK
    /\ BoardOK
    /\ HandlerOK
    /\ QuietOK
    /\ CleanOK
    /\ SignalOK
    /\ OneShotOK
    /\ TimeoutsAccounted

\* For the refinement: the registers of a start that does not count yet hold
\* its request.
ArmedOK ==
    pc \in {"iser", "taen"} =>
        /\ tamr[call.timer] = ModeOf(call.op)
        /\ tailr[call.timer] = TicksFromUs(call.us) - 1
=============================================================================
