---------------------------- MODULE SuiteResult ----------------------------
(***************************************************************************)
(* tools/debug/hil.py: what a transcript of probe-rs's stdout says of the  *)
(* suite, and what execute() and main() make of it. A line is what         *)
(* test_event takes it for: plain text, an event, or a malformed event.    *)
(***************************************************************************)
EXTENDS Integers

CONSTANT Codes   \* exit statuses of probe-rs

ASSUME CodesAssumption == Codes \subseteq Int

\* There is no exit status.
NoCode == 256

\* A count that is no nonnegative integer (a string, a bool, -1) is negative.
Blank(kind) ==
    [kind |-> kind, total |-> 0, ok |-> FALSE, passed |-> 0, failed |-> 0, ignored |-> 0]

Note == Blank("note")
Bad == Blank("bad")
Test == Blank("test")
Started(n) == [Blank("start") EXCEPT !.total = n]
Ended(ok, p, f, i) ==
    [Blank("end") EXCEPT !.ok = ok, !.passed = p, !.failed = f, !.ignored = i]

Kinds == {"note", "bad", "test", "start", "end"}
LineType ==
    [kind : Kinds, total : Int, ok : BOOLEAN, passed : Int, failed : Int, ignored : Int]

-----------------------------------------------------------------------------
(* suite_result *)

\* The loop's number of expected tests and its result
ScanType ==
    [stage : {"before", "running", "done", "error"}, expected : Int, suite : LineType]

\* Before its first line; "error" is a ValueError, which ends the loop.
Fresh == [stage |-> "before", expected |-> 0, suite |-> Note]
Raise == [stage |-> "error", expected |-> 0, suite |-> Note]

\* A completion whose counts are numbers, add up to the started total and
\* agree with its outcome.
Consistent(line, total) ==
    /\ line.kind = "end"
    /\ line.passed >= 0 /\ line.failed >= 0 /\ line.ignored >= 0
    /\ line.passed + line.failed + line.ignored = total
    /\ line.ok <=> line.failed = 0

\* Mutation: events after the suite's completion are ignored.
ConsumeLeniently(scan, line) ==
    CASE scan.stage \in {"error", "done"} \/ line.kind = "note" -> scan
      [] line.kind = "test" /\ scan.stage = "running" -> scan
      [] line.kind = "start" /\ scan.stage = "before" /\ line.total >= 0 ->
             [scan EXCEPT !.stage = "running", !.expected = line.total]
      [] scan.stage = "running" /\ Consistent(line, scan.expected) ->
             [scan EXCEPT !.stage = "done", !.suite = line]
      [] OTHER -> Raise

\* One turn of the loop over the transcript's lines.
Consume(scan, line) ==
    CASE scan.stage = "error" \/ line.kind = "note" -> scan
      [] line.kind = "test" /\ scan.stage = "running" -> scan
      [] line.kind = "start" /\ scan.stage = "before" /\ line.total >= 0 ->
             [scan EXCEPT !.stage = "running", !.expected = line.total]
      [] scan.stage = "running" /\ Consistent(line, scan.expected) ->
             [scan EXCEPT !.stage = "done", !.suite = line]
      [] OTHER -> Raise

-----------------------------------------------------------------------------
(* execute() and main() *)

\* Why stream_process did not return an exit status, if it did not.
Causes == {"none", "timeout", "interrupt", "oserror"}

\* Mutation: the suite decides, whatever the process returned.
NoErrorBySuite(cause, code, list, scan) ==
    /\ cause = "none"
    /\ IF list THEN code = 0
       ELSE scan.stage = "done" /\ (scan.suite.passed > 0 \/ scan.suite.failed > 0)

\* Report.error is None: nothing went wrong but, perhaps, tests.
NoError(cause, code, list, scan) ==
    /\ cause = "none"
    /\ IF list THEN code = 0
       ELSE /\ scan.stage # "error"
            /\ \/ scan.stage = "done" /\ scan.suite.failed > 0 /\ code = 1
               \/ scan.stage = "done" /\ scan.suite.failed = 0 /\ scan.suite.passed > 0 /\ code = 0

\* main's exit status.
Status(cause, code, list, scan) ==
    IF ~NoError(cause, code, list, scan) THEN 1
    ELSE IF ~list /\ scan.suite.failed > 0 THEN 1 ELSE 0

-----------------------------------------------------------------------------
(* What a transcript should say *)

\* One suite, from its start in line s to its completion in line e, with only
\* tests in between and only plain text besides.
Complete(t, s, e) ==
    /\ s < e
    /\ t[s].kind = "start" /\ t[s].total >= 0
    /\ Consistent(t[e], t[s].total)
    /\ \A i \in DOMAIN t \ {s, e} :
           t[i].kind = "note" \/ (t[i].kind = "test" /\ s < i /\ i < e)

\* The same, not completed.
Underway(t, s) ==
    /\ t[s].kind = "start" /\ t[s].total >= 0
    /\ \A i \in DOMAIN t \ {s} :
           t[i].kind = "note" \/ (t[i].kind = "test" /\ s < i)

Silent(t) == \A i \in DOMAIN t : t[i].kind = "note"

Passing(t) ==
    \E s, e \in DOMAIN t : Complete(t, s, e) /\ t[e].failed = 0 /\ t[e].passed > 0

Failing(t) == \E s, e \in DOMAIN t : Complete(t, s, e) /\ t[e].failed > 0
=============================================================================
