------------------------------ MODULE Verdict ------------------------------
(***************************************************************************)
(* tools/debug/hil.py: suite_result reads a transcript line by line, then  *)
(* execute() and main() judge it together with how the process ended.      *)
(* Any lines may come in any order: probe-rs may be killed, crash, print   *)
(* twice or print nonsense.                                                *)
(***************************************************************************)
EXTENDS SuiteResult, Sequences

CONSTANTS
    Lines,     \* lines a transcript may consist of
    MaxLines   \* bound of the model: length of a transcript

ASSUME LinesAssumption == Lines \subseteq LineType
ASSUME LengthAssumption == MaxLines \in Nat

VARIABLES
    transcript,  \* the lines of stdout.txt read so far
    scan,        \* suite_result's expected and result
    report       \* what main makes of it

verdictVars == <<transcript, scan, report>>

\* No report yet
NoReport == [cause |-> "none", code |-> NoCode, list |-> FALSE, error |-> FALSE, status |-> 0]

VerdictInit ==
    /\ transcript = <<>>
    /\ scan = Fresh
    /\ report = NoReport

ReadLine(line) ==
    /\ report = NoReport
    /\ Len(transcript) < MaxLines
    /\ transcript' = Append(transcript, line)
    /\ scan' = Consume(scan, line)
    /\ UNCHANGED report

Report(cause, code, list) ==
    /\ report = NoReport
    /\ report' = [cause |-> cause, code |-> code, list |-> list,
                  error |-> ~NoError(cause, code, list, scan),
                  status |-> Status(cause, code, list, scan)]
    /\ UNCHANGED <<transcript, scan>>

VerdictNext ==
    \/ \E line \in Lines : ReadLine(line)
    \/ \E list \in BOOLEAN, code \in Codes : Report("none", code, list)
    \/ \E list \in BOOLEAN, cause \in Causes \ {"none"} : Report(cause, NoCode, list)

VerdictSpec == VerdictInit /\ [][VerdictNext]_verdictVars

-----------------------------------------------------------------------------
(* Properties *)

\* The loop's two variables say of the lines so far what they should: nothing
\* yet, one suite underway, one suite complete with these counts - or, in every
\* other case, an error. No order, repetition or loss of lines goes unnoticed.
ScanTrue ==
    /\ scan.stage = "before" <=> Silent(transcript)
    /\ scan.stage = "running" <=> \E s \in DOMAIN transcript : Underway(transcript, s)
    /\ scan.stage = "done" <=> \E s, e \in DOMAIN transcript : Complete(transcript, s, e)
    /\ scan.stage = "done" =>
           \E s, e \in DOMAIN transcript :
               Complete(transcript, s, e) /\ scan.suite = transcript[e]

\* The runner succeeds exactly if probe-rs did, by itself and in time, and -
\* unless it only listed tests - reported one complete suite that passed and
\* is not empty. It fails without an error exactly over a complete suite with
\* failures and the exit status that goes with them.
VerdictEarned ==
    report # NoReport =>
        LET ended(code) == report.cause = "none" /\ report.code = code IN
        /\ report.status = 0 <=> ended(0) /\ (report.list \/ Passing(transcript))
        /\ ~report.error /\ report.status = 1
               <=> ended(1) /\ ~report.list /\ Failing(transcript)
=============================================================================
