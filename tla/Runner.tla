------------------------------- MODULE Runner -------------------------------
(***************************************************************************)
(* The hardware test runner: tools/debug/hil.py's main with the lock of    *)
(* probe_lock.py around execute(), stream_process of output.py inside it   *)
(* and the probe-rs process it starts. Several runners want one probe.     *)
(*                                                                         *)
(* Bytes are followed in thirds of a line: the beginning of its text, the  *)
(* rest of it, its newline. The child may stop after any of them. Of       *)
(* stderr only its end matters. An EIO of the pseudo-terminal is that end, *)
(* too.                                                                    *)
(***************************************************************************)
EXTENDS SuiteResult, Sequences

CONSTANTS
    Runners,      \* invocations of hil.py for the probe
    NoRunner,     \* none of them
    Transcripts   \* what probe-rs writes to stdout if it gets that far

ASSUME RunnersAssumption == NoRunner \notin Runners
ASSUME TranscriptsAssumption == \A t \in Transcripts : t \in Seq(LineType)

VARIABLES
    lock,   \* the runner that holds the probe's flock, or NoRunner
    host,   \* [Runners -> the runner's own state]
    child   \* [Runners -> its probe-rs]

vars == <<lock, host, child>>

Streams == {"out", "err"}
Killed == -9

Idle ==
    [pc |-> "start", list |-> FALSE,
     writer |-> FALSE,   \* the runner's own write end of stderr is open
     watched |-> {},     \* the selector's map
     batch |-> {},       \* keys of the last select not handled yet
     read |-> 0,         \* thirds read from stdout, and in stdout.txt
     shown |-> 0,        \* lines passed to on_line
     late |-> FALSE,     \* 180 seconds are over
     cause |-> "none", code |-> NoCode,
     scan |-> Fresh,     \* suite_result's variables
     scanned |-> 0,      \* lines it has looked at
     status |-> 0]

NoChild ==
    [state |-> "none", killed |-> FALSE, script |-> <<>>,
     written |-> 0, open |-> {}, code |-> NoCode]

Init ==
    /\ lock = NoRunner
    /\ host = [r \in Runners |-> Idle]
    /\ child = [r \in Runners |-> NoChild]

-----------------------------------------------------------------------------
(* The lines in the first n thirds of a script, as splitlines gives them *)

Cut(line) == IF line.kind = "note" THEN line ELSE Bad

Thirds(script, n) ==
    LET whole == n \div 3 IN
    CASE n % 3 = 0 -> SubSeq(script, 1, whole)
      [] n % 3 = 1 -> Append(SubSeq(script, 1, whole), Cut(script[whole + 1]))
      [] n % 3 = 2 -> SubSeq(script, 1, whole + 1)

\* stdout.txt
Text(r) == Thirds(child[r].script, host[r].read)

-----------------------------------------------------------------------------
(* probe-rs *)

Running(r) == child[r].state = "running"

Write(r) ==
    /\ Running(r) /\ ~child[r].killed /\ "out" \in child[r].open
    /\ child[r].written < 3 * Len(child[r].script)
    /\ child' = [child EXCEPT ![r].written = @ + 1]
    /\ UNCHANGED <<lock, host>>

\* It may close its ends and live on.
CloseEnd(r, stream) ==
    /\ Running(r) /\ ~child[r].killed /\ stream \in child[r].open
    /\ child' = [child EXCEPT ![r].open = @ \ {stream}]
    /\ UNCHANGED <<lock, host>>

\* It ends at any time, and stays to be reaped.
Exit(r, code) ==
    /\ Running(r) /\ ~child[r].killed
    /\ child' = [child EXCEPT ![r].state = "zombie", ![r].open = {}, ![r].code = code]
    /\ UNCHANGED <<lock, host>>

Die(r) ==
    /\ Running(r) /\ child[r].killed
    /\ child' = [child EXCEPT ![r].state = "zombie", ![r].open = {}, ![r].code = Killed]
    /\ UNCHANGED <<lock, host>>

-----------------------------------------------------------------------------
(* main and probe_lock *)

At(r, step) == host[r].pc = step

\* flock with LOCK_NB: a second runner ends at once.
Lock(r) ==
    /\ At(r, "start")
    /\ IF lock = NoRunner
       THEN lock' = r /\ host' = [host EXCEPT ![r].pc = "spawn"]
       ELSE host' = [host EXCEPT ![r].pc = "exit", ![r].status = 1] /\ UNCHANGED lock
    /\ UNCHANGED child

\* suite_result looks at one more line.
ScanLine(r) ==
    /\ At(r, "judge")
    /\ host[r].scanned < Len(Text(r))
    /\ host' = [host EXCEPT ![r].scan = Consume(host[r].scan, Text(r)[host[r].scanned + 1]),
                            ![r].scanned = @ + 1]
    /\ UNCHANGED <<lock, child>>

\* execute judges what there is of the transcript, or does without it if the
\* tests were to be listed and not run. Only here does the difference matter.
Judge(r, list) ==
    /\ At(r, "judge")
    /\ host[r].scanned = IF list THEN 0 ELSE Len(Text(r))
    /\ host' = [host EXCEPT ![r].pc = "unlock", ![r].list = list,
                            ![r].status = Status(host[r].cause, host[r].code, list, host[r].scan)]
    /\ UNCHANGED <<lock, child>>

\* The with block ends, and soon the process, and all it knew; init adopts a
\* child left behind.
Unlock(r) ==
    /\ At(r, "unlock")
    /\ lock' = NoRunner
    /\ host' = [host EXCEPT ![r] = [Idle EXCEPT !.pc = "exit", !.status = host[r].status]]
    /\ child' = IF Running(r) THEN child ELSE [child EXCEPT ![r] = NoChild]

-----------------------------------------------------------------------------
(* stream_process *)

\* Popen fails, or forks a child, in the middle of ...
Fork(r, script) ==
    /\ At(r, "spawn")
    /\ \/ /\ host' = [host EXCEPT ![r].pc = "judge", ![r].cause = "oserror"]
          /\ UNCHANGED child
       \/ /\ host' = [host EXCEPT ![r].pc = "forked", ![r].writer = TRUE]
          /\ child' = [child EXCEPT ![r] = [NoChild EXCEPT !.state = "running",
                                                           !.script = script, !.open = Streams]]
    /\ UNCHANGED lock

\* ... its constructor, which then returns; the clock starts.
Return(r) ==
    /\ At(r, "forked")
    /\ host' = [host EXCEPT ![r].pc = "close"]
    /\ UNCHANGED <<lock, child>>

\* Mutation: the runner keeps its own write end of stderr.
KeepWriter(r) ==
    /\ At(r, "close")
    /\ host' = [host EXCEPT ![r].pc = "check", ![r].watched = Streams]
    /\ UNCHANGED <<lock, child>>

\* writer.close(), and both streams registered.
CloseWriter(r) ==
    /\ At(r, "close")
    /\ host' = [host EXCEPT ![r].pc = "check", ![r].writer = FALSE, ![r].watched = Streams]
    /\ UNCHANGED <<lock, child>>

\* Lines with their newline, and an unfinished one, among n thirds.
Whole(n) == n \div 3
Begun(n) == (n + 2) \div 3

\* Mutation: one stream's end ends the loop.
CheckEither(r) ==
    /\ At(r, "check")
    /\ host' = IF host[r].watched # Streams
               THEN [host EXCEPT ![r].pc = "wait", ![r].shown = Begun(host[r].read)]
               ELSE IF host[r].late
               THEN [host EXCEPT ![r].pc = "finally", ![r].cause = "timeout"]
               ELSE [host EXCEPT ![r].pc = "select"]
    /\ UNCHANGED <<lock, child>>

\* Mutation: the rest is shown even if it is empty.
CheckShowsRest(r) ==
    /\ At(r, "check")
    /\ host' = IF host[r].watched = {}
               THEN [host EXCEPT ![r].pc = "wait", ![r].shown = Whole(host[r].read) + 1]
               ELSE IF host[r].late
               THEN [host EXCEPT ![r].pc = "finally", ![r].cause = "timeout"]
               ELSE [host EXCEPT ![r].pc = "select"]
    /\ UNCHANGED <<lock, child>>

\* The loop's condition and its deadline. After it a last line without a
\* newline is shown.
Check(r) ==
    /\ At(r, "check")
    /\ host' = IF host[r].watched = {}
               THEN [host EXCEPT ![r].pc = "wait", ![r].shown = Begun(host[r].read)]
               ELSE IF host[r].late
               THEN [host EXCEPT ![r].pc = "finally", ![r].cause = "timeout"]
               ELSE [host EXCEPT ![r].pc = "select"]
    /\ UNCHANGED <<lock, child>>

\* All that was written has been read and nobody can write more.
AtEnd(r, stream) ==
    /\ stream \notin child[r].open
    /\ stream = "out" => host[r].read = child[r].written
    /\ stream = "err" => ~host[r].writer

Readable(r, stream) ==
    \/ stream = "out" /\ host[r].read < child[r].written
    \/ AtEnd(r, stream)

Ready(r) == {stream \in host[r].watched : Readable(r, stream)}

\* select(remaining) returns what is ready, or nothing once time is up.
Select(r) ==
    /\ At(r, "select")
    /\ Ready(r) # {} \/ host[r].late
    /\ host' = [host EXCEPT ![r].batch = Ready(r), ![r].pc = "batch"]
    /\ UNCHANGED <<lock, child>>

\* A chunk of stdout goes to stdout.txt, and its lines to on_line.
ReadChunk(r, n) ==
    /\ At(r, "batch") /\ "out" \in host[r].batch
    /\ n \in host[r].read + 1 .. child[r].written
    /\ host' = [host EXCEPT ![r].batch = @ \ {"out"}, ![r].read = n, ![r].shown = Whole(n)]
    /\ UNCHANGED <<lock, child>>

ReadEnd(r, stream) ==
    /\ At(r, "batch") /\ stream \in host[r].batch
    /\ AtEnd(r, stream)
    /\ host' = [host EXCEPT ![r].batch = @ \ {stream}, ![r].watched = @ \ {stream}]
    /\ UNCHANGED <<lock, child>>

EndBatch(r) ==
    /\ At(r, "batch") /\ host[r].batch = {}
    /\ host' = [host EXCEPT ![r].pc = "check"]
    /\ UNCHANGED <<lock, child>>

\* process.wait for the rest of the 180 seconds.
Wait(r) ==
    /\ At(r, "wait")
    /\ IF child[r].state = "zombie"
       THEN /\ host' = [host EXCEPT ![r].pc = "finally", ![r].code = child[r].code]
            /\ child' = [child EXCEPT ![r].state = "reaped"]
       ELSE /\ host[r].late
            /\ host' = [host EXCEPT ![r].pc = "finally", ![r].cause = "timeout"]
            /\ UNCHANGED child
    /\ UNCHANGED lock

\* Mutation: the child is left to itself.
LeaveChild(r) ==
    /\ At(r, "finally")
    /\ host' = [host EXCEPT ![r].pc = "judge"]
    /\ UNCHANGED <<lock, child>>

\* finally: poll() reaps a child that has ended, kill() hits one that has not.
Kill(r) ==
    /\ At(r, "finally")
    /\ host' = [host EXCEPT ![r].pc = "reap"]
    /\ child' = CASE child[r].state = "zombie" -> [child EXCEPT ![r].state = "reaped"]
                  [] Running(r) -> [child EXCEPT ![r].killed = TRUE]
                  [] OTHER -> child
    /\ UNCHANGED lock

Reap(r) ==
    /\ At(r, "reap")
    /\ ~Running(r)
    /\ host' = [host EXCEPT ![r].pc = "judge"]
    /\ child' = [child EXCEPT ![r].state = "reaped"]
    /\ UNCHANGED lock

-----------------------------------------------------------------------------
(* Time and trouble *)

Streaming == {"close", "check", "select", "batch", "wait"}

Deadline(r) ==
    /\ host[r].pc \in Streaming
    /\ host' = [host EXCEPT ![r].late = TRUE]
    /\ UNCHANGED <<lock, child>>

\* In the try block a Ctrl-C, or an error of reading or printing, is followed
\* by the finally block.
Raised(r, why) ==
    /\ host[r].pc \in Streaming
    /\ host' = [host EXCEPT ![r].pc = "finally", ![r].batch = {}, ![r].cause = why]
    /\ UNCHANGED <<lock, child>>

\* Before it, in Popen's constructor, or inside the finally block, a Ctrl-C
\* leads straight to execute. (Popen.__exit__ waits a quarter of a second.)
Escaped(r) ==
    /\ host[r].pc \in {"forked", "finally", "reap"}
    /\ host' = [host EXCEPT ![r].pc = "judge", ![r].cause = "interrupt"]
    /\ UNCHANGED <<lock, child>>

-----------------------------------------------------------------------------
Child(r) ==
    \/ Write(r)
    \/ \E stream \in Streams : CloseEnd(r, stream)
    \/ \E code \in Codes : Exit(r, code)
    \/ Die(r)

Proceed(r) ==
    \/ Lock(r)
    \/ \E script \in Transcripts : Fork(r, script)
    \/ Return(r) \/ CloseWriter(r) \/ Check(r) \/ Select(r)
    \/ \E n \in 1 .. child[r].written : ReadChunk(r, n)
    \/ \E stream \in Streams : ReadEnd(r, stream)
    \/ EndBatch(r) \/ Wait(r) \/ Kill(r) \/ Reap(r) \/ Unlock(r)
    \/ ScanLine(r)
    \/ \E list \in BOOLEAN : Judge(r, list)

Next ==
    \E r \in Runners :
        \/ Proceed(r) \/ Child(r)
        \/ Deadline(r)
        \/ \E why \in {"interrupt", "oserror"} : Raised(r, why)

Spec == Init /\ [][Next]_vars

\* With every Ctrl-C there may be, and not only those in the try block.
InterruptedSpec == Init /\ [][Next \/ \E r \in Runners : Escaped(r)]_vars

\* The runners run, and a killed child dies. Nothing makes one end by itself.
FairSpec == Spec /\ \A r \in Runners : WF_vars(Proceed(r)) /\ WF_vars(Die(r))

-----------------------------------------------------------------------------
(* Properties *)

Steps == Streaming \cup {"start", "spawn", "forked", "finally", "reap", "judge", "unlock", "exit"}

Host ==
    [pc : Steps, list : BOOLEAN, writer : BOOLEAN,
     watched : SUBSET Streams, batch : SUBSET Streams, read : Nat, shown : Nat, late : BOOLEAN,
     cause : Causes, code : Codes \cup {NoCode, Killed},
     scan : ScanType, scanned : Nat, status : {0, 1}]

Process ==
    [state : {"none", "running", "zombie", "reaped"}, killed : BOOLEAN,
     script : Transcripts \cup {<<>>}, written : Nat, open : SUBSET Streams,
     code : Codes \cup {NoCode, Killed}]

\* Every variable keeps its type; no runner has read or shown more than was
\* written.
TypeOK ==
    /\ lock \in Runners \cup {NoRunner}
    /\ host \in [Runners -> Host]
    /\ child \in [Runners -> Process]
    /\ \A r \in Runners :
           /\ host[r].read <= child[r].written
           /\ host[r].shown <= Begun(host[r].read)
           /\ child[r].written <= 3 * Len(child[r].script)

\* A probe-rs runs only under the lock of the runner that started it, so that
\* two never meet on the probe: whichever way stream_process ends, its child
\* is dead before the lock is released.
ProbeExclusive == \A r \in Runners : Running(r) => lock = r

StreamOver(r) == At(r, "judge") \/ At(r, "unlock")

\* If stream_process returns, all that probe-rs wrote is in stdout.txt and was
\* shown, the last line even without its newline - also what was still in the
\* pipe when it ended.
NothingLost ==
    \A r \in Runners :
        StreamOver(r) /\ host[r].cause = "none" =>
            /\ child[r].state = "reaped"
            /\ host[r].read = child[r].written
            /\ host[r].shown = Begun(child[r].written)

\* main succeeds exactly if nothing cut the run short and probe-rs itself
\* ended with status 0 having written one complete, nonempty, passing suite
\* (or anything at all, if it was to list tests).
PassEarned ==
    \A r \in Runners :
        At(r, "unlock") =>
            (host[r].status = 0 <=>
                /\ host[r].cause = "none" /\ child[r].code = 0
                /\ host[r].list \/ Passing(Thirds(child[r].script, child[r].written)))

\* A run ends if its child ends, and if it does not, by the deadline, whether
\* or not it closes its streams.
RunsEnd ==
    \A r \in Runners :
        (child[r].state \in {"zombie", "reaped"} \/ host[r].late) ~> At(r, "exit")
=============================================================================
