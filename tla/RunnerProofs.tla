---------------------------- MODULE RunnerProofs ----------------------------
(***************************************************************************)
(* The verdict is earned on transcripts of any length, and the runners     *)
(* that come to it, however many, keep their children to themselves.       *)
(*                                                                         *)
(* What Complete, Underway and Silent say of a transcript with one more    *)
(* line is what Consume makes of the line (Describes). Of a runner, what   *)
(* is needed besides the lock holds of each for itself: of its stream      *)
(* (Sound), and of its judgment (Judging).                                 *)
(***************************************************************************)
EXTENDS Runner, Verdict, TLAPS

-----------------------------------------------------------------------------
(* One more line *)

LEMMA Blanks == Note \in LineType /\ Note.kind = "note" /\ Note.failed = 0
  BY DEF Note, Blank, LineType, Kinds

LEMMA OneMore ==
    ASSUME NEW t \in Seq(LineType), NEW x \in LineType
    PROVE  /\ Append(t, x) \in Seq(LineType)
           /\ DOMAIN t = 1 .. Len(t) /\ Len(t) \in Nat
           /\ DOMAIN Append(t, x) = 1 .. Len(t) + 1
           /\ \A i \in DOMAIN t : i \in DOMAIN Append(t, x) /\ Append(t, x)[i] = t[i] /\ t[i] \in LineType
           /\ Append(t, x)[Len(t) + 1] = x
  OBVIOUS

LEMMA SilentOneMore ==
    ASSUME NEW t \in Seq(LineType), NEW x \in LineType
    PROVE  Silent(Append(t, x)) <=> Silent(t) /\ x.kind = "note"
  BY OneMore DEF Silent

LEMMA UnderwayBefore ==
    ASSUME NEW t \in Seq(LineType), NEW x \in LineType, NEW s \in DOMAIN t
    PROVE  Underway(Append(t, x), s) <=> Underway(t, s) /\ x.kind \in {"note", "test"}
  BY OneMore DEF Underway

LEMMA UnderwayNow ==
    ASSUME NEW t \in Seq(LineType), NEW x \in LineType
    PROVE  Underway(Append(t, x), Len(t) + 1)
               <=> Silent(t) /\ x.kind = "start" /\ x.total >= 0
  BY OneMore DEF Underway, Silent

LEMMA CompleteBefore ==
    ASSUME NEW t \in Seq(LineType), NEW x \in LineType, NEW s \in DOMAIN t, NEW e \in DOMAIN t
    PROVE  Complete(Append(t, x), s, e) <=> Complete(t, s, e) /\ x.kind = "note"
  BY OneMore DEF Complete

LEMMA CompleteNow ==
    ASSUME NEW t \in Seq(LineType), NEW x \in LineType, NEW s \in DOMAIN t
    PROVE  Complete(Append(t, x), s, Len(t) + 1) <=> Underway(t, s) /\ Consistent(x, t[s].total)
  BY OneMore DEF Complete, Underway

\* Nothing is complete before it starts.
LEMMA CompleteNever ==
    ASSUME NEW t \in Seq(LineType), NEW x \in LineType, NEW e \in DOMAIN Append(t, x)
    PROVE  ~Complete(Append(t, x), Len(t) + 1, e)
  BY OneMore DEF Complete

-----------------------------------------------------------------------------
(* What the loop makes of it *)

LEMMA ConsumeType ==
    ASSUME NEW c \in ScanType, NEW x \in LineType
    PROVE  Consume(c, x) \in ScanType
  BY Blanks DEF Consume, ScanType, Raise, LineType

LEMMA ConsumeNote ==
    ASSUME NEW c \in ScanType, NEW x \in LineType, c.stage = "error" \/ x.kind = "note"
    PROVE  Consume(c, x) = c
  BY DEF Consume, ScanType, LineType, Consistent

LEMMA ConsumeTest ==
    ASSUME NEW c \in ScanType, NEW x \in LineType, c.stage = "running", x.kind = "test"
    PROVE  Consume(c, x) = c
  BY DEF Consume, ScanType, LineType, Consistent

LEMMA ConsumeStart ==
    ASSUME NEW c \in ScanType, NEW x \in LineType,
           c.stage = "before", x.kind = "start", x.total >= 0
    PROVE  Consume(c, x).stage = "running" /\ Consume(c, x).expected = x.total
  BY DEF Consume, ScanType, LineType, Consistent

LEMMA ConsumeEnd ==
    ASSUME NEW c \in ScanType, NEW x \in LineType,
           c.stage = "running", Consistent(x, c.expected)
    PROVE  Consume(c, x).stage = "done" /\ Consume(c, x).suite = x
  BY DEF Consume, ScanType, LineType, Consistent

\* There are no other ways to any stage but the error.
LEMMA ConsumeOnly ==
    ASSUME NEW c \in ScanType, NEW x \in LineType
    PROVE  LET d == Consume(c, x) IN
           /\ d.stage = "before" => d = c /\ x.kind = "note"
           /\ d.stage = "running" =>
                  \/ d = c /\ x.kind \in {"note", "test"}
                  \/ c.stage = "before" /\ x.kind = "start" /\ x.total >= 0
           /\ d.stage = "done" =>
                  \/ d = c /\ x.kind = "note"
                  \/ c.stage = "running" /\ Consistent(x, c.expected) /\ d.suite = x
  BY DEF Consume, ScanType, LineType, Consistent, Raise

------------------------------------------------------------------------

-----------------------------------------------------------------------------
(* The loop describes what it has read *)

\* Scanning variables that say of the lines read what they are
Describes(c, t) ==
    /\ t \in Seq(LineType)
    /\ c \in ScanType
    /\ c.stage = "before" <=> Silent(t)
    /\ c.stage = "running" => \E s \in DOMAIN t : Underway(t, s)
    /\ c.stage = "done" => \E s, e \in DOMAIN t : Complete(t, s, e)
    /\ \A s \in DOMAIN t :
           Underway(t, s) => c.stage = "running" /\ c.expected = t[s].total
    /\ \A s, e \in DOMAIN t :
           Complete(t, s, e) => c.stage = "done" /\ c.suite = t[e]

LEMMA DescribesNothing == Describes(Fresh, <<>>)
  <1>1. <<>> \in Seq(LineType) /\ DOMAIN <<>> = {}
    OBVIOUS
  <1>2. Fresh \in ScanType /\ Fresh.stage = "before"
    BY Blanks DEF Fresh, ScanType
  <1>3. Silent(<<>>)
    BY DEF Silent
  <1> QED BY <1>1, <1>2, <1>3 DEF Describes

LEMMA DescribesMore ==
    ASSUME NEW c, NEW t, Describes(c, t), NEW x \in LineType
    PROVE  Describes(Consume(c, x), Append(t, x))
  <1> DEFINE n == Len(t)
  <1> DEFINE u == Append(t, x)
  <1> DEFINE d == Consume(c, x)
  <1>t. t \in Seq(LineType) /\ c \in ScanType
    BY DEF Describes
  <1>d. DOMAIN u = DOMAIN t \cup {n + 1} /\ DOMAIN t = 1 .. n
    BY <1>t, OneMore
  <1>v. /\ \A i \in DOMAIN t : u[i] = t[i]
        /\ u[n + 1] = x
    BY <1>t, OneMore
  <1>1. u \in Seq(LineType) /\ d \in ScanType
    BY <1>t, OneMore, ConsumeType
  <1>2. /\ \A s \in DOMAIN u : Underway(u, s) => d.stage = "running" /\ d.expected = u[s].total
        /\ \A s, e \in DOMAIN u : Complete(u, s, e) => d.stage = "done" /\ d.suite = u[e]
    <2>1. ASSUME NEW s \in DOMAIN u, Underway(u, s)
          PROVE  d.stage = "running" /\ d.expected = u[s].total
      <3>1. CASE s \in DOMAIN t
        <4>1. Underway(t, s) /\ x.kind \in {"note", "test"}
          BY <2>1, <3>1, <1>t, UnderwayBefore
        <4>2. c.stage = "running" /\ c.expected = t[s].total
          BY <3>1, <4>1 DEF Describes
        <4>3. d = c
          BY <1>t, <4>1, <4>2, ConsumeNote, ConsumeTest
        <4> QED BY <3>1, <4>2, <4>3, <1>v
      <3>2. CASE s = n + 1
        <4>1. Silent(t) /\ x.kind = "start" /\ x.total >= 0
          BY <2>1, <3>2, <1>t, UnderwayNow
        <4>2. c.stage = "before"
          BY <4>1 DEF Describes
        <4> QED BY <4>1, <4>2, <3>2, <1>t, <1>v, ConsumeStart
      <3> QED BY <3>1, <3>2, <1>d
    <2>2. ASSUME NEW s \in DOMAIN u, NEW e \in DOMAIN u,
                 Complete(u, s, e)
          PROVE  d.stage = "done" /\ d.suite = u[e]
      <3>1. s \in DOMAIN t
        BY <2>2, <1>d, <1>t, CompleteNever
      <3>2. CASE e \in DOMAIN t
        <4>1. Complete(t, s, e) /\ x.kind = "note"
          BY <2>2, <3>1, <3>2, <1>t, CompleteBefore
        <4>2. c.stage = "done" /\ c.suite = t[e]
          BY <3>1, <3>2, <4>1 DEF Describes
        <4> QED BY <3>2, <4>1, <4>2, <1>t, <1>v, ConsumeNote
      <3>3. CASE e = n + 1
        <4>1. Underway(t, s) /\ Consistent(x, t[s].total)
          BY <2>2, <3>1, <3>3, <1>t, CompleteNow
        <4>2. c.stage = "running" /\ c.expected = t[s].total
          BY <3>1, <4>1 DEF Describes
        <4> QED BY <3>3, <4>1, <4>2, <1>t, <1>v, ConsumeEnd
      <3> QED BY <3>2, <3>3, <1>d
    <2> QED BY <2>1, <2>2
  <1>3. (d.stage = "before") <=> Silent(u)
    <2>1. Silent(u) <=> Silent(t) /\ x.kind = "note"
      BY <1>t, SilentOneMore
    <2>2. c.stage = "before" <=> Silent(t)
      BY DEF Describes
    <2>3. d.stage = "before" => c.stage = "before" /\ x.kind = "note"
      BY <1>t, ConsumeOnly
    <2>4. c.stage = "before" /\ x.kind = "note" => d.stage = "before"
      BY <1>t, ConsumeNote
    <2> QED BY <2>1, <2>2, <2>3, <2>4
  <1>4. ASSUME d.stage = "running"
        PROVE  \E s \in DOMAIN u : Underway(u, s)
    <2>1. CASE d = c /\ x.kind \in {"note", "test"}
      <3>1. PICK s \in DOMAIN t : Underway(t, s)
        BY <1>4, <2>1 DEF Describes
      <3>2. Underway(u, s)
        BY <3>1, <2>1, <1>t, UnderwayBefore
      <3> QED BY <3>2, <1>d
    <2>2. CASE c.stage = "before" /\ x.kind = "start" /\ x.total >= 0
      <3>1. Silent(t)
        BY <2>2 DEF Describes
      <3>2. Underway(u, n + 1)
        BY <3>1, <2>2, <1>t, UnderwayNow
      <3> QED BY <3>2, <1>d
    <2> QED BY <1>4, <2>1, <2>2, <1>t, ConsumeOnly
  <1>5. ASSUME d.stage = "done"
        PROVE  \E s, e \in DOMAIN u : Complete(u, s, e)
    <2>1. CASE d = c /\ x.kind = "note"
      <3>1. PICK s \in DOMAIN t, e \in DOMAIN t : Complete(t, s, e)
        BY <1>5, <2>1 DEF Describes
      <3>2. Complete(u, s, e)
        BY <3>1, <2>1, <1>t, CompleteBefore
      <3> QED BY <3>2, <1>d
    <2>2. CASE c.stage = "running" /\ Consistent(x, c.expected)
      <3>1. PICK s \in DOMAIN t : Underway(t, s)
        BY <2>2 DEF Describes
      <3>2. c.expected = t[s].total
        BY <3>1 DEF Describes
      <3>3. Complete(u, s, n + 1)
        BY <3>1, <3>2, <2>2, <1>t, CompleteNow
      <3> QED BY <3>3, <1>d
    <2> QED BY <1>5, <2>1, <2>2, <1>t, ConsumeOnly
  <1> HIDE DEF u, d
  <1>6. Describes(d, u)
    BY <1>1, <1>2, <1>3, <1>4, <1>5 DEF Describes
  <1> QED BY <1>6 DEF u, d

LEMMA PassingScan ==
    ASSUME NEW c, NEW t, Describes(c, t)
    PROVE  Passing(t) <=> c.stage = "done" /\ c.suite.failed = 0 /\ c.suite.passed > 0
  BY DEF Describes, Passing

LEMMA FailingScan ==
    ASSUME NEW c, NEW t, Describes(c, t)
    PROVE  Failing(t) <=> c.stage = "done" /\ c.suite.failed > 0
  BY DEF Describes, Failing

\* main's exit status is 0 for a listing or a passing suite only.
LEMMA StatusEarned ==
    ASSUME NEW c, NEW t, Describes(c, t), NEW cause, NEW code, NEW list \in BOOLEAN
    PROVE  Status(cause, code, list, c) = 0
               <=> cause = "none" /\ code = 0 /\ (list \/ Passing(t))
  <1>1. Passing(t) <=> c.stage = "done" /\ c.suite.failed = 0 /\ c.suite.passed > 0
    BY PassingScan
  <1>2. c.suite.failed \in Int /\ c.suite.passed \in Int
    BY DEF Describes, ScanType, LineType
  <1> QED BY <1>1, <1>2 DEF Status, NoError

-----------------------------------------------------------------------------
(* Verdict *)

VInv == Describes(scan, transcript)

LEMMA VInvInit == VerdictInit => VInv
  BY DescribesNothing DEF VerdictInit, VInv

LEMMA VInvNext == VInv /\ [VerdictNext]_verdictVars => VInv'
  <1> SUFFICES ASSUME VInv, [VerdictNext]_verdictVars PROVE VInv'
    OBVIOUS
  <1>1. ASSUME NEW line \in Lines, ReadLine(line) PROVE VInv'
    <2>1. line \in LineType
      BY LinesAssumption
    <2>2. transcript' = Append(transcript, line) /\ scan' = Consume(scan, line)
      BY <1>1 DEF ReadLine
    <2>3. Describes(Consume(scan, line), Append(transcript, line))
      BY <2>1, DescribesMore DEF VInv
    <2> QED BY <2>2, <2>3 DEF VInv
  <1>2. CASE UNCHANGED <<transcript, scan>>
    BY <1>2 DEF VInv
  <1> QED BY <1>1, <1>2 DEF VerdictNext, Report, verdictVars

\* suite_result tells silent, unfinished, complete and spoiled transcripts
\* apart, however long they are.
THEOREM ScanIsTrue == VerdictSpec => []ScanTrue
  <1>1. VInv => ScanTrue
    BY DEF VInv, Describes, ScanTrue
  <1> QED BY <1>1, VInvInit, VInvNext, PTL DEF VerdictSpec

LEMMA EarnedStep == VInv /\ VerdictEarned /\ [VerdictNext]_verdictVars => VerdictEarned'
  <1> SUFFICES ASSUME VInv, VerdictEarned, [VerdictNext]_verdictVars PROVE VerdictEarned'
    OBVIOUS
  <1>1. ASSUME NEW line \in Lines, ReadLine(line) PROVE VerdictEarned'
    BY <1>1 DEF ReadLine, VerdictEarned
  <1>2. ASSUME NEW cause \in Causes, NEW code \in Int, NEW list \in BOOLEAN,
               Report(cause, code, list), cause # "none" => code = NoCode
        PROVE  VerdictEarned'
    <2>1. /\ report'.cause = cause /\ report'.code = code /\ report'.list = list
          /\ report'.error = ~NoError(cause, code, list, scan)
          /\ report'.status = Status(cause, code, list, scan)
          /\ transcript' = transcript
      BY <1>2 DEF Report
    <2>2. /\ Passing(transcript) <=>
                 scan.stage = "done" /\ scan.suite.failed = 0 /\ scan.suite.passed > 0
          /\ Failing(transcript) <=> scan.stage = "done" /\ scan.suite.failed > 0
      BY PassingScan, FailingScan DEF VInv
    <2>3. scan.suite.failed \in Int /\ scan.suite.passed \in Int
      BY DEF VInv, Describes, ScanType, LineType
    <2>4. Status(cause, code, list, scan) = 0
              <=> cause = "none" /\ code = 0 /\ (list \/ Passing(transcript))
      BY StatusEarned DEF VInv
    <2>5. NoError(cause, code, list, scan) /\ Status(cause, code, list, scan) = 1
              <=> cause = "none" /\ code = 1 /\ ~list /\ Failing(transcript)
      BY <2>2, <2>3 DEF Status, NoError
    <2> QED BY <2>1, <2>4, <2>5 DEF VerdictEarned
  <1>3. CASE UNCHANGED verdictVars
    BY <1>3 DEF VerdictEarned, verdictVars
  <1> QED BY <1>1, <1>2, <1>3, CodesAssumption DEF VerdictNext, Causes, NoCode

\* The runner's exit status is earned on transcripts of any length and with any
\* exit statuses of probe-rs.
THEOREM VerdictIsEarned == VerdictSpec => []VerdictEarned
  <1>1. VerdictInit => VerdictEarned
    BY DEF VerdictInit, VerdictEarned
  <1> QED BY <1>1, VInvInit, VInvNext, EarnedStep, PTL DEF VerdictSpec

-----------------------------------------------------------------------------
(* The runners *)

Drained(h, c) ==
    "out" \notin c.open /\ h.read = c.written /\ "out" \notin h.watched

\* From the fork until it has been reaped a child may run; stdout leaves the
\* selector's map when all of it has been read; and whoever gets to the end
\* without a cause has read and shown everything and reaped the child.
Sound(h, c) ==
    /\ h \in Host /\ c \in Process
    /\ h.read <= c.written /\ h.shown <= Begun(h.read) /\ c.written <= 3 * Len(c.script)
    /\ h.pc \in {"start", "spawn"} => h.read = 0 /\ h.shown = 0
    /\ c.state = "running" => h.pc \in {"forked", "finally", "reap"} \cup Streaming
    /\ h.pc \in {"check", "select", "batch"} => Drained(h, c) \/ "out" \in h.watched
    /\ h.pc = "wait" => Drained(h, c) /\ h.shown = Begun(h.read)
    /\ h.pc \in {"finally", "reap", "judge", "unlock"} /\ h.cause = "none" =>
           Drained(h, c) /\ h.shown = Begun(h.read) /\ c.state = "reaped" /\ h.code = c.code

Holding(h) == h.pc \notin {"start", "exit"}

PInv ==
    /\ lock \in Runners \cup {NoRunner}
    /\ host \in [Runners -> Host] /\ child \in [Runners -> Process]
    /\ \A r \in Runners : Sound(host[r], child[r])
    /\ \A r \in Runners : Holding(host[r]) => lock = r

-----------------------------------------------------------------------------
LEMMA ScriptsHaveLengths == \A t \in Transcripts \cup {<<>>} : Len(t) \in Nat
  BY TranscriptsAssumption

LEMMA Beginnings == Idle \in Host /\ NoChild \in Process /\ Sound(Idle, NoChild)
  <1>1. Idle \in Host
    <2>1. Fresh \in ScanType
      BY DescribesNothing DEF Describes
    <2> QED BY <2>1 DEF Idle, Host, Steps, Streaming, Causes
  <1>2. NoChild \in Process
    BY DEF NoChild, Process
  <1> QED BY <1>1, <1>2 DEF Sound, Idle, NoChild, Begun, Streaming

LEMMA PInvInit == Init => PInv
  <1> SUFFICES ASSUME Init PROVE PInv
    OBVIOUS
  <1>1. \A r \in Runners : host[r] = Idle /\ child[r] = NoChild
    BY DEF Init
  <1>2. ~Holding(Idle)
    BY DEF Idle, Holding
  <1> QED BY <1>1, <1>2, Beginnings DEF Init, PInv

\* Whatever one runner and its child do, the others keep what holds of them.
LEMMA Frame ==
    ASSUME PInv, NEW r \in Runners, NEW h, NEW c, lock' = lock, lock = r \/ ~Holding(h),
           host' = [host EXCEPT ![r] = h], child' = [child EXCEPT ![r] = c], Sound(h, c)
    PROVE  PInv'
  <1>1. h \in Host /\ c \in Process
    BY DEF Sound
  <1> QED BY <1>1 DEF PInv

-----------------------------------------------------------------------------
(* probe-rs *)

LEMMA ChildStep ==
    ASSUME PInv, NEW r \in Runners, Child(r)
    PROVE  PInv'
  <1> DEFINE h == host[r]
  <1> DEFINE c == child[r]
  <1>1. /\ h \in Host /\ c \in Process /\ Sound(h, c)
        /\ Holding(h) => lock = r
        /\ host' = [host EXCEPT ![r] = h]
        /\ lock' = lock
    BY DEF PInv, Child, Write, CloseEnd, Exit, Die
  <1>2. CASE Write(r)
    <2> DEFINE d == [c EXCEPT !.written = c.written + 1]
    <2>1. child' = [child EXCEPT ![r] = d]
      BY <1>2 DEF Write
    <2>2. c.script \in Transcripts \cup {<<>>} /\ Len(c.script) \in Nat
      BY <1>1, ScriptsHaveLengths DEF Process
    <2>3. d \in Process /\ h.read <= d.written /\ d.written <= 3 * Len(d.script)
      <3>1. c.written \in Nat /\ h.read \in Nat /\ h.read <= c.written
        BY <1>1 DEF Process, Host, Sound
      <3>2. c.written < 3 * Len(c.script)
        BY <1>2 DEF Write
      <3>3. d \in Process /\ d.written = c.written + 1 /\ d.script = c.script
        BY <1>1, <3>1 DEF Process
      <3> QED BY <2>2, <3>1, <3>2, <3>3
    <2>4. d.state = c.state /\ d.open = c.open /\ c.state = "running" /\ "out" \in c.open
      BY <1>1, <1>2 DEF Write, Running, Process
    <2>5. Sound(h, d)
      BY <1>1, <2>3, <2>4 DEF Sound, Drained
    <2> QED BY <1>1, <2>1, <2>5, Frame
  <1>3. ASSUME NEW stream \in Streams, CloseEnd(r, stream) PROVE PInv'
    <2> DEFINE d == [c EXCEPT !.open = c.open \ {stream}]
    <2>1. child' = [child EXCEPT ![r] = d]
      BY <1>3 DEF CloseEnd
    <2>2. Sound(h, d)
      BY <1>1 DEF Sound, Drained, Process
    <2> QED BY <1>1, <2>1, <2>2, Frame
  <1>4. ASSUME NEW code \in Codes \cup {Killed}, Running(r),
               child' = [child EXCEPT ![r].state = "zombie", ![r].open = {}, ![r].code = code]
        PROVE  PInv'
    <2> DEFINE d == [c EXCEPT !.state = "zombie", !.open = {}, !.code = code]
    <2>1. child' = [child EXCEPT ![r] = d]
      BY <1>1, <1>4
    <2>2. Sound(h, d)
      BY <1>1, <1>4 DEF Sound, Drained, Process, Running
    <2> QED BY <1>1, <2>1, <2>2, Frame
  <1> QED BY <1>2, <1>3, <1>4 DEF Child, Exit, Die

-----------------------------------------------------------------------------
(* The runner *)

LEMMA LockStep ==
    ASSUME PInv, NEW r \in Runners, Lock(r)
    PROVE  PInv'
  <1> DEFINE h == host[r]
  <1> DEFINE c == child[r]
  <1>1. h \in Host /\ c \in Process /\ Sound(h, c) /\ h.pc = "start" /\ UNCHANGED child
    BY DEF PInv, Lock, At
  <1>2. CASE lock = NoRunner
    <2> DEFINE g == [h EXCEPT !.pc = "spawn"]
    <2>1. lock' = r /\ host' = [host EXCEPT ![r] = g]
      BY <1>2 DEF Lock
    <2>2. g \in Host /\ Sound(g, c)
      BY <1>1 DEF Host, Steps, Sound, Streaming
    <2>3. \A q \in Runners : ~Holding(host[q])
      BY <1>2, RunnersAssumption DEF PInv
    <2> QED BY <1>1, <2>1, <2>2, <2>3 DEF PInv
  <1>3. CASE lock # NoRunner
    <2> DEFINE g == [h EXCEPT !.pc = "exit", !.status = 1]
    <2>1. lock' = lock /\ host' = [host EXCEPT ![r] = g]
      BY <1>1, <1>3 DEF Lock
    <2>2. Sound(g, c)
      BY <1>1 DEF Host, Steps, Sound, Streaming
    <2>3. ~Holding(g) /\ child' = [child EXCEPT ![r] = c]
      BY <1>1 DEF Host, Holding, PInv
    <2> QED BY <2>1, <2>2, <2>3, Frame
  <1> QED BY <1>2, <1>3

\* The lock is released after the child has been reaped.
LEMMA UnlockStep ==
    ASSUME PInv, NEW r \in Runners, Unlock(r)
    PROVE  PInv'
  <1> DEFINE g == [Idle EXCEPT !.pc = "exit", !.status = host[r].status]
  <1>1. host[r] \in Host /\ Sound(host[r], child[r]) /\ host[r].pc = "unlock"
    BY DEF PInv, Unlock, At
  <1>2. ~Running(r)
    BY <1>1 DEF Sound, Running, Streaming
  <1>3. /\ lock' = NoRunner /\ host' = [host EXCEPT ![r] = g]
        /\ child' = [child EXCEPT ![r] = NoChild]
    BY <1>2 DEF Unlock
  <1>4. g \in Host /\ Sound(g, NoChild) /\ ~Holding(g)
    BY <1>1, Beginnings DEF Host, Steps, Sound, Streaming, Idle, NoChild, Holding, Begun
  <1>5. lock = r
    BY <1>1 DEF PInv, Holding
  <1>6. \A q \in Runners \ {r} : ~Holding(host[q])
    BY <1>5 DEF PInv
  <1> QED BY <1>3, <1>4, <1>6, Beginnings DEF PInv

\* A step of execute or stream_process, which changes its own state to g and
\* its child's to d.
LEMMA Own ==
    ASSUME PInv, NEW r \in Runners, Holding(host[r]), NEW g, NEW d, Sound(g, d), lock' = lock,
           host' = [host EXCEPT ![r] = g], child' = [child EXCEPT ![r] = d]
    PROVE  PInv'
  BY Frame DEF PInv

LEMMA Same ==
    ASSUME PInv, NEW r \in Runners, UNCHANGED child
    PROVE  child' = [child EXCEPT ![r] = child[r]]
  BY DEF PInv

LEMMA StartStep ==
    ASSUME PInv, NEW r \in Runners,
           (\E script \in Transcripts : Fork(r, script)) \/ Return(r) \/ CloseWriter(r)
    PROVE  PInv'
  <1> DEFINE h == host[r]
  <1> DEFINE c == child[r]
  <1>1. h \in Host /\ c \in Process /\ Sound(h, c)
    BY DEF PInv
  <1>2. lock' = lock /\ Holding(h)
    BY DEF Fork, Return, CloseWriter, At, Holding
  <1>3. ASSUME NEW script \in Transcripts, Fork(r, script) PROVE PInv'
    <2>1. h.pc = "spawn" /\ h.read = 0 /\ h.shown = 0 /\ Len(script) \in Nat
      BY <1>1, <1>3, ScriptsHaveLengths DEF Fork, At, Sound
    <2>2. CASE h.pc = "spawn" /\ UNCHANGED child
               /\ host' = [host EXCEPT ![r].pc = "judge", ![r].cause = "oserror"]
      <3> DEFINE g == [h EXCEPT !.pc = "judge", !.cause = "oserror"]
      <3>1. Sound(g, c)
        BY <1>1, <2>1 DEF Sound, Drained, Host, Steps, Streaming, Causes
      <3>2. host' = [host EXCEPT ![r] = g]
        BY <2>2 DEF PInv
      <3> QED BY <1>2, <2>2, <3>1, <3>2, Own, Same
    <2>3. CASE /\ host' = [host EXCEPT ![r].pc = "forked", ![r].writer = TRUE]
               /\ child' = [child EXCEPT ![r] = [NoChild EXCEPT !.state = "running",
                                                 !.script = script, !.open = Streams]]
      <3> DEFINE g == [h EXCEPT !.pc = "forked", !.writer = TRUE]
      <3> DEFINE d == [NoChild EXCEPT !.state = "running", !.script = script, !.open = Streams]
      <3>1. /\ g \in Host /\ g.pc = "forked" /\ g.read = 0 /\ g.shown = 0
        BY <1>1, <2>1 DEF Host, Steps, Streaming
      <3>2. d \in Process /\ d.written = 0 /\ d.script = script
        BY DEF NoChild, Process
      <3>3. Sound(g, d)
        BY <2>1, <3>1, <3>2 DEF Sound, Begun, Streaming
      <3>4. host' = [host EXCEPT ![r] = g]
        BY <2>3 DEF PInv
      <3> QED BY <1>2, <2>3, <3>3, <3>4, Own
    <2> QED BY <1>3, <2>1, <2>2, <2>3 DEF Fork
  <1>4. CASE Return(r)
    <2> DEFINE g == [h EXCEPT !.pc = "close"]
    <2>1. Sound(g, c)
      BY <1>1, <1>4 DEF Return, At, Sound, Host, Steps, Streaming
    <2> QED BY <1>2, <1>4, <2>1, Own, Same DEF Return
  <1>5. CASE CloseWriter(r)
    <2> DEFINE g == [h EXCEPT !.pc = "check", !.writer = FALSE, !.watched = Streams]
    <2>1. Sound(g, c)
      BY <1>1, <1>5 DEF CloseWriter, At, Sound, Host, Steps, Streaming, Streams
    <2>2. host' = [host EXCEPT ![r] = g] /\ UNCHANGED child
      BY <1>5 DEF CloseWriter, PInv
    <2> QED BY <1>2, <2>1, <2>2, Own, Same
  <1> QED BY <1>3, <1>4, <1>5

LEMMA BeginningsOfThirds == \A n \in Nat : Begun(n) \in Nat /\ Whole(n) \in Nat /\ Whole(n) <= Begun(n)
  BY DEF Begun, Whole

LEMMA LoopStep ==
    ASSUME PInv, NEW r \in Runners, Check(r) \/ Select(r) \/ EndBatch(r) \/ Deadline(r)
    PROVE  PInv'
  <1> DEFINE h == host[r]
  <1> DEFINE c == child[r]
  <1>1. h \in Host /\ c \in Process /\ Sound(h, c) /\ UNCHANGED child
    BY DEF PInv, Check, Select, EndBatch, Deadline
  <1>2. lock' = lock /\ Holding(h)
    BY DEF Check, Select, EndBatch, Deadline, At, Holding, Streaming
  <1>3. CASE Check(r)
    <2>0. h.pc = "check"
      BY <1>3 DEF Check, At
    <2>1. CASE h.watched = {}
      <3> DEFINE g == [h EXCEPT !.pc = "wait", !.shown = Begun(h.read)]
      <3>1. g \in Host /\ g.pc = "wait" /\ g.read = h.read /\ g.watched = {}
            /\ g.shown = Begun(g.read) /\ Begun(g.read) \in Nat
        BY <1>1, <2>1, BeginningsOfThirds DEF Host, Steps, Streaming
      <3>2. Drained(g, c)
        BY <1>1, <2>0, <2>1, <3>1 DEF Sound, Drained
      <3>3. Sound(g, c)
        BY <1>1, <3>1, <3>2 DEF Sound, Streaming
      <3>4. host' = [host EXCEPT ![r] = g]
        BY <1>3, <2>1 DEF Check, PInv
      <3> QED BY <1>1, <1>2, <3>3, <3>4, Own, Same
    <2>2. CASE h.watched # {} /\ h.late
      <3> DEFINE g == [h EXCEPT !.pc = "finally", !.cause = "timeout"]
      <3>1. Sound(g, c)
        BY <1>1 DEF Sound, Drained, Host, Steps, Streaming, Causes
      <3>2. host' = [host EXCEPT ![r] = g]
        BY <1>3, <2>2 DEF Check, PInv
      <3> QED BY <1>1, <1>2, <3>1, <3>2, Own, Same
    <2>3. CASE h.watched # {} /\ ~h.late
      <3> DEFINE g == [h EXCEPT !.pc = "select"]
      <3>1. Sound(g, c)
        BY <1>1, <2>0 DEF Sound, Drained, Host, Steps, Streaming
      <3> QED BY <1>1, <1>2, <1>3, <2>3, <3>1, Own, Same DEF Check
    <2> QED BY <2>1, <2>2, <2>3
  <1>4. CASE Select(r)
    <2> DEFINE g == [h EXCEPT !.batch = Ready(r), !.pc = "batch"]
    <2>1. Ready(r) \in SUBSET Streams
      BY <1>1 DEF Ready, Host
    <2>2. Sound(g, c)
      BY <1>1, <1>4, <2>1 DEF Select, At, Sound, Drained, Host, Steps, Streaming
    <2>3. host' = [host EXCEPT ![r] = g]
      BY <1>4 DEF Select, PInv
    <2> QED BY <1>1, <1>2, <2>2, <2>3, Own, Same
  <1>5. CASE EndBatch(r)
    <2> DEFINE g == [h EXCEPT !.pc = "check"]
    <2>1. Sound(g, c)
      BY <1>1, <1>5 DEF EndBatch, At, Sound, Drained, Host, Steps, Streaming
    <2> QED BY <1>1, <1>2, <1>5, <2>1, Own, Same DEF EndBatch
  <1>6. CASE Deadline(r)
    <2> DEFINE g == [h EXCEPT !.late = TRUE]
    <2>1. Sound(g, c)
      BY <1>1 DEF Sound, Drained, Host
    <2> QED BY <1>1, <1>2, <1>6, <2>1, Own, Same DEF Deadline
  <1> QED BY <1>3, <1>4, <1>5, <1>6

\* stdout leaves the map only at its end, and nothing follows its end.
LEMMA ReadStep ==
    ASSUME PInv, NEW r \in Runners,
           \/ \E n \in 1 .. child[r].written : ReadChunk(r, n)
           \/ \E stream \in Streams : ReadEnd(r, stream)
    PROVE  PInv'
  <1> DEFINE h == host[r]
  <1> DEFINE c == child[r]
  <1>1. h \in Host /\ c \in Process /\ Sound(h, c) /\ UNCHANGED child
    BY DEF PInv, ReadChunk, ReadEnd
  <1>2. lock' = lock /\ h.pc = "batch" /\ Holding(h)
    BY DEF ReadChunk, ReadEnd, At, Holding
  <1>3. ASSUME NEW n \in 1 .. c.written, ReadChunk(r, n) PROVE PInv'
    <2> DEFINE g == [h EXCEPT !.batch = h.batch \ {"out"}, !.read = n, !.shown = Whole(n)]
    <2>1. h.read \in Nat /\ c.written \in Nat /\ n \in Nat /\ h.read < n /\ n <= c.written
      <3>1. h.read \in Nat /\ c.written \in Nat
        BY <1>1 DEF Host, Process
      <3>2. n \in h.read + 1 .. c.written
        BY <1>3 DEF ReadChunk
      <3> QED BY <3>1, <3>2
    <2>2. "out" \in h.watched
      BY <1>1, <1>2, <2>1 DEF Sound, Drained
    <2>3. /\ g \in Host /\ g.pc = "batch" /\ g.read = n /\ g.shown = Whole(n)
          /\ g.watched = h.watched /\ Whole(n) <= Begun(n)
      BY <1>1, <1>2, <2>1, BeginningsOfThirds DEF Host
    <2>4. Sound(g, c)
      BY <1>1, <2>1, <2>2, <2>3 DEF Sound, Streaming
    <2>5. host' = [host EXCEPT ![r] = g]
      BY <1>3 DEF ReadChunk, PInv
    <2>6. child' = [child EXCEPT ![r] = c]
      BY <1>1, Same
    <2> HIDE DEF g
    <2> QED BY <1>2, <2>4, <2>5, <2>6, Own
  <1>4. ASSUME NEW stream \in Streams, ReadEnd(r, stream) PROVE PInv'
    <2> DEFINE g == [h EXCEPT !.batch = h.batch \ {stream}, !.watched = h.watched \ {stream}]
    <2>1. /\ g \in Host /\ g.pc = "batch" /\ g.read = h.read /\ g.shown = h.shown
          /\ g.watched = h.watched \ {stream}
      BY <1>1, <1>2 DEF Host
    <2>2. Drained(g, c) \/ "out" \in g.watched
      BY <1>1, <1>2, <1>4, <2>1 DEF ReadEnd, AtEnd, Sound, Drained
    <2>3. Sound(g, c)
      BY <1>1, <2>1, <2>2 DEF Sound, Streaming
    <2>4. host' = [host EXCEPT ![r] = g]
      BY <1>4 DEF ReadEnd, PInv
    <2>5. child' = [child EXCEPT ![r] = c]
      BY <1>1, Same
    <2> HIDE DEF g
    <2> QED BY <1>2, <2>3, <2>4, <2>5, Own
  <1> QED BY <1>3, <1>4

LEMMA EndStep ==
    ASSUME PInv, NEW r \in Runners,
           \/ Wait(r) \/ Kill(r) \/ Reap(r)
           \/ \E why \in {"interrupt", "oserror"} : Raised(r, why)
    PROVE  PInv'
  <1> DEFINE h == host[r]
  <1> DEFINE c == child[r]
  <1>1. h \in Host /\ c \in Process /\ Sound(h, c)
    BY DEF PInv
  <1>2. lock' = lock /\ Holding(h)
    BY DEF Wait, Kill, Reap, Raised, At, Holding, Streaming
  <1>3. CASE Wait(r)
    <2>0. h.pc = "wait" /\ Drained(h, c) /\ h.shown = Begun(h.read)
      BY <1>1, <1>3 DEF Wait, At, Sound
    <2>1. CASE c.state = "zombie"
      <3> DEFINE g == [h EXCEPT !.pc = "finally", !.code = c.code]
      <3> DEFINE d == [c EXCEPT !.state = "reaped"]
      <3>1. Sound(g, d)
        BY <1>1, <2>0 DEF Sound, Drained, Host, Process, Steps, Streaming
      <3>2. host' = [host EXCEPT ![r] = g] /\ child' = [child EXCEPT ![r] = d]
        BY <1>3, <2>1 DEF Wait, PInv
      <3> HIDE DEF g, d
      <3> QED BY <1>2, <3>1, <3>2, Own
    <2>2. CASE c.state # "zombie"
      <3> DEFINE g == [h EXCEPT !.pc = "finally", !.cause = "timeout"]
      <3>1. Sound(g, c)
        BY <1>1, <2>0 DEF Sound, Drained, Host, Steps, Streaming, Causes
      <3>2. host' = [host EXCEPT ![r] = g] /\ UNCHANGED child
        BY <1>3, <2>2 DEF Wait, PInv
      <3> HIDE DEF g
      <3> QED BY <1>2, <3>1, <3>2, Own, Same
    <2> QED BY <2>1, <2>2
  <1>4. CASE Kill(r)
    <2> DEFINE g == [h EXCEPT !.pc = "reap"]
    <2>0. h.pc = "finally" /\ host' = [host EXCEPT ![r] = g]
      BY <1>4 DEF Kill, At, PInv
    <2>1. ASSUME NEW d \in {c, [c EXCEPT !.state = "reaped"], [c EXCEPT !.killed = TRUE]}
          PROVE  Sound(g, d)
      <3>1. g \in Host /\ g = [h EXCEPT !.pc = "reap"] /\ g.pc = "reap"
        BY <1>1 DEF Host, Steps
      <3>2. /\ d \in Process /\ d.state \in {c.state, "reaped"}
            /\ d.open = c.open /\ d.written = c.written /\ d.script = c.script /\ d.code = c.code
        BY <1>1 DEF Process
      <3>3. /\ g.read = h.read /\ g.shown = h.shown /\ g.watched = h.watched
            /\ g.cause = h.cause /\ g.code = h.code
        BY <1>1 DEF Host
      <3> HIDE DEF g
      <3> QED BY <1>1, <2>0, <3>1, <3>2, <3>3 DEF Sound, Drained, Streaming
    <2>2. \E d \in {c, [c EXCEPT !.state = "reaped"], [c EXCEPT !.killed = TRUE]} :
              child' = [child EXCEPT ![r] = d]
      BY <1>4 DEF Kill, PInv, Running
    <2> HIDE DEF g
    <2> QED BY <1>2, <2>0, <2>1, <2>2, Own
  <1>5. CASE Reap(r)
    <2> DEFINE g == [h EXCEPT !.pc = "judge"]
    <2> DEFINE d == [c EXCEPT !.state = "reaped"]
    <2>1. h.pc = "reap" /\ host' = [host EXCEPT ![r] = g] /\ child' = [child EXCEPT ![r] = d]
      BY <1>5 DEF Reap, At, PInv
    <2>2. Sound(g, d)
      BY <1>1, <2>1 DEF Sound, Drained, Host, Process, Steps, Streaming
    <2> HIDE DEF g, d
    <2> QED BY <1>2, <2>1, <2>2, Own
  <1>6. ASSUME NEW why \in {"interrupt", "oserror"}, Raised(r, why) PROVE PInv'
    <2> DEFINE g == [h EXCEPT !.pc = "finally", !.batch = {}, !.cause = why]
    <2>1. host' = [host EXCEPT ![r] = g] /\ UNCHANGED child /\ h.pc \in Streaming
      BY <1>6 DEF Raised, PInv
    <2>2. Sound(g, c)
      BY <1>1, <2>1 DEF Sound, Drained, Host, Steps, Streaming, Causes
    <2> HIDE DEF g
    <2> QED BY <1>2, <2>1, <2>2, Own, Same
  <1> QED BY <1>3, <1>4, <1>5, <1>6

LEMMA TextType ==
    ASSUME NEW h, NEW c, Sound(h, c)
    PROVE  Thirds(c.script, h.read) \in Seq(LineType)
  <1> DEFINE n == h.read
  <1> DEFINE t == c.script
  <1>1. n \in Nat /\ t \in Seq(LineType) /\ n <= 3 * Len(t)
    <2>1. h.read \in Nat /\ c.written \in Nat /\ c.script \in Transcripts \cup {<<>>}
      BY DEF Sound, Host, Process
    <2>2. <<>> \in Seq(LineType)
      OBVIOUS
    <2>3. t \in Seq(LineType)
      BY <2>1, <2>2, TranscriptsAssumption
    <2>4. Len(t) \in Nat
      BY <2>3
    <2>5. h.read <= c.written /\ c.written <= 3 * Len(c.script)
      BY DEF Sound
    <2> QED BY <2>1, <2>3, <2>4, <2>5
  <1> HIDE DEF n, t
  <1>2. /\ n \div 3 \in Nat /\ n \div 3 <= Len(t) /\ n % 3 \in {0, 1, 2}
        /\ n % 3 # 0 => n \div 3 + 1 <= Len(t)
    BY <1>1
  <1>3. \A k \in 0 .. Len(t) : SubSeq(t, 1, k) \in Seq(LineType)
    BY <1>1
  <1>4. \A x \in LineType : Cut(x) \in LineType
    BY DEF Cut, Bad, Blank, LineType, Kinds
  <1>5. n % 3 = 1 => t[n \div 3 + 1] \in LineType
    BY <1>1, <1>2
  <1>6. n % 3 = 1 => Append(SubSeq(t, 1, n \div 3), Cut(t[n \div 3 + 1])) \in Seq(LineType)
    BY <1>1, <1>2, <1>3, <1>4, <1>5
  <1>7. Thirds(t, n) \in Seq(LineType)
    BY <1>1, <1>2, <1>3, <1>6 DEF Thirds
  <1> QED BY <1>7 DEF n, t

\* The scan stays within the text, and keeps its type.
LEMMA JudgeStep ==
    ASSUME PInv, NEW r \in Runners, ScanLine(r) \/ \E list \in BOOLEAN : Judge(r, list)
    PROVE  PInv'
  <1> DEFINE h == host[r]
  <1> DEFINE c == child[r]
  <1>1. h \in Host /\ c \in Process /\ Sound(h, c) /\ h.pc = "judge" /\ UNCHANGED child
    BY DEF PInv, ScanLine, Judge, At
  <1>2. lock' = lock /\ Holding(h)
    BY <1>1 DEF ScanLine, Judge, Holding
  <1>3. CASE ScanLine(r)
    <2> DEFINE line == Text(r)[h.scanned + 1]
    <2> DEFINE scanning == Consume(h.scan, line)
    <2> DEFINE next == h.scanned + 1
    <2> DEFINE g == [h EXCEPT !.scan = scanning, !.scanned = next]
    <2>1. h.scan \in ScanType /\ h.scanned \in Nat
      BY <1>1 DEF Host
    <2>2. line \in LineType
      <3>1. Text(r) \in Seq(LineType)
        BY <1>1, TextType DEF Text
      <3>2. h.scanned < Len(Text(r))
        BY <1>3 DEF ScanLine
      <3> QED BY <2>1, <3>1, <3>2
    <2>3. scanning \in ScanType /\ next \in Nat
      BY <2>1, <2>2, ConsumeType
    <2>4. host' = [host EXCEPT ![r] = g]
      BY <1>3 DEF ScanLine, PInv
    <2> HIDE DEF line, scanning, next
    <2>5. g \in Host
      BY <1>1, <2>3 DEF Host
    <2>6. /\ g.pc = "judge" /\ g.read = h.read /\ g.shown = h.shown /\ g.watched = h.watched
          /\ g.cause = h.cause /\ g.code = h.code
      BY <1>1 DEF Host
    <2> HIDE DEF g
    <2>7. Sound(g, c)
      BY <1>1, <2>5, <2>6 DEF Sound, Drained, Streaming
    <2> QED BY <1>1, <1>2, <2>4, <2>7, Own, Same
  <1>4. ASSUME NEW list \in BOOLEAN, Judge(r, list) PROVE PInv'
    <2> DEFINE status == Status(h.cause, h.code, list, h.scan)
    <2> DEFINE g == [h EXCEPT !.pc = "unlock", !.list = list, !.status = status]
    <2>1. host' = [host EXCEPT ![r] = g]
      BY <1>4 DEF Judge, PInv
    <2>2. status \in {0, 1}
      BY DEF Status
    <2> HIDE DEF status
    <2>3. Sound(g, c)
      BY <1>1, <2>2 DEF Sound, Drained, Host, Steps, Streaming
    <2> HIDE DEF g
    <2> QED BY <1>1, <1>2, <2>1, <2>3, Own, Same
  <1> QED BY <1>3, <1>4

LEMMA PInvNext == PInv /\ [Next]_vars => PInv'
  <1> SUFFICES ASSUME PInv, [Next]_vars PROVE PInv'
    OBVIOUS
  <1>1. CASE UNCHANGED vars
    BY <1>1 DEF vars, PInv
  <1>2. ASSUME NEW r \in Runners, Proceed(r) PROVE PInv'
    BY <1>2, LockStep, UnlockStep, StartStep, LoopStep, ReadStep, EndStep, JudgeStep DEF Proceed
  <1>3. ASSUME NEW r \in Runners, NEW why \in {"interrupt", "oserror"}, Raised(r, why)
        PROVE  PInv'
    BY <1>3, EndStep
  <1> QED BY <1>1, <1>2, <1>3, ChildStep, LoopStep DEF Next

-----------------------------------------------------------------------------
(* The judgment *)

Earned(h, c) ==
    h.status = 0 <=>
        /\ h.cause = "none" /\ c.code = 0
        /\ h.list \/ Passing(Thirds(c.script, h.read))

\* suite_result describes the lines it has looked at, and what is then made of
\* them is earned.
Judging(h, c) ==
    /\ h.pc \notin {"judge", "unlock"} => h.scan = Fresh /\ h.scanned = 0
    /\ h.pc = "judge" =>
           /\ h.scanned <= Len(Thirds(c.script, h.read))
           /\ Describes(h.scan, SubSeq(Thirds(c.script, h.read), 1, h.scanned))
    /\ h.pc = "unlock" => Earned(h, c)

JInv == \A r \in Runners : Judging(host[r], child[r])

LEMMA Prefixes ==
    ASSUME NEW t \in Seq(LineType)
    PROVE  /\ SubSeq(t, 1, 0) = <<>> /\ SubSeq(t, 1, Len(t)) = t
           /\ \A k \in Nat : k < Len(t) =>
                  t[k + 1] \in LineType /\ SubSeq(t, 1, k + 1) = Append(SubSeq(t, 1, k), t[k + 1])
  OBVIOUS

\* A judgment begins with nothing looked at.
LEMMA JudgmentBegins ==
    ASSUME NEW h, NEW c, Sound(h, c), h.pc # "unlock", h.scan = Fresh, h.scanned = 0
    PROVE  Judging(h, c)
  <1> DEFINE t == Thirds(c.script, h.read)
  <1>1. t \in Seq(LineType)
    BY TextType
  <1> HIDE DEF t
  <1>2. Len(t) \in Nat /\ SubSeq(t, 1, 0) = <<>>
    BY <1>1
  <1>3. h.scanned <= Len(t)
    BY <1>2
  <1>4. SubSeq(t, 1, h.scanned) = <<>>
    BY <1>2
  <1>5. Describes(h.scan, SubSeq(t, 1, h.scanned))
    BY <1>4, DescribesNothing
  <1> QED BY <1>3, <1>5 DEF Judging, t

LEMMA JudgingLine ==
    ASSUME PInv, JInv, NEW r \in Runners, ScanLine(r)
    PROVE  Judging(host'[r], child'[r])
  <1> DEFINE h == host[r]
  <1> DEFINE g == host'[r]
  <1> DEFINE t == Text(r)
  <1>1. /\ h \in Host /\ h.pc = "judge" /\ Sound(h, child[r]) /\ Judging(h, child[r])
        /\ h.scanned \in Nat /\ h.scanned < Len(t)
    BY DEF PInv, JInv, ScanLine, At, Host
  <1>2. /\ g.pc = "judge" /\ g.scan = Consume(h.scan, t[h.scanned + 1])
        /\ g.scanned = h.scanned + 1 /\ g.read = h.read /\ child'[r] = child[r]
    BY <1>1 DEF PInv, ScanLine, Host
  <1>3. t \in Seq(LineType) /\ t = Thirds(child[r].script, h.read)
    BY <1>1, TextType DEF Text
  <1>4. Describes(h.scan, SubSeq(t, 1, h.scanned))
    BY <1>1, <1>3 DEF Judging
  <1> HIDE DEF h, g, t
  <1>5. /\ t[h.scanned + 1] \in LineType
        /\ SubSeq(t, 1, h.scanned + 1) = Append(SubSeq(t, 1, h.scanned), t[h.scanned + 1])
    BY <1>1, <1>3, Prefixes
  <1>6. Describes(g.scan, SubSeq(t, 1, g.scanned))
    BY <1>2, <1>4, <1>5, DescribesMore
  <1>7. g.scanned <= Len(t)
    BY <1>1, <1>2, <1>3
  <1>8. Judging(g, child'[r])
    BY <1>2, <1>3, <1>6, <1>7 DEF Judging
  <1> QED BY <1>8 DEF g

LEMMA JudgingEnd ==
    ASSUME PInv, JInv, NEW r \in Runners, NEW list \in BOOLEAN, Judge(r, list)
    PROVE  Judging(host'[r], child'[r])
  <1> DEFINE h == host[r]
  <1> DEFINE g == host'[r]
  <1> DEFINE c == child[r]
  <1> DEFINE t == Text(r)
  <1>1. /\ h \in Host /\ h.pc = "judge" /\ Sound(h, c) /\ Judging(h, c)
        /\ h.scanned = IF list THEN 0 ELSE Len(t)
    BY DEF PInv, JInv, Judge, At
  <1>2. /\ g.pc = "unlock" /\ g.list = list /\ g.cause = h.cause /\ g.read = h.read
        /\ g.status = Status(h.cause, h.code, list, h.scan) /\ child'[r] = c
    BY <1>1 DEF PInv, Judge, Host
  <1>3. t \in Seq(LineType) /\ t = Thirds(c.script, h.read)
    BY <1>1, TextType DEF Text
  <1>4. Describes(h.scan, SubSeq(t, 1, h.scanned))
    BY <1>1, <1>3 DEF Judging
  <1>5. h.cause = "none" => h.code = c.code
    BY <1>1 DEF Sound
  <1> HIDE DEF h, g, c, t
  <1>6. g.status = 0 <=> h.cause = "none" /\ h.code = 0 /\ (list \/ Passing(t))
    <2>1. CASE list
      <3>1. Status(h.cause, h.code, list, h.scan) = 0
                <=> h.cause = "none" /\ h.code = 0
                    /\ (list \/ Passing(SubSeq(t, 1, h.scanned)))
        BY <1>4, StatusEarned
      <3> QED BY <1>2, <2>1, <3>1, Zenon
    <2>2. CASE ~list
      <3>1. Describes(h.scan, t)
        BY <1>1, <1>3, <1>4, <2>2, Prefixes
      <3> QED BY <1>2, <3>1, StatusEarned
    <2> QED BY <2>1, <2>2
  <1>7. Earned(g, child'[r])
    BY <1>2, <1>3, <1>5, <1>6 DEF Earned
  <1>8. Judging(g, child'[r])
    BY <1>2, <1>7 DEF Judging
  <1> QED BY <1>8 DEF g

\* Every other step of a runner is taken before its judgment, or after it.
LEMMA JudgingApart ==
    ASSUME PInv, PInv', JInv, NEW r \in Runners,
           \/ Child(r) \/ Lock(r) \/ Unlock(r)
           \/ \E script \in Transcripts : Fork(r, script)
           \/ Return(r) \/ CloseWriter(r) \/ Check(r) \/ Select(r) \/ EndBatch(r) \/ Deadline(r)
           \/ \E n \in 1 .. child[r].written : ReadChunk(r, n)
           \/ \E stream \in Streams : ReadEnd(r, stream)
           \/ Wait(r) \/ Kill(r) \/ Reap(r)
           \/ \E why \in {"interrupt", "oserror"} : Raised(r, why)
    PROVE  Judging(host'[r], child'[r])
  <1>1. host[r] \in Host /\ Sound(host[r], child[r]) /\ Sound(host'[r], child'[r])
        /\ Judging(host[r], child[r])
    BY DEF PInv, JInv
  <1>2. host'[r].pc # "unlock" /\ host'[r].scan = Fresh /\ host'[r].scanned = 0
    <2>1. CASE Child(r)
      <3>1. host' = host /\ Running(r)
        BY <2>1 DEF Child, Write, CloseEnd, Exit, Die
      <3>2. host[r].pc \notin {"judge", "unlock"}
        BY <1>1, <3>1 DEF Sound, Running, Streaming
      <3> QED BY <1>1, <3>1, <3>2 DEF Judging
    <2>2. CASE Unlock(r)
      BY <2>2 DEF Unlock, PInv, Idle
    <2>3. CASE ~Child(r) /\ ~Unlock(r)
      <3>1. host[r].pc \notin {"judge", "unlock"}
        BY <2>3 DEF Lock, Fork, Return, CloseWriter, Check, Select, EndBatch, Deadline,
                    ReadChunk, ReadEnd, Wait, Kill, Reap, Raised, At, Streaming
      <3>2. host[r].scan = Fresh /\ host[r].scanned = 0
        BY <1>1, <3>1 DEF Judging
      <3>3. host'[r].pc # "unlock" /\ host'[r].scan = host[r].scan
            /\ host'[r].scanned = host[r].scanned
        <4> USE <1>1, <3>1 DEF PInv, Host
        <4>1. CASE Lock(r)
          BY <4>1 DEF Lock
        <4>2. CASE Return(r) \/ CloseWriter(r) \/ Check(r)
          BY <4>2 DEF Return, CloseWriter, Check
        <4>3. CASE Select(r) \/ EndBatch(r) \/ Deadline(r)
          BY <4>3 DEF Select, EndBatch, Deadline
        <4>4. ASSUME NEW n \in 1 .. child[r].written, ReadChunk(r, n)
              PROVE  host'[r].pc # "unlock" /\ host'[r].scan = host[r].scan
                     /\ host'[r].scanned = host[r].scanned
          BY <4>4 DEF ReadChunk, At
        <4>5. ASSUME NEW stream \in Streams, ReadEnd(r, stream)
              PROVE  host'[r].pc # "unlock" /\ host'[r].scan = host[r].scan
                     /\ host'[r].scanned = host[r].scanned
          BY <4>5 DEF ReadEnd
        <4>6. ASSUME NEW script \in Transcripts, Fork(r, script)
              PROVE  host'[r].pc # "unlock" /\ host'[r].scan = host[r].scan
                     /\ host'[r].scanned = host[r].scanned
          <5>1. \/ host' = [host EXCEPT ![r].pc = "judge", ![r].cause = "oserror"]
                \/ host' = [host EXCEPT ![r].pc = "forked", ![r].writer = TRUE]
            BY <4>6 DEF Fork
          <5> QED BY <5>1
        <4>7. CASE Wait(r) \/ Kill(r) \/ Reap(r)
          BY <4>7 DEF Wait, Kill, Reap
        <4>8. CASE \E why \in {"interrupt", "oserror"} : Raised(r, why)
          BY <4>8 DEF Raised
        <4> QED BY <2>3, <4>1, <4>2, <4>3, <4>4, <4>5, <4>6, <4>7, <4>8
      <3> QED BY <3>2, <3>3
    <2> QED BY <2>1, <2>2, <2>3
  <1> QED BY <1>1, <1>2, JudgmentBegins

LEMMA Others ==
    ASSUME PInv, NEW r \in Runners, Proceed(r) \/ Child(r) \/ Deadline(r)
                 \/ \E why \in {"interrupt", "oserror"} : Raised(r, why)
    PROVE  \A q \in Runners \ {r} : host'[q] = host[q] /\ child'[q] = child[q]
  BY DEF PInv, Proceed, Child, Write, CloseEnd, Exit, Die, Lock, Unlock, Fork, Return, CloseWriter,
         Check, Select, EndBatch, Deadline, ReadChunk, ReadEnd, Wait, Kill, Reap, Raised,
         ScanLine, Judge

LEMMA JInvInit == Init => JInv
  BY DEF Init, JInv, Judging, Idle

LEMMA JInvNext == PInv /\ PInv' /\ JInv /\ [Next]_vars => JInv'
  <1> SUFFICES ASSUME PInv, PInv', JInv, [Next]_vars PROVE JInv'
    OBVIOUS
  <1>1. CASE UNCHANGED vars
    BY <1>1 DEF vars, JInv
  <1>2. ASSUME NEW r \in Runners, Judging(host'[r], child'[r]),
               \A q \in Runners \ {r} : host'[q] = host[q] /\ child'[q] = child[q]
        PROVE  JInv'
    BY <1>2 DEF JInv
  <1>3. ASSUME NEW r \in Runners, Proceed(r) \/ Child(r) \/ Deadline(r)
               \/ \E why \in {"interrupt", "oserror"} : Raised(r, why)
        PROVE  JInv'
    <2>1. Judging(host'[r], child'[r])
      BY <1>3, JudgingLine, JudgingEnd, JudgingApart DEF Proceed
    <2>2. \A q \in Runners \ {r} : host'[q] = host[q] /\ child'[q] = child[q]
      BY <1>3, Others
    <2> QED BY <1>2, <2>1, <2>2
  <1> QED BY <1>1, <1>3 DEF Next

-----------------------------------------------------------------------------
(* Theorems *)

LEMMA SoundAlways == Spec => []PInv
  BY PInvInit, PInvNext, PTL DEF Spec

\* Every variable of the runners and their children keeps its type, and
\* nothing is read or shown that was not written.
THEOREM RunnerTypeCorrect == Spec => []TypeOK
  <1>1. PInv => TypeOK
    BY DEF PInv, Sound, TypeOK
  <1> QED BY <1>1, SoundAlways, PTL

\* However many runners want the probe, a probe-rs runs only under its own
\* runner's lock, if no Ctrl-C strikes outside the try block.
THEOREM ProbeIsExclusive == Spec => []ProbeExclusive
  <1>1. PInv => ProbeExclusive
    BY DEF PInv, Sound, ProbeExclusive, Running, Holding, Streaming
  <1> QED BY <1>1, SoundAlways, PTL

\* If stream_process returns, nothing of what probe-rs wrote is missing from
\* stdout.txt or from what was shown, however much it was.
THEOREM NothingIsLost == Spec => []NothingLost
  <1>1. PInv => NothingLost
    BY DEF PInv, Sound, Drained, NothingLost, StreamOver, At
  <1> QED BY <1>1, SoundAlways, PTL

\* However the transcript is cut into writes and chunks and wherever it ends,
\* a runner succeeds exactly over a process that ended by itself with 0 and
\* wrote one complete, nonempty, passing suite, or was to list tests.
THEOREM PassIsEarned == Spec => []PassEarned
  <1>1. PInv /\ JInv => PassEarned
    <2> SUFFICES ASSUME PInv, JInv, NEW r \in Runners, At(r, "unlock")
                 PROVE  host[r].status = 0 <=>
                            /\ host[r].cause = "none" /\ child[r].code = 0
                            /\ host[r].list \/ Passing(Thirds(child[r].script, child[r].written))
      BY DEF PassEarned
    <2>1. host[r].cause = "none" => host[r].read = child[r].written
      BY DEF PInv, Sound, Drained, At
    <2>2. Earned(host[r], child[r])
      BY DEF JInv, Judging, At
    <2> QED BY <2>1, <2>2 DEF Earned
  <1>2. Spec => []JInv
    BY SoundAlways, JInvInit, JInvNext, PTL DEF Spec
  <1> QED BY <1>1, <1>2, SoundAlways, PTL
=============================================================================
