---------------------------- MODULE UartReceive ----------------------------
(***************************************************************************)
(* firmware/uart.rs, receiving: try_read against a receive FIFO that fills *)
(* at the line's pace, also between two steps of the call. Characters are  *)
(* told apart by whether they arrived intact; a character that finds the   *)
(* FIFO full is lost and raises the overrun flag, which DR reads report    *)
(* until it is cleared.                                                    *)
(***************************************************************************)
EXTENDS Integers, Sequences

CONSTANTS
    Depth,  \* entries of the receive FIFO
    Stream  \* bound of the model: characters the line delivers

ASSUME DepthAssumption == Depth \in Nat \ {0}
ASSUME StreamAssumption == Stream \in Nat

VARIABLES
    rx,        \* the FIFO: [id |-> place in the stream, bad |-> framing, parity or break]
    oe,        \* the overrun flag
    arrived,   \* characters delivered by the line
    pc,        \* the next step of try_read, or "idle"
    data,      \* DR as read
    result,    \* "none", "empty", "byte" or "error"
    returned,  \* history: ids handed out as bytes, in order
    reported,  \* history: ids consumed with an error, each with the error's flags
    damaged,   \* history: ids stored with a framing, parity or break flag
    lost,      \* history: ids lost to overruns
    seen,      \* history: characters delivered when DR was last read
    gap        \* history: first id lost and neither announced nor erased, or 0

line == <<arrived, damaged, lost>>
vars == <<rx, oe, line, pc, data, result, returned, reported, seen, gap>>

NoData == [id |-> 0, bad |-> FALSE, oe |-> FALSE]

Init ==
    /\ rx = <<>>
    /\ oe = FALSE
    /\ arrived = 0
    /\ pc = "idle"
    /\ data = NoData
    /\ result = "none"
    /\ returned = <<>>
    /\ reported = {}
    /\ damaged = {}
    /\ lost = {}
    /\ seen = 0
    /\ gap = 0

\* A character arrives. With room it is stored, and the hardware may drop an
\* overrun flag that a read has already shown; without, it is lost.
Receive(bad) ==
    /\ arrived < Stream
    /\ arrived' = arrived + 1
    /\ IF Len(rx) < Depth
       THEN /\ rx' = Append(rx, [id |-> arrived + 1, bad |-> bad])
            /\ oe' \in {oe, FALSE}
            /\ damaged' = IF bad THEN damaged \cup {arrived + 1} ELSE damaged
            /\ UNCHANGED <<lost, gap>>
       ELSE /\ oe' = TRUE
            /\ lost' = lost \cup {arrived + 1}
            /\ gap' = IF gap = 0 THEN arrived + 1 ELSE gap
            /\ UNCHANGED <<rx, damaged>>
    /\ UNCHANGED <<pc, data, result, returned, reported, seen>>

-----------------------------------------------------------------------------
(* try_read *)

\* Mutation: DR read without looking at FR.
ReadBlindly ==
    /\ pc = "idle"
    /\ pc' = "data"
    /\ result' = "none"
    /\ UNCHANGED <<rx, oe, line, data, returned, reported, seen, gap>>

\* FR: an empty FIFO returns None.
ReadFlags ==
    /\ pc = "idle"
    /\ IF rx = <<>> THEN pc' = "idle" /\ result' = "empty"
                    ELSE pc' = "data" /\ result' = "none"
    /\ UNCHANGED <<rx, oe, line, data, returned, reported, seen, gap>>

\* What a DR read gives: the oldest entry, or nothing sensible if there is none.
Oldest == IF rx = <<>> THEN NoData ELSE [id |-> Head(rx).id, bad |-> Head(rx).bad, oe |-> oe]
Rest(q) == IF q = <<>> THEN q ELSE Tail(q)

\* Mutation: DR read once for its flags and again for its data.
ReadTwice ==
    /\ pc = "data"
    /\ data' = Oldest
    /\ rx' = Rest(Rest(rx))
    /\ seen' = arrived
    /\ pc' = "decide"
    /\ UNCHANGED <<oe, line, result, returned, reported, gap>>

\* DR: one read consumes the entry with its flags and the overrun flag.
ReadData ==
    /\ pc = "data"
    /\ data' = Oldest
    /\ rx' = Rest(rx)
    /\ seen' = arrived
    /\ pc' = "decide"
    /\ UNCHANGED <<oe, line, result, returned, reported, gap>>

\* Mutation: the overrun flag not looked at.
Damaged == data.bad

Erroneous == data.bad \/ data.oe

\* The byte is returned unless one of the four flags is set.
ReturnByte ==
    /\ pc = "decide"
    /\ ~Erroneous
    /\ pc' = "idle"
    /\ result' = "byte"
    /\ returned' = Append(returned, data.id)
    /\ UNCHANGED <<rx, oe, line, data, reported, seen, gap>>

\* A loss between the DR read and the ECR write: that write erases its flag,
\* though the error returned was read before it.
Erased == ~data.oe /\ gap > seen

\* ECR: clears the receive status, and the flags that DR had are returned.
ReturnError ==
    /\ pc = "decide"
    /\ Erroneous
    /\ oe' = FALSE
    /\ pc' = "idle"
    /\ result' = "error"
    /\ reported' = reported \cup {data}
    /\ gap' = IF data.oe \/ Erased THEN 0 ELSE gap
    /\ UNCHANGED <<rx, line, data, returned, seen>>

TryRead == ReadFlags \/ ReadData \/ ReturnByte \/ ReturnError

Next == (\E bad \in BOOLEAN : Receive(bad)) \/ TryRead

Spec == Init /\ [][Next]_vars

-----------------------------------------------------------------------------
(* Properties *)

Ids == 1 .. Stream

\* Every variable keeps its type.
TypeOK ==
    /\ rx \in Seq([id : Ids, bad : BOOLEAN]) /\ Len(rx) <= Depth
    /\ oe \in BOOLEAN
    /\ arrived \in 0 .. Stream
    /\ pc \in {"idle", "data", "decide"}
    /\ data \in [id : Ids, bad : BOOLEAN, oe : BOOLEAN] \cup {NoData}
    /\ result \in {"none", "empty", "byte", "error"}
    /\ returned \in Seq(Ids)
    /\ reported \subseteq [id : Ids, bad : BOOLEAN, oe : BOOLEAN]
    /\ damaged \subseteq Ids /\ lost \subseteq Ids
    /\ seen \in 0 .. Stream
    /\ gap \in {0} \cup Ids

\* The characters kept so far, in the order the client gets them.
Held == returned
            \o (IF pc = "decide" THEN <<data.id>> ELSE <<>>)
            \o [k \in DOMAIN rx |-> rx[k].id]

Reported == {e.id : e \in reported}

\* Every character that arrived is returned, reported, lost or still held,
\* exactly once and in the order of arrival: a call consumes one entry.
Partitioned ==
    /\ \A a, b \in DOMAIN Held : a < b => Held[a] < Held[b]
    /\ {Held[k] : k \in DOMAIN Held} \cup Reported \cup lost = 1 .. arrived
    /\ {Held[k] : k \in DOMAIN Held} \cap (Reported \cup lost) = {}
    /\ Reported \cap lost = {}

\* A character is reported damaged exactly if it was, never handed out as a
\* byte if it was, and an overrun is reported only of a loss behind it.
OwnErrors ==
    /\ \A e \in reported :
           /\ e.bad <=> e.id \in damaged
           /\ e.oe => \E id \in lost : e.id < id
    /\ \A k \in DOMAIN returned : returned[k] \notin damaged

\* Each character meets its end once, and with its own errors, however
\* characters arrive between the reads of FR and DR and the write of ECR.
EachOnce == Partitioned /\ OwnErrors

\* No byte from behind a loss is handed out before an error with its overrun
\* field set, however reads, overruns and the clearing of the flag interleave
\* - unless ECR, written for a damaged character, erased the loss's flag.
LossAnnounced ==
    [][returned' # returned /\ gap # 0 => data.id < gap]_vars
=============================================================================
