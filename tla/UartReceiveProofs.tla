------------------------- MODULE UartReceiveProofs -------------------------
(***************************************************************************)
(* Every character is accounted for, with its own errors, and every loss   *)
(* announced that ECR does not erase, for a FIFO of any depth and a stream *)
(* of any length. The invariant takes what the client holds apart into     *)
(* what was returned, what is in the call's hands and what is queued.      *)
(***************************************************************************)
EXTENDS UartReceive, SequenceTheorems, TLAPS

Kept == {returned[k] : k \in DOMAIN returned}
Current == IF pc = "decide" THEN {data.id} ELSE {}
Queued == {rx[k].id : k \in DOMAIN rx}

\* A call in its second half has an entry to read, in its third has read one.
CallOK ==
    /\ pc = "data" => rx # <<>>
    /\ pc = "decide" => data \in [id : Ids, bad : BOOLEAN, oe : BOOLEAN]

Ordered ==
    /\ \A a, b \in DOMAIN returned : a < b => returned[a] < returned[b]
    /\ \A a, b \in DOMAIN rx : a < b => rx[a].id < rx[b].id
    /\ \A i \in Kept : \A j \in Current \cup Queued : i < j
    /\ \A i \in Current : \A j \in Queued : i < j

Accounted ==
    /\ Kept \cup Current \cup Queued \cup Reported \cup lost = 1 .. arrived
    /\ (Kept \cup Current \cup Queued) \cap (Reported \cup lost) = {}
    /\ Reported \cap lost = {}

\* An entry carries its own flags from the line to the client. The overrun
\* flag stands for a loss behind all entries, until the read that shows it.
FlagsOK ==
    /\ OwnErrors
    /\ damaged \subseteq 1 .. arrived
    /\ \A k \in DOMAIN rx : rx[k].bad <=> rx[k].id \in damaged
    /\ pc = "decide" => (data.bad <=> data.id \in damaged)
    /\ pc = "decide" /\ data.oe => \E l \in lost : data.id < l
    /\ oe /\ ~(pc = "decide" /\ data.oe) =>
           Len(rx) = Depth /\ \E l \in lost : \A j \in Queued : j < l

\* Until an overrun is returned after a loss, either the entry that was read
\* since carries its flag, or none was, or the loss came after that read.
GapOK ==
    /\ seen <= arrived
    /\ gap # 0 =>
           \/ pc = "decide" /\ data.oe
           \/ /\ oe /\ Len(rx) = Depth
              /\ pc = "decide" => data.id < gap /\ gap > seen

RInv == TypeOK /\ CallOK /\ Ordered /\ Accounted /\ FlagsOK /\ GapOK

-----------------------------------------------------------------------------
LEMMA Appended ==
    ASSUME NEW S, NEW q \in Seq(S), NEW x \in S
    PROVE  /\ Append(q, x) \in Seq(S) /\ Len(Append(q, x)) = Len(q) + 1
           /\ DOMAIN q = 1 .. Len(q) /\ Len(q) \in Nat
           /\ DOMAIN Append(q, x) = DOMAIN q \cup {Len(q) + 1}
           /\ \A k \in DOMAIN q : Append(q, x)[k] = q[k] /\ q[k] \in S
           /\ Append(q, x)[Len(q) + 1] = x
  OBVIOUS

LEMMA Popped ==
    ASSUME NEW S, NEW q \in Seq(S), q # <<>>
    PROVE  /\ Rest(q) \in Seq(S) /\ Len(Rest(q)) = Len(q) - 1
           /\ DOMAIN q = 1 .. Len(q) /\ Len(q) \in Nat \ {0}
           /\ Head(q) = q[1] /\ Head(q) \in S
           /\ DOMAIN Rest(q) = 1 .. Len(q) - 1
           /\ \A k \in DOMAIN Rest(q) : Rest(q)[k] = q[k + 1]
  BY DEF Rest

Entries == [id : Ids, bad : BOOLEAN]

LEMMA Bounded ==
    ASSUME Accounted
    PROVE  \A i \in Kept \cup Current \cup Queued : i \in 1 .. arrived
  BY DEF Accounted

LEMMA RInvInit == Init => RInv
  <1> SUFFICES ASSUME Init PROVE RInv
    OBVIOUS
  <1>1. /\ rx \in Seq([id : Ids, bad : BOOLEAN]) /\ Len(rx) = 0 /\ DOMAIN rx = {}
        /\ returned \in Seq(Ids) /\ DOMAIN returned = {}
    BY DEF Init
  <1>2. TypeOK
    <2>1. Len(rx) <= Depth /\ arrived \in 0 .. Stream
      BY <1>1, DepthAssumption, StreamAssumption DEF Init
    <2> QED BY <1>1, <2>1 DEF Init, TypeOK
  <1>3. Kept = {} /\ Queued = {} /\ Current = {}
    BY <1>1 DEF Init, Kept, Queued, Current
  <1>4. 1 .. arrived = {} /\ Reported = {}
    BY DEF Init, Reported
  <1>5. Ordered /\ Accounted
    BY <1>1, <1>3, <1>4 DEF Init, Ordered, Accounted
  <1>6. FlagsOK
    BY <1>1 DEF Init, FlagsOK, OwnErrors
  <1>7. GapOK
    BY DEF Init, GapOK
  <1> QED BY <1>2, <1>5, <1>6, <1>7 DEF Init, RInv, CallOK

-----------------------------------------------------------------------------
LEMMA StoredStep ==
    ASSUME RInv, NEW bad \in BOOLEAN, Receive(bad), Len(rx) < Depth
    PROVE  RInv'
  <1> DEFINE entry == [id |-> arrived + 1, bad |-> bad]
  <1>1. arrived \in Nat /\ arrived + 1 \in Ids /\ entry \in Entries /\ rx \in Seq(Entries)
    BY StreamAssumption DEF RInv, TypeOK, Receive, Ids, Entries
  <1>2. /\ rx' = Append(rx, entry) /\ arrived' = arrived + 1 /\ oe' \in {oe, FALSE}
        /\ damaged' = IF bad THEN damaged \cup {arrived + 1} ELSE damaged
        /\ UNCHANGED <<lost, gap, seen, pc, data, result, returned, reported>>
    BY DEF Receive
  <1>3. /\ rx' \in Seq(Entries) /\ Len(rx') = Len(rx) + 1 /\ Len(rx) \in Nat
        /\ DOMAIN rx' = DOMAIN rx \cup {Len(rx) + 1} /\ DOMAIN rx = 1 .. Len(rx)
        /\ \A k \in DOMAIN rx : rx'[k] = rx[k]
        /\ rx'[Len(rx) + 1] = entry
    BY <1>1, <1>2, Appended
  <1>4. /\ Queued' = Queued \cup {arrived + 1} /\ Kept' = Kept /\ Current' = Current
        /\ Reported' = Reported
    BY <1>2, <1>3 DEF Queued, Kept, Current, Reported
  <1>5. TypeOK'
    <2>1. Len(rx') <= Depth
      BY <1>3, DepthAssumption
    <2>2. arrived' \in 0 .. Stream
      BY <1>1, <1>2, StreamAssumption DEF Ids
    <2>3. oe' \in BOOLEAN /\ damaged' \subseteq Ids
      BY <1>1, <1>2 DEF RInv, TypeOK
    <2> QED BY <1>2, <1>3, <2>1, <2>2, <2>3 DEF RInv, TypeOK, Entries
  <1>6. CallOK'
    BY <1>2, <1>3 DEF RInv, CallOK
  <1>7. \A i \in Kept \cup Current \cup Queued : i < arrived + 1
    BY Bounded, <1>1 DEF RInv
  <1>8. Ordered'
    <2>1. \A a, b \in DOMAIN rx' : a < b => rx'[a].id < rx'[b].id
      <3>1. \A a \in DOMAIN rx : rx[a].id < arrived + 1
        BY <1>7 DEF Queued
      <3> QED BY <1>3, <3>1 DEF RInv, Ordered
    <2> QED BY <2>1, <1>2, <1>4, <1>7 DEF RInv, Ordered
  <1>9. Accounted'
    <2>1. 1 .. arrived + 1 = 1 .. arrived \cup {arrived + 1}
      BY <1>1
    <2>2. arrived + 1 \notin Reported \cup lost
      BY <1>1 DEF RInv, Accounted
    <2> QED BY <2>1, <2>2, <1>2, <1>4 DEF RInv, Accounted
  <1>10. GapOK'
    <2>1. seen' <= arrived'
      BY <1>1, <1>2 DEF RInv, TypeOK, GapOK
    <2>2. gap' # 0 => pc' = "decide" /\ data'.oe
      BY <1>2, DepthAssumption DEF RInv, GapOK
    <2> QED BY <2>1, <2>2 DEF GapOK
  <1>11. FlagsOK'
    <2>1. \A i \in Kept \cup Current \cup Queued \cup Reported : i # arrived + 1
      BY <1>1 DEF RInv, Accounted
    <2>2. \A i : i # arrived + 1 => (i \in damaged' <=> i \in damaged)
      BY <1>2
    <2>3. arrived + 1 \in damaged' <=> bad
      BY <1>1, <1>2 DEF RInv, FlagsOK
    <2>4. \A e \in reported : e.id \in Reported
      BY DEF Reported
    <2>5. \A k \in DOMAIN returned : returned[k] \in Kept
      BY DEF Kept
    <2>6. \A k \in DOMAIN rx : rx[k].id \in Queued
      BY DEF Queued
    <2>7. OwnErrors'
      BY <1>2, <2>1, <2>2, <2>4, <2>5 DEF RInv, FlagsOK, OwnErrors
    <2>8. damaged' \subseteq 1 .. arrived'
      <3>1. 1 .. arrived + 1 = 1 .. arrived \cup {arrived + 1}
        BY <1>1
      <3> QED BY <1>2, <3>1 DEF RInv, FlagsOK
    <2>9. \A k \in DOMAIN rx' : rx'[k].bad <=> rx'[k].id \in damaged'
      BY <1>3, <2>1, <2>2, <2>3, <2>6 DEF RInv, FlagsOK
    <2>10. pc' = "decide" => (data'.bad <=> data'.id \in damaged')
      BY <1>2, <2>1, <2>2 DEF RInv, FlagsOK, Current
    <2>11. pc' = "decide" /\ data'.oe => \E l \in lost' : data'.id < l
      BY <1>2 DEF RInv, FlagsOK
    <2>12. oe' => pc' = "decide" /\ data'.oe
      <3>1. Len(rx) # Depth
        <4>1. \A m, n \in Nat : m < n => m # n
          OBVIOUS
        <4>2. Len(rx) \in Nat /\ Depth \in Nat /\ Len(rx) < Depth
          BY <1>3, DepthAssumption
        <4> QED BY <4>1, <4>2, Zenon
      <3>2. oe => pc = "decide" /\ data.oe
        BY <3>1 DEF RInv, FlagsOK
      <3>3. oe' => oe
        <4>1. oe' \in {oe, FALSE}
          BY <1>2
        <4> QED BY <4>1, Zenon
      <3> QED BY <3>2, <3>3, <1>2
    <2> QED BY <2>7, <2>8, <2>9, <2>10, <2>11, <2>12 DEF FlagsOK
  <1> QED BY <1>5, <1>6, <1>8, <1>9, <1>10, <1>11 DEF RInv

LEMMA LostStep ==
    ASSUME RInv, NEW bad \in BOOLEAN, Receive(bad), ~(Len(rx) < Depth)
    PROVE  RInv'
  <1>1. arrived \in Nat /\ arrived + 1 \in Ids /\ Len(rx) = Depth
    BY StreamAssumption, DepthAssumption DEF RInv, TypeOK, Receive, Ids
  <1>2. /\ oe' = TRUE /\ lost' = lost \cup {arrived + 1} /\ arrived' = arrived + 1
        /\ gap' = IF gap = 0 THEN arrived + 1 ELSE gap
        /\ UNCHANGED <<rx, damaged, pc, data, result, returned, reported, seen>>
    BY DEF Receive
  <1>3. Queued' = Queued /\ Kept' = Kept /\ Current' = Current /\ Reported' = Reported
    BY <1>2 DEF Queued, Kept, Current, Reported
  <1>4. \A i \in Kept \cup Current \cup Queued : i < arrived + 1
    BY Bounded, <1>1 DEF RInv
  <1>5. TypeOK'
    BY <1>1, <1>2, StreamAssumption DEF RInv, TypeOK, Ids
  <1>6. CallOK' /\ Ordered'
    BY <1>2, <1>3 DEF RInv, CallOK, Ordered
  <1>7. Accounted'
    <2>1. 1 .. arrived + 1 = 1 .. arrived \cup {arrived + 1}
      BY <1>1
    <2>2. arrived + 1 \notin Reported \cup Kept \cup Current \cup Queued
      BY <1>1, <1>4 DEF RInv, Accounted
    <2> QED BY <2>1, <2>2, <1>2, <1>3 DEF RInv, Accounted
  <1>8. GapOK'
    <2>1. seen' <= arrived' /\ seen < arrived + 1
      BY <1>1, <1>2 DEF RInv, TypeOK, GapOK
    <2>2. pc = "decide" => data.id < arrived + 1
      BY <1>4 DEF Current
    <2>3. CASE gap = 0
      <3>1. gap' = arrived + 1 /\ gap' > seen
        BY <1>1, <1>2, <2>1, <2>3 DEF RInv, TypeOK
      <3> QED BY <1>1, <1>2, <2>1, <2>2, <3>1 DEF GapOK
    <2>4. CASE gap # 0
      BY <1>1, <1>2, <2>1, <2>4 DEF RInv, GapOK
    <2> QED BY <2>3, <2>4
  <1>9. FlagsOK'
    <2>1. lost \subseteq lost' /\ arrived + 1 \in lost'
      BY <1>2
    <2>2. OwnErrors'
      BY <1>2, <2>1 DEF RInv, FlagsOK, OwnErrors
    <2>3. damaged' \subseteq 1 .. arrived'
      BY <1>1, <1>2 DEF RInv, FlagsOK
    <2>4. \A j \in Queued' : j < arrived + 1
      BY <1>3, <1>4
    <2> QED BY <1>1, <1>2, <2>1, <2>2, <2>3, <2>4 DEF RInv, FlagsOK
  <1> QED BY <1>5, <1>6, <1>7, <1>8, <1>9 DEF RInv

LEMMA FlagsStep == RInv /\ ReadFlags => RInv'
  <1> SUFFICES ASSUME RInv, ReadFlags PROVE RInv'
    OBVIOUS
  <1>1. pc = "idle" /\ pc' \in {"idle", "data"} /\ result' \in {"empty", "none"}
    BY DEF ReadFlags
  <1>2. UNCHANGED <<rx, oe, arrived, damaged, lost, data, returned, reported, seen, gap>>
    BY DEF ReadFlags, line
  <1>3. Queued' = Queued /\ Kept' = Kept /\ Current' = Current /\ Reported' = Reported
    BY <1>1, <1>2 DEF Queued, Kept, Current, Reported
  <1>4. TypeOK'
    BY <1>1, <1>2 DEF RInv, TypeOK
  <1>5. CallOK'
    BY DEF RInv, CallOK, ReadFlags
  <1>6. Ordered' /\ Accounted'
    BY <1>2, <1>3 DEF RInv, Ordered, Accounted
  <1>7. FlagsOK' /\ GapOK'
    BY <1>1, <1>2, <1>3 DEF RInv, FlagsOK, OwnErrors, GapOK
  <1> QED BY <1>4, <1>5, <1>6, <1>7 DEF RInv

LEMMA DataStep == RInv /\ ReadData => RInv'
  <1> SUFFICES ASSUME RInv, ReadData PROVE RInv'
    OBVIOUS
  <1>1. /\ pc = "data" /\ pc' = "decide" /\ rx # <<>> /\ rx \in Seq(Entries)
        /\ UNCHANGED <<oe, arrived, damaged, lost, result, returned, reported, gap>>
        /\ seen' = arrived
    BY DEF ReadData, line, RInv, TypeOK, CallOK, Entries
  <1>2. /\ rx' \in Seq(Entries) /\ Len(rx') = Len(rx) - 1 /\ Len(rx) \in Nat \ {0}
        /\ DOMAIN rx = 1 .. Len(rx) /\ DOMAIN rx' = 1 .. Len(rx) - 1
        /\ \A k \in DOMAIN rx' : rx'[k] = rx[k + 1]
        /\ Head(rx) = rx[1] /\ rx[1] \in Entries
    BY <1>1, Popped DEF ReadData
  <1>3. data' = [id |-> rx[1].id, bad |-> rx[1].bad, oe |-> oe]
    BY <1>1, <1>2 DEF ReadData, Oldest
  <1>4. Kept' = Kept /\ Current = {} /\ Current' = {rx[1].id} /\ Reported' = Reported
    BY <1>1, <1>3 DEF Kept, Current, Reported
  <1>5. Queued = Queued' \cup {rx[1].id}
    <2>1. \A k \in DOMAIN rx : k = 1 \/ (k - 1 \in DOMAIN rx' /\ rx[k] = rx'[k - 1])
      BY <1>2
    <2>2. \A k \in DOMAIN rx' : k + 1 \in DOMAIN rx
      BY <1>2
    <2>3. 1 \in DOMAIN rx
      BY <1>2
    <2> QED BY <2>1, <2>2, <2>3, <1>2 DEF Queued
  <1>6. \A j \in Queued' : rx[1].id < j
    BY <1>2 DEF RInv, Ordered, Queued
  <1>7. TypeOK'
    BY <1>1, <1>2, <1>3, DepthAssumption DEF RInv, TypeOK, Entries
  <1>8. CallOK'
    BY <1>1, <1>2, <1>3 DEF CallOK, RInv, TypeOK, Entries
  <1>9. Ordered'
    <2>1. \A a, b \in DOMAIN rx' : a < b => rx'[a].id < rx'[b].id
      BY <1>2 DEF RInv, Ordered
    <2> QED BY <2>1, <1>1, <1>4, <1>5, <1>6 DEF RInv, Ordered
  <1>10. Accounted'
    BY <1>1, <1>4, <1>5 DEF RInv, Accounted
  <1>11. GapOK'
    <2>1. seen' <= arrived'
      BY <1>1 DEF RInv, TypeOK
    <2>2. gap' # 0 => data'.oe
      BY <1>1, <1>3 DEF RInv, GapOK
    <2> QED BY <1>1, <2>1, <2>2 DEF GapOK
  <1>12. FlagsOK'
    <2>1. OwnErrors'
      BY <1>1 DEF RInv, FlagsOK, OwnErrors
    <2>2. \A k \in DOMAIN rx' : rx'[k].bad <=> rx'[k].id \in damaged'
      BY <1>1, <1>2 DEF RInv, FlagsOK
    <2>3. data'.bad <=> data'.id \in damaged'
      BY <1>1, <1>2, <1>3 DEF RInv, FlagsOK
    <2>4. data'.oe => \E l \in lost' : data'.id < l
      BY <1>1, <1>3, <1>5 DEF RInv, FlagsOK
    <2>5. data'.oe = oe'
      BY <1>1, <1>3
    <2> QED BY <1>1, <2>1, <2>2, <2>3, <2>4, <2>5 DEF RInv, FlagsOK
  <1> QED BY <1>7, <1>8, <1>9, <1>10, <1>11, <1>12 DEF RInv

LEMMA ByteStep == RInv /\ ReturnByte => RInv'
  <1> SUFFICES ASSUME RInv, ReturnByte PROVE RInv'
    OBVIOUS
  <1>1. /\ pc = "decide" /\ pc' = "idle" /\ ~data.oe /\ ~data.bad
        /\ data \in [id : Ids, bad : BOOLEAN, oe : BOOLEAN]
        /\ result' = "byte" /\ returned' = Append(returned, data.id)
        /\ UNCHANGED <<rx, oe, arrived, damaged, lost, data, reported, seen, gap>>
    BY DEF ReturnByte, line, Erroneous, RInv, CallOK
  <1>2. /\ returned' \in Seq(Ids) /\ Len(returned) \in Nat
        /\ DOMAIN returned = 1 .. Len(returned)
        /\ DOMAIN returned' = DOMAIN returned \cup {Len(returned) + 1}
        /\ \A k \in DOMAIN returned : returned'[k] = returned[k]
        /\ returned'[Len(returned) + 1] = data.id
    BY <1>1, Appended DEF RInv, TypeOK
  <1>3. /\ Kept' = Kept \cup {data.id} /\ Current = {data.id} /\ Current' = {}
        /\ Queued' = Queued /\ Reported' = Reported
    BY <1>1, <1>2 DEF Kept, Current, Queued, Reported
  <1>4. TypeOK' /\ CallOK'
    BY <1>1, <1>2 DEF RInv, TypeOK, CallOK
  <1>5. Ordered'
    <2>1. \A a \in DOMAIN returned : returned[a] < data.id
      BY <1>3 DEF RInv, Ordered, Kept
    <2>2. \A a, b \in DOMAIN returned' : a < b => returned'[a] < returned'[b]
      BY <1>2, <2>1 DEF RInv, Ordered
    <2> QED BY <2>2, <1>1, <1>3 DEF RInv, Ordered
  <1>6. Accounted'
    BY <1>1, <1>3 DEF RInv, Accounted
  <1>7. GapOK'
    BY <1>1 DEF RInv, GapOK
  <1>8. FlagsOK'
    <2>1. data.id \notin damaged
      BY <1>1 DEF RInv, FlagsOK
    <2>2. OwnErrors'
      BY <1>1, <1>2, <2>1 DEF RInv, FlagsOK, OwnErrors
    <2> QED BY <1>1, <1>3, <2>2 DEF RInv, FlagsOK
  <1> QED BY <1>4, <1>5, <1>6, <1>7, <1>8 DEF RInv

LEMMA ErrorStep == RInv /\ ReturnError => RInv'
  <1> SUFFICES ASSUME RInv, ReturnError PROVE RInv'
    OBVIOUS
  <1>1. /\ pc = "decide" /\ pc' = "idle" /\ oe' = FALSE
        /\ data \in [id : Ids, bad : BOOLEAN, oe : BOOLEAN]
        /\ result' = "error" /\ reported' = reported \cup {data}
        /\ UNCHANGED <<rx, arrived, damaged, data, returned, lost, seen>>
    BY DEF ReturnError, line, RInv, CallOK
  <1>g. gap' = 0
    <2>1. gap # 0 => data.oe \/ Erased
      BY <1>1 DEF RInv, GapOK, Erased
    <2> QED BY <2>1 DEF ReturnError
  <1>2. /\ Kept' = Kept /\ Current = {data.id} /\ Current' = {} /\ Queued' = Queued
        /\ Reported' = Reported \cup {data.id}
    BY <1>1 DEF Kept, Current, Queued, Reported
  <1>3. data.id \notin Kept /\ data.id \notin Queued
    BY <1>1, <1>2 DEF RInv, Ordered, Ids
  <1>4. TypeOK' /\ CallOK'
    BY <1>1, <1>g DEF RInv, TypeOK, CallOK
  <1>5. Ordered'
    BY <1>1, <1>2 DEF RInv, Ordered
  <1>6. Accounted'
    BY <1>1, <1>2, <1>3 DEF RInv, Accounted
  <1>7. GapOK'
    BY <1>1, <1>g DEF RInv, GapOK
  <1>8. FlagsOK'
    <2>1. /\ data.bad <=> data.id \in damaged
          /\ data.oe => \E l \in lost : data.id < l
      BY <1>1 DEF RInv, FlagsOK
    <2>2. OwnErrors'
      BY <1>1, <2>1 DEF RInv, FlagsOK, OwnErrors
    <2> QED BY <1>1, <1>2, <2>2 DEF RInv, FlagsOK
  <1> QED BY <1>4, <1>5, <1>6, <1>7, <1>8 DEF RInv

LEMMA RInvNext == RInv /\ [Next]_vars => RInv'
  <1>1. ASSUME RInv, UNCHANGED vars PROVE RInv'
    <2>1. /\ UNCHANGED <<rx, oe, arrived, damaged, lost, pc, data, result, returned>>
          /\ UNCHANGED <<reported, seen, gap>>
      BY <1>1 DEF vars, line
    <2>2. Queued' = Queued /\ Kept' = Kept /\ Current' = Current /\ Reported' = Reported
      BY <2>1 DEF Queued, Kept, Current, Reported
    <2>3. TypeOK' /\ CallOK'
      BY <1>1, <2>1 DEF RInv, TypeOK, CallOK
    <2>4. Ordered' /\ Accounted'
      BY <1>1, <2>1, <2>2 DEF RInv, Ordered, Accounted
    <2>5. FlagsOK' /\ GapOK'
      BY <1>1, <2>1, <2>2 DEF RInv, FlagsOK, OwnErrors, GapOK
    <2> QED BY <2>3, <2>4, <2>5 DEF RInv
  <1> QED BY <1>1, StoredStep, LostStep, FlagsStep, DataStep, ByteStep, ErrorStep
          DEF Next, TryRead

-----------------------------------------------------------------------------
(* Theorems *)

LEMMA Inductive == Spec => []RInv
  BY RInvInit, RInvNext, PTL DEF Spec

\* Every variable of the receiver keeps its type.
THEOREM ReceiveTypeCorrect == Spec => []TypeOK
  <1>1. RInv => TypeOK
    BY DEF RInv
  <1> QED BY <1>1, Inductive, PTL

LEMMA HeldIs ==
    ASSUME RInv
    PROVE  /\ \A a, b \in DOMAIN Held : a < b => Held[a] < Held[b]
           /\ {Held[k] : k \in DOMAIN Held} = Kept \cup Current \cup Queued
  <1> DEFINE c == IF pc = "decide" THEN <<data.id>> ELSE <<>>
  <1> DEFINE q == [k \in DOMAIN rx |-> rx[k].id]
  <1>1. returned \in Seq(Ids) /\ c \in Seq(Ids) /\ rx \in Seq(Entries)
    BY DEF RInv, TypeOK, CallOK, Entries
  <1>2. q \in Seq(Ids) /\ Len(q) = Len(rx) /\ DOMAIN q = DOMAIN rx
    <2>1. \A k \in DOMAIN rx : rx[k].id \in Ids
      <3>1. \A k \in DOMAIN rx : rx[k] \in Entries
        BY <1>1, ElementOfSeq, LenProperties
      <3> QED BY <3>1 DEF Entries
    <2>2. q \in [1 .. Len(rx) -> Ids] /\ Len(rx) \in Nat
      BY <1>1, <2>1
    <2> QED BY <2>2, <1>1
  <1>3. /\ Len(returned) \in Nat /\ Len(c) \in {0, 1} /\ Len(q) \in Nat
        /\ DOMAIN returned = 1 .. Len(returned) /\ DOMAIN q = 1 .. Len(q)
        /\ Len(c) = 1 <=> pc = "decide"
        /\ Len(c) = 1 => c[1] = data.id
    BY <1>1, <1>2
  <1> DEFINE m == Len(returned)
  <1> DEFINE n == m + Len(c)
  <1>m. m \in Nat /\ n \in Nat /\ Len(q) \in Nat /\ m <= n /\ n <= m + 1
    BY <1>3
  <1>4. /\ DOMAIN Held = 1 .. n + Len(q)
        /\ \A k \in 1 .. m : Held[k] = returned[k]
        /\ \A k \in m + 1 .. n : Held[k] = data.id /\ pc = "decide"
        /\ \A k \in n + 1 .. n + Len(q) : Held[k] = rx[k - n].id /\ k - n \in DOMAIN rx
    <2>1. Held = (returned \o c) \o q
      BY DEF Held
    <2>2. /\ returned \o c \in Seq(Ids) /\ Len(returned \o c) = n
          /\ \A k \in 1 .. m : (returned \o c)[k] = returned[k]
          /\ \A k \in m + 1 .. n : (returned \o c)[k] = c[k - m]
      BY <1>1, <1>3
    <2> HIDE DEF c, q
    <2>3. /\ DOMAIN Held = 1 .. n + Len(q)
          /\ \A k \in 1 .. n : Held[k] = (returned \o c)[k]
          /\ \A k \in n + 1 .. n + Len(q) : Held[k] = q[k - n]
      <3> DEFINE h == returned \o c
      <3>1. h \in Seq(Ids) /\ Len(h) = n /\ Held = h \o q /\ q \in Seq(Ids)
        BY <1>2, <2>1, <2>2
      <3>2. n \in Nat /\ Len(q) \in Nat
        BY <3>1
      <3> HIDE DEF h, n
      <3>3. DOMAIN Held = 1 .. n + Len(q)
        BY <3>1, <3>2, ConcatProperties
      <3>4. \A k \in 1 .. n + Len(q) : Held[k] = IF k <= n THEN h[k] ELSE q[k - n]
        BY <3>1, <3>2, ConcatProperties
      <3>5. \A k \in 1 .. n : k \in 1 .. n + Len(q) /\ k <= n
        BY <3>2
      <3>6. \A k \in n + 1 .. n + Len(q) : k \in 1 .. n + Len(q) /\ ~(k <= n)
        BY <3>2
      <3>7. \A k \in 1 .. n : Held[k] = h[k]
        BY <3>4, <3>5
      <3>8. \A k \in n + 1 .. n + Len(q) : Held[k] = q[k - n]
        BY <3>4, <3>6
      <3> QED BY <3>3, <3>7, <3>8 DEF h
    <2>4. \A k \in 1 .. m : Held[k] = returned[k]
      BY <2>2, <2>3, <1>3
    <2>5. \A k \in m + 1 .. n : Held[k] = data.id /\ pc = "decide"
      BY <2>2, <2>3, <1>3
    <2>6. \A k \in n + 1 .. n + Len(q) : Held[k] = rx[k - n].id /\ k - n \in DOMAIN rx
      BY <2>3, <1>2, <1>3 DEF q
    <2> QED BY <2>3, <2>4, <2>5, <2>6
  <1>5. \A k \in 1 .. m : Held[k] \in Kept
    BY <1>3, <1>4 DEF Kept
  <1>6. \A k \in m + 1 .. n : Held[k] \in Current
    BY <1>4 DEF Current
  <1>7. \A k \in n + 1 .. n + Len(q) : Held[k] \in Queued
    BY <1>4 DEF Queued
  <1>8. \A k \in DOMAIN Held : k \in 1 .. m \/ k \in m + 1 .. n \/ k \in n + 1 .. n + Len(q)
    BY <1>3, <1>4
  <1> HIDE DEF m, n, q, c
  <1>9. ASSUME NEW a \in DOMAIN Held, NEW b \in DOMAIN Held, a < b
        PROVE  Held[a] < Held[b]
    <2>1. CASE a \in 1 .. m /\ b \in 1 .. m
      BY <2>1, <1>3, <1>4, <1>9 DEF RInv, Ordered, m
    <2>2. CASE a \in 1 .. m /\ b \notin 1 .. m
      BY <2>2, <1>5, <1>6, <1>7, <1>8 DEF RInv, Ordered
    <2>3. CASE a \in m + 1 .. n
      <3>1. b \in n + 1 .. n + Len(q)
        BY <1>m, <2>3, <1>8, <1>9
      <3> QED BY <2>3, <3>1, <1>6, <1>7 DEF RInv, Ordered
    <2>4. CASE a \in n + 1 .. n + Len(q)
      <3>1. b \in n + 1 .. n + Len(q)
        BY <1>m, <2>4, <1>4, <1>9
      <3>2. a - n < b - n
        BY <1>m, <2>4, <3>1, <1>9
      <3> QED BY <2>4, <3>1, <3>2, <1>4 DEF RInv, Ordered
    <2> QED BY <2>1, <2>2, <2>3, <2>4, <1>8
  <1>10. ASSUME NEW i \in Kept \cup Current \cup Queued
         PROVE  \E k \in DOMAIN Held : Held[k] = i
    <2>1. CASE i \in Kept
      <3>1. PICK k \in 1 .. m : returned[k] = i
        BY <2>1, <1>3 DEF Kept, m
      <3> QED BY <3>1, <1>m, <1>4
    <2>2. CASE i \in Current
      <3>1. m + 1 \in m + 1 .. n /\ i = data.id
        BY <2>2, <1>3 DEF Current, m, n
      <3>2. m + 1 \in DOMAIN Held
        BY <3>1, <1>m, <1>4
      <3>3. Held[m + 1] = data.id
        BY <3>1, <1>4
      <3> QED BY <3>1, <3>2, <3>3
    <2>3. CASE i \in Queued
      <3>1. PICK k \in DOMAIN rx : rx[k].id = i
        BY <2>3 DEF Queued
      <3>2. k \in 1 .. Len(q)
        BY <1>2, <1>3 DEF q
      <3>3. k + n \in n + 1 .. n + Len(q) /\ (k + n) - n = k
        BY <3>2, <1>m
      <3> QED BY <3>1, <3>3, <1>m, <1>4
    <2> QED BY <2>1, <2>2, <2>3
  <1> QED BY <1>5, <1>6, <1>7, <1>8, <1>9, <1>10

\* Every character that arrived is returned, reported, lost or still held,
\* exactly once and in order, and is reported damaged exactly if it was.
THEOREM EachCharacterOnce == Spec => []EachOnce
  <1>1. RInv => EachOnce
    BY HeldIs DEF RInv, Accounted, FlagsOK, EachOnce, Partitioned
  <1> QED BY <1>1, Inductive, PTL

\* No byte from behind a loss is returned before an error with the overrun
\* flag, unless the loss came between the DR read and the ECR write of an
\* error without it.
THEOREM LossIsAnnounced == Spec => LossAnnounced
  <1>1. RInv /\ [Next]_vars => [returned' # returned /\ gap # 0 => data.id < gap]_vars
    BY DEF RInv, GapOK, Next, Receive, TryRead, ReadFlags, ReadData, ReturnByte, ReturnError,
           Erroneous, vars, line
  <1> QED BY <1>1, Inductive, PTL DEF Spec, LossAnnounced
=============================================================================
