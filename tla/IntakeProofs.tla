---------------------------- MODULE IntakeProofs ----------------------------
(***************************************************************************)
(* Theorems about Intake, for any number of keys, requests, ticks, orders  *)
(* and failures.                                                           *)
(***************************************************************************)
EXTENDS Intake, TLAPS

USE NoneAssumption, LimitsAssumption, BoundsAssumption

-----------------------------------------------------------------------------
(* Type correctness *)

LEMMA CopyTypes ==
  ASSUME NEW c \in Copy
  PROVE /\ Processed(c) \in Copy /\ Processed(c).id = c.id
        /\ Processed(c).attempts = c.attempts /\ Processed(c).status = "PROCESSED"
        /\ Failed(c) \in Copy /\ Failed(c).id = c.id
        /\ Failed(c).attempts = c.attempts + 1
        /\ Failed(c).status = IF c.attempts + 1 >= MaxAttempts THEN "FAILED" ELSE c.status
<1>1. c.id \in Ids /\ c.status \in {"PENDING", "PROCESSED", "FAILED"} /\ c.attempts \in Nat
  BY DEF Copy
<1>2. c = [id |-> c.id, status |-> c.status, attempts |-> c.attempts]
  BY DEF Copy
<1>3. Processed(c) = [id |-> c.id, status |-> "PROCESSED", attempts |-> c.attempts]
  BY <1>2 DEF Processed
<1> DEFINE s == IF c.attempts + 1 >= MaxAttempts THEN "FAILED" ELSE c.status
<1>4. Failed(c) = [c EXCEPT !.attempts = c.attempts + 1, !.status = s]
  BY DEF Failed
<1> HIDE DEF s
<1>5. Failed(c) = [id |-> c.id, status |-> s, attempts |-> c.attempts + 1]
  BY <1>2, <1>4
<1>6. s \in {"PENDING", "PROCESSED", "FAILED"}
  BY <1>1 DEF s
<1>7. Processed(c) \in Copy /\ Failed(c) \in Copy
  BY <1>1, <1>3, <1>5, <1>6 DEF Copy
<1> QED BY <1>3, <1>5, <1>7 DEF s

LEMMA BatchTypes ==
  ASSUME outbox \in [Ids -> Row]
  PROVE {CopyOf(i) : i \in PendingRows} \subseteq Copy
<1> SUFFICES ASSUME NEW i \in PendingRows PROVE CopyOf(i) \in Copy
  OBVIOUS
<1>1. i \in Ids /\ outbox[i].status = "PENDING"
  BY DEF PendingRows
<1> QED BY <1>1 DEF CopyOf, Copy, Row

\* A read copies pending rows, whichever are locked.
LEMMA ReadCopies ==
  ASSUME NEW t \in Ticks, ReadBatch(t), ticks \in [Ticks -> Tick]
  PROVE \E batch \in SUBSET PendingRows :
          /\ ticks' = [ticks EXCEPT ![t] = [Resting EXCEPT !.pc = "begin",
                                             !.todo = {CopyOf(i) : i \in batch}]]
          /\ ticks'[t].todo = {CopyOf(i) : i \in batch}
          /\ \A u \in Ticks \ {t} : ticks'[u] = ticks[u]
<1>1. PICK busy \in SUBSET Ticks :
        ticks' = [ticks EXCEPT ![t] = [Resting EXCEPT !.pc = "begin", !.todo =
                    {CopyOf(i) : i \in Batch(UNION {LockedBy(u) : u \in busy})}]]
  BY DEF ReadBatch
<1>2. PICK batch : batch = Batch(UNION {LockedBy(u) : u \in busy})
  OBVIOUS
<1>3. batch \in SUBSET PendingRows
  BY <1>2 DEF Batch
<1>4. ticks' = [ticks EXCEPT ![t] = [Resting EXCEPT !.pc = "begin",
                                     !.todo = {CopyOf(i) : i \in batch}]]
  BY <1>1, <1>2
<1> QED BY <1>3, <1>4 DEF Resting

\* The tick moves on with a new state of its copy, or leaves the row.
LEMMA GoOnType ==
  ASSUME ticks \in [Ticks -> Tick], NEW t \in Ticks, NEW c, NEW new \in Copy,
         NEW step \in {"trigger", "save", "write", "resave", "rewrite"}, GoOn(t, step, c, new)
  PROVE ticks' \in [Ticks -> Tick]
<1> DEFINE x == [pc |-> step, todo |-> (ticks[t].todo \ {c}) \cup {new}, changed |-> {}]
<1>1. ticks[t].todo \subseteq Copy
  BY DEF Tick
<1>2. x \in Tick
  BY <1>1 DEF Tick
<1> QED BY <1>2 DEF GoOn

LEMMA NextRowType ==
  ASSUME ticks \in [Ticks -> Tick], NEW t \in Ticks, NEW c, NextRow(t, c)
  PROVE ticks' \in [Ticks -> Tick]
<1> DEFINE rest == ticks[t].todo \ {c}
           x == [Resting EXCEPT !.pc = IF rest = {} THEN "idle" ELSE "trigger", !.todo = rest]
<1>1. rest \subseteq Copy
  BY DEF Tick
<1>2. x \in Tick
  BY <1>1 DEF Tick, Resting
<1> QED BY <1>2 DEF NextRow

\* Who is going to store an answer has a key for it.
Keyed == \A r \in Requests : requests[r].pc = "store" => requests[r].key \in Keys

\* The columns a save does not write are kept.
LEMMA Written ==
  ASSUME outbox \in [Ids -> Row], NEW t \in Ticks, NEW c \in Copy,
         LET New(x, old) == IF x \in ticks[t].changed THEN c[x] ELSE old IN
           outbox' = [outbox EXCEPT ![c.id].status = New("status", @),
                                    ![c.id].attempts = New("attempts", @)]
  PROVE /\ outbox' \in [Ids -> Row]
        /\ outbox'[c.id].status \in {c.status, outbox[c.id].status}
        /\ outbox'[c.id].attempts \in {c.attempts, outbox[c.id].attempts}
        /\ outbox'[c.id].key = outbox[c.id].key
        /\ \A i \in Ids \ {c.id} : outbox'[i] = outbox[i]
<1> DEFINE s == IF "status" \in ticks[t].changed THEN c.status ELSE outbox[c.id].status
           a == IF "attempts" \in ticks[t].changed THEN c.attempts ELSE outbox[c.id].attempts
           x == [outbox[c.id] EXCEPT !.status = s, !.attempts = a]
<1>1. c.id \in Ids /\ c.status \in {"PENDING", "PROCESSED", "FAILED"} /\ c.attempts \in Nat
  BY DEF Copy
<1>2. outbox[c.id] \in Row
  BY <1>1
<1>3. outbox' = [outbox EXCEPT ![c.id] = x]
  BY <1>1, <1>2 DEF Row
<1>4. x \in Row /\ x.status = s /\ x.attempts = a /\ x.key = outbox[c.id].key
  BY <1>1, <1>2 DEF Row
<1> HIDE DEF x
<1> QED BY <1>1, <1>3, <1>4

LEMMA ComparedType ==
  ASSUME NEW x \in Tick, NEW step \in {"write", "rewrite"}, NEW cols \in SUBSET Columns
  PROVE [x EXCEPT !.pc = step, !.changed = cols] \in Tick
  BY DEF Tick

LEMMA TypeStep == TypeOK /\ Keyed /\ [Next]_vars => TypeOK' /\ Keyed'
<1> SUFFICES ASSUME TypeOK, Keyed, [Next]_vars PROVE TypeOK' /\ Keyed'
  OBVIOUS
<1> USE DEF TypeOK, Keyed
<1>1. ASSUME NEW r \in Requests, NEW k \in Keys \cup {None}, Receive(r, k) PROVE TypeOK' /\ Keyed'
  BY <1>1 DEF Receive, Request
<1>2. ASSUME NEW r \in Requests, PlaceOrder(r) PROVE TypeOK' /\ Keyed'
  <2>1. requests[r].key \in Keys \cup {None}
    BY DEF Request
  <2>2. requests' \in [Requests -> Request]
    BY <1>2, <2>1 DEF PlaceOrder, Request, Idle
  <2>3. outbox' \in [Ids -> Row]
    BY <1>2, <2>1 DEF PlaceOrder, Row
  <2>4. Keyed'
    BY <1>2, <2>1 DEF PlaceOrder, Request, Idle
  <2> QED BY <1>2, <2>2, <2>3, <2>4 DEF PlaceOrder
<1>3. ASSUME NEW r \in Requests, StoreAnswer(r) PROVE TypeOK' /\ Keyed'
  <2>1. requests' \in [Requests -> Request]
    BY <1>3 DEF StoreAnswer, Request, Idle
  <2>2. requests[r].key \in Keys
    BY <1>3 DEF StoreAnswer
  <2>3. Keyed'
    BY <1>3 DEF StoreAnswer, Idle
  <2> QED BY <1>3, <2>1, <2>2, <2>3 DEF StoreAnswer
<1>4. ASSUME NEW r \in Requests, RequestFails(r) PROVE TypeOK' /\ Keyed'
  <2>1. requests' \in [Requests -> Request] /\ Keyed'
    BY <1>4 DEF RequestFails, Request, Idle
  <2>2. excused' \subseteq Keys
    BY <1>4 DEF RequestFails
  <2> QED BY <1>4, <2>1, <2>2 DEF RequestFails
<1>5. ASSUME NEW k \in Keys, KeyExpires(k) PROVE TypeOK' /\ Keyed'
  BY <1>5 DEF KeyExpires
<1>6. ASSUME NEW t \in Ticks, ReadBatch(t) PROVE TypeOK' /\ Keyed'
  <2>1. PICK batch \in SUBSET PendingRows :
          ticks' = [ticks EXCEPT ![t] = [Resting EXCEPT !.pc = "begin",
                                         !.todo = {CopyOf(i) : i \in batch}]]
    BY <1>6, ReadCopies
  <2>2. {CopyOf(i) : i \in batch} \subseteq Copy
    BY BatchTypes
  <2>3. [Resting EXCEPT !.pc = "begin", !.todo = {CopyOf(i) : i \in batch}] \in Tick
    BY <2>2 DEF Tick, Resting
  <2> QED BY <1>6, <2>1, <2>3 DEF ReadBatch
<1>7. ASSUME NEW t \in Ticks, TriggerRow(t) PROVE TypeOK' /\ Keyed'
  <2>1. PICK c \in ticks[t].todo :
          \/ /\ triggered' = triggered \cup {c.id}
             /\ GoOn(t, "save", c, Processed(c))
             /\ UNCHANGED <<failures, faults>>
          \/ /\ CountFailure(t, c)
             /\ triggered' \in {triggered, triggered \cup {c.id}}
    BY <1>7 DEF TriggerRow
  <2>2. c \in Copy /\ c.id \in Ids
    BY DEF Tick, Copy
  <2>3. ticks' \in [Ticks -> Tick]
    BY <2>1, <2>2, CopyTypes, GoOnType DEF CountFailure
  <2> QED BY <1>7, <2>1, <2>2, <2>3 DEF TriggerRow, CountFailure
<1>8. ASSUME NEW t \in Ticks, Compare(t) PROVE TypeOK' /\ Keyed'
  <2>1. PICK c \in ticks[t].todo :
          ticks' = [ticks EXCEPT
            ![t] = [@ EXCEPT !.pc = IF @ = "save" THEN "write" ELSE "rewrite",
                             !.changed = {x \in Columns : outbox[c.id][x] # c[x]}]]
    BY <1>8 DEF Compare
  <2> DEFINE cols == {y \in Columns : outbox[c.id][y] # c[y]}
  <2>2. ticks[t] \in Tick /\ cols \in SUBSET Columns
    OBVIOUS
  <2>3. \E step \in {"write", "rewrite"} :
          ticks' = [ticks EXCEPT ![t] = [ticks[t] EXCEPT !.pc = step, !.changed = cols]]
    BY <2>1
  <2> HIDE DEF cols
  <2>5. \A step \in {"write", "rewrite"} :
          [ticks[t] EXCEPT !.pc = step, !.changed = cols] \in Tick
    BY <2>2, ComparedType
  <2>4. ticks' \in [Ticks -> Tick]
    BY <2>3, <2>5
  <2> QED BY <1>8, <2>4 DEF Compare
<1>9. ASSUME NEW t \in Ticks, WriteColumns(t) PROVE TypeOK' /\ Keyed'
  <2>1. PICK c \in ticks[t].todo :
          LET New(x, old) == IF x \in ticks[t].changed THEN c[x] ELSE old IN
            /\ outbox' = [outbox EXCEPT ![c.id].status = New("status", @),
                                        ![c.id].attempts = New("attempts", @)]
            /\ NextRow(t, c)
    BY <1>9 DEF WriteColumns
  <2>2. c \in Copy
    BY DEF Tick
  <2>3. outbox' \in [Ids -> Row]
    BY <2>1, <2>2, Written
  <2>4. ticks' \in [Ticks -> Tick]
    BY <2>1, NextRowType
  <2> QED BY <1>9, <2>3, <2>4 DEF WriteColumns
<1>10. ASSUME NEW t \in Ticks, SaveFails(t) PROVE TypeOK' /\ Keyed'
  <2>1. PICK c \in ticks[t].todo :
          \/ CountFailure(t, c)
          \/ /\ NextRow(t, c)
             /\ faults < FaultBound /\ faults' = faults + 1
             /\ UNCHANGED failures
    BY <1>10 DEF SaveFails
  <2>2. c \in Copy /\ c.id \in Ids
    BY DEF Tick, Copy
  <2>3. ticks' \in [Ticks -> Tick]
    BY <2>1, <2>2, CopyTypes, GoOnType, NextRowType DEF CountFailure
  <2> QED BY <1>10, <2>1, <2>2, <2>3 DEF SaveFails, CountFailure
<1>11. ASSUME NEW t \in Ticks, TickDies(t) PROVE TypeOK' /\ Keyed'
  BY <1>11 DEF TickDies, Resting, Tick
<1>12. CASE UNCHANGED vars
  BY <1>12 DEF vars
<1> QED BY <1>1, <1>2, <1>3, <1>4, <1>5, <1>6, <1>7, <1>8, <1>9, <1>10, <1>11, <1>12
        DEF Next, TickStep

\* Type correctness: whatever ticks overlap and fail, rows, copies and
\* counters hold values the table and the worker know.
THEOREM TypeCorrect == Spec => []TypeOK
<1>1. Init => TypeOK /\ Keyed
  BY DEF Init, TypeOK, Keyed, Idle, Resting, Request, Tick, Row
<1> QED BY <1>1, TypeStep, PTL DEF Spec

-----------------------------------------------------------------------------
(* What a row says happened *)

\* A row, or a copy of one, agrees with what has been done.
Agrees(id, x) ==
  /\ x.attempts <= failures[id]
  /\ x.status = "PROCESSED" => id \in triggered
  /\ x.status = "FAILED" => failures[id] >= MaxAttempts

Honest ==
  /\ \A i \in Ids : Agrees(i, outbox[i])
  /\ \A t \in Ticks : \A c \in ticks[t].todo : Agrees(c.id, c)

\* What agreed goes on to agree: nothing is untriggered or unfailed.
LEMMA AgreesOn ==
  ASSUME TypeOK, TypeOK', NEW i \in Ids, NEW x, x.attempts \in Nat, Agrees(i, x),
         triggered \subseteq triggered', \A j \in Ids : failures[j] <= failures'[j]
  PROVE Agrees(i, x)'
  BY DEF TypeOK, Agrees

LEMMA HonestStep == TypeOK /\ TypeOK' /\ Honest /\ [Next]_vars => Honest'
<1> SUFFICES ASSUME TypeOK, TypeOK', Honest, [Next]_vars PROVE Honest'
  OBVIOUS
<1>1. ASSUME NEW r \in Requests, PlaceOrder(r) PROVE Honest'
  <2>1. UNCHANGED <<ticks, triggered, failures>>
    BY <1>1 DEF PlaceOrder
  <2>2. PICK i \in Ids : outbox' = [outbox EXCEPT ![i] =
          [status |-> "PENDING", attempts |-> 0, key |-> requests[r].key]]
    BY <1>1 DEF PlaceOrder
  <2> QED BY <2>1, <2>2 DEF Honest, Agrees, TypeOK
<1>2. ASSUME NEW t \in Ticks, ReadBatch(t) PROVE Honest'
  <2>1. UNCHANGED <<outbox, triggered, failures>>
    BY <1>2 DEF ReadBatch
  <2>2. ASSUME NEW i \in PendingRows PROVE Agrees(CopyOf(i).id, CopyOf(i))
    BY DEF PendingRows, CopyOf, Honest, Agrees
  <2>3. PICK batch \in SUBSET PendingRows :
          /\ ticks'[t].todo = {CopyOf(i) : i \in batch}
          /\ \A u \in Ticks \ {t} : ticks'[u] = ticks[u]
    BY <1>2, ReadCopies DEF TypeOK
  <2>4. ASSUME NEW u \in Ticks, NEW c \in ticks'[u].todo PROVE Agrees(c.id, c)
    BY <2>2, <2>3 DEF Honest
  <2> QED BY <2>1, <2>4 DEF Honest, Agrees
<1> DEFINE Grows == triggered \subseteq triggered' /\ \A j \in Ids : failures[j] <= failures'[j]
<1>3. ASSUME NEW t \in Ticks, NEW c \in ticks[t].todo, NEW new \in Copy, NEW step,
             new.id = c.id, GoOn(t, step, c, new), Grows, UNCHANGED outbox,
             Agrees(c.id, new)'
      PROVE Honest'
  <2>1. /\ ticks'[t].todo = (ticks[t].todo \ {c}) \cup {new}
        /\ \A u \in Ticks \ {t} : ticks'[u] = ticks[u]
    BY <1>3 DEF GoOn, TypeOK
  <2>2. ASSUME NEW i \in Ids PROVE Agrees(i, outbox[i])'
    BY <1>3, AgreesOn DEF Honest, TypeOK, Row
  <2>3. ASSUME NEW u \in Ticks, NEW d \in ticks[u].todo PROVE Agrees(d.id, d)'
    <3>1. d \in Copy
      BY DEF TypeOK, Tick
    <3> QED BY <1>3, <3>1, AgreesOn DEF Honest, Copy
  <2>4. ASSUME NEW u \in Ticks, NEW d \in ticks'[u].todo PROVE Agrees(d.id, d)'
    BY <1>3, <2>1, <2>3
  <2> QED BY <2>2, <2>4 DEF Honest
<1>4. ASSUME NEW t \in Ticks, NEW c \in ticks[t].todo, CountFailure(t, c), UNCHANGED outbox,
             triggered \subseteq triggered'
      PROVE Honest'
  <2>0. c \in Copy
    BY DEF TypeOK, Tick
  <2>1. c.id \in Ids /\ c.attempts \in Nat /\ Failed(c) \in Copy /\ Failed(c).id = c.id
    BY <2>0, CopyTypes DEF Copy
  <2>2. failures' = [failures EXCEPT ![c.id] = @ + 1] /\ GoOn(t, "resave", c, Failed(c))
    BY <1>4 DEF CountFailure
  <2>3. Grows
    BY <1>4, <2>2 DEF TypeOK
  <2>4. Agrees(c.id, c)
    BY DEF Honest
  <2>5. /\ Failed(c).attempts = c.attempts + 1
        /\ Failed(c).status = IF c.attempts + 1 >= MaxAttempts THEN "FAILED" ELSE c.status
    BY <2>0, CopyTypes
  <2>6. failures'[c.id] = failures[c.id] + 1 /\ failures[c.id] \in Nat
    BY <2>1, <2>2 DEF TypeOK
  <2>7. Agrees(c.id, Failed(c))'
    BY <1>4, <2>1, <2>4, <2>5, <2>6 DEF Agrees
  <2> QED BY <1>3, <1>4, <2>1, <2>2, <2>3, <2>7
<1>5. ASSUME NEW t \in Ticks, TriggerRow(t) PROVE Honest'
  <2>1. PICK c \in ticks[t].todo :
          \/ /\ triggered' = triggered \cup {c.id}
             /\ GoOn(t, "save", c, Processed(c))
             /\ UNCHANGED <<failures, faults>>
          \/ /\ CountFailure(t, c)
             /\ triggered' \in {triggered, triggered \cup {c.id}}
    BY <1>5 DEF TriggerRow
  <2>2. UNCHANGED outbox /\ triggered \subseteq triggered'
    BY <1>5, <2>1 DEF TriggerRow
  <2>3. CASE CountFailure(t, c)
    BY <1>4, <2>2, <2>3
  <2>4. CASE /\ triggered' = triggered \cup {c.id}
             /\ GoOn(t, "save", c, Processed(c))
             /\ UNCHANGED <<failures, faults>>
    <3>0. c \in Copy
      BY DEF TypeOK, Tick
    <3>1. Processed(c) \in Copy /\ Processed(c).id = c.id
      BY <3>0, CopyTypes
    <3>2. Processed(c).attempts = c.attempts /\ Processed(c).status = "PROCESSED"
      BY <3>0, CopyTypes
    <3>3. Agrees(c.id, Processed(c))'
      BY <2>4, <3>2 DEF Agrees, Honest
    <3>4. Grows
      BY <2>2, <2>4 DEF TypeOK
    <3> QED BY <1>3, <2>2, <2>4, <3>1, <3>3, <3>4
  <2> QED BY <2>1, <2>3, <2>4
<1>6. ASSUME NEW t \in Ticks, NEW c \in ticks[t].todo, NextRow(t, c),
             UNCHANGED <<triggered, failures>>, \A i \in Ids : Agrees(i, outbox'[i])
      PROVE Honest'
  <2>1. ticks'[t].todo = ticks[t].todo \ {c} /\ \A u \in Ticks \ {t} : ticks'[u] = ticks[u]
    BY <1>6 DEF NextRow, Resting, TypeOK
  <2>2. ASSUME NEW u \in Ticks, NEW d \in ticks'[u].todo PROVE Agrees(d.id, d)
    BY <2>1 DEF Honest
  <2> QED BY <1>6, <2>2 DEF Honest, Agrees
<1>7. ASSUME NEW t \in Ticks, WriteColumns(t) PROVE Honest'
  <2>1. PICK c \in ticks[t].todo :
          LET New(x, old) == IF x \in ticks[t].changed THEN c[x] ELSE old IN
            /\ outbox' = [outbox EXCEPT ![c.id].status = New("status", @),
                                        ![c.id].attempts = New("attempts", @)]
            /\ NextRow(t, c)
    BY <1>7 DEF WriteColumns
  <2>2. UNCHANGED <<triggered, failures>>
    BY <1>7 DEF WriteColumns
  <2>3. c \in Copy /\ c.id \in Ids
    BY DEF TypeOK, Tick, Copy
  <2>4. /\ outbox'[c.id].status \in {c.status, outbox[c.id].status}
        /\ outbox'[c.id].attempts \in {c.attempts, outbox[c.id].attempts}
        /\ \A i \in Ids \ {c.id} : outbox'[i] = outbox[i]
    BY <2>1, <2>3, Written DEF TypeOK
  <2>5. Agrees(c.id, c) /\ Agrees(c.id, outbox[c.id])
    BY <2>3 DEF Honest
  <2>6. \A i \in Ids : Agrees(i, outbox'[i])
    BY <2>4, <2>5 DEF Honest, Agrees
  <2> QED BY <1>6, <2>1, <2>2, <2>6
<1>8. ASSUME NEW t \in Ticks, SaveFails(t) PROVE Honest'
  <2>1. PICK c \in ticks[t].todo : CountFailure(t, c) \/ (NextRow(t, c) /\ UNCHANGED failures)
    BY <1>8 DEF SaveFails
  <2>2. UNCHANGED <<outbox, triggered>>
    BY <1>8 DEF SaveFails
  <2>3. CASE CountFailure(t, c)
    BY <1>4, <2>2, <2>3
  <2>4. CASE NextRow(t, c) /\ UNCHANGED failures
    BY <1>6, <2>2, <2>4 DEF Honest
  <2> QED BY <2>1, <2>3, <2>4
<1>9. ASSUME NEW t \in Ticks, Compare(t) \/ TickDies(t) PROVE Honest'
  <2>1. /\ UNCHANGED <<outbox, triggered, failures>>
        /\ ticks'[t].todo \subseteq ticks[t].todo
        /\ \A u \in Ticks \ {t} : ticks'[u] = ticks[u]
    <3>1. CASE TickDies(t)
      BY <3>1 DEF TickDies, Resting, TypeOK
    <3>2. CASE Compare(t)
      <4>1. PICK c \in ticks[t].todo :
              ticks' = [ticks EXCEPT
                ![t] = [@ EXCEPT !.pc = IF @ = "save" THEN "write" ELSE "rewrite",
                                 !.changed = {x \in Columns : outbox[c.id][x] # c[x]}]]
        BY <3>2 DEF Compare
      <4>2. ticks'[t].todo = ticks[t].todo /\ \A u \in Ticks \ {t} : ticks'[u] = ticks[u]
        BY <4>1 DEF TypeOK, Tick
      <4> QED BY <3>2, <4>2 DEF Compare
    <3> QED BY <1>9, <3>1, <3>2
  <2> QED BY <2>1 DEF Honest, Agrees
<1>10. ASSUME UNCHANGED <<outbox, ticks, triggered, failures>> PROVE Honest'
  BY <1>10 DEF Honest, Agrees
<1>11. ASSUME NEW r \in Requests,
              (\E k \in Keys \cup {None} : Receive(r, k)) \/ StoreAnswer(r) \/ RequestFails(r)
       PROVE Honest'
  BY <1>10, <1>11 DEF Receive, StoreAnswer, RequestFails
<1>12. ASSUME NEW k \in Keys, KeyExpires(k) PROVE Honest'
  BY <1>10, <1>12 DEF KeyExpires
<1>13. CASE UNCHANGED vars
  BY <1>10, <1>13 DEF vars
<1> QED BY <1>1, <1>2, <1>5, <1>7, <1>8, <1>9, <1>11, <1>12, <1>13 DEF Next, TickStep

LEMMA HonestInductive == Spec => [](TypeOK /\ Honest)
<1>1. Init => Honest
  BY DEF Init, Honest, Agrees, Resting
<1> QED BY <1>1, TypeCorrect, HonestStep, PTL DEF Spec

\* No overlap of ticks and no failed save marks a row processed whose order
\* has not been handed to dispatch.
THEOREM ProcessedMeansTriggered == Spec => []ProcessedWasTriggered
<1>1. Honest => ProcessedWasTriggered
  BY DEF Honest, Agrees, ProcessedWasTriggered, Placed
<1> QED BY <1>1, HonestInductive, PTL

\* No overlap of ticks spends an attempt twice: a row is given up only after
\* MaxAttempts attempts have failed.
THEOREM AttemptsAreHonest == Spec => []AttemptsWereMade
<1>1. Honest => AttemptsWereMade
  BY DEF Honest, Agrees, AttemptsWereMade, Placed
<1> QED BY <1>1, HonestInductive, PTL

-----------------------------------------------------------------------------
(* Idempotency keys *)

Busy(r, k) == requests[r].pc # "idle" /\ requests[r].key = k

\* For a key of which nothing was lost, one request at a time is on its way,
\* and none when the answer is stored; before the order is placed there is
\* none with this key, and afterwards the answer is stored or about to be.
Deduped ==
  \A k \in Keys \ excused :
    /\ \A r, q \in Requests : Busy(r, k) /\ Busy(q, k) => r = q
    /\ k \in cached => \A r \in Requests : ~Busy(r, k)
    /\ \A i \in Placed : outbox[i].key = k =>
         /\ k \in cached \/ \E r \in Requests : requests[r].pc = "store" /\ Busy(r, k)
         /\ \A j \in Placed : outbox[j].key = k => i = j
    /\ \A r \in Requests : Busy(r, k) /\ requests[r].pc = "create" =>
         \A i \in Placed : outbox[i].key # k

\* Ticks hold copies of rows that are there, and rows stay.
CopiesPlaced == \A t \in Ticks : \A c \in ticks[t].todo : c.id \in Placed

LEMMA CopiesStep == TypeOK /\ TypeOK' /\ CopiesPlaced /\ [Next]_vars => CopiesPlaced'
<1> SUFFICES ASSUME TypeOK, TypeOK', CopiesPlaced, [Next]_vars PROVE CopiesPlaced'
  OBVIOUS
<1>1. ASSUME Placed \subseteq Placed', UNCHANGED ticks PROVE CopiesPlaced'
  BY <1>1 DEF CopiesPlaced
<1>2. ASSUME Placed \subseteq Placed', NEW t \in Ticks, \A u \in Ticks \ {t} : ticks'[u] = ticks[u],
             \A d \in ticks'[t].todo : d.id \in Placed
      PROVE CopiesPlaced'
  BY <1>2 DEF CopiesPlaced
<1>3. ASSUME NEW t \in Ticks, ReadBatch(t) PROVE CopiesPlaced'
  <2>1. PICK batch \in SUBSET PendingRows :
          /\ ticks'[t].todo = {CopyOf(i) : i \in batch}
          /\ \A u \in Ticks \ {t} : ticks'[u] = ticks[u]
    BY <1>3, ReadCopies DEF TypeOK
  <2>2. \A i \in batch : CopyOf(i).id \in Placed
    BY DEF PendingRows, CopyOf, Placed
  <2>3. Placed' = Placed
    BY <1>3 DEF ReadBatch, Placed
  <2> QED BY <1>2, <2>1, <2>2, <2>3
<1>4. ASSUME NEW t \in Ticks, NEW c \in ticks[t].todo, NEW new \in Copy, NEW step,
             new.id = c.id, GoOn(t, step, c, new), UNCHANGED outbox
      PROVE CopiesPlaced'
  <2>1. /\ ticks'[t].todo = (ticks[t].todo \ {c}) \cup {new}
        /\ \A u \in Ticks \ {t} : ticks'[u] = ticks[u]
    BY <1>4 DEF GoOn, TypeOK
  <2>2. Placed' = Placed
    BY <1>4 DEF Placed
  <2> QED BY <1>2, <1>4, <2>1, <2>2 DEF CopiesPlaced
<1>5. ASSUME NEW t \in Ticks, NEW c \in ticks[t].todo, NextRow(t, c), Placed \subseteq Placed'
      PROVE CopiesPlaced'
  <2>1. ticks'[t].todo = ticks[t].todo \ {c} /\ \A u \in Ticks \ {t} : ticks'[u] = ticks[u]
    BY <1>5 DEF NextRow, Resting, TypeOK
  <2> QED BY <1>2, <1>5, <2>1 DEF CopiesPlaced
<1>6. ASSUME NEW t \in Ticks, TriggerRow(t) \/ SaveFails(t) PROVE CopiesPlaced'
  <2>1. PICK c \in ticks[t].todo :
          \/ GoOn(t, "save", c, Processed(c))
          \/ GoOn(t, "resave", c, Failed(c))
          \/ NextRow(t, c)
    BY <1>6 DEF TriggerRow, SaveFails, CountFailure
  <2>2. UNCHANGED outbox /\ Placed' = Placed
    BY <1>6 DEF TriggerRow, SaveFails, Placed
  <2>3. c \in Copy
    BY DEF TypeOK, Tick
  <2>4. /\ Processed(c) \in Copy /\ Processed(c).id = c.id
        /\ Failed(c) \in Copy /\ Failed(c).id = c.id
    BY <2>3, CopyTypes
  <2> QED BY <1>4, <1>5, <2>1, <2>2, <2>4
<1>7. ASSUME NEW t \in Ticks, WriteColumns(t) PROVE CopiesPlaced'
  <2>1. PICK c \in ticks[t].todo :
          LET New(x, old) == IF x \in ticks[t].changed THEN c[x] ELSE old IN
            /\ outbox' = [outbox EXCEPT ![c.id].status = New("status", @),
                                        ![c.id].attempts = New("attempts", @)]
            /\ NextRow(t, c)
    BY <1>7 DEF WriteColumns
  <2>2. c \in Copy /\ c.id \in Placed
    BY DEF TypeOK, Tick, CopiesPlaced
  <2>3. Placed \subseteq Placed'
    <3>1. /\ outbox'[c.id].status \in {c.status, outbox[c.id].status}
          /\ outbox'[c.id].key = outbox[c.id].key
          /\ \A i \in Ids \ {c.id} : outbox'[i] = outbox[i]
      BY <2>1, <2>2, Written DEF TypeOK
    <3>2. c.id \in Ids /\ c.status # "absent" /\ outbox[c.id].status # "absent"
      BY <2>2 DEF Copy, Placed
    <3> QED BY <3>1, <3>2 DEF Placed
  <2> QED BY <1>5, <2>1, <2>3
<1>8. ASSUME NEW t \in Ticks, Compare(t) \/ TickDies(t) PROVE CopiesPlaced'
  <2>1. UNCHANGED outbox /\ Placed' = Placed
    BY <1>8 DEF Compare, TickDies, Placed
  <2>2. CASE TickDies(t)
    BY <1>2, <2>1, <2>2 DEF TickDies, Resting, TypeOK
  <2>3. CASE Compare(t)
    <3>1. PICK c \in ticks[t].todo :
            ticks' = [ticks EXCEPT
              ![t] = [@ EXCEPT !.pc = IF @ = "save" THEN "write" ELSE "rewrite",
                               !.changed = {x \in Columns : outbox[c.id][x] # c[x]}]]
      BY <2>3 DEF Compare
    <3>2. ticks'[t].todo = ticks[t].todo /\ \A u \in Ticks \ {t} : ticks'[u] = ticks[u]
      BY <3>1 DEF TypeOK, Tick
    <3> QED BY <1>2, <2>1, <3>2 DEF CopiesPlaced
  <2> QED BY <1>8, <2>2, <2>3
<1>9. ASSUME NEW r \in Requests,
             \/ \E k \in Keys \cup {None} : Receive(r, k)
             \/ PlaceOrder(r) \/ StoreAnswer(r) \/ RequestFails(r)
      PROVE CopiesPlaced'
  <2>1. UNCHANGED ticks
    BY <1>9 DEF Receive, PlaceOrder, StoreAnswer, RequestFails
  <2>2. Placed \subseteq Placed'
    BY <1>9 DEF Receive, PlaceOrder, StoreAnswer, RequestFails, Placed, TypeOK
  <2> QED BY <1>1, <2>1, <2>2
<1>10. ASSUME (\E k \in Keys : KeyExpires(k)) \/ UNCHANGED vars PROVE CopiesPlaced'
  BY <1>1, <1>10 DEF KeyExpires, vars, Placed
<1> QED BY <1>3, <1>6, <1>7, <1>8, <1>9, <1>10 DEF Next, TickStep

LEMMA DedupedStep ==
  TypeOK /\ TypeOK' /\ CopiesPlaced /\ Deduped /\ [Next]_vars => Deduped'
<1> SUFFICES ASSUME TypeOK, TypeOK', CopiesPlaced, Deduped, [Next]_vars, NEW k \in Keys, k \notin excused'
    PROVE (/\ \A r, q \in Requests : Busy(r, k) /\ Busy(q, k) => r = q
           /\ k \in cached => \A r \in Requests : ~Busy(r, k)
           /\ \A i \in Placed : outbox[i].key = k =>
                /\ k \in cached \/ \E r \in Requests : requests[r].pc = "store" /\ Busy(r, k)
                /\ \A j \in Placed : outbox[j].key = k => i = j
           /\ \A r \in Requests : Busy(r, k) /\ requests[r].pc = "create" =>
                \A i \in Placed : outbox[i].key # k)'
  BY DEF Deduped
<1> DEFINE Good ==
      /\ \A r, q \in Requests : Busy(r, k) /\ Busy(q, k) => r = q
      /\ k \in cached => \A r \in Requests : ~Busy(r, k)
      /\ \A i \in Placed : outbox[i].key = k =>
           /\ k \in cached \/ \E r \in Requests : requests[r].pc = "store" /\ Busy(r, k)
           /\ \A j \in Placed : outbox[j].key = k => i = j
      /\ \A r \in Requests : Busy(r, k) /\ requests[r].pc = "create" =>
           \A i \in Placed : outbox[i].key # k
<1>0. SUFFICES Good'
  OBVIOUS
<1>1. excused \subseteq excused'
  BY DEF Next, vars, TickStep, Receive, PlaceOrder, StoreAnswer, RequestFails, KeyExpires,
         ReadBatch, TriggerRow, Compare, WriteColumns, SaveFails, TickDies
<1>2. Good
  BY <1>1 DEF Deduped
<1>3. ASSUME NEW r \in Requests, NEW l \in Keys \cup {None}, Receive(r, l) PROVE Good'
  <2>1. /\ UNCHANGED <<cached, outbox>> /\ requests[r].pc = "idle"
        /\ requests'[r] = [pc |-> "create", key |-> l]
        /\ \A q \in Requests \ {r} : requests'[q] = requests[q]
    BY <1>3 DEF Receive, TypeOK
  <2>2. l = k => k \notin cached /\ \A q \in Requests : ~Busy(q, k)
    BY <1>3 DEF Receive, Unknown, Concurrent, Busy
  <2> QED BY <1>2, <2>1, <2>2 DEF Busy, Placed
<1>4. ASSUME NEW r \in Requests, PlaceOrder(r) PROVE Good'
  <2>1. /\ UNCHANGED cached /\ requests[r].pc = "create"
        /\ \A q \in Requests \ {r} : requests'[q] = requests[q]
        /\ requests[r].key = None => requests'[r] = Idle
        /\ requests[r].key # None =>
             requests'[r].pc = "store" /\ requests'[r].key = requests[r].key
    BY <1>4 DEF PlaceOrder, TypeOK, Request
  <2>2. PICK i \in Ids \ Placed : outbox' = [outbox EXCEPT ![i] =
          [status |-> "PENDING", attempts |-> 0, key |-> requests[r].key]]
    BY <1>4 DEF PlaceOrder
  <2>3. Placed' = Placed \cup {i} /\ outbox'[i].key = requests[r].key
        /\ \A j \in Placed : outbox'[j] = outbox[j]
    BY <2>2 DEF Placed, TypeOK
  <2>4. CASE requests[r].key = k
    <3>1. Busy(r, k) /\ \A j \in Placed : outbox[j].key # k
      BY <1>2, <2>1, <2>4 DEF Busy
    <3>2. requests'[r].pc = "store" /\ requests'[r].key = k
      BY <2>1, <2>4
    <3> QED BY <1>2, <2>1, <2>3, <2>4, <3>1, <3>2 DEF Busy
  <2>5. CASE requests[r].key # k
    BY <1>2, <2>1, <2>3, <2>5 DEF Busy, Idle
  <2> QED BY <2>4, <2>5
<1>5. ASSUME NEW r \in Requests, StoreAnswer(r) PROVE Good'
  <2>1. /\ UNCHANGED outbox /\ requests[r].pc = "store"
        /\ cached' = cached \cup {requests[r].key}
        /\ requests'[r].pc = "idle"
        /\ \A q \in Requests \ {r} : requests'[q] = requests[q]
    BY <1>5 DEF StoreAnswer, TypeOK, Idle
  <2> QED BY <1>2, <2>1 DEF Busy, Placed
<1>6. ASSUME NEW r \in Requests, RequestFails(r) PROVE Good'
  <2>1. /\ UNCHANGED <<cached, outbox>> /\ requests'[r].pc = "idle"
        /\ \A q \in Requests \ {r} : requests'[q] = requests[q]
        /\ requests[r].pc = "store" => requests[r].key # k
    BY <1>6 DEF RequestFails, TypeOK, Idle
  <2> QED BY <1>2, <2>1 DEF Busy, Placed
<1>7. ASSUME NEW l \in Keys, KeyExpires(l) PROVE Good'
  <2>1. UNCHANGED <<requests, outbox>> /\ cached' = cached \ {l} /\ l # k
    BY <1>7 DEF KeyExpires
  <2> QED BY <1>2, <2>1 DEF Busy, Placed
<1>8. ASSUME UNCHANGED <<cached, requests>>, Placed' = Placed,
             \A i \in Ids : outbox'[i].key = outbox[i].key
      PROVE Good'
  BY <1>2, <1>8 DEF Busy, Placed
<1>9. ASSUME NEW t \in Ticks, WriteColumns(t) PROVE Good'
  <2>1. PICK c \in ticks[t].todo :
          LET New(x, old) == IF x \in ticks[t].changed THEN c[x] ELSE old IN
            outbox' = [outbox EXCEPT ![c.id].status = New("status", @),
                                     ![c.id].attempts = New("attempts", @)]
    BY <1>9 DEF WriteColumns
  <2>2. c \in Copy /\ c.id \in Placed
    BY DEF TypeOK, Tick, CopiesPlaced
  <2>3. \A i \in Ids : outbox'[i].key = outbox[i].key /\ (i \in Placed' <=> i \in Placed)
    <3>1. /\ outbox'[c.id].status \in {c.status, outbox[c.id].status}
          /\ outbox'[c.id].key = outbox[c.id].key
          /\ \A i \in Ids \ {c.id} : outbox'[i] = outbox[i]
      BY <2>1, <2>2, Written DEF TypeOK
    <3>2. c.id \in Ids /\ c.status # "absent" /\ outbox[c.id].status # "absent"
      BY <2>2 DEF Copy, Placed
    <3> QED BY <3>1, <3>2 DEF Placed
  <2>4. Placed' = Placed
    BY <2>3 DEF Placed
  <2> QED BY <1>8, <1>9, <2>3, <2>4 DEF WriteColumns
<1>10. ASSUME NEW t \in Ticks,
              \/ ReadBatch(t) \/ TriggerRow(t) \/ Compare(t)
              \/ SaveFails(t) \/ TickDies(t) \/ UNCHANGED vars
       PROVE Good'
  BY <1>8, <1>10 DEF Placed, ReadBatch, TriggerRow, Compare, SaveFails, TickDies, vars
<1>11. CASE UNCHANGED vars
  BY <1>8, <1>11 DEF Placed, vars
<1> QED BY <1>3, <1>4, <1>5, <1>6, <1>7, <1>9, <1>10, <1>11 DEF Next, TickStep

\* Requests with one key place one order, as long as they do not overlap and
\* no answer is lost.
THEOREM KeysDedupe == Spec => []SequentialDedupe
<1>1. Init => Deduped /\ CopiesPlaced
  BY DEF Init, Deduped, CopiesPlaced, Busy, Idle, Placed, Resting
<1>2. TypeOK /\ Deduped => SequentialDedupe
  BY DEF TypeOK, Deduped, SequentialDedupe, Placed, Row
<1> QED BY <1>1, <1>2, TypeCorrect, CopiesStep, DedupedStep, PTL DEF Spec

=============================================================================
