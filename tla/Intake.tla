------------------------------- MODULE Intake -------------------------------
(***************************************************************************)
(* How an order comes in and reaches dispatch: createOrder with its        *)
(* idempotency key, the outbox row its transaction writes, and the ticks   *)
(* of the outbox worker, which overlap (the cron starts one every five     *)
(* seconds in each process and the row locks end with the read).           *)
(*                                                                         *)
(* A save of TypeORM is two steps: it reads the row again and compares,    *)
(* then it writes the columns that differ, so columns of a stale copy      *)
(* overwrite what another tick has saved meanwhile.                        *)
(***************************************************************************)
EXTENDS Integers, FiniteSets

CONSTANTS
  Keys,         \* idempotency keys
  None,         \* no key
  Requests,     \* calls of createOrder in progress, of any process
  Ticks,        \* runs of processOutbox in progress, of any process
  BatchSize, MaxAttempts,
  MaxOrders,    \* bound: orders placed
  FaultBound    \* bound: failed awaits and crashes

ASSUME NoneAssumption == None \notin Keys
ASSUME LimitsAssumption == BatchSize \in Nat \ {0} /\ MaxAttempts \in Nat \ {0}
ASSUME BoundsAssumption == MaxOrders \in Nat /\ FaultBound \in Nat

VARIABLES
  cached,    \* keys whose entry in Redis holds the answer to a request
  requests,  \* what each call of createOrder is doing
  outbox,    \* the rows of outbox_events, one per order, numbered by age
  ticks,     \* what each tick is doing, with its copies of rows
  triggered, \* orders whose trigger has reached the dispatch queue
  failures,  \* failed attempts of each row so far
  excused,   \* keys whose entry was lost, expired or not awaited
  faults     \* failures so far

vars == <<cached, requests, outbox, ticks, triggered, failures, excused, faults>>

Ids == 1 .. MaxOrders

Row == [status : {"absent", "PENDING", "PROCESSED", "FAILED"}, attempts : Nat,
        key : Keys \cup {None}]

Columns == {"status", "attempts"}

Copy == [id : Ids, status : {"PENDING", "PROCESSED", "FAILED"}, attempts : Nat]

Request == [pc : {"idle", "create", "store"}, key : Keys \cup {None}]

\* A tick at "begin" has read its batch, in a transaction that may not have
\* ended yet.  "todo" are the rows that are left, the one at work included;
\* "changed" the columns that its save is going to write.
Tick == [pc : {"idle", "begin", "trigger", "save", "write", "resave", "rewrite"},
         todo : SUBSET Copy, changed : SUBSET Columns]

Idle == [pc |-> "idle", key |-> None]
Resting == [pc |-> "idle", todo |-> {}, changed |-> {}]

Init ==
  /\ cached = {}
  /\ requests = [r \in Requests |-> Idle]
  /\ outbox = [i \in Ids |-> [status |-> "absent", attempts |-> 0, key |-> None]]
  /\ ticks = [t \in Ticks |-> Resting]
  /\ triggered = {}
  /\ failures = [i \in Ids |-> 0]
  /\ excused = {}
  /\ faults = 0

-----------------------------------------------------------------------------
(* createOrder *)

Placed == {i \in Ids : outbox[i].status # "absent"}

\* Mutant: the entry is looked up under another prefix.
AlwaysUnknown(k) == TRUE

Unknown(k) == k \notin cached

\* Another call with the same key is between its lookup and its store.
Concurrent(k) == \E r \in Requests : requests[r].pc # "idle" /\ requests[r].key = k

\* A key that is known ends the call with the stored answer, as a refusal of
\* the vehicle does with none.
Receive(r, k) ==
  /\ requests[r].pc = "idle"
  /\ k # None => Unknown(k)
  /\ requests' = [requests EXCEPT ![r] = [pc |-> "create", key |-> k]]
  /\ excused' = IF k # None /\ Concurrent(k) THEN excused \cup {k} ELSE excused
  /\ UNCHANGED <<cached, outbox, ticks, triggered, failures, faults>>

\* One transaction writes the order, its history and its outbox row.
PlaceOrder(r) ==
  /\ requests[r].pc = "create"
  /\ \E i \in Ids \ Placed :
       /\ \A j \in 1 .. i - 1 : j \in Placed
       /\ outbox' = [outbox EXCEPT ![i] = [status |-> "PENDING", attempts |-> 0,
                                           key |-> requests[r].key]]
  /\ requests' = [requests EXCEPT ![r] = IF requests[r].key = None THEN Idle
                                         ELSE [@ EXCEPT !.pc = "store"]]
  /\ UNCHANGED <<cached, ticks, triggered, failures, excused, faults>>

StoreAnswer(r) ==
  /\ requests[r].pc = "store"
  /\ cached' = cached \cup {requests[r].key}
  /\ requests' = [requests EXCEPT ![r] = Idle]
  /\ UNCHANGED <<outbox, ticks, triggered, failures, excused, faults>>

\* An entry lives for 24 hours.
KeyExpires(k) ==
  /\ k \in cached
  /\ cached' = cached \ {k}
  /\ excused' = excused \cup {k}
  /\ UNCHANGED <<requests, outbox, ticks, triggered, failures, faults>>

\* An await throws or the process dies: before the commit nothing is
\* written, after it the answer is not stored.
RequestFails(r) ==
  /\ requests[r].pc # "idle"
  /\ faults < FaultBound
  /\ requests' = [requests EXCEPT ![r] = Idle]
  /\ excused' = IF requests[r].pc = "store" THEN excused \cup {requests[r].key}
                ELSE excused
  /\ faults' = faults + 1
  /\ UNCHANGED <<cached, outbox, ticks, triggered, failures>>

-----------------------------------------------------------------------------
(* processOutbox and handleRow *)

\* Mutant: rows that failed once are not read again.
UntriedRows == {i \in Ids : outbox[i].status = "PENDING" /\ outbox[i].attempts = 0}

PendingRows == {i \in Ids : outbox[i].status = "PENDING"}

\* The copy at work is the oldest.
AtWork(t, c) == c \in ticks[t].todo /\ \A d \in ticks[t].todo : c.id <= d.id

\* The rows a tick locks, with its read or with a write, until that
\* transaction has ended.
LockedBy(t) ==
  {c.id : c \in {d \in ticks[t].todo :
                   \/ ticks[t].pc = "begin"
                   \/ ticks[t].pc \in {"write", "rewrite"} /\ AtWork(t, d)}}

\* The oldest pending rows that are not locked, at most a batch of them.
Batch(locked) ==
  LET free == PendingRows \ locked IN
    {i \in free : Cardinality({j \in free : j < i}) < BatchSize}

CopyOf(i) == [id |-> i, status |-> outbox[i].status, attempts |-> outbox[i].attempts]

\* SKIP LOCKED: the read passes over rows of transactions not yet ended.
ReadBatch(t) ==
  /\ ticks[t].pc = "idle"
  /\ \E busy \in SUBSET Ticks :
       LET batch == Batch(UNION {LockedBy(u) : u \in busy}) IN
         /\ batch # {}
         /\ ticks' = [ticks EXCEPT ![t] = [Resting EXCEPT
                        !.pc = "begin", !.todo = {CopyOf(i) : i \in batch}]]
  /\ UNCHANGED <<cached, requests, outbox, triggered, failures, excused, faults>>

\* The tick goes on with its copy in a new state.
GoOn(t, step, c, new) ==
  ticks' = [ticks EXCEPT ![t] = [pc |-> step, todo |-> (@.todo \ {c}) \cup {new},
                                 changed |-> {}]]

\* The row is left: on to the next of the batch.
NextRow(t, c) ==
  LET rest == ticks[t].todo \ {c} IN
    ticks' = [ticks EXCEPT ![t] = [Resting EXCEPT !.pc = IF rest = {} THEN "idle"
                                                         ELSE "trigger",
                                                  !.todo = rest]]

\* Mutant: a status the table does not know.
Completed(c) == [c EXCEPT !.status = "COMPLETED"]

Processed(c) == [c EXCEPT !.status = "PROCESSED"]

\* Mutant: a finally block marks the row.
FailedYetProcessed(c) ==
  [c EXCEPT !.attempts = @ + 1,
            !.status = IF c.attempts + 1 >= MaxAttempts THEN "FAILED" ELSE "PROCESSED"]

\* Mutant: the limit is compared with one attempt too many.
FailedEarly(c) ==
  [c EXCEPT !.attempts = @ + 1,
            !.status = IF c.attempts + 2 >= MaxAttempts THEN "FAILED" ELSE @]

\* The catch block: a status set before the failure is kept below the limit.
Failed(c) ==
  [c EXCEPT !.attempts = @ + 1,
            !.status = IF c.attempts + 1 >= MaxAttempts THEN "FAILED" ELSE @]

CountFailure(t, c) ==
  /\ faults < FaultBound
  /\ faults' = faults + 1
  /\ failures' = [failures EXCEPT ![c.id] = @ + 1]
  /\ GoOn(t, "resave", c, Failed(c))

TriggerRow(t) ==
  /\ ticks[t].pc \in {"begin", "trigger"}
  /\ \E c \in ticks[t].todo :
       /\ AtWork(t, c)
       /\ \/ /\ triggered' = triggered \cup {c.id}
             /\ GoOn(t, "save", c, Processed(c))
             /\ UNCHANGED <<failures, faults>>
          \/ /\ CountFailure(t, c)
             /\ triggered' \in {triggered, triggered \cup {c.id}}
  /\ UNCHANGED <<cached, requests, outbox, excused>>

\* A save reads the row again and keeps the columns that differ.
Compare(t) ==
  /\ ticks[t].pc \in {"save", "resave"}
  /\ \E c \in ticks[t].todo :
       /\ AtWork(t, c)
       /\ ticks' = [ticks EXCEPT
            ![t] = [@ EXCEPT !.pc = IF @ = "save" THEN "write" ELSE "rewrite",
                             !.changed = {x \in Columns : outbox[c.id][x] # c[x]}]]
  /\ UNCHANGED <<cached, requests, outbox, triggered, failures, excused, faults>>

WriteColumns(t) ==
  /\ ticks[t].pc \in {"write", "rewrite"}
  /\ \E c \in ticks[t].todo :
       LET New(x, old) == IF x \in ticks[t].changed THEN c[x] ELSE old IN
         /\ AtWork(t, c)
         /\ outbox' = [outbox EXCEPT ![c.id].status = New("status", @),
                                     ![c.id].attempts = New("attempts", @)]
         /\ NextRow(t, c)
  /\ UNCHANGED <<cached, requests, triggered, failures, excused, faults>>

\* A save throws: the first is counted as a failed attempt, the one in the
\* catch block is logged and the row left as it is.
SaveFails(t) ==
  /\ \E c \in ticks[t].todo :
       /\ AtWork(t, c)
       /\ \/ ticks[t].pc \in {"save", "write"} /\ CountFailure(t, c)
          \/ /\ ticks[t].pc \in {"resave", "rewrite"}
             /\ NextRow(t, c)
             /\ faults < FaultBound /\ faults' = faults + 1
             /\ UNCHANGED failures
  /\ UNCHANGED <<cached, requests, outbox, triggered, excused>>

TickDies(t) ==
  /\ ticks[t].pc # "idle"
  /\ faults < FaultBound
  /\ faults' = faults + 1
  /\ ticks' = [ticks EXCEPT ![t] = Resting]
  /\ UNCHANGED <<cached, requests, outbox, triggered, failures, excused>>

-----------------------------------------------------------------------------
TickStep(t) == ReadBatch(t) \/ TriggerRow(t) \/ Compare(t) \/ WriteColumns(t)

Next ==
  \/ \E r \in Requests :
       \/ \E k \in Keys \cup {None} : Receive(r, k)
       \/ PlaceOrder(r) \/ StoreAnswer(r) \/ RequestFails(r)
  \/ \E k \in Keys : KeyExpires(k)
  \/ \E t \in Ticks : TickStep(t) \/ SaveFails(t) \/ TickDies(t)

Spec == Init /\ [][Next]_vars

(***************************************************************************)
(* The cron starts ticks for ever and a started tick goes on.  Failures    *)
(* have no fairness: each may stop happening.                              *)
(***************************************************************************)
FairSpec == Spec /\ \A t \in Ticks : WF_vars(TickStep(t))

-----------------------------------------------------------------------------
(* Safety *)

\* Every variable stays within what the code can store in it.
TypeOK ==
  /\ cached \subseteq Keys
  /\ requests \in [Requests -> Request]
  /\ outbox \in [Ids -> Row]
  /\ ticks \in [Ticks -> Tick]
  /\ triggered \subseteq Ids
  /\ failures \in [Ids -> Nat]
  /\ excused \subseteq Keys
  /\ faults \in 0 .. FaultBound

\* "deduplicate order creation": requests with one key that do not overlap
\* place one order, as long as no answer was lost and the entry lives.
SequentialDedupe ==
  \A i, j \in Placed :
    outbox[i].key = outbox[j].key /\ i # j
      => outbox[i].key \in excused \cup {None}

\* A row is marked processed only if its trigger has reached the queue,
\* whatever ticks overlap and whichever save fails.
ProcessedWasTriggered ==
  \A i \in Placed : outbox[i].status = "PROCESSED" => i \in triggered

\* Overlapping ticks may forget attempts but never spend them: a row counts
\* no more attempts than have failed, and is given up after MaxAttempts.
AttemptsWereMade ==
  \A i \in Placed :
    /\ outbox[i].attempts <= failures[i]
    /\ outbox[i].status = "FAILED" => failures[i] >= MaxAttempts

-----------------------------------------------------------------------------
(* Liveness *)

\* Every order that is placed reaches dispatch or its row is given up for
\* good: stale copies reopen a settled row only finitely often.
RowsSettle ==
  \A i \in Ids :
    i \in Placed ~> [](outbox[i].status # "PENDING")

=============================================================================
