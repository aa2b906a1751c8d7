------------------------------ MODULE Dispatch ------------------------------
(***************************************************************************)
(* Dispatching an order: the BullMQ worker that offers it to drivers, the  *)
(* timer behind each offer, and the HTTP calls that race with them         *)
(* (accept, reject, status update, reassign, delete).                      *)
(*                                                                         *)
(* One action is what the code does between two awaits: a database         *)
(* transaction (which holds the row lock throughout, so it is atomic), a   *)
(* queue call or a Redis call.  A handler in progress is a record with the *)
(* step it is at and the locals it carries across awaits.                  *)
(*                                                                         *)
(* Calls into TrackingService (ETA jobs) touch a queue and a key that      *)
(* nothing here reads; they are not part of this module.                   *)
(***************************************************************************)
EXTENDS OrderRules, JobQueue, Integers, FiniteSets

CONSTANTS
  Orders,
  Workers,      \* dispatch workers, one per running process of the service
  Requests,     \* HTTP calls in progress at the same time
  MaxAttempts,  \* MAX_DISPATCH_ATTEMPTS
  Calls,        \* the API calls this instance makes
  ResetBound,   \* bound: an expired order is reopened up to this version
  FaultBound    \* bound: crashes and failed awaits in a behaviour

CallNames == {"accept", "reject", "update", "reassign", "delete"}

ASSUME MaxAttemptsAssumption == MaxAttempts \in Nat \ {0}
ASSUME CallsAssumption == Calls \subseteq CallNames
ASSUME BoundsAssumption == ResetBound \in Nat /\ FaultBound \in Nat

VARIABLES
  orders,      \* the rows of table orders
  history,     \* the newest order_status_history row of each order
  outbox,      \* the dispatch.trigger row written with each order
  queue,       \* the dispatch queue
  timeoutKey,  \* Redis dispatch_timeout:<order>: the driver in the job id
  notified,    \* the last order:status_changed pushed for each order
  workers,     \* what each worker is doing
  requests,    \* what each HTTP call is doing
  faults,      \* failures so far
  armedFor     \* history variable: the row version a timer was created for

vars == <<orders, history, outbox, queue, timeoutKey, notified,
          workers, requests, faults, armedFor>>

-----------------------------------------------------------------------------
(* Jobs, rows and locals *)

AssignJob(o) == [name |-> "assign-driver", order |-> o, driver |-> None]
TimeoutJob(o, d) == [name |-> "dispatch-timeout", order |-> o, driver |-> d]

AssignJobs == [name : {"assign-driver"}, order : Orders, driver : {None}]
TimeoutJobs == [name : {"dispatch-timeout"}, order : Orders, driver : Drivers]
Jobs == AssignJobs \cup TimeoutJobs

MaybeDriver == Drivers \cup {None}

Row == [status : OrderStatus, assigned : MaybeDriver, attempts : Nat,
        attempted : SUBSET Drivers, version : Nat, deleted : BOOLEAN]

WorkerSteps == {"idle", "read", "find", "lock", "arm", "setKey", "expire",
                "revoke", "dropKey", "notice", "retrigger", "finish"}

\* "found" holds the attempted drivers of the first read, then the candidates;
\* "holds" says whether the queue still counts on this worker for the job.
Worker == [pc : WorkerSteps, job : Jobs \cup {None}, holds : BOOLEAN,
           found : SUBSET Drivers, driver : MaybeDriver,
           outcome : {None, "EXPIRED", "PENDING"}, version : Nat]

IdleWorker == [pc |-> "idle", job |-> None, holds |-> TRUE, found |-> {},
               driver |-> None, outcome |-> None, version |-> 0]

RequestSteps == {"idle", "getKey", "removeJob", "delKey", "announce",
                 "trigger", "update", "reopen", "delete"}

Request == [pc : RequestSteps, order : Orders \cup {None},
            driver : MaybeDriver, prev : OrderStatus \cup {None},
            new : OrderStatus \cup {None}, version : Nat]

IdleRequest == [pc |-> "idle", order |-> None, driver |-> None,
                prev |-> None, new |-> None, version |-> 0]

NewOrder == [status |-> "PENDING", assigned |-> None, attempts |-> 0,
             attempted |-> {}, version |-> 1, deleted |-> FALSE]

\* Every order has just been created by createOrder, outbox row included.
Init ==
  /\ orders = [o \in Orders |-> NewOrder]
  /\ history = [o \in Orders |-> [prev |-> None, new |-> "PENDING"]]
  /\ outbox = [o \in Orders |-> "PENDING"]
  /\ queue = [j \in Jobs |-> "absent"]
  /\ timeoutKey = [o \in Orders |-> None]
  /\ notified = [o \in Orders |-> None]
  /\ workers = [w \in Workers |-> IdleWorker]
  /\ requests = [r \in Requests |-> IdleRequest]
  /\ faults = 0
  /\ armedFor = [j \in TimeoutJobs |-> 0]

-----------------------------------------------------------------------------
(* What the transactions test and write *)

\* Mutant: the test is inverted.
skipPending(row) == row.status = "PENDING"

shouldSkipAssignment(row) == row.status # "PENDING"

Offered(row, d) ==
  [row EXCEPT !.status = "DRIVER_ASSIGNED", !.assigned = d,
              !.attempts = @ + 1, !.version = @ + 1,
              !.attempted = @ \cup {d}]

Expired(row) ==
  [row EXCEPT !.status = "EXPIRED", !.assigned = None,
              !.attempts = @ + 1, !.version = @ + 1]

\* Mutant: the guard against a timeout for a previous assignment is dropped.
TimeoutAppliesToAny(row, d) ==
  ~row.deleted /\ row.status = "DRIVER_ASSIGNED"

\* Mutant: only the terminal statuses are guarded against.
TimeoutAppliesLate(row, d) ==
  ~row.deleted /\ row.status \notin Terminal /\ row.assigned = d

\* Mutant: the comparison of the drivers is inverted.
TimeoutAppliesToOthers(row, d) ==
  ~row.deleted /\ row.status = "DRIVER_ASSIGNED" /\ row.assigned # d

\* The tests a timeout must pass: the order still waits for that driver.
TimeoutApplies(row, d) ==
  /\ ~row.deleted
  /\ row.status = "DRIVER_ASSIGNED"
  /\ row.assigned = d

\* Mutant: the driver stays on the order.
RevokedKeepingDriver(row) ==
  [row EXCEPT !.status = IF row.attempts + 1 >= MaxAttempts
                           THEN "EXPIRED" ELSE "PENDING",
              !.attempts = @ + 1, !.version = @ + 1]

\* An offer ends without an acceptance (timeout or rejection).
Revoked(row) ==
  [row EXCEPT !.status = IF row.attempts + 1 >= MaxAttempts
                           THEN "EXPIRED" ELSE "PENDING",
              !.assigned = None, !.attempts = @ + 1, !.version = @ + 1]

\* accept and reject: 404, 409 and 403 otherwise.
AwaitsAnswerOf(row, d) ==
  /\ ~row.deleted
  /\ row.status = "DRIVER_ASSIGNED"
  /\ row.assigned = d

Rejected(row, d) == [Revoked(row) EXCEPT !.attempted = @ \cup {d}]

\* Mutant: a status the enum does not have.
AcceptedAs(row) == [row EXCEPT !.status = "ACCEPTED", !.version = @ + 1]

\* Mutant: the version is left alone.
AcceptedUnversioned(row) == [row EXCEPT !.status = "DRIVER_ARRIVING"]

Accepted(row) ==
  [row EXCEPT !.status = "DRIVER_ARRIVING", !.version = @ + 1]

Moved(row, newStatus, version) ==
  [row EXCEPT !.status = newStatus, !.version = version + 1]

\* Mutant: the attempted drivers are kept.
ReopenedPartly(row, version) ==
  [row EXCEPT !.status = "PENDING", !.assigned = None, !.attempts = 0,
              !.version = version + 1]

Reopened(row, version) ==
  [row EXCEPT !.status = "PENDING", !.assigned = None, !.attempts = 0,
              !.attempted = {}, !.version = version + 1]

\* Mutant: WHERE id, without the version.
StillThere(row, version) == ~row.deleted

\* Mutant: the row is not read back before the commit.
SameVersion(row, version) == row.version = version

\* UPDATE ... WHERE id AND version touched the row, and reading it back
\* (which never returns a deleted order) found it; rolled back otherwise.
StillAt(row, version) == row.version = version /\ ~row.deleted

\* Save the row and its audit entry in one transaction.
Save(o, row, prev) ==
  /\ orders' = [orders EXCEPT ![o] = row]
  /\ history' = [history EXCEPT ![o] = [prev |-> prev, new |-> row.status]]

-----------------------------------------------------------------------------
(* The outbox, the queue and the surroundings *)

UnchangedTables == UNCHANGED <<orders, history>>
UnchangedActors == UNCHANGED <<workers, requests, faults>>

\* OutboxWorker.handleRow triggers, then saves the row as processed.
OutboxTrigger(o) ==
  /\ outbox[o] = "PENDING"
  /\ outbox' = [outbox EXCEPT ![o] = "SENT"]
  /\ queue' = AddJob(queue, AssignJob(o), "waiting")
  /\ UnchangedTables /\ UnchangedActors
  /\ UNCHANGED <<timeoutKey, notified, armedFor>>

OutboxSave(o) ==
  /\ outbox[o] = "SENT"
  /\ outbox' = [outbox EXCEPT ![o] = "PROCESSED"]
  /\ UnchangedTables /\ UnchangedActors
  /\ UNCHANGED <<queue, timeoutKey, notified, armedFor>>

\* The row is not saved: the process dies, the save fails or takes longer
\* than a tick of the cron.  A later tick picks the row up and triggers again.
OutboxRetrigger(o) ==
  /\ outbox[o] = "SENT"
  /\ faults < FaultBound
  /\ faults' = faults + 1
  /\ queue' = AddJob(queue, AssignJob(o), "waiting")
  /\ UnchangedTables
  /\ UNCHANGED <<outbox, workers, requests, timeoutKey, notified, armedFor>>

\* The delay of a timeout job is over.
TimeoutElapses(j) ==
  /\ queue[j] = "delayed"
  /\ queue' = [queue EXCEPT ![j] = "waiting"]
  /\ UnchangedTables /\ UnchangedActors
  /\ UNCHANGED <<outbox, timeoutKey, notified, armedFor>>

\* Enough newer jobs have finished for this one to be forgotten.
Evict(j) ==
  /\ queue[j] \in Retained
  /\ queue' = [queue EXCEPT ![j] = "absent"]
  /\ UnchangedTables /\ UnchangedActors
  /\ UNCHANGED <<outbox, timeoutKey, notified, armedFor>>

\* The key lives twice as long as the delay of its job.
KeyExpires(o) ==
  /\ timeoutKey[o] # None
  /\ queue[TimeoutJob(o, timeoutKey[o])] # "delayed"
  /\ timeoutKey' = [timeoutKey EXCEPT ![o] = None]
  /\ UnchangedTables /\ UnchangedActors
  /\ UNCHANGED <<outbox, queue, notified, armedFor>>

-----------------------------------------------------------------------------
(* The dispatch worker *)

\* Where the locals of worker w go next.
Continue(w, locals) == workers' = [workers EXCEPT ![w] = locals]
GoTo(w, step) == Continue(w, [workers[w] EXCEPT !.pc = step])

OrderOf(w) == workers[w].job.order

UnchangedByWorkers == UNCHANGED <<outbox, requests, faults>>

TakeJob(w, j) ==
  /\ workers[w].pc = "idle"
  /\ queue[j] = "waiting"
  /\ queue' = [queue EXCEPT ![j] = "active"]
  /\ Continue(w, [IdleWorker EXCEPT !.job = j,
                    !.pc = IF j \in AssignJobs THEN "read" ELSE "revoke"])
  /\ UnchangedTables /\ UnchangedByWorkers
  /\ UNCHANGED <<timeoutKey, notified, armedFor>>

\* handleAssignDriver: the unlocked read and its early returns.
AfterRead(row) ==
  CASE row.deleted \/ shouldSkipAssignment(row) -> "finish"
    [] ~(row.deleted \/ shouldSkipAssignment(row))
         /\ row.attempts >= MaxAttempts -> "expire"
    [] OTHER -> "find"

ReadOrder(w) ==
  /\ workers[w].pc = "read"
  /\ LET row == orders[OrderOf(w)]
     IN  Continue(w, [workers[w] EXCEPT !.pc = AfterRead(row),
                        !.found = IF AfterRead(row) = "find"
                                    THEN row.attempted ELSE {}])
  /\ UnchangedTables /\ UnchangedByWorkers
  /\ UNCHANGED <<queue, timeoutKey, notified, armedFor>>

\* Any drivers not yet attempted may qualify (online, not suspended, located,
\* right vehicle): DriversService changes that at any time.  The order of the
\* candidates (nearest first) only decides which of them is tried first; the
\* choice in assignDriverWithLock leaves it open.
findNearestEligibleDrivers(w) ==
  /\ workers[w].pc = "find"
  /\ \E candidates \in SUBSET (Drivers \ workers[w].found) :
       Continue(w, [workers[w] EXCEPT
                      !.pc = IF candidates = {} THEN "expire" ELSE "lock",
                      !.found = candidates])
  /\ UnchangedTables /\ UnchangedByWorkers
  /\ UNCHANGED <<queue, timeoutKey, notified, armedFor>>

\* Mutant: the status and the attempted drivers are not looked at again under
\* the lock.
assignOnFirstRead(w) ==
  /\ workers[w].pc = "lock"
  /\ LET o == OrderOf(w)
         row == orders[o]
     IN  /\ ~row.deleted
         /\ \E d \in workers[w].found :
              /\ Save(o, Offered(row, d), row.status)
              /\ Continue(w, [workers[w] EXCEPT !.pc = "arm", !.driver = d,
                                !.found = {}, !.version = row.version + 1])
  /\ UnchangedByWorkers
  /\ UNCHANGED <<queue, timeoutKey, notified, armedFor>>

\* assignDriverWithLock, a candidate that could be locked is found.
assignDriverWithLock(w) ==
  /\ workers[w].pc = "lock"
  /\ LET o == OrderOf(w)
         row == orders[o]
     IN  /\ ~row.deleted
         /\ ~shouldSkipAssignment(row)
         /\ \E d \in workers[w].found \ row.attempted :
              /\ Save(o, Offered(row, d), row.status)
              /\ Continue(w, [workers[w] EXCEPT !.pc = "arm", !.driver = d,
                                !.found = {}, !.version = row.version + 1])
  /\ UnchangedByWorkers
  /\ UNCHANGED <<queue, timeoutKey, notified, armedFor>>

\* assignDriverWithLock returns null: the order is not pending any more, or
\* no candidate is left that still qualifies and that no other transaction
\* locks (SKIP LOCKED, so which ones are left is open).
NoDriverLocked(w) ==
  /\ workers[w].pc = "lock"
  /\ Continue(w, [workers[w] EXCEPT !.pc = "expire", !.found = {}])
  /\ UnchangedTables /\ UnchangedByWorkers
  /\ UNCHANGED <<queue, timeoutKey, notified, armedFor>>

\* expireOrder: does nothing to an order that has moved on.
expireOrder(w) ==
  /\ workers[w].pc = "expire"
  /\ LET o == OrderOf(w)
         row == orders[o]
     IN  IF row.deleted \/ shouldSkipAssignment(row)
           THEN UnchangedTables
           ELSE Save(o, Expired(row), row.status)
  /\ GoTo(w, "notice")
  /\ UnchangedByWorkers
  /\ UNCHANGED <<queue, timeoutKey, notified, armedFor>>

\* The expiry is pushed to the customer, by either handler.
NoticeExpired(w) ==
  /\ workers[w].pc = "notice"
  /\ notified' = [notified EXCEPT ![OrderOf(w)] = "EXPIRED"]
  /\ GoTo(w, "finish")
  /\ UnchangedTables /\ UnchangedByWorkers
  /\ UNCHANGED <<queue, timeoutKey, armedFor>>

\* Mutant: no timer is created while the order still has a timer's key.
ArmTimeoutOnce(w) ==
  /\ workers[w].pc = "arm"
  /\ LET j == TimeoutJob(OrderOf(w), workers[w].driver)
     IN  queue' = IF timeoutKey[OrderOf(w)] = None
                    THEN AddJob(queue, j, "delayed") ELSE queue
  /\ GoTo(w, "setKey")
  /\ UnchangedTables /\ UnchangedByWorkers
  /\ UNCHANGED <<timeoutKey, notified, armedFor>>

\* The delayed timeout job of the offer.  An id the queue still knows from
\* an earlier offer to the same driver leaves the queue as it is.
ArmTimeout(w) ==
  /\ workers[w].pc = "arm"
  /\ LET j == TimeoutJob(OrderOf(w), workers[w].driver)
     IN  /\ queue' = AddJob(queue, j, "delayed")
         /\ armedFor' = IF queue[j] = "absent"
                          THEN [armedFor EXCEPT ![j] = workers[w].version]
                          ELSE armedFor
  /\ GoTo(w, "setKey")
  /\ UnchangedTables /\ UnchangedByWorkers
  /\ UNCHANGED <<timeoutKey, notified>>

SetTimeoutKey(w) ==
  /\ workers[w].pc = "setKey"
  /\ timeoutKey' = [timeoutKey EXCEPT ![OrderOf(w)] = workers[w].driver]
  /\ GoTo(w, "finish")
  /\ UnchangedTables /\ UnchangedByWorkers
  /\ UNCHANGED <<queue, notified, armedFor>>

\* handleDispatchTimeout: the transaction.
RevokeOffer(w) ==
  /\ workers[w].pc = "revoke"
  /\ LET o == OrderOf(w)
         row == orders[o]
     IN  IF TimeoutApplies(row, workers[w].job.driver)
           THEN /\ Save(o, Revoked(row), row.status)
                /\ Continue(w, [workers[w] EXCEPT !.pc = "dropKey",
                                  !.outcome = Revoked(row).status])
           ELSE UnchangedTables /\ GoTo(w, "finish")
  /\ UnchangedByWorkers
  /\ UNCHANGED <<queue, timeoutKey, notified, armedFor>>

DropTimeoutKey(w) ==
  /\ workers[w].pc = "dropKey"
  /\ timeoutKey' = [timeoutKey EXCEPT ![OrderOf(w)] = None]
  /\ GoTo(w, IF workers[w].outcome = "EXPIRED" THEN "notice" ELSE "retrigger")
  /\ UnchangedTables /\ UnchangedByWorkers
  /\ UNCHANGED <<queue, notified, armedFor>>

Retrigger(w) ==
  /\ workers[w].pc = "retrigger"
  /\ queue' = AddJob(queue, AssignJob(OrderOf(w)), "waiting")
  /\ GoTo(w, "finish")
  /\ UnchangedTables /\ UnchangedByWorkers
  /\ UNCHANGED <<timeoutKey, notified, armedFor>>

FinishJob(w) ==
  /\ workers[w].pc = "finish"
  /\ queue' = IF workers[w].holds
                THEN [queue EXCEPT ![workers[w].job] = "completed"] ELSE queue
  /\ Continue(w, IdleWorker)
  /\ UnchangedTables /\ UnchangedByWorkers
  /\ UNCHANGED <<timeoutKey, notified, armedFor>>

\* An await throws, and the job fails for good (attempts: 1), or the process
\* dies, and the stalled job is handed out again.
WorkerFails(w) ==
  /\ workers[w].pc # "idle"
  /\ faults < FaultBound
  /\ faults' = faults + 1
  /\ \E s \in {"failed", "waiting"} :
       queue' = IF workers[w].holds
                  THEN [queue EXCEPT ![workers[w].job] = s] ELSE queue
  /\ Continue(w, IdleWorker)
  /\ UnchangedTables
  /\ UNCHANGED <<outbox, requests, timeoutKey, notified, armedFor>>

\* The lock of the job is not renewed in time, and the queue hands the job out
\* again while its handler is still at work.
JobStalls(w) ==
  /\ workers[w].pc # "idle"
  /\ workers[w].holds
  /\ faults < FaultBound
  /\ faults' = faults + 1
  /\ queue' = [queue EXCEPT ![workers[w].job] = "waiting"]
  /\ Continue(w, [workers[w] EXCEPT !.holds = FALSE])
  /\ UnchangedTables
  /\ UNCHANGED <<outbox, requests, timeoutKey, notified, armedFor>>

-----------------------------------------------------------------------------
(* The HTTP calls.  A call refused before it writes changes nothing and is *)
(* not an action.                                                          *)

Proceed(r, locals) == requests' = [requests EXCEPT ![r] = locals]
AdvanceTo(r, step) == Proceed(r, [requests[r] EXCEPT !.pc = step])

Target(r) == requests[r].order

\* An idle slot takes a new call that this instance makes.
Starts(r, call) == requests[r].pc = "idle" /\ call \in Calls

UnchangedByRequests == UNCHANGED <<outbox, workers, faults, armedFor>>

\* acceptDispatch, the transaction.
Accept(r, o, d) ==
  /\ Starts(r, "accept")
  /\ AwaitsAnswerOf(orders[o], d)
  /\ Save(o, Accepted(orders[o]), orders[o].status)
  /\ Proceed(r, [IdleRequest EXCEPT !.pc = "getKey", !.order = o,
                   !.new = "DRIVER_ARRIVING"])
  /\ UnchangedByRequests
  /\ UNCHANGED <<queue, timeoutKey, notified>>

\* rejectDispatch, the transaction.
Reject(r, o, d) ==
  /\ Starts(r, "reject")
  /\ AwaitsAnswerOf(orders[o], d)
  /\ LET row == Rejected(orders[o], d)
     IN  /\ Save(o, row, orders[o].status)
         /\ Proceed(r, [IdleRequest EXCEPT !.pc = "getKey", !.order = o,
                          !.new = row.status])
  /\ UnchangedByRequests
  /\ UNCHANGED <<queue, timeoutKey, notified>>

\* Mutant: the key is asked for again until there is one.
RetryCancel(r) == "getKey"

\* What follows cancelDispatchTimeout.
AfterCancel(r) == IF requests[r].new = "PENDING" THEN "trigger" ELSE "announce"

\* cancelDispatchTimeout: get the key, remove the job it names, drop the key.
GetTimeoutKey(r) ==
  /\ requests[r].pc = "getKey"
  /\ LET d == timeoutKey[Target(r)]
     IN  Proceed(r, [requests[r] EXCEPT !.driver = d,
                       !.pc = IF d = None THEN AfterCancel(r)
                                ELSE "removeJob"])
  /\ UnchangedTables /\ UnchangedByRequests
  /\ UNCHANGED <<queue, timeoutKey, notified>>

RemoveTimeoutJob(r) ==
  /\ requests[r].pc = "removeJob"
  /\ queue' = RemoveJob(queue, TimeoutJob(Target(r), requests[r].driver))
  /\ Proceed(r, [requests[r] EXCEPT !.pc = "delKey", !.driver = None])
  /\ UnchangedTables /\ UnchangedByRequests
  /\ UNCHANGED <<timeoutKey, notified>>

DeleteTimeoutKey(r) ==
  /\ requests[r].pc = "delKey"
  /\ timeoutKey' = [timeoutKey EXCEPT ![Target(r)] = None]
  /\ AdvanceTo(r, AfterCancel(r))
  /\ UnchangedTables /\ UnchangedByRequests
  /\ UNCHANGED <<queue, notified>>

Announce(r) ==
  /\ requests[r].pc = "announce"
  /\ notified' = [notified EXCEPT ![Target(r)] = requests[r].new]
  /\ Proceed(r, IdleRequest)
  /\ UnchangedTables /\ UnchangedByRequests
  /\ UNCHANGED <<queue, timeoutKey>>

Trigger(r) ==
  /\ requests[r].pc = "trigger"
  /\ queue' = AddJob(queue, AssignJob(Target(r)), "waiting")
  /\ Proceed(r, IdleRequest)
  /\ UnchangedTables /\ UnchangedByRequests
  /\ UNCHANGED <<timeoutKey, notified>>

\* updateStatus and cancelOrder: checks on an unlocked read ...
ReadForUpdate(r, o, newStatus, user) ==
  /\ Starts(r, "update")
  /\ ~orders[o].deleted
  /\ validateActor(orders[o], newStatus, user)
  /\ validateTransition(orders[o].status, newStatus)
  /\ Proceed(r, [IdleRequest EXCEPT !.pc = "update", !.order = o,
                   !.prev = orders[o].status, !.new = newStatus,
                   !.version = orders[o].version])
  /\ UnchangedTables /\ UnchangedByRequests
  /\ UNCHANGED <<queue, timeoutKey, notified>>

\* ... then a write that only succeeds on the version that was read.
CommitUpdate(r) ==
  /\ requests[r].pc = "update"
  /\ LET o == Target(r)
         call == requests[r]
     IN  IF StillAt(orders[o], call.version)
           THEN Save(o, Moved(orders[o], call.new, call.version), call.prev)
           ELSE UnchangedTables
  /\ Proceed(r, IdleRequest)
  /\ UnchangedByRequests
  /\ UNCHANGED <<queue, timeoutKey, notified>>

\* reassignOrder: a pending order is only triggered, an expired one reopened.
ReadForReassign(r, o) ==
  /\ Starts(r, "reassign")
  /\ ~orders[o].deleted
  /\ \/ /\ orders[o].status = "PENDING"
        /\ Proceed(r, [IdleRequest EXCEPT !.pc = "trigger", !.order = o])
     \/ /\ orders[o].status = "EXPIRED"
        /\ orders[o].version <= ResetBound
        /\ Proceed(r, [IdleRequest EXCEPT !.pc = "reopen", !.order = o,
                         !.version = orders[o].version])
  /\ UnchangedTables /\ UnchangedByRequests
  /\ UNCHANGED <<queue, timeoutKey, notified>>

CommitReopen(r) ==
  /\ requests[r].pc = "reopen"
  /\ LET o == Target(r)
         call == requests[r]
     IN  IF StillAt(orders[o], call.version)
           THEN /\ Save(o, Reopened(orders[o], call.version), "EXPIRED")
                /\ Proceed(r, [IdleRequest EXCEPT !.pc = "trigger",
                                                  !.order = o])
           ELSE UnchangedTables /\ Proceed(r, IdleRequest)
  /\ UnchangedByRequests
  /\ UNCHANGED <<queue, timeoutKey, notified>>

\* softDelete: the check is on an unlocked read, the write tests nothing.
Deletable(row) == ~row.deleted /\ row.status \notin Active

ReadForDelete(r, o) ==
  /\ Starts(r, "delete")
  /\ Deletable(orders[o])
  /\ Proceed(r, [IdleRequest EXCEPT !.pc = "delete", !.order = o])
  /\ UnchangedTables /\ UnchangedByRequests
  /\ UNCHANGED <<queue, timeoutKey, notified>>

CommitDelete(r) ==
  /\ requests[r].pc = "delete"
  /\ orders' = [orders EXCEPT ![Target(r)].deleted = TRUE]
  /\ Proceed(r, IdleRequest)
  /\ UnchangedByRequests
  /\ UNCHANGED <<history, queue, timeoutKey, notified>>

\* The process dies, or an await of the call throws.
RequestFails(r) ==
  /\ requests[r].pc # "idle"
  /\ faults < FaultBound
  /\ faults' = faults + 1
  /\ Proceed(r, IdleRequest)
  /\ UnchangedTables
  /\ UNCHANGED <<outbox, queue, timeoutKey, notified, workers,
                 armedFor>>

-----------------------------------------------------------------------------
WorkerStep(w) ==
  \/ ReadOrder(w) \/ findNearestEligibleDrivers(w) \/ assignDriverWithLock(w)
  \/ NoDriverLocked(w) \/ expireOrder(w) \/ NoticeExpired(w)
  \/ ArmTimeout(w) \/ SetTimeoutKey(w)
  \/ RevokeOffer(w) \/ DropTimeoutKey(w) \/ Retrigger(w)
  \/ FinishJob(w)

NewCall(r) ==
  \E o \in Orders :
    \/ \E d \in Drivers : Accept(r, o, d) \/ Reject(r, o, d)
    \/ \E s \in OrderStatus, user \in Users : ReadForUpdate(r, o, s, user)
    \/ ReadForReassign(r, o)
    \/ ReadForDelete(r, o)

RequestStep(r) ==
  \/ GetTimeoutKey(r) \/ RemoveTimeoutJob(r) \/ DeleteTimeoutKey(r)
  \/ Announce(r) \/ Trigger(r)
  \/ CommitUpdate(r) \/ CommitReopen(r) \/ CommitDelete(r)

Next ==
  \/ \E o \in Orders :
       OutboxTrigger(o) \/ OutboxSave(o) \/ OutboxRetrigger(o) \/ KeyExpires(o)
  \/ \E j \in TimeoutJobs : TimeoutElapses(j)
  \/ \E j \in Jobs : Evict(j)
  \/ \E w \in Workers :
       \/ \E j \in Jobs : TakeJob(w, j)
       \/ WorkerStep(w)
       \/ WorkerFails(w)
       \/ JobStalls(w)
  \/ \E r \in Requests : NewCall(r) \/ RequestStep(r) \/ RequestFails(r)

Spec == Init /\ [][Next]_vars

(***************************************************************************)
(* Started handlers go on (the event loop), the cron keeps ticking, delays *)
(* end, and a worker takes waiting jobs in the order they were queued, so  *)
(* no waiting job is passed over for ever.  Nobody has to call the API,    *)
(* and nothing promises that other orders finish enough jobs to evict one. *)
(***************************************************************************)
Fairness ==
  /\ \A w \in Workers : WF_vars(WorkerStep(w))
  /\ \A r \in Requests : WF_vars(RequestStep(r))
  /\ \A j \in Jobs : SF_vars(\E w \in Workers : TakeJob(w, j))
  /\ \A j \in TimeoutJobs : WF_vars(TimeoutElapses(j))
  /\ \A o \in Orders : WF_vars(OutboxTrigger(o)) /\ WF_vars(OutboxSave(o))

FairSpec == Spec /\ Fairness

-----------------------------------------------------------------------------
(* Safety *)

\* Every variable stays within what the code can store in it.
TypeOK ==
  /\ orders \in [Orders -> Row]
  /\ history \in [Orders -> [prev : OrderStatus \cup {None}, new : OrderStatus]]
  /\ outbox \in [Orders -> {"PENDING", "SENT", "PROCESSED"}]
  /\ queue \in [Jobs -> JobStates]
  /\ timeoutKey \in [Orders -> MaybeDriver]
  /\ notified \in [Orders -> OrderStatus \cup {None}]
  /\ workers \in [Workers -> Worker]
  /\ requests \in [Requests -> Request]
  /\ faults \in 0 .. FaultBound
  /\ armedFor \in [TimeoutJobs -> Nat]

Unassigned == {"PENDING", "EXPIRED"}

Agrees(row) ==
  /\ row.status \in Unassigned => row.assigned = None
  /\ row.status \notin Unassigned \cup {"CANCELLED"} => row.assigned # None
  /\ row.assigned # None => row.assigned \in row.attempted

\* An order is free of a driver while it waits or has expired, names one from
\* the offer until it ends, and only ever names a driver it was offered to.
\* Eight transactions of two services write the two columns.
AssignmentAgrees == \A o \in Orders : Agrees(orders[o])

Accounts(row) ==
  LET offers == Cardinality(row.attempted) IN
    /\ row.status = "PENDING" =>
         row.attempts = 2 * offers /\ row.attempts < MaxAttempts
    /\ row.assigned # None =>
         row.attempts = 2 * offers - 1 /\ row.attempts <= MaxAttempts
    /\ row.status = "EXPIRED" =>
         /\ row.attempts \in {2 * offers, 2 * offers + 1}
         /\ row.attempts <= MaxAttempts + 1

\* What dispatch_attempts counts: one for the offer and one for its end, one
\* more for giving up.  A pending order always has an attempt left, so that
\* the budget test at the head of handleAssignDriver never decides.
AttemptAccounting == \A o \in Orders : Accounts(orders[o])

\* The customer is told that a driver is coming only about an order that a
\* driver accepted, however late the message leaves.
ArrivalNoticeTrue ==
  \A o \in Orders :
    notified[o] = "DRIVER_ARRIVING" =>
      /\ orders[o].status \notin {"PENDING", "DRIVER_ASSIGNED", "EXPIRED"}
      /\ orders[o].assigned # None

\* An offer that its driver can still answer.
OpenOffer(o) == orders[o].status = "DRIVER_ASSIGNED" /\ ~orders[o].deleted

\* With calls that reopen nothing and nothing failing: an open offer has its
\* timer, or the worker that made it is about to create the timer.
OfferHasTimer ==
  \A o \in Orders :
    OpenOffer(o) =>
      LET j == TimeoutJob(o, orders[o].assigned) IN
        \/ queue[j] \in {"delayed", "waiting", "active"}
        \/ \E w \in Workers : /\ workers[w].pc = "arm"
                              /\ workers[w].job = AssignJob(o)
                              /\ workers[w].driver = orders[o].assigned

-----------------------------------------------------------------------------
(* What a step may never do *)

\* Each change of a status leaves one audit entry, and the entry names the
\* status that the row had and has, although updateStatus and reassignOrder
\* write what they read before their transaction.
AuditExact ==
  [][\A o \in Orders :
       \/ orders'[o].status = orders[o].status /\ history'[o] = history[o]
       \/ history'[o] = [prev |-> orders[o].status,
                         new |-> orders'[o].status]]_vars

\* Every write to a row but a deletion moves its version by one, so a call
\* that read an older row cannot write over it.
EveryWriteVersioned ==
  [][\A o \in Orders :
       [orders'[o] EXCEPT !.deleted = orders[o].deleted] # orders[o] =>
         orders'[o].version = orders[o].version + 1]_vars

\* Nothing in progress changes an order after its deletion.
DeletedRowFrozen ==
  [][\A o \in Orders : orders[o].deleted => orders'[o] = orders[o]]_vars

\* Between two reopenings no driver is offered the same order twice: an offer
\* goes to a driver the order does not remember, and is remembered until the
\* order is reopened.  Two workers may be at the same assignment job.
NoRepeatOffer ==
  [][\A o \in Orders :
       /\ orders'[o].assigned \notin {None, orders[o].assigned} =>
            orders'[o].assigned \in orders'[o].attempted \ orders[o].attempted
       /\ \/ orders[o].attempted \subseteq orders'[o].attempted
          \/ orders[o].status = "EXPIRED" /\ orders'[o].status = "PENDING"]_vars

\* "Stale timeout for a previous assignment": a timeout ends the offer that
\* its job was created for, and no other.
StaleTimeoutSkipped ==
  [][\A w \in Workers :
       RevokeOffer(w) /\ orders' # orders =>
         armedFor[workers[w].job] = orders[OrderOf(w)].version]_vars

\* The services implement the lifecycle they promise.
Lifecycle ==
  INSTANCE OrderLifecycle WITH
    life <- [o \in Orders |-> [status |-> orders[o].status,
                               assigned |-> orders[o].assigned]]

ImplementsLifecycle == Lifecycle!Spec

-----------------------------------------------------------------------------
(* Liveness *)

\* An offer does not last for ever, whatever its driver does.
OfferResolved ==
  \A o \in Orders :
    orders[o].status = "DRIVER_ASSIGNED"
      ~> orders[o].status # "DRIVER_ASSIGNED" \/ orders[o].deleted

\* Every new order is offered, given up, cancelled or deleted.
NewOrderTakenUp ==
  \A o \in Orders :
    orders[o].version = 1 ~> orders[o].version > 1 \/ orders[o].deleted

\* No handler and no call hangs.
HandlersFinish ==
  /\ \A w \in Workers : []<>(workers[w].pc = "idle")
  /\ \A r \in Requests : []<>(requests[r].pc = "idle")

-----------------------------------------------------------------------------
(* What comments, messages and the README say *)

\* After a rejection "Reassigning another driver": the order is offered to
\* another driver, given up or cancelled.
RejectedIsReassigned ==
  \A o \in Orders :
    (orders[o].status = "PENDING" /\ orders[o].attempts > 0)
      ~> orders[o].status # "PENDING" \/ orders[o].deleted

=============================================================================
