--------------------------- MODULE DispatchProofs ---------------------------
(***************************************************************************)
(* Proofs about Dispatch, for any number of orders, drivers, workers and   *)
(* calls, any budget and any bounds.                                       *)
(***************************************************************************)
EXTENDS Dispatch, FiniteSetTheorems, TLAPS

-----------------------------------------------------------------------------
(* The operators the actions are built from *)

\* Job ids are jobs.
LEMMA JobTypes ==
  /\ \A o \in Orders : AssignJob(o) \in Jobs
  /\ \A o \in Orders, d \in Drivers : TimeoutJob(o, d) \in TimeoutJobs
  /\ TimeoutJobs \subseteq Jobs
  /\ \A j \in Jobs : j.order \in Orders
BY DEF AssignJob, TimeoutJob, AssignJobs, TimeoutJobs, Jobs

\* Adding a job, or changing its state, leaves a queue a queue.
LEMMA QueueOps ==
  ASSUME NEW q \in [Jobs -> JobStates], NEW j, NEW s \in JobStates
  PROVE  /\ AddJob(q, j, s) \in [Jobs -> JobStates]
         /\ [q EXCEPT ![j] = s] \in [Jobs -> JobStates]
BY DEF AddJob, JobStates

\* Removing a job leaves a queue a queue.
LEMMA QueueRemove ==
  ASSUME NEW q \in [Jobs -> JobStates], NEW j
  PROVE  RemoveJob(q, j) \in [Jobs -> JobStates]
BY DEF RemoveJob, JobStates

\* What the transactions write is a row of the table.
LEMMA RowOps ==
  ASSUME NEW row \in Row
  PROVE  /\ \A d \in Drivers : Offered(row, d) \in Row
         /\ Expired(row) \in Row
         /\ Revoked(row) \in Row
         /\ \A d \in Drivers : Rejected(row, d) \in Row
         /\ Accepted(row) \in Row
         /\ \A s \in OrderStatus, v \in Nat : Moved(row, s, v) \in Row
         /\ \A v \in Nat : Reopened(row, v) \in Row
         /\ [row EXCEPT !.deleted = TRUE] \in Row
<1>1. {"PENDING", "DRIVER_ASSIGNED", "DRIVER_ARRIVING", "EXPIRED"}
        \subseteq OrderStatus
  BY DEF OrderStatus
<1>2. /\ row.attempted \in SUBSET Drivers
      /\ {} \in SUBSET Drivers
      /\ row.attempts + 1 \in Nat
      /\ row.version + 1 \in Nat
      /\ 0 \in Nat
  BY DEF Row
<1>3. None \in MaybeDriver
  BY DEF MaybeDriver
<1>4. ASSUME NEW d \in Drivers
      PROVE  Offered(row, d) \in Row /\ Rejected(row, d) \in Row
  <2>1. d \in MaybeDriver /\ row.attempted \cup {d} \in SUBSET Drivers
    BY <1>2 DEF MaybeDriver
  <2>2. Offered(row, d) \in Row
    BY <1>1, <1>2, <2>1 DEF Offered, Row
  <2>3. Rejected(row, d) \in Row
    BY <1>1, <1>2, <1>3, <2>1 DEF Rejected, Revoked, Row
  <2> QED BY <2>2, <2>3
<1>5. Expired(row) \in Row
  BY <1>1, <1>2, <1>3 DEF Expired, Row
<1>6. Revoked(row) \in Row
  BY <1>1, <1>2, <1>3 DEF Revoked, Row
<1>7. Accepted(row) \in Row
  BY <1>1, <1>2 DEF Accepted, Row
<1>8. ASSUME NEW s \in OrderStatus, NEW v \in Nat PROVE Moved(row, s, v) \in Row
  <2>1. v + 1 \in Nat
    OBVIOUS
  <2> QED BY <2>1 DEF Moved, Row
<1>9. ASSUME NEW v \in Nat PROVE Reopened(row, v) \in Row
  <2>1. v + 1 \in Nat
    OBVIOUS
  <2> QED BY <1>1, <1>2, <1>3, <2>1 DEF Reopened, Row
<1>10. [row EXCEPT !.deleted = TRUE] \in Row
  BY DEF Row
<1> QED BY <1>4, <1>5, <1>6, <1>7, <1>8, <1>9, <1>10

-----------------------------------------------------------------------------
(* What handlers and calls carry from one await to the next *)

\* A handler at work has a job, a call at work has an order.
Targeted ==
  /\ \A w \in Workers : workers[w].pc # "idle" => workers[w].job \in Jobs
  /\ \A r \in Requests : requests[r].pc # "idle" => requests[r].order \in Orders

\* A call between its read and its write asks for a legal step from what it
\* read; if the version still matches, the row still is what it read.
Current(call) ==
  LET row == orders[call.order] IN
    /\ call.pc = "update" =>
         /\ <<call.prev, call.new>> \in ORDER_TRANSITIONS
         /\ call.new \notin SystemOnly
         /\ call.version <= row.version
         /\ call.version = row.version => row.status = call.prev
    /\ call.pc = "reopen" =>
         /\ call.version <= row.version
         /\ call.version = row.version => row.status = "EXPIRED"

ReadsCurrent == \A r \in Requests : Current(requests[r])

IndInv == TypeOK /\ Targeted /\ ReadsCurrent /\ AssignmentAgrees

\* One write of the two services to a row.
LegalWrite(old, row) ==
  /\ ~old.deleted
  /\ \/ /\ old.status = "PENDING"
        /\ \/ \E d \in Drivers \ old.attempted : row = Offered(old, d)
           \/ row = Expired(old)
     \/ /\ old.status = "DRIVER_ASSIGNED"
        /\ \/ row = Revoked(old)
           \/ \E d \in Drivers : d = old.assigned /\ row = Rejected(old, d)
           \/ row = Accepted(old)
     \/ \E s \in OrderStatus \ SystemOnly :
          /\ <<old.status, s>> \in ORDER_TRANSITIONS
          /\ row = Moved(old, s, old.version)
     \/ /\ old.status = "EXPIRED"
        /\ row = Reopened(old, old.version)

\* Only a call that reassigns writes over an expired order.
ReopensOnly(row) ==
  row.status = "EXPIRED" => \E r \in Requests : requests[r].pc = "reopen"

\* What any step does to the row and the newest audit entry of an order.
RowStep(o) ==
  \/ orders'[o] = orders[o] /\ history'[o] = history[o]
  \/ /\ orders'[o] = [orders[o] EXCEPT !.deleted = TRUE]
     /\ history'[o] = history[o]
  \/ /\ LegalWrite(orders[o], orders'[o])
     /\ ReopensOnly(orders[o])
     /\ history'[o] = [prev |-> orders[o].status, new |-> orders'[o].status]

\* Saving a legal write is such a step, and so is leaving the tables alone.
LEMMA SaveIsRowStep ==
  ASSUME TypeOK, NEW p \in Orders, NEW row, LegalWrite(orders[p], row),
         ReopensOnly(orders[p]), Save(p, row, orders[p].status)
  PROVE  \A o \in Orders : RowStep(o)
<1>1. /\ \A o \in Orders : orders'[o] = IF o = p THEN row ELSE orders[o]
      /\ \A o \in Orders :
           history'[o] = IF o = p
                           THEN [prev |-> orders[p].status, new |-> row.status]
                           ELSE history[o]
  BY DEF Save, TypeOK
<1> QED BY <1>1 DEF RowStep

\* Leaving the tables alone is such a step too.
LEMMA UnchangedIsRowStep ==
  UnchangedTables => \A o \in Orders : RowStep(o)
BY DEF UnchangedTables, RowStep

\* The worker's transactions test what they write on the row they lock.
LEMMA WorkerRowStep ==
  ASSUME TypeOK, Targeted, NEW w \in Workers, WorkerStep(w)
  PROVE  \A o \in Orders : RowStep(o)
<1>1. ASSUME workers[w].pc # "idle" PROVE OrderOf(w) \in Orders
  BY <1>1, JobTypes DEF Targeted, OrderOf
<1>2. CASE assignDriverWithLock(w)
  <2> DEFINE o == OrderOf(w)
  <2>1. o \in Orders
    BY <1>1, <1>2 DEF assignDriverWithLock
  <2>2. PICK d \in workers[w].found \ orders[o].attempted :
          Save(o, Offered(orders[o], d), orders[o].status)
    BY <1>2 DEF assignDriverWithLock
  <2>3. d \in Drivers
    BY DEF TypeOK, Worker
  <2>4. LegalWrite(orders[o], Offered(orders[o], d)) /\ ReopensOnly(orders[o])
    BY <1>2, <2>2, <2>3
       DEF assignDriverWithLock, shouldSkipAssignment, LegalWrite, ReopensOnly
  <2> QED BY <2>1, <2>2, <2>4, SaveIsRowStep
<1>3. CASE expireOrder(w)
  <2> DEFINE o == OrderOf(w)
  <2>1. o \in Orders
    BY <1>1, <1>3 DEF expireOrder
  <2>2. CASE orders[o].deleted \/ shouldSkipAssignment(orders[o])
    BY <1>3, <2>2, UnchangedIsRowStep DEF expireOrder
  <2>3. CASE ~(orders[o].deleted \/ shouldSkipAssignment(orders[o]))
    <3>1. Save(o, Expired(orders[o]), orders[o].status)
      BY <1>3, <2>3 DEF expireOrder
    <3>2. LegalWrite(orders[o], Expired(orders[o])) /\ ReopensOnly(orders[o])
      BY <2>3 DEF shouldSkipAssignment, LegalWrite, ReopensOnly
    <3> QED BY <2>1, <3>1, <3>2, SaveIsRowStep
  <2> QED BY <2>2, <2>3
<1>4. CASE RevokeOffer(w)
  <2> DEFINE o == OrderOf(w)
             d == workers[w].job.driver
  <2>1. o \in Orders
    BY <1>1, <1>4 DEF RevokeOffer
  <2>2. CASE TimeoutApplies(orders[o], d)
    <3>1. Save(o, Revoked(orders[o]), orders[o].status)
      BY <1>4, <2>2 DEF RevokeOffer
    <3>2. LegalWrite(orders[o], Revoked(orders[o])) /\ ReopensOnly(orders[o])
      BY <2>2 DEF TimeoutApplies, LegalWrite, ReopensOnly
    <3> QED BY <2>1, <3>1, <3>2, SaveIsRowStep
  <2>3. CASE ~TimeoutApplies(orders[o], d)
    BY <1>4, <2>3, UnchangedIsRowStep DEF RevokeOffer
  <2> QED BY <2>2, <2>3
<1>5. CASE \/ ReadOrder(w) \/ findNearestEligibleDrivers(w)
           \/ NoDriverLocked(w) \/ NoticeExpired(w) \/ ArmTimeout(w)
           \/ SetTimeoutKey(w) \/ DropTimeoutKey(w) \/ Retrigger(w)
           \/ FinishJob(w)
  BY <1>5, UnchangedIsRowStep
     DEF ReadOrder, findNearestEligibleDrivers, NoDriverLocked, NoticeExpired,
         ArmTimeout, SetTimeoutKey, DropTimeoutKey, Retrigger, FinishJob
<1> QED BY <1>2, <1>3, <1>4, <1>5 DEF WorkerStep

\* A call that starts by writing tests the row it locks.
LEMMA NewCallRowStep ==
  ASSUME TypeOK, NEW r \in Requests, NewCall(r)
  PROVE  \A o \in Orders : RowStep(o)
<1>1. ASSUME NEW o \in Orders, NEW d \in Drivers, Accept(r, o, d)
      PROVE  \A p \in Orders : RowStep(p)
  <2>1. LegalWrite(orders[o], Accepted(orders[o])) /\ ReopensOnly(orders[o])
    BY <1>1 DEF Accept, AwaitsAnswerOf, LegalWrite, ReopensOnly
  <2> QED BY <1>1, <2>1, SaveIsRowStep DEF Accept
<1>2. ASSUME NEW o \in Orders, NEW d \in Drivers, Reject(r, o, d)
      PROVE  \A p \in Orders : RowStep(p)
  <2>1. LegalWrite(orders[o], Rejected(orders[o], d)) /\ ReopensOnly(orders[o])
    BY <1>2 DEF Reject, AwaitsAnswerOf, LegalWrite, ReopensOnly
  <2> QED BY <1>2, <2>1, SaveIsRowStep DEF Reject
<1>3. ASSUME NEW o \in Orders,
             \/ \E s \in OrderStatus, user \in Users :
                  ReadForUpdate(r, o, s, user)
             \/ ReadForReassign(r, o)
             \/ ReadForDelete(r, o)
      PROVE  \A p \in Orders : RowStep(p)
  BY <1>3, UnchangedIsRowStep DEF ReadForUpdate, ReadForReassign, ReadForDelete
<1> QED BY <1>1, <1>2, <1>3 DEF NewCall

\* A call that writes what it decided on an earlier read writes over that
\* read or not at all.
LEMMA RequestRowStep ==
  ASSUME TypeOK, Targeted, ReadsCurrent, NEW r \in Requests, RequestStep(r)
  PROVE  \A o \in Orders : RowStep(o)
<1> DEFINE o == Target(r)
           call == requests[r]
<1>1. ASSUME requests[r].pc # "idle" PROVE o \in Orders
  BY <1>1 DEF Targeted, Target
<1>2. CASE CommitUpdate(r)
  <2>1. o \in Orders
    BY <1>1, <1>2 DEF CommitUpdate
  <2>2. CASE StillAt(orders[o], call.version)
    <3>1. /\ orders[o].version = call.version
          /\ orders[o].status = call.prev
          /\ <<call.prev, call.new>> \in ORDER_TRANSITIONS
          /\ call.new \notin SystemOnly
      BY <1>2, <2>2 DEF CommitUpdate, StillAt, ReadsCurrent, Current, Target
    <3>2. call.new \in OrderStatus
      BY <3>1 DEF ORDER_TRANSITIONS, OrderStatus
    <3>3. Save(o, Moved(orders[o], call.new, orders[o].version),
               orders[o].status)
      BY <1>2, <2>2, <3>1 DEF CommitUpdate
    <3>4. LegalWrite(orders[o], Moved(orders[o], call.new, orders[o].version))
      BY <2>2, <3>1, <3>2 DEF StillAt, LegalWrite
    <3>5. ReopensOnly(orders[o])
      BY <3>1 DEF ORDER_TRANSITIONS, ReopensOnly
    <3> QED BY <2>1, <3>3, <3>4, <3>5, SaveIsRowStep
  <2>3. CASE ~StillAt(orders[o], call.version)
    BY <1>2, <2>3, UnchangedIsRowStep DEF CommitUpdate
  <2> QED BY <2>2, <2>3
<1>3. CASE CommitReopen(r)
  <2>1. o \in Orders
    BY <1>1, <1>3 DEF CommitReopen
  <2>2. CASE StillAt(orders[o], call.version)
    <3>1. /\ orders[o].version = call.version
          /\ orders[o].status = "EXPIRED"
      BY <1>3, <2>2 DEF CommitReopen, StillAt, ReadsCurrent, Current, Target
    <3>2. Save(o, Reopened(orders[o], orders[o].version), orders[o].status)
      BY <1>3, <2>2, <3>1 DEF CommitReopen
    <3>3. LegalWrite(orders[o], Reopened(orders[o], orders[o].version))
      BY <2>2, <3>1 DEF StillAt, LegalWrite
    <3>4. ReopensOnly(orders[o])
      BY <1>3 DEF CommitReopen, ReopensOnly
    <3> QED BY <2>1, <3>2, <3>3, <3>4, SaveIsRowStep
  <2>3. CASE ~StillAt(orders[o], call.version)
    BY <1>3, <2>3, UnchangedIsRowStep DEF CommitReopen
  <2> QED BY <2>2, <2>3
<1>4. CASE CommitDelete(r)
  <2>1. /\ \A p \in Orders :
             orders'[p] = IF p = o THEN [orders[o] EXCEPT !.deleted = TRUE]
                                   ELSE orders[p]
        /\ history' = history
    BY <1>4 DEF CommitDelete, TypeOK
  <2> QED BY <2>1 DEF RowStep
<1>5. CASE \/ GetTimeoutKey(r) \/ RemoveTimeoutJob(r) \/ DeleteTimeoutKey(r)
           \/ Announce(r) \/ Trigger(r)
  BY <1>5, UnchangedIsRowStep
     DEF GetTimeoutKey, RemoveTimeoutJob, DeleteTimeoutKey, Announce, Trigger
<1> QED BY <1>2, <1>3, <1>4, <1>5 DEF RequestStep

\* Every step of the system is a RowStep of every order.
LEMMA NextRowStep ==
  ASSUME TypeOK, Targeted, ReadsCurrent, [Next]_vars
  PROVE  \A o \in Orders : RowStep(o)
<1>1. CASE UNCHANGED vars
  BY <1>1, UnchangedIsRowStep DEF vars, UnchangedTables
<1>2. ASSUME NEW o \in Orders,
             \/ OutboxTrigger(o) \/ OutboxSave(o)
             \/ OutboxRetrigger(o) \/ KeyExpires(o)
      PROVE  \A p \in Orders : RowStep(p)
  BY <1>2, UnchangedIsRowStep
     DEF OutboxTrigger, OutboxSave, OutboxRetrigger, KeyExpires
<1>3. ASSUME NEW j \in Jobs, TimeoutElapses(j) \/ Evict(j)
      PROVE  \A p \in Orders : RowStep(p)
  BY <1>3, UnchangedIsRowStep DEF TimeoutElapses, Evict
<1>4. ASSUME NEW w \in Workers,
             (\E j \in Jobs : TakeJob(w, j)) \/ WorkerFails(w) \/ JobStalls(w)
      PROVE  \A p \in Orders : RowStep(p)
  BY <1>4, UnchangedIsRowStep DEF TakeJob, WorkerFails, JobStalls
<1>5. ASSUME NEW r \in Requests, RequestFails(r)
      PROVE  \A p \in Orders : RowStep(p)
  BY <1>5, UnchangedIsRowStep DEF RequestFails
<1> QED
  BY <1>1, <1>2, <1>3, <1>4, <1>5, JobTypes,
     WorkerRowStep, NewCallRowStep, RequestRowStep DEF Next

-----------------------------------------------------------------------------
(* What such a step keeps *)

\* A legal write moves the version by one and keeps the two columns agreed.
LEMMA WriteEffects ==
  ASSUME NEW old \in Row, NEW row, Agrees(old), LegalWrite(old, row)
  PROVE  /\ row \in Row
         /\ row.version = old.version + 1
         /\ row.deleted = old.deleted
         /\ Agrees(row)
<1>1. CASE \E d \in Drivers \ old.attempted : row = Offered(old, d)
  <2>1. PICK d \in Drivers \ old.attempted : row = Offered(old, d)
    BY <1>1
  <2>2. row \in Row
    BY <2>1, RowOps
  <2>3. row.version = old.version + 1 /\ row.deleted = old.deleted
    BY <2>1 DEF Offered, Row
  <2>4. Agrees(row)
    BY <2>1, NoneAssumption DEF Offered, Row, Agrees, Unassigned
  <2> QED BY <2>2, <2>3, <2>4
<1>2. CASE row = Expired(old)
  <2>1. row \in Row
    BY <1>2, RowOps
  <2>2. row.version = old.version + 1 /\ row.deleted = old.deleted
    BY <1>2 DEF Expired, Row
  <2>3. Agrees(row)
    BY <1>2 DEF Expired, Row, Agrees, Unassigned
  <2> QED BY <2>1, <2>2, <2>3
<1>3. CASE row = Revoked(old)
  <2>1. row \in Row
    BY <1>3, RowOps
  <2>2. row.version = old.version + 1 /\ row.deleted = old.deleted
    BY <1>3 DEF Revoked, Row
  <2>3. Agrees(row)
    BY <1>3 DEF Revoked, Row, Agrees, Unassigned
  <2> QED BY <2>1, <2>2, <2>3
<1>4. CASE \E d \in Drivers : row = Rejected(old, d)
  <2>1. PICK d \in Drivers : row = Rejected(old, d)
    BY <1>4
  <2>2. row \in Row
    BY <2>1, RowOps
  <2>3. row.version = old.version + 1 /\ row.deleted = old.deleted
    BY <2>1 DEF Rejected, Revoked, Row
  <2>4. Agrees(row)
    BY <2>1 DEF Rejected, Revoked, Row, Agrees, Unassigned
  <2> QED BY <2>2, <2>3, <2>4
<1>5. CASE old.status = "DRIVER_ASSIGNED" /\ row = Accepted(old)
  <2>1. row \in Row
    BY <1>5, RowOps
  <2>2. row.version = old.version + 1 /\ row.deleted = old.deleted
    BY <1>5 DEF Accepted, Row
  <2>3. Agrees(row)
    BY <1>5 DEF Accepted, Row, Agrees, Unassigned
  <2> QED BY <2>1, <2>2, <2>3
<1>6. CASE \E s \in OrderStatus \ SystemOnly :
             /\ <<old.status, s>> \in ORDER_TRANSITIONS
             /\ row = Moved(old, s, old.version)
  <2>1. PICK s \in OrderStatus \ SystemOnly :
               /\ <<old.status, s>> \in ORDER_TRANSITIONS
               /\ row = Moved(old, s, old.version)
    BY <1>6
  <2>2. row \in Row
    BY <2>1, RowOps DEF Row
  <2>3. /\ row.version = old.version + 1
        /\ row.deleted = old.deleted
        /\ row.assigned = old.assigned
        /\ row.attempted = old.attempted
        /\ row.status = s
    BY <2>1 DEF Moved, Row
  <2>4. \/ s = "CANCELLED"
        \/ old.status \notin Unassigned \cup {"CANCELLED"}
           /\ s \notin Unassigned \cup {"CANCELLED"}
    BY <2>1 DEF ORDER_TRANSITIONS, SystemOnly, Unassigned
  <2>5. Agrees(row)
    BY <2>3, <2>4 DEF Agrees, Unassigned
  <2> QED BY <2>2, <2>3, <2>5
<1>7. CASE row = Reopened(old, old.version)
  <2>1. row \in Row
    BY <1>7, RowOps DEF Row
  <2>2. row.version = old.version + 1 /\ row.deleted = old.deleted
    BY <1>7 DEF Reopened, Row
  <2>3. Agrees(row)
    BY <1>7 DEF Reopened, Row, Agrees, Unassigned
  <2> QED BY <2>1, <2>2, <2>3
<1> QED
  BY <1>1, <1>2, <1>3, <1>4, <1>5, <1>6, <1>7 DEF LegalWrite

\* What a step does to a row, seen from the invariant.
LEMMA RowStepEffects ==
  ASSUME TypeOK, AssignmentAgrees, NEW o \in Orders, RowStep(o)
  PROVE  /\ orders'[o] \in Row
         /\ Agrees(orders'[o])
         /\ orders[o].version <= orders'[o].version
         /\ orders'[o].version = orders[o].version =>
              orders'[o].status = orders[o].status
<1>1. orders[o] \in Row /\ Agrees(orders[o]) /\ orders[o].version \in Nat
  BY DEF TypeOK, AssignmentAgrees, Row
<1>2. CASE orders'[o] = orders[o]
  BY <1>1, <1>2
<1>3. CASE orders'[o] = [orders[o] EXCEPT !.deleted = TRUE]
  <2>1. orders'[o] \in Row
    BY <1>1, <1>3, RowOps
  <2>2. /\ orders'[o].status = orders[o].status
        /\ orders'[o].assigned = orders[o].assigned
        /\ orders'[o].attempted = orders[o].attempted
        /\ orders'[o].version = orders[o].version
    BY <1>1, <1>3 DEF Row
  <2> QED BY <1>1, <2>1, <2>2 DEF Agrees
<1>4. CASE LegalWrite(orders[o], orders'[o])
  BY <1>1, <1>4, WriteEffects
<1> QED BY <1>2, <1>3, <1>4 DEF RowStep

-----------------------------------------------------------------------------
(* Type correctness *)

WorkersOK ==
  /\ workers \in [Workers -> Worker]
  /\ \A w \in Workers : workers[w].pc # "idle" => workers[w].job \in Jobs

RequestsOK ==
  /\ requests \in [Requests -> Request]
  /\ \A r \in Requests : requests[r].pc # "idle" => requests[r].order \in Orders

TablesOK ==
  /\ orders \in [Orders -> Row]
  /\ history \in [Orders -> [prev : OrderStatus \cup {None}, new : OrderStatus]]

RestOK ==
  /\ outbox \in [Orders -> {"PENDING", "SENT", "PROCESSED"}]
  /\ queue \in [Jobs -> JobStates]
  /\ timeoutKey \in [Orders -> MaybeDriver]
  /\ notified \in [Orders -> OrderStatus \cup {None}]
  /\ faults \in 0 .. FaultBound
  /\ armedFor \in [TimeoutJobs -> Nat]

\* The invariant in the pieces that the actions change together.
LEMMA Pieces ==
  ASSUME TypeOK, Targeted
  PROVE  TablesOK /\ WorkersOK /\ RequestsOK /\ RestOK
BY DEF TypeOK, Targeted, TablesOK, WorkersOK, RequestsOK, RestOK

\* ... and put together again.
LEMMA Assemble ==
  ASSUME TablesOK', WorkersOK', RequestsOK', RestOK'
  PROVE  TypeOK' /\ Targeted'
BY DEF TypeOK, Targeted, TablesOK, WorkersOK, RequestsOK, RestOK

\* A piece that is left alone stays right.
LEMMA TablesKept == TablesOK /\ UnchangedTables => TablesOK'
BY DEF TablesOK, UnchangedTables

\* The workers stay right when a step leaves them alone.
LEMMA WorkersKept == WorkersOK /\ workers' = workers => WorkersOK'
BY DEF WorkersOK

\* The calls stay right when a step leaves them alone.
LEMMA RequestsKept == RequestsOK /\ requests' = requests => RequestsOK'
BY DEF RequestsOK

\* A transaction that saves a row keeps the tables right.
LEMMA SaveOK ==
  ASSUME TablesOK, NEW o \in Orders, NEW row \in Row,
         NEW prev \in OrderStatus \cup {None}, Save(o, row, prev)
  PROVE  TablesOK'
<1>1. row.status \in OrderStatus
  BY DEF Row
<1> QED BY <1>1 DEF TablesOK, Save

\* A handler that goes on with good locals keeps the workers right.
LEMMA ContinueOK ==
  ASSUME WorkersOK, NEW w \in Workers, NEW locals \in Worker,
         locals.pc # "idle" => locals.job \in Jobs, Continue(w, locals)
  PROVE  WorkersOK'
BY DEF WorkersOK, Continue

\* So does one that only changes its step.
LEMMA GoToOK ==
  ASSUME WorkersOK, NEW w \in Workers, workers[w].pc # "idle",
         NEW step \in WorkerSteps, GoTo(w, step)
  PROVE  WorkersOK'
<1> DEFINE locals == [workers[w] EXCEPT !.pc = step]
<1>1. locals \in Worker /\ locals.job = workers[w].job
  BY DEF WorkersOK, Worker
<1> QED BY <1>1, ContinueOK DEF GoTo, WorkersOK

\* A call that goes on with good locals keeps the calls right.
LEMMA ProceedOK ==
  ASSUME RequestsOK, NEW r \in Requests, NEW locals \in Request,
         locals.pc # "idle" => locals.order \in Orders, Proceed(r, locals)
  PROVE  RequestsOK'
BY DEF RequestsOK, Proceed

\* So does one that only changes its step.
LEMMA AdvanceToOK ==
  ASSUME RequestsOK, NEW r \in Requests, requests[r].pc # "idle",
         NEW step \in RequestSteps, AdvanceTo(r, step)
  PROVE  RequestsOK'
<1> DEFINE locals == [requests[r] EXCEPT !.pc = step]
<1>1. locals \in Request /\ locals.order = requests[r].order
  BY DEF RequestsOK, Request
<1> QED BY <1>1, ProceedOK DEF AdvanceTo, RequestsOK

\* The locals of nobody at work are locals.
LEMMA IdleLocals == IdleWorker \in Worker /\ IdleRequest \in Request
BY DEF IdleWorker, IdleRequest, Worker, Request, WorkerSteps, RequestSteps,
       MaybeDriver

\* The edits of a worker's locals.
LEMMA EditFound ==
  ASSUME NEW l \in Worker, NEW step \in WorkerSteps, NEW f \in SUBSET Drivers
  PROVE  /\ [l EXCEPT !.pc = step, !.found = f] \in Worker
         /\ [l EXCEPT !.pc = step, !.found = f].job = l.job
BY DEF Worker

\* The locals once a driver has been offered the order ...
LEMMA EditOffer ==
  ASSUME NEW l \in Worker, NEW d \in MaybeDriver, NEW v \in Nat
  PROVE  /\ [l EXCEPT !.pc = "arm", !.driver = d, !.found = {},
                      !.version = v] \in Worker
         /\ [l EXCEPT !.pc = "arm", !.driver = d, !.found = {},
                      !.version = v].job = l.job
<1>1. "arm" \in WorkerSteps /\ {} \in SUBSET Drivers
  BY DEF WorkerSteps
<1> QED BY <1>1 DEF Worker

\* ... and once an offer has been revoked.
LEMMA EditOutcome ==
  ASSUME NEW l \in Worker, NEW out \in {None, "EXPIRED", "PENDING"}
  PROVE  /\ [l EXCEPT !.pc = "dropKey", !.outcome = out] \in Worker
         /\ [l EXCEPT !.pc = "dropKey", !.outcome = out].job = l.job
<1>1. "dropKey" \in WorkerSteps
  BY DEF WorkerSteps
<1> QED BY <1>1 DEF Worker

\* The state reached by a step of a worker has the right types.
LEMMA WorkerTypes ==
  ASSUME TypeOK, Targeted, NEW w \in Workers, WorkerStep(w)
  PROVE  TypeOK' /\ Targeted'
<1> DEFINE o == OrderOf(w)
           l == workers[w]
<1>1. TablesOK /\ WorkersOK /\ RequestsOK /\ RestOK
  BY Pieces
<1>2. RequestsOK'
  <2>1. requests' = requests
    BY DEF WorkerStep, ReadOrder, findNearestEligibleDrivers,
           assignDriverWithLock, NoDriverLocked, expireOrder, NoticeExpired,
           ArmTimeout, SetTimeoutKey, RevokeOffer, DropTimeoutKey, Retrigger,
           FinishJob, UnchangedByWorkers
  <2> QED BY <1>1, <2>1, RequestsKept
<1>3. l.pc # "idle"
  BY DEF WorkerStep, ReadOrder, findNearestEligibleDrivers,
         assignDriverWithLock, NoDriverLocked, expireOrder, NoticeExpired,
         ArmTimeout, SetTimeoutKey, RevokeOffer, DropTimeoutKey, Retrigger,
         FinishJob
<1>4. /\ l \in Worker /\ l.job \in Jobs /\ o \in Orders
      /\ orders[o] \in Row
      /\ orders[o].attempted \in SUBSET Drivers
      /\ orders[o].version + 1 \in Nat
      /\ orders[o].status \in OrderStatus \cup {None}
      /\ l.found \in SUBSET Drivers
      /\ l.driver \in MaybeDriver
      /\ l.version \in Nat
  BY <1>1, <1>3, JobTypes DEF WorkersOK, TablesOK, OrderOf, Worker, Row
<1>5. TablesOK'
  <2>1. CASE UnchangedTables
    BY <1>1, <2>1, TablesKept
  <2>2. CASE assignDriverWithLock(w)
    BY <1>1, <1>4, <2>2, RowOps, SaveOK DEF assignDriverWithLock
  <2>3. CASE Save(o, Expired(orders[o]), orders[o].status)
    BY <1>1, <1>4, <2>3, RowOps, SaveOK
  <2>4. CASE Save(o, Revoked(orders[o]), orders[o].status)
    BY <1>1, <1>4, <2>4, RowOps, SaveOK
  <2> QED
    BY <2>1, <2>2, <2>3, <2>4
       DEF WorkerStep, ReadOrder, findNearestEligibleDrivers, NoDriverLocked,
           expireOrder, NoticeExpired, ArmTimeout, SetTimeoutKey, RevokeOffer,
           DropTimeoutKey, Retrigger, FinishJob
<1>6. WorkersOK'
  <2>1. CASE ReadOrder(w)
    <3> DEFINE step == AfterRead(orders[o])
               found == IF step = "find" THEN orders[o].attempted ELSE {}
    <3>1. step \in WorkerSteps /\ found \in SUBSET Drivers
      BY <1>4 DEF AfterRead, WorkerSteps
    <3>2. Continue(w, [l EXCEPT !.pc = step, !.found = found])
      BY <2>1 DEF ReadOrder
    <3> HIDE DEF step, found
    <3> QED BY <1>1, <1>4, <3>1, <3>2, EditFound, ContinueOK
  <2>2. CASE findNearestEligibleDrivers(w)
    <3>1. PICK found \in SUBSET (Drivers \ l.found) :
            Continue(w, [l EXCEPT
                           !.pc = IF found = {} THEN "expire" ELSE "lock",
                           !.found = found])
      BY <2>2 DEF findNearestEligibleDrivers
    <3> DEFINE step == IF found = {} THEN "expire" ELSE "lock"
    <3>2. step \in WorkerSteps /\ found \in SUBSET Drivers
      BY DEF WorkerSteps
    <3>3. Continue(w, [l EXCEPT !.pc = step, !.found = found])
      BY <3>1
    <3> HIDE DEF step
    <3> QED BY <1>1, <1>4, <3>2, <3>3, EditFound, ContinueOK
  <2>3. CASE assignDriverWithLock(w)
    <3> DEFINE v == orders[o].version + 1
    <3>1. PICK d \in l.found \ orders[o].attempted :
            Continue(w, [l EXCEPT !.pc = "arm", !.driver = d, !.found = {},
                                  !.version = v])
      BY <2>3 DEF assignDriverWithLock
    <3>2. d \in MaybeDriver /\ v \in Nat
      BY <1>4 DEF MaybeDriver
    <3> DEFINE new == [l EXCEPT !.pc = "arm", !.driver = d, !.found = {}, !.version = v]
    <3> HIDE DEF v
    <3>3. new \in Worker /\ new.job = l.job
      BY <1>4, <3>2, EditOffer, ZenonT(40)
    <3>4. Continue(w, new)
      BY <3>1
    <3> HIDE DEF new
    <3> QED BY <1>1, <1>4, <3>3, <3>4, ContinueOK
  <2>4. CASE NoDriverLocked(w)
    <3>1. "expire" \in WorkerSteps /\ {} \in SUBSET Drivers
      BY DEF WorkerSteps
    <3>2. Continue(w, [l EXCEPT !.pc = "expire", !.found = {}])
      BY <2>4 DEF NoDriverLocked
    <3> QED BY <1>1, <1>4, <3>1, <3>2, EditFound, ContinueOK
  <2>5. CASE RevokeOffer(w) /\ ~GoTo(w, "finish")
    <3> DEFINE out == Revoked(orders[o]).status
    <3>1. Continue(w, [l EXCEPT !.pc = "dropKey", !.outcome = out])
      BY <2>5 DEF RevokeOffer
    <3>2. out \in {None, "EXPIRED", "PENDING"}
      BY <1>4 DEF Revoked, Row
    <3> HIDE DEF out
    <3> QED BY <1>1, <1>4, <3>1, <3>2, EditOutcome, ContinueOK
  <2>6. CASE FinishJob(w)
    BY <1>1, <2>6, IdleLocals, ContinueOK DEF FinishJob, IdleWorker
  <2>7. CASE \E step \in WorkerSteps : GoTo(w, step)
    BY <1>1, <1>3, <2>7, GoToOK
  <2>8. {"finish", "notice", "setKey", "retrigger"} \subseteq WorkerSteps
    BY DEF WorkerSteps
  <2> QED
    BY <2>1, <2>2, <2>3, <2>4, <2>5, <2>6, <2>7, <2>8
       DEF WorkerStep, expireOrder, NoticeExpired, ArmTimeout, SetTimeoutKey,
           DropTimeoutKey, Retrigger
<1>7. RestOK'
  <2>1. /\ {"waiting", "delayed", "completed"} \subseteq JobStates
        /\ "EXPIRED" \in OrderStatus
        /\ None \in MaybeDriver
    BY DEF JobStates, OrderStatus, MaybeDriver
  <2>2. outbox' = outbox /\ faults' = faults
    BY DEF WorkerStep, ReadOrder, findNearestEligibleDrivers,
           assignDriverWithLock, NoDriverLocked, expireOrder, NoticeExpired,
           ArmTimeout, SetTimeoutKey, RevokeOffer, DropTimeoutKey, Retrigger,
           FinishJob, UnchangedByWorkers
  <2>3. queue' \in [Jobs -> JobStates]
    <3>1. \/ queue' = queue
          \/ \E j, s : s \in JobStates /\ queue' = AddJob(queue, j, s)
          \/ \E j : queue' = [queue EXCEPT ![j] = "completed"]
      BY <2>1
         DEF WorkerStep, ReadOrder, findNearestEligibleDrivers,
             assignDriverWithLock, NoDriverLocked, expireOrder, NoticeExpired,
             ArmTimeout, SetTimeoutKey, RevokeOffer, DropTimeoutKey, Retrigger,
             FinishJob
    <3> QED BY <1>1, <2>1, <3>1, QueueOps DEF RestOK
  <2>4. timeoutKey' \in [Orders -> MaybeDriver]
    <3>1. \/ timeoutKey' = timeoutKey
          \/ \E d \in MaybeDriver : timeoutKey' = [timeoutKey EXCEPT ![o] = d]
      BY <1>4, <2>1
         DEF WorkerStep, ReadOrder, findNearestEligibleDrivers,
             assignDriverWithLock, NoDriverLocked, expireOrder, NoticeExpired,
             ArmTimeout, SetTimeoutKey, RevokeOffer, DropTimeoutKey, Retrigger,
             FinishJob
    <3> QED BY <1>1, <3>1 DEF RestOK
  <2>5. notified' \in [Orders -> OrderStatus \cup {None}]
    <3>1. \/ notified' = notified
          \/ notified' = [notified EXCEPT ![o] = "EXPIRED"]
      BY DEF WorkerStep, ReadOrder, findNearestEligibleDrivers,
             assignDriverWithLock, NoDriverLocked, expireOrder, NoticeExpired,
             ArmTimeout, SetTimeoutKey, RevokeOffer, DropTimeoutKey, Retrigger,
             FinishJob
    <3> QED BY <1>1, <2>1, <3>1 DEF RestOK
  <2>6. armedFor' \in [TimeoutJobs -> Nat]
    <3>1. \/ armedFor' = armedFor
          \/ \E j : armedFor' = [armedFor EXCEPT ![j] = l.version]
      BY DEF WorkerStep, ReadOrder, findNearestEligibleDrivers,
             assignDriverWithLock, NoDriverLocked, expireOrder, NoticeExpired,
             ArmTimeout, SetTimeoutKey, RevokeOffer, DropTimeoutKey, Retrigger,
             FinishJob
    <3> QED BY <1>1, <1>4, <3>1 DEF RestOK
  <2> QED BY <1>1, <2>2, <2>3, <2>4, <2>5, <2>6 DEF RestOK
<1> QED BY <1>2, <1>5, <1>6, <1>7, Assemble

\* The state reached by a call that starts has the right types.
LEMMA NewCallTypes ==
  ASSUME TypeOK, Targeted, NEW r \in Requests, NewCall(r)
  PROVE  TypeOK' /\ Targeted'
<1>1. TablesOK /\ WorkersOK /\ RequestsOK /\ RestOK
  BY Pieces
<1>2. /\ UnchangedByRequests
      /\ UNCHANGED <<queue, timeoutKey, notified>>
  BY DEF NewCall, Accept, Reject, ReadForUpdate, ReadForReassign, ReadForDelete
<1>3. WorkersOK' /\ RestOK'
  BY <1>1, <1>2, WorkersKept DEF UnchangedByRequests, RestOK
<1>4. /\ \A o \in Orders :
           /\ orders[o] \in Row
           /\ orders[o].status \in OrderStatus
           /\ orders[o].version \in Nat
      /\ {"PENDING", "DRIVER_ARRIVING", "EXPIRED"} \subseteq OrderStatus
      /\ {"getKey", "trigger", "update", "reopen", "delete"}
           \subseteq RequestSteps
  BY <1>1 DEF TablesOK, Row, OrderStatus, RequestSteps
<1>5. TablesOK'
  <2>1. CASE UnchangedTables
    BY <1>1, <2>1, TablesKept
  <2>2. ASSUME NEW o \in Orders, NEW d \in Drivers, Accept(r, o, d)
        PROVE  TablesOK'
    BY <1>1, <1>4, <2>2, RowOps, SaveOK DEF Accept
  <2>3. ASSUME NEW o \in Orders, NEW d \in Drivers, Reject(r, o, d)
        PROVE  TablesOK'
    BY <1>1, <1>4, <2>3, RowOps, SaveOK DEF Reject
  <2> QED
    BY <2>1, <2>2, <2>3
       DEF NewCall, ReadForUpdate, ReadForReassign, ReadForDelete
<1>6. RequestsOK'
  <2>1. ASSUME NEW o \in Orders, NEW d \in Drivers, Accept(r, o, d)
        PROVE  RequestsOK'
    <3> DEFINE l == [IdleRequest EXCEPT !.pc = "getKey", !.order = o,
                       !.new = "DRIVER_ARRIVING"]
    <3>1. l \in Request /\ l.order = o
      BY <1>4, IdleLocals DEF Request, IdleRequest
    <3>2. Proceed(r, l)
      BY <2>1 DEF Accept
    <3> QED BY <1>1, <3>1, <3>2, ProceedOK
  <2>2. ASSUME NEW o \in Orders, NEW d \in Drivers, Reject(r, o, d)
        PROVE  RequestsOK'
    <3> DEFINE s == Rejected(orders[o], d).status
               l == [IdleRequest EXCEPT !.pc = "getKey", !.order = o, !.new = s]
    <3>1. s \in OrderStatus
      BY <1>4, RowOps DEF Row
    <3>2. Proceed(r, l)
      BY <2>2 DEF Reject
    <3>3. l \in Request /\ l.order = o
      <4> HIDE DEF s
      <4> QED BY <1>4, <3>1, IdleLocals DEF Request, IdleRequest
    <3> QED BY <1>1, <3>2, <3>3, ProceedOK
  <2>3. ASSUME NEW o \in Orders, NEW s \in OrderStatus, NEW user \in Users,
               ReadForUpdate(r, o, s, user)
        PROVE  RequestsOK'
    <3> DEFINE l == [IdleRequest EXCEPT !.pc = "update", !.order = o,
                       !.prev = orders[o].status, !.new = s,
                       !.version = orders[o].version]
    <3>1. l \in Request /\ l.order = o
      BY <1>4, IdleLocals DEF Request, IdleRequest
    <3>2. Proceed(r, l)
      BY <2>3 DEF ReadForUpdate
    <3> QED BY <1>1, <3>1, <3>2, ProceedOK
  <2>4. ASSUME NEW o \in Orders, ReadForReassign(r, o)
        PROVE  RequestsOK'
    <3> DEFINE l == [IdleRequest EXCEPT !.pc = "trigger", !.order = o]
               m == [IdleRequest EXCEPT !.pc = "reopen", !.order = o,
                       !.version = orders[o].version]
    <3>1. l \in Request /\ l.order = o /\ m \in Request /\ m.order = o
      BY <1>4, IdleLocals DEF Request, IdleRequest
    <3>2. Proceed(r, l) \/ Proceed(r, m)
      BY <2>4 DEF ReadForReassign
    <3> QED BY <1>1, <3>1, <3>2, ProceedOK
  <2>5. ASSUME NEW o \in Orders, ReadForDelete(r, o)
        PROVE  RequestsOK'
    <3> DEFINE l == [IdleRequest EXCEPT !.pc = "delete", !.order = o]
    <3>1. l \in Request /\ l.order = o
      BY <1>4, IdleLocals DEF Request, IdleRequest
    <3>2. Proceed(r, l)
      BY <2>5 DEF ReadForDelete
    <3> QED BY <1>1, <3>1, <3>2, ProceedOK
  <2> QED BY <2>1, <2>2, <2>3, <2>4, <2>5 DEF NewCall
<1> QED BY <1>3, <1>5, <1>6, Assemble

\* The state reached by a call that goes on has the right types.
LEMMA RequestTypes ==
  ASSUME TypeOK, Targeted, ReadsCurrent, NEW r \in Requests, RequestStep(r)
  PROVE  TypeOK' /\ Targeted'
<1> DEFINE o == Target(r)
           l == requests[r]
<1>1. TablesOK /\ WorkersOK /\ RequestsOK /\ RestOK
  BY Pieces
<1>2. UnchangedByRequests
  BY DEF RequestStep, GetTimeoutKey, RemoveTimeoutJob, DeleteTimeoutKey,
         Announce, Trigger, CommitUpdate, CommitReopen, CommitDelete
<1>3. /\ l.pc # "idle"
      /\ l \in Request
      /\ o \in Orders
      /\ orders[o] \in Row
      /\ l.new \in OrderStatus \cup {None}
      /\ l.prev \in OrderStatus \cup {None}
      /\ l.version \in Nat
  <2>1. l.pc # "idle"
    BY DEF RequestStep, GetTimeoutKey, RemoveTimeoutJob, DeleteTimeoutKey,
           Announce, Trigger, CommitUpdate, CommitReopen, CommitDelete
  <2> QED BY <1>1, <2>1 DEF RequestsOK, TablesOK, Target, Request
<1>4. TablesOK'
  <2>1. CASE UnchangedTables
    BY <1>1, <2>1, TablesKept
  <2>2. CASE CommitUpdate(r)
    <3>1. l.new \in OrderStatus
      BY <2>2 DEF CommitUpdate, ReadsCurrent, Current, ORDER_TRANSITIONS,
                   OrderStatus
    <3> QED BY <1>1, <1>3, <2>1, <2>2, <3>1, RowOps, SaveOK DEF CommitUpdate
  <2>3. CASE CommitReopen(r)
    <3>1. "EXPIRED" \in OrderStatus \cup {None}
      BY DEF OrderStatus
    <3> QED BY <1>1, <1>3, <2>1, <2>3, <3>1, RowOps, SaveOK DEF CommitReopen
  <2>4. CASE CommitDelete(r)
    BY <1>1, <1>3, <2>4, RowOps DEF CommitDelete, TablesOK
  <2> QED
    BY <2>1, <2>2, <2>3, <2>4
       DEF RequestStep, GetTimeoutKey, RemoveTimeoutJob, DeleteTimeoutKey,
           Announce, Trigger
<1>5. RequestsOK'
  <2>1. /\ {"trigger", "announce", "removeJob", "delKey"} \subseteq RequestSteps
        /\ AfterCancel(r) \in RequestSteps
        /\ None \in MaybeDriver
    BY DEF RequestSteps, AfterCancel, MaybeDriver
  <2>2. CASE GetTimeoutKey(r)
    <3> DEFINE d == timeoutKey[o]
               step == IF d = None THEN AfterCancel(r) ELSE "removeJob"
               m == [l EXCEPT !.driver = d, !.pc = step]
    <3>1. d \in MaybeDriver /\ step \in RequestSteps
      BY <1>1, <1>3, <2>1 DEF RestOK
    <3>2. Proceed(r, m)
      BY <2>2 DEF GetTimeoutKey
    <3> HIDE DEF d, step
    <3>3. m \in Request /\ m.order = l.order
      BY <1>3, <3>1 DEF Request
    <3> QED BY <1>1, <1>3, <3>2, <3>3, ProceedOK DEF Target
  <2>3. CASE RemoveTimeoutJob(r)
    <3> DEFINE m == [l EXCEPT !.pc = "delKey", !.driver = None]
    <3>1. m \in Request /\ m.order = l.order
      BY <1>3, <2>1 DEF Request
    <3>2. Proceed(r, m)
      BY <2>3 DEF RemoveTimeoutJob
    <3> QED BY <1>1, <1>3, <3>1, <3>2, ProceedOK DEF Target
  <2>4. CASE DeleteTimeoutKey(r)
    BY <1>1, <1>3, <2>1, <2>4, AdvanceToOK DEF DeleteTimeoutKey
  <2>5. CASE Proceed(r, IdleRequest)
    BY <1>1, <2>5, IdleLocals, ProceedOK DEF IdleRequest
  <2>6. CASE CommitReopen(r)
    <3> DEFINE m == [IdleRequest EXCEPT !.pc = "trigger", !.order = o]
    <3>1. m \in Request /\ m.order = o
      BY <1>3, <2>1, IdleLocals DEF Request, IdleRequest
    <3>2. Proceed(r, m) \/ Proceed(r, IdleRequest)
      BY <2>6 DEF CommitReopen
    <3> QED BY <1>1, <1>3, <2>5, <3>1, <3>2, ProceedOK
  <2> QED
    BY <2>2, <2>3, <2>4, <2>5, <2>6
       DEF RequestStep, Announce, Trigger, CommitUpdate, CommitDelete
<1>6. WorkersOK'
  BY <1>1, <1>2, WorkersKept DEF UnchangedByRequests
<1>7. RestOK'
  <2>1. "waiting" \in JobStates /\ None \in MaybeDriver
    BY DEF JobStates, MaybeDriver
  <2>2. queue' \in [Jobs -> JobStates]
    <3>1. \/ queue' = queue
          \/ \E j : queue' = AddJob(queue, j, "waiting")
          \/ \E j : queue' = RemoveJob(queue, j)
      BY DEF RequestStep, GetTimeoutKey, RemoveTimeoutJob, DeleteTimeoutKey,
             Announce, Trigger, CommitUpdate, CommitReopen, CommitDelete
    <3> QED BY <1>1, <2>1, <3>1, QueueOps, QueueRemove DEF RestOK
  <2>3. timeoutKey' \in [Orders -> MaybeDriver]
    <3>1. timeoutKey' = timeoutKey \/ timeoutKey' = [timeoutKey EXCEPT ![o] = None]
      BY DEF RequestStep, GetTimeoutKey, RemoveTimeoutJob, DeleteTimeoutKey,
             Announce, Trigger, CommitUpdate, CommitReopen, CommitDelete
    <3> QED BY <1>1, <2>1, <3>1 DEF RestOK
  <2>4. notified' \in [Orders -> OrderStatus \cup {None}]
    <3>1. notified' = notified \/ notified' = [notified EXCEPT ![o] = l.new]
      BY DEF RequestStep, GetTimeoutKey, RemoveTimeoutJob, DeleteTimeoutKey,
             Announce, Trigger, CommitUpdate, CommitReopen, CommitDelete
    <3> QED BY <1>1, <1>3, <3>1 DEF RestOK
  <2> QED BY <1>1, <1>2, <2>2, <2>3, <2>4 DEF UnchangedByRequests, RestOK
<1> QED BY <1>4, <1>5, <1>6, <1>7, Assemble

\* Every step keeps the types.
LEMMA NextTypes ==
  ASSUME TypeOK, Targeted, ReadsCurrent, [Next]_vars
  PROVE  TypeOK' /\ Targeted'
<1>1. TablesOK /\ WorkersOK /\ RequestsOK /\ RestOK
  BY Pieces
<1>2. CASE UNCHANGED vars
  BY <1>2 DEF vars, TypeOK, Targeted
<1>3. /\ {"waiting", "absent", "active", "failed"} \subseteq JobStates
      /\ None \in MaybeDriver
  BY DEF JobStates, MaybeDriver
<1>4. ASSUME NEW p \in Orders,
             \/ OutboxTrigger(p) \/ OutboxSave(p)
             \/ OutboxRetrigger(p) \/ KeyExpires(p)
      PROVE  TypeOK' /\ Targeted'
  <2>1. TablesOK' /\ WorkersOK' /\ RequestsOK'
    BY <1>1, <1>4, TablesKept, WorkersKept, RequestsKept
       DEF OutboxTrigger, OutboxSave, OutboxRetrigger, KeyExpires,
           UnchangedActors
  <2>2. RestOK'
    BY <1>1, <1>3, <1>4, QueueOps, BoundsAssumption
       DEF OutboxTrigger, OutboxSave, OutboxRetrigger, KeyExpires,
           UnchangedActors, RestOK
  <2> QED BY <2>1, <2>2, Assemble
<1>5. ASSUME NEW j \in Jobs, TimeoutElapses(j) \/ Evict(j)
      PROVE  TypeOK' /\ Targeted'
  <2>1. TablesOK' /\ WorkersOK' /\ RequestsOK'
    BY <1>1, <1>5, TablesKept, WorkersKept, RequestsKept
       DEF TimeoutElapses, Evict, UnchangedActors
  <2>2. RestOK'
    BY <1>1, <1>3, <1>5, QueueOps
       DEF TimeoutElapses, Evict, UnchangedActors, RestOK
  <2> QED BY <2>1, <2>2, Assemble
<1>6. ASSUME NEW w \in Workers, NEW j \in Jobs, TakeJob(w, j)
      PROVE  TypeOK' /\ Targeted'
  <2> DEFINE step == IF j \in AssignJobs THEN "read" ELSE "revoke"
             l == [IdleWorker EXCEPT !.job = j, !.pc = step]
  <2>1. TablesOK' /\ RequestsOK'
    BY <1>1, <1>6, TablesKept, RequestsKept DEF TakeJob, UnchangedByWorkers
  <2>2. step \in WorkerSteps
    BY DEF WorkerSteps
  <2>3. Continue(w, l)
    BY <1>6 DEF TakeJob
  <2>4. l \in Worker /\ l.job \in Jobs
    <3> HIDE DEF step
    <3> QED BY <2>2, IdleLocals DEF Worker, IdleWorker
  <2>5. WorkersOK'
    BY <1>1, <2>3, <2>4, ContinueOK
  <2>6. RestOK'
    BY <1>1, <1>3, <1>6, QueueOps DEF TakeJob, UnchangedByWorkers, RestOK
  <2> QED BY <2>1, <2>5, <2>6, Assemble
<1>7. ASSUME NEW w \in Workers, WorkerFails(w)
      PROVE  TypeOK' /\ Targeted'
  <2>1. TablesOK' /\ RequestsOK'
    BY <1>1, <1>7, TablesKept, RequestsKept DEF WorkerFails
  <2>2. WorkersOK'
    BY <1>1, <1>7, IdleLocals, ContinueOK DEF WorkerFails, IdleWorker
  <2>3. queue' \in [Jobs -> JobStates]
    <3>1. \/ queue' = queue
          \/ \E s \in {"failed", "waiting"} :
               queue' = [queue EXCEPT ![workers[w].job] = s]
      BY <1>7 DEF WorkerFails
    <3> QED BY <1>1, <1>3, <3>1, QueueOps DEF RestOK
  <2>4. faults' \in 0 .. FaultBound
    BY <1>1, <1>7, BoundsAssumption DEF WorkerFails, RestOK
  <2>5. RestOK'
    BY <1>1, <1>7, <2>3, <2>4 DEF WorkerFails, RestOK
  <2> QED BY <2>1, <2>2, <2>5, Assemble
<1>8. ASSUME NEW w \in Workers, JobStalls(w)
      PROVE  TypeOK' /\ Targeted'
  <2> DEFINE l == [workers[w] EXCEPT !.holds = FALSE]
  <2>1. TablesOK' /\ RequestsOK'
    BY <1>1, <1>8, TablesKept, RequestsKept DEF JobStalls
  <2>2. l \in Worker /\ l.job = workers[w].job /\ l.job \in Jobs
    BY <1>1, <1>8 DEF JobStalls, WorkersOK, Worker
  <2>3. WorkersOK'
    BY <1>1, <1>8, <2>2, ContinueOK DEF JobStalls
  <2>4. queue' \in [Jobs -> JobStates]
    BY <1>1, <1>3, <1>8, QueueOps DEF JobStalls, RestOK
  <2>5. faults' \in 0 .. FaultBound
    BY <1>1, <1>8, BoundsAssumption DEF JobStalls, RestOK
  <2>6. RestOK'
    BY <1>1, <1>8, <2>4, <2>5 DEF JobStalls, RestOK
  <2> QED BY <2>1, <2>3, <2>6, Assemble
<1>9. ASSUME NEW r \in Requests, RequestFails(r)
      PROVE  TypeOK' /\ Targeted'
  <2>1. TablesOK' /\ WorkersOK'
    BY <1>1, <1>9, TablesKept, WorkersKept DEF RequestFails
  <2>2. RequestsOK'
    BY <1>1, <1>9, IdleLocals, ProceedOK DEF RequestFails, IdleRequest
  <2>3. RestOK'
    BY <1>1, <1>9, BoundsAssumption DEF RequestFails, RestOK
  <2> QED BY <2>1, <2>2, <2>3, Assemble
<1> QED
  BY <1>2, <1>4, <1>5, <1>6, <1>7, <1>8, <1>9, JobTypes,
     WorkerTypes, NewCallTypes, RequestTypes DEF Next

-----------------------------------------------------------------------------
(* The inductive invariant *)

\* How a step changes a call: not at all, to one that writes nothing it has
\* read before, or to one that has just read.
CallStep(r) ==
  \/ requests'[r] = requests[r]
  \/ requests'[r].pc \notin {"update", "reopen"}
  \/ /\ orders' = orders
     /\ \E o \in Orders :
          \/ \E s \in OrderStatus, user \in Users :
               /\ validateActor(orders[o], s, user)
               /\ validateTransition(orders[o].status, s)
               /\ requests'[r] = [IdleRequest EXCEPT !.pc = "update",
                    !.order = o, !.prev = orders[o].status, !.new = s,
                    !.version = orders[o].version]
          \/ /\ "reassign" \in Calls
             /\ orders[o].status = "EXPIRED"
             /\ requests'[r] = [IdleRequest EXCEPT !.pc = "reopen",
                    !.order = o, !.version = orders[o].version]

\* A step of one call changes every call as CallStep says.
LEMMA OneCall ==
  ASSUME RequestsOK, NEW r \in Requests, NEW q \in Requests,
         NewCall(q) \/ RequestStep(q) \/ RequestFails(q)
  PROVE  CallStep(r)
<1>1. requests \in [Requests -> Request]
  BY DEF RequestsOK
<1>2. ASSUME NEW l, Proceed(q, l) PROVE requests'[r] = IF r = q THEN l ELSE requests[r]
  BY <1>1, <1>2 DEF Proceed
<1>3. ASSUME NEW l, Proceed(q, l), l.pc \notin {"update", "reopen"}
      PROVE  CallStep(r)
  BY <1>2, <1>3 DEF CallStep
<1>4. CASE NewCall(q)
  <2>1. ASSUME NEW o \in Orders, NEW d \in Drivers,
               Accept(q, o, d) \/ Reject(q, o, d)
        PROVE  CallStep(r)
    <3> DEFINE s == Rejected(orders[o], d).status
               l == [IdleRequest EXCEPT !.pc = "getKey", !.order = o, !.new = s]
               m == [IdleRequest EXCEPT !.pc = "getKey", !.order = o,
                       !.new = "DRIVER_ARRIVING"]
    <3>1. Proceed(q, l) \/ Proceed(q, m)
      BY <2>1 DEF Accept, Reject
    <3>2. l.pc = "getKey" /\ m.pc = "getKey"
      <4> HIDE DEF s
      <4> QED BY DEF IdleRequest
    <3> HIDE DEF l, m
    <3> QED BY <1>3, <3>1, <3>2
  <2>2. ASSUME NEW o \in Orders, NEW s \in OrderStatus, NEW user \in Users,
               ReadForUpdate(q, o, s, user)
        PROVE  CallStep(r)
    <3> DEFINE l == [IdleRequest EXCEPT !.pc = "update", !.order = o,
                       !.prev = orders[o].status, !.new = s,
                       !.version = orders[o].version]
    <3>1. requests'[r] = IF r = q THEN l ELSE requests[r]
      BY <1>2, <2>2 DEF ReadForUpdate
    <3> QED BY <2>2, <3>1 DEF CallStep, ReadForUpdate, UnchangedTables
  <2>3. ASSUME NEW o \in Orders, ReadForReassign(q, o)
        PROVE  CallStep(r)
    <3> DEFINE l == [IdleRequest EXCEPT !.pc = "trigger", !.order = o]
               m == [IdleRequest EXCEPT !.pc = "reopen", !.order = o,
                       !.version = orders[o].version]
    <3>1. CASE Proceed(q, l)
      <4>1. l.pc = "trigger"
        BY DEF IdleRequest
      <4> HIDE DEF l
      <4> QED BY <1>3, <3>1, <4>1
    <3>2. CASE Proceed(q, m) /\ orders[o].status = "EXPIRED"
      <4>1. requests'[r] = IF r = q THEN m ELSE requests[r]
        BY <1>2, <3>2
      <4>2. "reassign" \in Calls /\ orders' = orders
        BY <2>3 DEF ReadForReassign, Starts, UnchangedTables
      <4> QED BY <3>2, <4>1, <4>2 DEF CallStep
    <3> QED BY <2>3, <3>1, <3>2 DEF ReadForReassign
  <2>4. ASSUME NEW o \in Orders, ReadForDelete(q, o)
        PROVE  CallStep(r)
    <3> DEFINE l == [IdleRequest EXCEPT !.pc = "delete", !.order = o]
    <3>1. l.pc = "delete" /\ Proceed(q, l)
      BY <2>4 DEF IdleRequest, ReadForDelete
    <3> HIDE DEF l
    <3> QED BY <1>3, <3>1
  <2> QED BY <1>4, <2>1, <2>2, <2>3, <2>4 DEF NewCall
<1>5. CASE RequestStep(q)
  <2> DEFINE o == Target(q)
             l == [IdleRequest EXCEPT !.pc = "trigger", !.order = o]
             step == IF timeoutKey[o] = None THEN AfterCancel(q) ELSE "removeJob"
             k == [requests[q] EXCEPT !.driver = timeoutKey[o], !.pc = step]
             m == [requests[q] EXCEPT !.pc = "delKey", !.driver = None]
             a == [requests[q] EXCEPT !.pc = AfterCancel(q)]
  <2>1. \/ Proceed(q, IdleRequest) \/ Proceed(q, l) \/ Proceed(q, k)
        \/ Proceed(q, m) \/ Proceed(q, a)
    BY <1>5
       DEF RequestStep, GetTimeoutKey, RemoveTimeoutJob, DeleteTimeoutKey,
           Announce, Trigger, CommitUpdate, CommitReopen, CommitDelete,
           AdvanceTo
  <2>2. step \notin {"update", "reopen"} /\ AfterCancel(q) \notin {"update", "reopen"}
    BY DEF AfterCancel
  <2>3. k.pc = step /\ m.pc = "delKey" /\ a.pc = AfterCancel(q)
    <3> HIDE DEF step
    <3> QED BY <1>1 DEF Request
  <2>4. IdleRequest.pc = "idle" /\ l.pc = "trigger"
    BY DEF IdleRequest
  <2> HIDE DEF l, k, m, a, step
  <2> QED BY <1>3, <2>1, <2>2, <2>3, <2>4
<1>6. CASE RequestFails(q)
  <2>1. IdleRequest.pc = "idle" /\ Proceed(q, IdleRequest)
    BY <1>6 DEF IdleRequest, RequestFails
  <2> QED BY <1>3, <2>1
<1> QED BY <1>4, <1>5, <1>6

\* So does every step of the system.
LEMMA NextCallStep ==
  ASSUME TypeOK, Targeted, [Next]_vars, NEW r \in Requests
  PROVE  CallStep(r)
<1>1. CASE requests' = requests
  BY <1>1 DEF CallStep
<1>2. ASSUME NEW q \in Requests,
             NewCall(q) \/ RequestStep(q) \/ RequestFails(q)
      PROVE  CallStep(r)
  BY <1>2, Pieces, OneCall
<1>3. ASSUME NEW w \in Workers, WorkerStep(w)
      PROVE  requests' = requests
  BY <1>3
     DEF WorkerStep, ReadOrder, findNearestEligibleDrivers,
         assignDriverWithLock, NoDriverLocked, expireOrder, NoticeExpired,
         ArmTimeout, SetTimeoutKey, RevokeOffer, DropTimeoutKey, Retrigger,
         FinishJob, UnchangedByWorkers
<1>4. \/ \E q \in Requests : NewCall(q) \/ RequestStep(q) \/ RequestFails(q)
      \/ \E w \in Workers : WorkerStep(w)
      \/ requests' = requests
  BY DEF Next, vars, OutboxTrigger, OutboxSave, OutboxRetrigger, KeyExpires,
         TimeoutElapses, Evict, TakeJob, WorkerFails, JobStalls,
         UnchangedActors, UnchangedByWorkers
<1> QED BY <1>1, <1>2, <1>3, <1>4

\* What a call has read stays current until a write moves the version.
LEMMA NextReads ==
  ASSUME TypeOK, Targeted, ReadsCurrent, AssignmentAgrees, [Next]_vars
  PROVE  ReadsCurrent'
<1> SUFFICES ASSUME NEW r \in Requests PROVE Current(requests[r])'
  BY DEF ReadsCurrent
<1>1. /\ Current(requests[r])
      /\ requests[r].version \in Nat
      /\ requests[r].pc # "idle" => requests[r].order \in Orders
  BY DEF ReadsCurrent, TypeOK, Request, Targeted
<1>2. CASE requests'[r] = requests[r]
  <2>1. CASE requests[r].pc \in {"update", "reopen"}
    <3> DEFINE o == requests[r].order
    <3>1. o \in Orders
      BY <1>1, <2>1
    <3>2. /\ orders[o].version <= orders'[o].version
          /\ orders'[o].version = orders[o].version =>
               orders'[o].status = orders[o].status
          /\ orders[o].version \in Nat /\ orders'[o].version \in Nat
      BY <3>1, NextRowStep, RowStepEffects DEF TypeOK, Row
    <3> QED BY <1>1, <1>2, <2>1, <3>2 DEF Current
  <2>2. CASE requests[r].pc \notin {"update", "reopen"}
    BY <1>2, <2>2 DEF Current
  <2> QED BY <2>1, <2>2
<1>3. CASE requests'[r].pc \notin {"update", "reopen"}
  BY <1>3 DEF Current
<1>4. ASSUME orders' = orders, NEW o \in Orders, NEW s \in OrderStatus,
             NEW user \in Users,
             validateActor(orders[o], s, user),
             validateTransition(orders[o].status, s),
             requests'[r] = [IdleRequest EXCEPT !.pc = "update",
               !.order = o, !.prev = orders[o].status, !.new = s,
               !.version = orders[o].version]
      PROVE  Current(requests[r])'
  <2>1. /\ requests'[r].pc = "update" /\ requests'[r].order = o
        /\ requests'[r].prev = orders[o].status /\ requests'[r].new = s
        /\ requests'[r].version = orders[o].version
    BY <1>4 DEF IdleRequest
  <2>2. orders[o].version \in Nat
    BY DEF TypeOK, Row
  <2>3. s \notin SystemOnly /\ <<orders[o].status, s>> \in ORDER_TRANSITIONS
    BY <1>4 DEF validateActor, validateTransition
  <2> QED BY <1>4, <2>1, <2>2, <2>3 DEF Current
<1>5. ASSUME orders' = orders, NEW o \in Orders,
             orders[o].status = "EXPIRED",
             requests'[r] = [IdleRequest EXCEPT !.pc = "reopen",
               !.order = o, !.version = orders[o].version]
      PROVE  Current(requests[r])'
  <2>1. /\ requests'[r].pc = "reopen" /\ requests'[r].order = o
        /\ requests'[r].version = orders[o].version
    BY <1>5 DEF IdleRequest
  <2>2. orders[o].version \in Nat
    BY DEF TypeOK, Row
  <2> QED BY <1>5, <2>1, <2>2 DEF Current
<1> QED BY <1>2, <1>3, <1>4, <1>5, NextCallStep DEF CallStep

\* The invariant holds at the start ...
LEMMA InitInv == Init => IndInv
<1> SUFFICES ASSUME Init PROVE IndInv
  OBVIOUS
<1>1. NewOrder \in Row /\ Agrees(NewOrder)
  BY DEF NewOrder, Row, OrderStatus, MaybeDriver, Agrees, Unassigned
<1>2. /\ "PENDING" \in OrderStatus
      /\ "absent" \in JobStates
      /\ None \in MaybeDriver
      /\ IdleWorker.pc = "idle" /\ IdleRequest.pc = "idle"
      /\ [prev |-> None, new |-> "PENDING"]
           \in [prev : OrderStatus \cup {None}, new : OrderStatus]
  BY DEF OrderStatus, JobStates, MaybeDriver, IdleWorker, IdleRequest
<1>3. TypeOK
  BY <1>1, <1>2, IdleLocals, BoundsAssumption DEF Init, TypeOK
<1>4. Targeted /\ ReadsCurrent
  BY <1>2 DEF Init, Targeted, ReadsCurrent, Current
<1>5. AssignmentAgrees
  BY <1>1 DEF Init, AssignmentAgrees
<1> QED BY <1>3, <1>4, <1>5 DEF IndInv

\* ... and is kept by every step.
LEMMA NextInv == IndInv /\ [Next]_vars => IndInv'
<1> SUFFICES ASSUME IndInv, [Next]_vars PROVE IndInv'
  OBVIOUS
<1>1. TypeOK' /\ Targeted'
  BY NextTypes DEF IndInv
<1>2. ReadsCurrent'
  BY NextReads DEF IndInv
<1>3. AssignmentAgrees'
  BY NextRowStep, RowStepEffects DEF IndInv, AssignmentAgrees
<1> QED BY <1>1, <1>2, <1>3 DEF IndInv

\* The invariant holds in every reachable state.
LEMMA Invariance == Spec => []IndInv
BY InitInv, NextInv, PTL DEF Spec

-----------------------------------------------------------------------------
(* The theorems *)

\* Whatever the calls, failures and interleavings, no handler ever stores a
\* value of another kind: the statuses of the enum, one driver or none, a job
\* in one state.
THEOREM TypeCorrect == Spec => []TypeOK
<1>1. IndInv => TypeOK
  BY DEF IndInv
<1> QED BY <1>1, Invariance, PTL

\* Status and assigned driver agree in every state, although eight
\* transactions of two services write them from stale and fresh reads.
THEOREM AssignmentSafe == Spec => []AssignmentAgrees
<1>1. IndInv => AssignmentAgrees
  BY DEF IndInv
<1> QED BY <1>1, Invariance, PTL

\* The audit trail is exact: a call that logs the status it read before its
\* transaction still logs the status it replaced.
THEOREM AuditSafe == Spec => AuditExact
<1>1. IndInv /\ [Next]_vars =>
        [\A o \in Orders :
           \/ orders'[o].status = orders[o].status /\ history'[o] = history[o]
           \/ history'[o] = [prev |-> orders[o].status,
                             new |-> orders'[o].status]]_vars
  <2> SUFFICES ASSUME IndInv, [Next]_vars, NEW o \in Orders
               PROVE  \/ /\ orders'[o].status = orders[o].status
                         /\ history'[o] = history[o]
                      \/ history'[o] = [prev |-> orders[o].status,
                                        new |-> orders'[o].status]
    OBVIOUS
  <2>1. RowStep(o) /\ orders[o] \in Row
    BY NextRowStep DEF IndInv, TypeOK
  <2> QED BY <2>1 DEF RowStep, Row
<1> QED BY <1>1, Invariance, PTL DEF Spec, AuditExact

\* No write to an order goes unseen by the calls that read it before.
THEOREM VersionSafe == Spec => EveryWriteVersioned
<1>1. IndInv /\ [Next]_vars =>
        [\A o \in Orders :
           [orders'[o] EXCEPT !.deleted = orders[o].deleted] # orders[o] =>
             orders'[o].version = orders[o].version + 1]_vars
  <2> SUFFICES ASSUME IndInv, [Next]_vars, NEW o \in Orders,
                      [orders'[o] EXCEPT !.deleted = orders[o].deleted]
                        # orders[o]
               PROVE  orders'[o].version = orders[o].version + 1
    OBVIOUS
  <2>1. RowStep(o) /\ orders[o] \in Row /\ Agrees(orders[o])
    BY NextRowStep DEF IndInv, TypeOK, AssignmentAgrees
  <2>2. CASE LegalWrite(orders[o], orders'[o])
    BY <2>1, <2>2, WriteEffects
  <2>3. CASE orders'[o] = orders[o]
    BY <2>1, <2>3 DEF Row
  <2>4. CASE orders'[o] = [orders[o] EXCEPT !.deleted = TRUE]
    BY <2>1, <2>4 DEF Row
  <2> QED BY <2>1, <2>2, <2>3, <2>4 DEF RowStep
<1> QED BY <1>1, Invariance, PTL DEF Spec, EveryWriteVersioned

\* A deleted order is never written again, by any handler in progress.
THEOREM DeletionSafe == Spec => DeletedRowFrozen
<1>1. IndInv /\ [Next]_vars =>
        [\A o \in Orders : orders[o].deleted => orders'[o] = orders[o]]_vars
  <2> SUFFICES ASSUME IndInv, [Next]_vars, NEW o \in Orders, orders[o].deleted
               PROVE  orders'[o] = orders[o]
    OBVIOUS
  <2>1. RowStep(o) /\ orders[o] \in Row
    BY NextRowStep DEF IndInv, TypeOK
  <2>2. orders[o].deleted = TRUE
    BY <2>1 DEF Row
  <2>3. [orders[o] EXCEPT !.deleted = TRUE] = orders[o]
    BY <2>1, <2>2 DEF Row
  <2> QED BY <2>1, <2>3 DEF RowStep, LegalWrite
<1> QED BY <1>1, Invariance, PTL DEF Spec, DeletedRowFrozen

\* Between two reopenings an order is offered to new drivers only, and every
\* driver it was offered to is remembered.
THEOREM OffersSafe == Spec => NoRepeatOffer
<1>1. IndInv /\ [Next]_vars =>
        [\A o \in Orders :
           /\ orders'[o].assigned \notin {None, orders[o].assigned} =>
                orders'[o].assigned \in orders'[o].attempted \ orders[o].attempted
           /\ \/ orders[o].attempted \subseteq orders'[o].attempted
              \/ orders[o].status = "EXPIRED" /\ orders'[o].status = "PENDING"]_vars
  <2> SUFFICES ASSUME IndInv, [Next]_vars, NEW o \in Orders
               PROVE  LET old == orders[o]
                          row == orders'[o]
                      IN  /\ row.assigned \notin {None, old.assigned} =>
                               row.assigned \in row.attempted \ old.attempted
                          /\ \/ old.attempted \subseteq row.attempted
                             \/ old.status = "EXPIRED" /\ row.status = "PENDING"
    OBVIOUS
  <2> DEFINE old == orders[o]
             row == orders'[o]
  <2>1. RowStep(o) /\ old \in Row
    BY NextRowStep DEF IndInv, TypeOK
  <2>2. CASE row = old
    BY <2>2
  <2>3. CASE row = [old EXCEPT !.deleted = TRUE]
    BY <2>1, <2>3 DEF Row
  <2>4. CASE \E d \in Drivers \ old.attempted : row = Offered(old, d)
    BY <2>1, <2>4 DEF Offered, Row
  <2>5. CASE row = Accepted(old)
    BY <2>1, <2>5 DEF Accepted, Row
  <2>6. CASE \E s \in OrderStatus : row = Moved(old, s, old.version)
    BY <2>1, <2>6 DEF Moved, Row
  <2>7. CASE \/ row = Expired(old) \/ row = Revoked(old)
             \/ \E d \in Drivers : row = Rejected(old, d)
    <3>1. row.assigned = None
      BY <2>1, <2>7 DEF Expired, Revoked, Rejected, Row
    <3>2. old.attempted \subseteq row.attempted
      <4>1. CASE row = Expired(old)
        BY <2>1, <4>1 DEF Expired, Row
      <4>2. CASE row = Revoked(old)
        BY <2>1, <4>2 DEF Revoked, Row
      <4>3. ASSUME NEW d \in Drivers, row = Rejected(old, d)
            PROVE  row.attempted = old.attempted \cup {d}
        BY <2>1, <4>3 DEF Rejected, Revoked, Row
      <4> QED BY <2>7, <4>1, <4>2, <4>3
    <3> QED BY <3>1, <3>2
  <2>8. CASE old.status = "EXPIRED" /\ row = Reopened(old, old.version)
    BY <2>1, <2>8 DEF Reopened, Row
  <2> QED
    BY <2>1, <2>2, <2>3, <2>4, <2>5, <2>6, <2>7, <2>8 DEF RowStep, LegalWrite
<1> QED BY <1>1, Invariance, PTL DEF Spec, NoRepeatOffer

-----------------------------------------------------------------------------
(* The budget *)

\* The count of a row after a legal write.
LEMMA WriteAccounts ==
  ASSUME NEW old \in Row, NEW row, Agrees(old), LegalWrite(old, row),
         Accounts(old), IsFiniteSet(old.attempted)
  PROVE  Accounts(row) /\ IsFiniteSet(row.attempted)
<1> DEFINE n == Cardinality(old.attempted)
<1>1. /\ n \in Nat /\ MaxAttempts \in Nat /\ MaxAttempts > 0
      /\ old.attempts \in Nat
  BY FS_CardinalityType, MaxAttemptsAssumption DEF Row
<1>2. CASE old.status = "PENDING" /\ \E d \in Drivers \ old.attempted : row = Offered(old, d)
  <2>1. PICK d \in Drivers \ old.attempted : row = Offered(old, d)
    BY <1>2
  <2>2. /\ row.attempted = old.attempted \cup {d}
        /\ row.status = "DRIVER_ASSIGNED"
        /\ row.attempts = old.attempts + 1
    BY <2>1 DEF Offered, Row
  <2>3. IsFiniteSet(row.attempted) /\ Cardinality(row.attempted) = n + 1
    BY <2>1, <2>2, FS_AddElement
  <2>4. old.attempts = 2 * n /\ old.attempts < MaxAttempts
    BY <1>2 DEF Accounts
  <2> HIDE DEF n
  <2> QED BY <1>1, <2>2, <2>3, <2>4 DEF Accounts
<1>3. CASE old.status = "PENDING" /\ row = Expired(old)
  <2>1. /\ row.attempted = old.attempted /\ row.status = "EXPIRED"
        /\ row.assigned = None /\ row.attempts = old.attempts + 1
    BY <1>3 DEF Expired, Row
  <2>2. old.attempts = 2 * n /\ old.attempts < MaxAttempts
    BY <1>3 DEF Accounts
  <2> QED BY <1>1, <2>1, <2>2 DEF Accounts
<1>4. CASE /\ old.status = "DRIVER_ASSIGNED"
           /\ \/ row = Revoked(old)
              \/ \E d \in Drivers : d = old.assigned /\ row = Rejected(old, d)
  <2>1. /\ old.assigned \in old.attempted
        /\ old.attempts = 2 * n - 1 /\ old.attempts <= MaxAttempts
    BY <1>4 DEF Accounts, Agrees, Unassigned
  <2>2. /\ row.attempted = old.attempted
        /\ row.assigned = None
        /\ row.attempts = old.attempts + 1
        /\ row.status = IF old.attempts + 1 >= MaxAttempts THEN "EXPIRED"
                                                           ELSE "PENDING"
    <3>1. CASE row = Revoked(old)
      BY <3>1 DEF Revoked, Row
    <3>2. CASE row = Rejected(old, old.assigned)
      <4>1. old.attempted \cup {old.assigned} = old.attempted
        BY <2>1
      <4>2. row.attempted = old.attempted \cup {old.assigned}
        BY <3>2 DEF Rejected, Revoked, Row
      <4> QED BY <3>2, <4>1, <4>2 DEF Rejected, Revoked, Row
    <3> QED BY <1>4, <3>1, <3>2
  <2> QED BY <1>1, <2>1, <2>2 DEF Accounts
<1>5. CASE old.status = "DRIVER_ASSIGNED" /\ row = Accepted(old)
  BY <1>5 DEF Accepted, Row, Accounts
<1>6. CASE \E s \in OrderStatus \ SystemOnly :
             /\ <<old.status, s>> \in ORDER_TRANSITIONS
             /\ row = Moved(old, s, old.version)
  <2>1. PICK s \in OrderStatus \ SystemOnly :
               /\ <<old.status, s>> \in ORDER_TRANSITIONS
               /\ row = Moved(old, s, old.version)
    BY <1>6
  <2>2. s \notin {"PENDING", "EXPIRED"}
    BY <2>1 DEF ORDER_TRANSITIONS, SystemOnly
  <2>3. /\ row.attempted = old.attempted /\ row.attempts = old.attempts
        /\ row.assigned = old.assigned /\ row.status = s
    BY <2>1 DEF Moved, Row
  <2> QED BY <2>2, <2>3 DEF Accounts
<1>7. CASE row = Reopened(old, old.version)
  <2>1. /\ row.attempted = {} /\ row.attempts = 0
        /\ row.assigned = None /\ row.status = "PENDING"
    BY <1>7 DEF Reopened, Row
  <2>2. IsFiniteSet({}) /\ Cardinality({}) = 0
    BY FS_EmptySet
  <2> QED BY <1>1, <2>1, <2>2 DEF Accounts
<1> QED BY <1>2, <1>3, <1>4, <1>5, <1>6, <1>7 DEF LegalWrite

BudgetInv ==
  \A o \in Orders :
    Accounts(orders[o]) /\ IsFiniteSet(orders[o].attempted)

\* Offers and their ends are counted alike in every state, so a pending order
\* has an attempt left and the budget bounds the number of offers.
THEOREM BudgetSafe == Spec => []AttemptAccounting
<1>1. Init => BudgetInv
  <2>1. Accounts(NewOrder) /\ IsFiniteSet(NewOrder.attempted)
    BY FS_EmptySet, MaxAttemptsAssumption DEF NewOrder, Accounts
  <2> QED BY <2>1 DEF Init, BudgetInv
<1>2. IndInv /\ BudgetInv /\ [Next]_vars => BudgetInv'
  <2> SUFFICES ASSUME IndInv, BudgetInv, [Next]_vars, NEW o \in Orders
               PROVE  Accounts(orders'[o]) /\ IsFiniteSet(orders'[o].attempted)
    BY DEF BudgetInv
  <2>1. /\ RowStep(o) /\ orders[o] \in Row /\ Agrees(orders[o])
        /\ Accounts(orders[o]) /\ IsFiniteSet(orders[o].attempted)
    BY NextRowStep DEF IndInv, TypeOK, AssignmentAgrees, BudgetInv
  <2>2. CASE LegalWrite(orders[o], orders'[o])
    BY <2>1, <2>2, WriteAccounts
  <2>3. CASE orders'[o] = orders[o]
    BY <2>1, <2>3
  <2>4. CASE orders'[o] = [orders[o] EXCEPT !.deleted = TRUE]
    <3>1. /\ orders'[o].status = orders[o].status
          /\ orders'[o].assigned = orders[o].assigned
          /\ orders'[o].attempts = orders[o].attempts
          /\ orders'[o].attempted = orders[o].attempted
      BY <2>1, <2>4 DEF Row
    <3> QED BY <2>1, <3>1 DEF Accounts
  <2> QED BY <2>1, <2>2, <2>3, <2>4 DEF RowStep
<1>3. BudgetInv => AttemptAccounting
  BY DEF BudgetInv, AttemptAccounting
<1> QED BY <1>1, <1>2, <1>3, Invariance, PTL DEF Spec

-----------------------------------------------------------------------------
(* The notice that a driver is coming *)

\* A driver has accepted, and is still named.
Came(row) ==
  /\ row.status \notin {"PENDING", "DRIVER_ASSIGNED", "EXPIRED"}
  /\ row.assigned # None

\* A call on its way to announcing that a driver is coming.
Tells(call) ==
  /\ call.pc \in {"getKey", "removeJob", "delKey", "announce"}
  /\ call.new = "DRIVER_ARRIVING"

NoticeInv ==
  /\ \A o \in Orders : notified[o] = "DRIVER_ARRIVING" => Came(orders[o])
  /\ \A r \in Requests :
       Tells(requests[r]) => Came(orders[requests[r].order])

\* Nothing takes an accepted order back.
LEMMA CameStays ==
  ASSUME IndInv, [Next]_vars, NEW o \in Orders, Came(orders[o])
  PROVE  Came(orders'[o])
<1> DEFINE old == orders[o]
           row == orders'[o]
<1>1. RowStep(o) /\ old \in Row
  BY NextRowStep DEF IndInv, TypeOK
<1>2. CASE row = [old EXCEPT !.deleted = TRUE]
  BY <1>1, <1>2 DEF Row, Came
<1>3. CASE LegalWrite(old, row)
  <2>1. PICK s \in OrderStatus \ SystemOnly :
               /\ <<old.status, s>> \in ORDER_TRANSITIONS
               /\ row = Moved(old, s, old.version)
    BY <1>3 DEF LegalWrite, Came
  <2>2. s \notin {"PENDING", "DRIVER_ASSIGNED", "EXPIRED"}
    BY <2>1 DEF ORDER_TRANSITIONS, SystemOnly
  <2>3. row.status = s /\ row.assigned = old.assigned
    BY <1>1, <2>1 DEF Moved, Row
  <2> QED BY <2>2, <2>3 DEF Came
<1> QED BY <1>1, <1>2, <1>3 DEF RowStep

\* What a step does to a call that will announce an arrival: it goes on, or it
\* has just accepted.
TellStep(r) ==
  Tells(requests'[r]) =>
    \/ Tells(requests[r]) /\ requests'[r].order = requests[r].order
    \/ requests'[r].order \in Orders /\ Came(orders'[requests'[r].order])

\* What a step does to the last notice of an order.
NoticeStep(o) ==
  \/ notified'[o] = notified[o] \/ notified'[o] # "DRIVER_ARRIVING"
  \/ \E r \in Requests : Tells(requests[r]) /\ requests[r].order = o

\* A new call announces an arrival only if it accepts.
LEMMA NewCallTells ==
  ASSUME IndInv, NEW r \in Requests, NEW q \in Requests, NewCall(q)
  PROVE  TellStep(r)
<1>1. requests \in [Requests -> Request] /\ orders \in [Orders -> Row]
  BY DEF IndInv, TypeOK
<1>2. ASSUME NEW l, Proceed(q, l)
      PROVE  requests'[r] = IF r = q THEN l ELSE requests[r]
  BY <1>1, <1>2 DEF Proceed
<1>3. ASSUME NEW l, Proceed(q, l), ~Tells(l) PROVE TellStep(r)
  BY <1>2, <1>3 DEF TellStep
<1>4. ASSUME NEW o \in Orders, NEW d \in Drivers, Accept(q, o, d)
      PROVE  TellStep(r)
  <2> DEFINE l == [IdleRequest EXCEPT !.pc = "getKey", !.order = o,
                     !.new = "DRIVER_ARRIVING"]
  <2>1. Proceed(q, l) /\ Save(o, Accepted(orders[o]), orders[o].status)
    BY <1>4 DEF Accept
  <2>2. orders'[o] = Accepted(orders[o])
    BY <1>1, <2>1 DEF Save
  <2>3. orders[o].assigned # None
    BY <1>4, NoneAssumption DEF Accept, AwaitsAnswerOf
  <2>4. Came(orders'[o])
    BY <1>1, <2>2, <2>3 DEF Accepted, Row, Came
  <2>5. l.order = o
    BY DEF IdleRequest
  <2> HIDE DEF l
  <2> QED BY <1>2, <2>1, <2>4, <2>5 DEF TellStep
<1>5. ASSUME NEW o \in Orders, NEW d \in Drivers, Reject(q, o, d)
      PROVE  TellStep(r)
  <2> DEFINE s == Rejected(orders[o], d).status
             l == [IdleRequest EXCEPT !.pc = "getKey", !.order = o, !.new = s]
  <2>1. Proceed(q, l)
    BY <1>5 DEF Reject
  <2>2. s \in {"PENDING", "EXPIRED"}
    <3>1. orders[o] \in Row
      BY <1>1
    <3> QED BY <3>1 DEF Rejected, Revoked, Row
  <2>3. l.new = s
    <3> HIDE DEF s
    <3> QED BY DEF IdleRequest
  <2>4. ~Tells(l)
    <3> HIDE DEF l, s
    <3> QED BY <2>2, <2>3 DEF Tells
  <2> HIDE DEF l
  <2> QED BY <1>3, <2>1, <2>4
<1>6. ASSUME NEW o \in Orders, NEW s \in OrderStatus, NEW user \in Users,
             ReadForUpdate(q, o, s, user)
      PROVE  TellStep(r)
  <2> DEFINE l == [IdleRequest EXCEPT !.pc = "update", !.order = o,
                     !.prev = orders[o].status, !.new = s,
                     !.version = orders[o].version]
  <2>1. Proceed(q, l) /\ l.pc = "update"
    BY <1>6 DEF ReadForUpdate, IdleRequest
  <2> HIDE DEF l
  <2> QED BY <1>3, <2>1 DEF Tells
<1>7. ASSUME NEW o \in Orders, ReadForReassign(q, o)
      PROVE  TellStep(r)
  <2> DEFINE l == [IdleRequest EXCEPT !.pc = "trigger", !.order = o]
             m == [IdleRequest EXCEPT !.pc = "reopen", !.order = o,
                     !.version = orders[o].version]
  <2>1. /\ Proceed(q, l) \/ Proceed(q, m)
        /\ l.pc = "trigger" /\ m.pc = "reopen"
    BY <1>7 DEF ReadForReassign, IdleRequest
  <2> HIDE DEF l, m
  <2> QED BY <1>3, <2>1 DEF Tells
<1>8. ASSUME NEW o \in Orders, ReadForDelete(q, o)
      PROVE  TellStep(r)
  <2> DEFINE l == [IdleRequest EXCEPT !.pc = "delete", !.order = o]
  <2>1. Proceed(q, l) /\ l.pc = "delete"
    BY <1>8 DEF ReadForDelete, IdleRequest
  <2> HIDE DEF l
  <2> QED BY <1>3, <2>1 DEF Tells
<1> QED BY <1>4, <1>5, <1>6, <1>7, <1>8 DEF NewCall

\* A call under way keeps its order and what it announces.
LEMMA RequestTells ==
  ASSUME IndInv, NEW r \in Requests, NEW q \in Requests,
         RequestStep(q) \/ RequestFails(q)
  PROVE  TellStep(r)
<1>1. requests \in [Requests -> Request]
  BY DEF IndInv, TypeOK
<1>2. ASSUME NEW l, Proceed(q, l)
      PROVE  requests'[r] = IF r = q THEN l ELSE requests[r]
  BY <1>1, <1>2 DEF Proceed
<1>3. ASSUME NEW l, Proceed(q, l), ~Tells(l) PROVE TellStep(r)
  BY <1>2, <1>3 DEF TellStep
<1>4. ASSUME NEW l, Proceed(q, l), l.order = requests[q].order,
             l.new = requests[q].new,
             requests[q].pc \in {"getKey", "removeJob", "delKey"}
      PROVE  TellStep(r)
  BY <1>2, <1>4 DEF TellStep, Tells
<1>5. ~Tells(IdleRequest)
  BY DEF Tells, IdleRequest
<1>6. CASE \/ Announce(q) \/ Trigger(q) \/ CommitUpdate(q) \/ CommitDelete(q)
           \/ RequestFails(q)
  BY <1>3, <1>5, <1>6
     DEF Announce, Trigger, CommitUpdate, CommitDelete, RequestFails
<1>7. CASE CommitReopen(q)
  <2> DEFINE l == [IdleRequest EXCEPT !.pc = "trigger", !.order = Target(q)]
  <2>1. Proceed(q, l) \/ Proceed(q, IdleRequest)
    BY <1>7 DEF CommitReopen
  <2>2. l.pc = "trigger"
    BY DEF IdleRequest
  <2> HIDE DEF l
  <2> QED BY <1>3, <1>5, <2>1, <2>2 DEF Tells
<1>8. CASE GetTimeoutKey(q)
  <2> DEFINE d == timeoutKey[Target(q)]
             step == IF d = None THEN AfterCancel(q) ELSE "removeJob"
             l == [requests[q] EXCEPT !.driver = d, !.pc = step]
  <2>1. Proceed(q, l) /\ requests[q].pc = "getKey"
    BY <1>8 DEF GetTimeoutKey
  <2>2. l.order = requests[q].order /\ l.new = requests[q].new
    <3> HIDE DEF d, step
    <3> QED BY <1>1 DEF Request
  <2> HIDE DEF l
  <2> QED BY <1>4, <2>1, <2>2
<1>9. CASE RemoveTimeoutJob(q)
  <2> DEFINE l == [requests[q] EXCEPT !.pc = "delKey", !.driver = None]
  <2>1. Proceed(q, l) /\ requests[q].pc = "removeJob"
    BY <1>9 DEF RemoveTimeoutJob
  <2>2. l.order = requests[q].order /\ l.new = requests[q].new
    BY <1>1 DEF Request
  <2> HIDE DEF l
  <2> QED BY <1>4, <2>1, <2>2
<1>10. CASE DeleteTimeoutKey(q)
  <2> DEFINE l == [requests[q] EXCEPT !.pc = AfterCancel(q)]
  <2>1. Proceed(q, l) /\ requests[q].pc = "delKey"
    BY <1>10 DEF DeleteTimeoutKey, AdvanceTo
  <2>2. l.order = requests[q].order /\ l.new = requests[q].new
    BY <1>1 DEF Request
  <2> HIDE DEF l
  <2> QED BY <1>4, <2>1, <2>2
<1> QED BY <1>6, <1>7, <1>8, <1>9, <1>10 DEF RequestStep

\* Only the end of such a call writes such a notice.
LEMMA NextTells ==
  ASSUME IndInv, [Next]_vars
  PROVE  /\ \A r \in Requests : TellStep(r)
         /\ \A o \in Orders : NoticeStep(o)
<1>1. notified \in [Orders -> OrderStatus \cup {None}]
  BY DEF IndInv, TypeOK
<1>2. ASSUME requests' = requests, notified' = notified
      PROVE  /\ \A r \in Requests : TellStep(r)
             /\ \A o \in Orders : NoticeStep(o)
  BY <1>2 DEF TellStep, NoticeStep
<1>3. CASE UNCHANGED vars
  BY <1>2, <1>3 DEF vars
<1>4. ASSUME NEW o \in Orders,
             \/ OutboxTrigger(o) \/ OutboxSave(o)
             \/ OutboxRetrigger(o) \/ KeyExpires(o)
      PROVE  requests' = requests /\ notified' = notified
  BY <1>4
     DEF OutboxTrigger, OutboxSave, OutboxRetrigger, KeyExpires, UnchangedActors
<1>5. ASSUME NEW j \in Jobs, TimeoutElapses(j) \/ Evict(j)
      PROVE  requests' = requests /\ notified' = notified
  BY <1>5 DEF TimeoutElapses, Evict, UnchangedActors
<1>6. ASSUME NEW w \in Workers,
             (\E j \in Jobs : TakeJob(w, j)) \/ WorkerFails(w) \/ JobStalls(w)
      PROVE  requests' = requests /\ notified' = notified
  BY <1>6 DEF TakeJob, WorkerFails, JobStalls, UnchangedByWorkers
<1>7. ASSUME NEW w \in Workers, WorkerStep(w)
      PROVE  /\ \A r \in Requests : TellStep(r)
             /\ \A o \in Orders : NoticeStep(o)
  <2>1. requests' = requests
    BY <1>7
       DEF WorkerStep, ReadOrder, findNearestEligibleDrivers,
           assignDriverWithLock, NoDriverLocked, expireOrder, NoticeExpired,
           ArmTimeout, SetTimeoutKey, RevokeOffer, DropTimeoutKey, Retrigger,
           FinishJob, UnchangedByWorkers
  <2>2. \/ notified' = notified
        \/ notified' = [notified EXCEPT ![OrderOf(w)] = "EXPIRED"]
    BY <1>7
       DEF WorkerStep, ReadOrder, findNearestEligibleDrivers,
           assignDriverWithLock, NoDriverLocked, expireOrder, NoticeExpired,
           ArmTimeout, SetTimeoutKey, RevokeOffer, DropTimeoutKey, Retrigger,
           FinishJob
  <2>3. \A o \in Orders : NoticeStep(o)
    BY <1>1, <2>2 DEF NoticeStep
  <2> QED BY <2>1, <2>3 DEF TellStep
<1>8. ASSUME NEW q \in Requests, NewCall(q) \/ RequestStep(q) \/ RequestFails(q)
      PROVE  /\ \A r \in Requests : TellStep(r)
             /\ \A o \in Orders : NoticeStep(o)
  <2>1. \A r \in Requests : TellStep(r)
    BY <1>8, NewCallTells, RequestTells
  <2>2. CASE Announce(q)
    <3>1. /\ requests[q].pc = "announce"
          /\ notified' = [notified EXCEPT ![requests[q].order] = requests[q].new]
      BY <2>2 DEF Announce, Target
    <3>2. \A o \in Orders : NoticeStep(o)
      BY <1>1, <3>1 DEF NoticeStep, Tells
    <3> QED BY <2>1, <3>2
  <2>3. CASE ~Announce(q)
    <3>1. notified' = notified
      BY <1>8, <2>3
         DEF NewCall, Accept, Reject, ReadForUpdate, ReadForReassign,
             ReadForDelete, RequestStep, GetTimeoutKey, RemoveTimeoutJob,
             DeleteTimeoutKey, Trigger, CommitUpdate, CommitReopen,
             CommitDelete, RequestFails
    <3> QED BY <2>1, <3>1 DEF NoticeStep
  <2> QED BY <2>2, <2>3
<1> QED BY <1>2, <1>3, <1>4, <1>5, <1>6, <1>7, <1>8, JobTypes DEF Next

\* The customer hears that a driver is coming only about an order that a driver
\* accepted, although the message leaves three awaits after the acceptance.
THEOREM ArrivalSafe == Spec => []ArrivalNoticeTrue
<1>1. Init => NoticeInv
  BY StatusAssumption DEF Init, NoticeInv, Tells, IdleRequest, OrderStatus
<1>2. IndInv /\ NoticeInv /\ [Next]_vars => NoticeInv'
  <2> SUFFICES ASSUME IndInv, NoticeInv, [Next]_vars
               PROVE  NoticeInv'
    OBVIOUS
  <2>1. /\ \A r \in Requests : TellStep(r)
        /\ \A o \in Orders : NoticeStep(o)
    BY NextTells
  <2>2. \A r \in Requests : Tells(requests[r]) => requests[r].order \in Orders
    BY DEF IndInv, Targeted, Tells
  <2>3. ASSUME NEW o \in Orders, notified'[o] = "DRIVER_ARRIVING"
        PROVE  Came(orders'[o])
    <3>1. Came(orders[o])
      BY <2>1, <2>3 DEF NoticeStep, NoticeInv
    <3> QED BY <3>1, CameStays
  <2>4. ASSUME NEW r \in Requests, Tells(requests'[r])
        PROVE  Came(orders'[requests'[r].order])
    <3>1. CASE Tells(requests[r]) /\ requests'[r].order = requests[r].order
      BY <2>2, <3>1, CameStays DEF NoticeInv
    <3> QED BY <2>1, <2>4, <3>1 DEF TellStep
  <2> QED BY <2>3, <2>4 DEF NoticeInv, Tells
<1>3. NoticeInv => ArrivalNoticeTrue
  BY DEF NoticeInv, ArrivalNoticeTrue, Came
<1> QED BY <1>1, <1>2, <1>3, Invariance, PTL DEF Spec

-----------------------------------------------------------------------------
(* The refinement *)

\* A step writes one row at most.
LEMMA OneRow ==
  ASSUME [Next]_vars
  PROVE  \/ orders' = orders
         \/ \E o, row : orders' = [orders EXCEPT ![o] = row]
<1>1. ASSUME NEW w \in Workers, WorkerStep(w)
      PROVE  orders' = orders \/ \E o, row : orders' = [orders EXCEPT ![o] = row]
  <2>1. CASE assignDriverWithLock(w)
    BY <2>1 DEF assignDriverWithLock, Save
  <2>2. CASE expireOrder(w)
    BY <2>2 DEF expireOrder, UnchangedTables, Save
  <2>3. CASE RevokeOffer(w)
    BY <2>3 DEF RevokeOffer, UnchangedTables, Save
  <2> QED
    BY <1>1, <2>1, <2>2, <2>3
       DEF WorkerStep, ReadOrder, findNearestEligibleDrivers, NoDriverLocked, NoticeExpired,
           ArmTimeout, SetTimeoutKey, DropTimeoutKey, Retrigger, FinishJob, UnchangedTables
<1>2. CASE \E r \in Requests : NewCall(r)
  <2>1. ASSUME NEW r \in Requests, NEW o \in Orders, NEW d \in Drivers,
               Accept(r, o, d) \/ Reject(r, o, d)
        PROVE  \E p, row : orders' = [orders EXCEPT ![p] = row]
    BY <2>1 DEF Accept, Reject, Save
  <2> QED BY <1>2, <2>1
             DEF NewCall, ReadForUpdate, ReadForReassign, ReadForDelete, UnchangedTables
<1>3. CASE \E r \in Requests : RequestStep(r)
  BY <1>3
     DEF RequestStep, GetTimeoutKey, RemoveTimeoutJob, DeleteTimeoutKey,
         Announce, Trigger, CommitUpdate, CommitReopen, CommitDelete,
         UnchangedTables, Save
<1> QED
  BY <1>1, <1>2, <1>3
     DEF Next, vars, OutboxTrigger, OutboxSave, OutboxRetrigger, KeyExpires,
         TimeoutElapses, Evict, TakeJob, WorkerFails, JobStalls, RequestFails,
         UnchangedTables

StageOf(row) == [status |-> row.status, assigned |-> row.assigned]
Life == [o \in Orders |-> StageOf(orders[o])]

\* A legal write is a move of the lifecycle.
LEMMA WriteIsMove ==
  ASSUME NEW o \in Orders, TypeOK, LegalWrite(orders[o], orders'[o]),
         Life' = [Life EXCEPT ![o] = StageOf(orders'[o])]
  PROVE  Lifecycle!Next
<1> DEFINE old == orders[o]
           row == orders'[o]
<1>1. /\ old \in Row
      /\ Life[o] = StageOf(old)
      /\ Life[o].status = old.status
      /\ Life[o].assigned = old.assigned
  BY DEF TypeOK, Life, StageOf
<1>2. ASSUME NEW s, NEW d, row.status = s, row.assigned = d
      PROVE  Lifecycle!Move(o, Lifecycle!Stage(s, d))
  BY <1>2 DEF Lifecycle!Move, Lifecycle!Stage, Life, StageOf
<1>3. CASE old.status = "PENDING" /\ \E d \in Drivers : row = Offered(old, d)
  <2>1. PICK d \in Drivers : row = Offered(old, d)
    BY <1>3
  <2>2. row.status = "DRIVER_ASSIGNED" /\ row.assigned = d
    BY <1>1, <2>1 DEF Offered, Row
  <2>3. Lifecycle!Offer(o, d)
    BY <1>1, <1>2, <1>3, <2>2 DEF Lifecycle!Offer, Life, StageOf
  <2> QED BY <2>3 DEF Lifecycle!Next
<1>4. CASE old.status = "PENDING" /\ row = Expired(old)
  <2>1. row.status = "EXPIRED" /\ row.assigned = None
    BY <1>1, <1>4 DEF Expired, Row
  <2>2. Lifecycle!GiveUp(o)
    BY <1>1, <1>2, <1>4, <2>1 DEF Lifecycle!GiveUp, Life, StageOf
  <2> QED BY <2>2 DEF Lifecycle!Next
<1>5. CASE /\ old.status = "DRIVER_ASSIGNED"
           /\ row = Revoked(old) \/ \E d \in Drivers : row = Rejected(old, d)
  <2>1. row.status \in {"PENDING", "EXPIRED"} /\ row.assigned = None
    BY <1>1, <1>5 DEF Revoked, Rejected, Row
  <2>2. Lifecycle!Withdraw(o)
    BY <1>1, <1>2, <1>5, <2>1 DEF Lifecycle!Withdraw, Life, StageOf
  <2> QED BY <2>2 DEF Lifecycle!Next
<1>6. CASE old.status = "EXPIRED" /\ row = Reopened(old, old.version)
  <2>1. row.status = "PENDING" /\ row.assigned = None
    BY <1>1, <1>6 DEF Reopened, Row
  <2>2. Lifecycle!Reopen(o)
    BY <1>1, <1>2, <1>6, <2>1 DEF Lifecycle!Reopen, Life, StageOf
  <2> QED BY <2>2 DEF Lifecycle!Next
<1>7. ASSUME NEW s, <<old.status, s>> \in Lifecycle!Advances,
             row.status = s, row.assigned = old.assigned
      PROVE  Lifecycle!Next
  <2>1. Lifecycle!Advance(o, s)
    <3> DEFINE life == [p \in Orders |-> [status |-> orders[p].status,
                                         assigned |-> orders[p].assigned]]
    <3>1. life[o].status = old.status /\ life[o].assigned = old.assigned
      OBVIOUS
    <3>2. life' = [life EXCEPT ![o] = [status |-> s,
                                       assigned |-> old.assigned]]
      BY <1>7 DEF Life, StageOf
    <3> QED
      BY <1>7, <3>1, <3>2
         DEF Lifecycle!Advance, Lifecycle!Move, Lifecycle!Stage
  <2>2. s \in {edge[2] : edge \in Lifecycle!Advances}
    BY <1>7
  <2> QED BY <2>1, <2>2 DEF Lifecycle!Next
<1>8. CASE old.status = "DRIVER_ASSIGNED" /\ row = Accepted(old)
  <2>1. row.status = "DRIVER_ARRIVING" /\ row.assigned = old.assigned
    BY <1>1, <1>8 DEF Accepted, Row
  <2>2. <<old.status, "DRIVER_ARRIVING">> \in Lifecycle!Advances
    BY <1>8 DEF Lifecycle!Advances
  <2> QED BY <1>7, <2>1, <2>2
<1>9. CASE \E s \in OrderStatus \ SystemOnly :
             /\ <<old.status, s>> \in ORDER_TRANSITIONS
             /\ row = Moved(old, s, old.version)
  <2>1. PICK s \in OrderStatus \ SystemOnly :
               /\ <<old.status, s>> \in ORDER_TRANSITIONS
               /\ row = Moved(old, s, old.version)
    BY <1>9
  <2>2. row.status = s /\ row.assigned = old.assigned
    BY <1>1, <2>1 DEF Moved, Row
  <2>3. <<old.status, s>> \in Lifecycle!Advances
    BY <2>1 DEF ORDER_TRANSITIONS, SystemOnly, Lifecycle!Advances
  <2> QED BY <1>7, <2>2, <2>3
<1> QED BY <1>3, <1>4, <1>5, <1>6, <1>8, <1>9 DEF LegalWrite

\* The two services together keep the promise of OrderLifecycle: whatever
\* handlers and calls interleave or fail, an order moves along its edges.
THEOREM RefinesLifecycle == Spec => ImplementsLifecycle
<1>1. Init => Lifecycle!Init
  BY DEF Init, NewOrder, Lifecycle!Init, Lifecycle!Stage
<1>2. IndInv /\ [Next]_vars => [Lifecycle!Next]_Life
  <2> SUFFICES ASSUME IndInv, [Next]_vars, Life' # Life
               PROVE  Lifecycle!Next
    OBVIOUS
  <2>1. PICK o \in Orders : orders'[o] # orders[o]
    BY DEF Life
  <2>2. PICK p, row : orders' = [orders EXCEPT ![p] = row]
    BY <2>1, OneRow
  <2>3. p = o /\ orders'[o] = row
    BY <2>1, <2>2 DEF IndInv, TypeOK
  <2>4. Life' = [Life EXCEPT ![o] = StageOf(orders'[o])]
    BY <2>2, <2>3 DEF Life, IndInv, TypeOK
  <2>5. CASE LegalWrite(orders[o], orders'[o])
    BY <2>4, <2>5, WriteIsMove DEF IndInv
  <2>6. CASE orders'[o] = [orders[o] EXCEPT !.deleted = TRUE]
    <3>1. StageOf(orders'[o]) = StageOf(orders[o])
      BY <2>6 DEF StageOf, IndInv, TypeOK, Row
    <3> QED BY <2>4, <3>1 DEF Life
  <2>7. RowStep(o)
    BY NextRowStep DEF IndInv
  <2> QED BY <2>1, <2>5, <2>6, <2>7 DEF RowStep
<1>3. [Lifecycle!Next]_Life =>
        [Lifecycle!Next]_([o \in Orders |->
                             [status |-> orders[o].status,
                              assigned |-> orders[o].assigned]])
  BY DEF Life, StageOf
<1> QED
  BY <1>1, <1>2, <1>3, Invariance, PTL
     DEF Spec, ImplementsLifecycle, Lifecycle!Spec

=============================================================================
