---------------------------- MODULE TimerProofs ----------------------------
(***************************************************************************)
(* Theorems about the timers of Dispatch: which offer a timeout ends, and  *)
(* that an open offer has one.  The first holds as long as no expired      *)
(* order is reopened; the second as long as nobody asks for a reassignment *)
(* and nothing fails (with a reassignment, the run timer_removed shows how *)
(* an offer loses its timer).                                              *)
(***************************************************************************)
EXTENDS DispatchProofs

-----------------------------------------------------------------------------
(* What a step does to a worker *)

\* Steps of a handler that touch no row an offer depends on.
Moves ==
  {<<"read", "finish">>, <<"read", "expire">>, <<"read", "find">>,
   <<"find", "expire">>, <<"find", "lock">>, <<"lock", "expire">>,
   <<"expire", "notice">>, <<"notice", "finish">>, <<"arm", "setKey">>,
   <<"setKey", "finish">>, <<"dropKey", "notice">>, <<"dropKey", "retrigger">>,
   <<"retrigger", "finish">>}

Stays(w) ==
  /\ workers'[w].pc = workers[w].pc
  /\ workers'[w].job = workers[w].job
  /\ workers'[w].driver = workers[w].driver
  /\ workers'[w].version = workers[w].version

Takes(w) ==
  \E j \in Jobs :
    /\ queue[j] = "waiting"
    /\ workers'[w].job = j
    /\ workers'[w].pc = IF j \in AssignJobs THEN "read" ELSE "revoke"

Goes(w) ==
  /\ <<workers[w].pc, workers'[w].pc>> \in Moves
  /\ workers'[w].job = workers[w].job

Makes(w) ==
  LET o == OrderOf(w) IN
    /\ workers[w].pc = "lock" /\ workers'[w].pc = "arm"
    /\ workers'[w].job = workers[w].job
    /\ orders[o].status = "PENDING"
    /\ workers'[w].version = orders[o].version + 1
    /\ workers'[w].driver \in Drivers \ orders[o].attempted
    /\ orders' = [orders EXCEPT ![o] = Offered(orders[o], workers'[w].driver)]
    /\ \A v \in Workers \ {w} : workers'[v] = workers[v]

Ends(w) ==
  /\ workers[w].pc = "revoke" /\ workers'[w].pc \in {"dropKey", "finish"}
  /\ workers'[w].job = workers[w].job
  /\ ~AwaitsAnswerOf(orders'[OrderOf(w)], workers[w].job.driver)

HandlerStep(w) ==
  Stays(w) \/ workers'[w].pc = "idle" \/ Goes(w) \/ Makes(w) \/ Ends(w)

WorkStep(w) == HandlerStep(w) \/ Takes(w)

\* The others are left alone, and the new locals are those the action names.
LEMMA OneWorker ==
  ASSUME TypeOK, NEW w \in Workers, NEW locals, Continue(w, locals)
  PROVE  /\ workers'[w] = locals
         /\ \A v \in Workers : v = w \/ Stays(v)
         /\ \A v \in Workers \ {w} : workers'[v] = workers[v]
BY DEF Continue, TypeOK, Stays

\* A handler that only goes on to the next step keeps its locals.
LEMMA OneStep ==
  ASSUME TypeOK, NEW w \in Workers, NEW step, GoTo(w, step)
  PROVE  /\ workers'[w].pc = step /\ workers'[w].job = workers[w].job
         /\ \A v \in Workers : v = w \/ Stays(v)
<1>1. workers[w] \in Worker
  BY DEF TypeOK
<1> DEFINE l == [workers[w] EXCEPT !.pc = step]
<1>2. l.pc = step /\ l.job = workers[w].job
  BY <1>1 DEF Worker
<1>3. Continue(w, l)
  BY DEF GoTo
<1> HIDE DEF l
<1> QED BY <1>2, <1>3, OneWorker

LEMMA WorkerWorks ==
  ASSUME TypeOK, Targeted, NEW w \in Workers, WorkerStep(w)
  PROVE  \A v \in Workers : HandlerStep(v)
<1>0. workers[w] \in Worker
  BY DEF TypeOK
<1>1. ASSUME NEW step, GoTo(w, step), <<workers[w].pc, step>> \in Moves
      PROVE  \A v \in Workers : HandlerStep(v)
  BY <1>1, OneStep DEF HandlerStep, Goes
<1>2. ASSUME NEW l, Continue(w, l), <<workers[w].pc, l.pc>> \in Moves, l.job = workers[w].job
      PROVE  \A v \in Workers : HandlerStep(v)
  BY <1>2, OneWorker DEF HandlerStep, Goes
<1>3. CASE ReadOrder(w)
  <2> DEFINE row == orders[OrderOf(w)]
             found == IF AfterRead(row) = "find" THEN row.attempted ELSE {}
             l == [workers[w] EXCEPT !.pc = AfterRead(row), !.found = found]
  <2>1. workers[w].pc = "read" /\ Continue(w, l)
    BY <1>3 DEF ReadOrder
  <2>2. l.pc = AfterRead(row) /\ l.job = workers[w].job
    BY <1>0 DEF Worker
  <2>3. AfterRead(row) \in {"finish", "expire", "find"}
    BY DEF AfterRead
  <2> HIDE DEF l, row
  <2> QED BY <1>2, <2>1, <2>2, <2>3 DEF Moves
<1>4. CASE findNearestEligibleDrivers(w)
  <2>1. PICK candidates \in SUBSET (Drivers \ workers[w].found) :
          Continue(w, [workers[w] EXCEPT
                         !.pc = IF candidates = {} THEN "expire" ELSE "lock",
                         !.found = candidates])
    BY <1>4 DEF findNearestEligibleDrivers
  <2> DEFINE l == [workers[w] EXCEPT
                     !.pc = IF candidates = {} THEN "expire" ELSE "lock",
                     !.found = candidates]
  <2>2. l.pc \in {"expire", "lock"} /\ l.job = workers[w].job
    BY <1>0 DEF Worker
  <2>3. workers[w].pc = "find" /\ Continue(w, l)
    BY <1>4, <2>1 DEF findNearestEligibleDrivers
  <2> HIDE DEF l
  <2> QED BY <1>2, <2>2, <2>3 DEF Moves
<1>5. CASE assignDriverWithLock(w)
  <2> DEFINE o == OrderOf(w)
             row == orders[o]
  <2>1. PICK d \in workers[w].found \ row.attempted :
          /\ Save(o, Offered(row, d), row.status)
          /\ Continue(w, [workers[w] EXCEPT !.pc = "arm", !.driver = d,
                            !.found = {}, !.version = row.version + 1])
    BY <1>5 DEF assignDriverWithLock
  <2> DEFINE l == [workers[w] EXCEPT !.pc = "arm", !.driver = d,
                     !.found = {}, !.version = row.version + 1]
  <2>2. /\ l.pc = "arm" /\ l.job = workers[w].job /\ l.driver = d
        /\ l.version = row.version + 1
    BY <1>0 DEF Worker
  <2>3. d \in Drivers \ row.attempted
    BY <1>0, <2>1 DEF Worker
  <2>4. workers[w].pc = "lock" /\ row.status = "PENDING" /\ Continue(w, l)
    BY <1>5, <2>1 DEF assignDriverWithLock, shouldSkipAssignment
  <2>5. orders' = [orders EXCEPT ![o] = Offered(row, d)]
    BY <2>1 DEF Save
  <2> HIDE DEF l
  <2>6. /\ workers'[w] = l /\ \A v \in Workers : v = w \/ Stays(v)
        /\ \A v \in Workers \ {w} : workers'[v] = workers[v]
    BY <2>4, OneWorker
  <2>7. Makes(w)
    BY <2>2, <2>3, <2>4, <2>5, <2>6 DEF Makes
  <2> QED BY <2>6, <2>7 DEF HandlerStep
<1>6. CASE NoDriverLocked(w)
  <2> DEFINE l == [workers[w] EXCEPT !.pc = "expire", !.found = {}]
  <2>1. workers[w].pc = "lock" /\ Continue(w, l)
    BY <1>6 DEF NoDriverLocked
  <2>2. l.pc = "expire" /\ l.job = workers[w].job
    BY <1>0 DEF Worker
  <2> HIDE DEF l
  <2> QED BY <1>2, <2>1, <2>2 DEF Moves
<1>7. CASE expireOrder(w)
  BY <1>1, <1>7 DEF expireOrder, Moves
<1>8. CASE NoticeExpired(w)
  BY <1>1, <1>8 DEF NoticeExpired, Moves
<1>9. CASE ArmTimeout(w)
  BY <1>1, <1>9 DEF ArmTimeout, Moves
<1>10. CASE SetTimeoutKey(w)
  BY <1>1, <1>10 DEF SetTimeoutKey, Moves
<1>11. CASE RevokeOffer(w)
  <2> DEFINE o == OrderOf(w)
             row == orders[o]
             d == workers[w].job.driver
             outcome == Revoked(row).status
             l == [workers[w] EXCEPT !.pc = "dropKey", !.outcome = outcome]
  <2>0. workers[w].pc = "revoke" /\ o \in Orders
    BY <1>11, JobTypes DEF RevokeOffer, Targeted, OrderOf
  <2>1. CASE TimeoutApplies(row, d)
    <3>1. Save(o, Revoked(row), row.status) /\ Continue(w, l)
      BY <1>11, <2>1 DEF RevokeOffer
    <3>2. l.pc = "dropKey" /\ l.job = workers[w].job
      <4> HIDE DEF outcome
      <4> QED BY <1>0 DEF Worker
    <3>3. orders'[o] = Revoked(row) /\ row \in Row
      BY <2>0, <3>1 DEF Save, TypeOK
    <3>4. orders'[o].status # "DRIVER_ASSIGNED"
      BY <3>3 DEF Revoked, Row
    <3> HIDE DEF l
    <3>5. ~AwaitsAnswerOf(orders'[o], d)
      BY <3>4 DEF AwaitsAnswerOf
    <3>6. workers'[w] = l /\ \A v \in Workers : v = w \/ Stays(v)
      BY <3>1, OneWorker
    <3>7. Ends(w)
      BY <2>0, <3>2, <3>5, <3>6 DEF Ends
    <3> QED BY <3>6, <3>7 DEF HandlerStep
  <2>2. CASE ~TimeoutApplies(row, d)
    <3>1. UnchangedTables /\ GoTo(w, "finish")
      BY <1>11, <2>2 DEF RevokeOffer
    <3>2. ~AwaitsAnswerOf(orders'[o], d)
      BY <2>2, <3>1 DEF TimeoutApplies, AwaitsAnswerOf, UnchangedTables
    <3>3. Ends(w)
      BY <2>0, <3>1, <3>2, OneStep DEF Ends
    <3> QED BY <3>1, <3>3, OneStep DEF HandlerStep
  <2> QED BY <2>1, <2>2
<1>12. CASE DropTimeoutKey(w)
  BY <1>1, <1>12 DEF DropTimeoutKey, Moves
<1>13. CASE Retrigger(w)
  BY <1>1, <1>13 DEF Retrigger, Moves
<1>14. CASE FinishJob(w)
  <2>1. Continue(w, IdleWorker) /\ IdleWorker.pc = "idle"
    BY <1>14 DEF FinishJob, IdleWorker
  <2> QED BY <2>1, OneWorker DEF HandlerStep
<1> QED
  BY <1>3, <1>4, <1>5, <1>6, <1>7, <1>8, <1>9, <1>10, <1>11, <1>12, <1>13, <1>14 DEF WorkerStep

LEMMA NextWorks ==
  ASSUME TypeOK, Targeted, [Next]_vars
  PROVE  \A v \in Workers : WorkStep(v)
<1>1. ASSUME workers' = workers PROVE \A v \in Workers : WorkStep(v)
  BY <1>1 DEF WorkStep, HandlerStep, Stays
<1>2. CASE UNCHANGED vars
  BY <1>1, <1>2 DEF vars
<1>3. ASSUME NEW o \in Orders,
             OutboxTrigger(o) \/ OutboxSave(o) \/ OutboxRetrigger(o) \/ KeyExpires(o)
      PROVE  \A v \in Workers : WorkStep(v)
  BY <1>1, <1>3 DEF OutboxTrigger, OutboxSave, OutboxRetrigger, KeyExpires, UnchangedActors
<1>4. ASSUME NEW j \in Jobs, TimeoutElapses(j) \/ Evict(j)
      PROVE  \A v \in Workers : WorkStep(v)
  BY <1>1, <1>4 DEF TimeoutElapses, Evict, UnchangedActors
<1>5. ASSUME NEW w \in Workers, NEW j \in Jobs, TakeJob(w, j)
      PROVE  \A v \in Workers : WorkStep(v)
  <2> DEFINE step == IF j \in AssignJobs THEN "read" ELSE "revoke"
             l == [IdleWorker EXCEPT !.job = j, !.pc = step]
  <2>1. Continue(w, l) /\ queue[j] = "waiting"
    BY <1>5 DEF TakeJob
  <2>2. l.job = j /\ l.pc = step
    BY DEF IdleWorker
  <2> HIDE DEF l
  <2>3. Takes(w)
    BY <2>1, <2>2, OneWorker DEF Takes
  <2> QED BY <2>1, <2>3, OneWorker DEF WorkStep, HandlerStep
<1>6. ASSUME NEW w \in Workers, WorkerFails(w)
      PROVE  \A v \in Workers : WorkStep(v)
  <2>1. Continue(w, IdleWorker) /\ IdleWorker.pc = "idle"
    BY <1>6 DEF WorkerFails, IdleWorker
  <2> QED BY <2>1, OneWorker DEF WorkStep, HandlerStep
<1>7. ASSUME NEW w \in Workers, JobStalls(w)
      PROVE  \A v \in Workers : WorkStep(v)
  <2> DEFINE l == [workers[w] EXCEPT !.holds = FALSE]
  <2>1. Continue(w, l)
    BY <1>7 DEF JobStalls
  <2>2. l.pc = workers[w].pc /\ l.job = workers[w].job
        /\ l.driver = workers[w].driver /\ l.version = workers[w].version
    BY DEF TypeOK, Worker
  <2> HIDE DEF l
  <2>3. Stays(w)
    BY <2>1, <2>2, OneWorker DEF Stays
  <2> QED BY <2>1, <2>3, OneWorker DEF WorkStep, HandlerStep
<1>8. ASSUME NEW r \in Requests, NewCall(r) \/ RequestStep(r) \/ RequestFails(r)
      PROVE  \A v \in Workers : WorkStep(v)
  <2>1. workers' = workers
    BY <1>8
       DEF NewCall, Accept, Reject, ReadForUpdate, ReadForReassign, ReadForDelete,
           RequestStep, GetTimeoutKey, RemoveTimeoutJob, DeleteTimeoutKey, Announce,
           Trigger, CommitUpdate, CommitReopen, CommitDelete, RequestFails,
           UnchangedByRequests
  <2> QED BY <1>1, <2>1
<1> QED
  BY <1>2, <1>3, <1>4, <1>5, <1>6, <1>7, <1>8, JobTypes, WorkerWorks DEF Next, WorkStep

-----------------------------------------------------------------------------
(* What a step does to a timer *)

\* Worker w has offered order o to d and is about to create the timer.
Arming(w, o, d) == workers[w].pc = "arm" /\ OrderOf(w) = o /\ workers[w].driver = d

\* The queue knows the job, or a handler of it is at work.
Known(j) ==
  \/ queue[j] # "absent"
  \/ \E w \in Workers : workers[w].pc # "idle" /\ workers[w].job = j

\* A timer begins in the handler that made the offer, and only there.
TimerStep(j) ==
  \/ armedFor'[j] = armedFor[j] /\ (queue'[j] # "absent" => Known(j))
  \/ \E w \in Workers :
       /\ Arming(w, j.order, j.driver) /\ workers'[w].pc = "setKey"
       /\ queue[j] = "absent" /\ armedFor'[j] = workers[w].version

\* A timeout job is named by its order and its driver.
LEMMA TimerNames ==
  ASSUME NEW j \in TimeoutJobs
  PROVE  /\ j \in Jobs /\ j.order \in Orders /\ j.driver \in Drivers
         /\ j = TimeoutJob(j.order, j.driver)
         /\ \A o : AssignJob(o) # j
BY DEF TimeoutJobs, TimeoutJob, AssignJob, Jobs

LEMMA NextTimers ==
  ASSUME TypeOK, Targeted, [Next]_vars, NEW j \in TimeoutJobs
  PROVE  TimerStep(j)
<1>0. j \in Jobs /\ queue \in [Jobs -> JobStates] /\ armedFor \in [TimeoutJobs -> Nat]
  BY TimerNames DEF TypeOK
<1>1. ASSUME armedFor' = armedFor, queue'[j] # "absent" => queue[j] # "absent"
      PROVE  TimerStep(j)
  BY <1>1 DEF TimerStep, Known
<1>2. ASSUME NEW k \in Jobs, NEW s, queue[k] # "absent" \/ s = "absent",
             queue' = [queue EXCEPT ![k] = s], armedFor' = armedFor
      PROVE  TimerStep(j)
  BY <1>0, <1>1, <1>2
<1>3. ASSUME NEW o \in Orders, queue' = AddJob(queue, AssignJob(o), "waiting"), armedFor' = armedFor
      PROVE  TimerStep(j)
  BY <1>0, <1>1, <1>3, TimerNames DEF AddJob
\* A job that a handler holds changes its state.
<1>4. ASSUME NEW w \in Workers, workers[w].pc # "idle", NEW s,
             queue' = [queue EXCEPT ![workers[w].job] = s], armedFor' = armedFor
      PROVE  TimerStep(j)
  BY <1>0, <1>4 DEF TimerStep, Known
<1>5. CASE UNCHANGED vars
  BY <1>1, <1>5 DEF vars
<1>6. ASSUME NEW o \in Orders,
             OutboxTrigger(o) \/ OutboxSave(o) \/ OutboxRetrigger(o) \/ KeyExpires(o)
      PROVE  TimerStep(j)
  BY <1>1, <1>3, <1>6 DEF OutboxTrigger, OutboxSave, OutboxRetrigger, KeyExpires
<1>7. ASSUME NEW k \in Jobs, TimeoutElapses(k) \/ Evict(k)
      PROVE  TimerStep(j)
  BY <1>2, <1>7 DEF TimeoutElapses, Evict
<1>8. ASSUME NEW w \in Workers, NEW k \in Jobs, TakeJob(w, k)
      PROVE  TimerStep(j)
  BY <1>2, <1>8 DEF TakeJob
<1>9. ASSUME NEW w \in Workers, WorkerFails(w) \/ JobStalls(w)
      PROVE  TimerStep(j)
  BY <1>1, <1>4, <1>9 DEF WorkerFails, JobStalls
<1>10. ASSUME NEW w \in Workers, WorkerStep(w)
       PROVE  TimerStep(j)
  <2>1. CASE ArmTimeout(w)
    <3> DEFINE k == TimeoutJob(OrderOf(w), workers[w].driver)
    <3>1. workers[w].pc = "arm" /\ GoTo(w, "setKey")
      BY <2>1 DEF ArmTimeout
    <3>2. CASE j # k \/ queue[k] # "absent"
      <4>1. queue'[j] = queue[j] /\ armedFor'[j] = armedFor[j]
        BY <1>0, <2>1, <3>2 DEF ArmTimeout, AddJob
      <4> QED BY <4>1 DEF TimerStep, Known
    <3>3. CASE j = k /\ queue[k] = "absent"
      <4>1. armedFor'[j] = workers[w].version
        BY <1>0, <2>1, <3>3 DEF ArmTimeout
      <4>2. Arming(w, j.order, j.driver)
        BY <3>1, <3>3 DEF Arming, TimeoutJob
      <4>3. workers'[w].pc = "setKey"
        BY <3>1, OneStep
      <4> QED BY <3>3, <4>1, <4>2, <4>3 DEF TimerStep
    <3> QED BY <3>2, <3>3
  <2>2. CASE Retrigger(w)
    <3>1. OrderOf(w) \in Orders
      BY <2>2, JobTypes DEF Retrigger, Targeted, OrderOf
    <3> QED BY <1>3, <2>2, <3>1 DEF Retrigger
  <2>3. CASE FinishJob(w)
    BY <1>1, <1>4, <2>3 DEF FinishJob
  <2>4. CASE \/ ReadOrder(w) \/ findNearestEligibleDrivers(w) \/ assignDriverWithLock(w)
             \/ NoDriverLocked(w) \/ expireOrder(w) \/ NoticeExpired(w)
             \/ SetTimeoutKey(w) \/ RevokeOffer(w) \/ DropTimeoutKey(w)
    BY <1>1, <2>4
       DEF ReadOrder, findNearestEligibleDrivers, assignDriverWithLock, NoDriverLocked,
           expireOrder, NoticeExpired, SetTimeoutKey, RevokeOffer, DropTimeoutKey
  <2> QED BY <1>10, <2>1, <2>2, <2>3, <2>4 DEF WorkerStep
<1>11. ASSUME NEW r \in Requests, NewCall(r) \/ RequestStep(r) \/ RequestFails(r)
       PROVE  TimerStep(j)
  <2>1. CASE RemoveTimeoutJob(r)
    <3>1. armedFor' = armedFor /\ (queue'[j] # "absent" => queue[j] # "absent")
      BY <1>0, <2>1 DEF RemoveTimeoutJob, RemoveJob, UnchangedByRequests
    <3> QED BY <1>1, <3>1
  <2>2. CASE Trigger(r)
    <3>1. Target(r) \in Orders
      BY <2>2 DEF Trigger, Targeted, Target
    <3> QED BY <1>3, <2>2, <3>1 DEF Trigger, UnchangedByRequests
  <2>3. CASE ~RemoveTimeoutJob(r) /\ ~Trigger(r)
    <3>1. armedFor' = armedFor /\ queue' = queue
      BY <1>11, <2>3
         DEF NewCall, Accept, Reject, ReadForUpdate, ReadForReassign, ReadForDelete,
             RequestStep, GetTimeoutKey, DeleteTimeoutKey, Announce,
             CommitUpdate, CommitReopen, CommitDelete, RequestFails, UnchangedByRequests
    <3> QED BY <1>1, <3>1
  <2> QED BY <2>1, <2>2, <2>3
<1> QED BY <1>5, <1>6, <1>7, <1>8, <1>9, <1>10, <1>11, JobTypes DEF Next

-----------------------------------------------------------------------------
(* What a step does to an offer, if nothing is reopened *)

Reopening == \E o \in Orders : orders[o].status = "EXPIRED" /\ orders'[o].status = "PENDING"

NothingReopens == \A r \in Requests : requests[r].pc # "reopen"

\* Without a call that reopens there is none in the next state either.
LEMMA ReopensNothing ==
  ASSUME "reassign" \notin Calls, TypeOK, Targeted, NothingReopens, [Next]_vars
  PROVE  NothingReopens'
<1>1. ASSUME NEW r \in Requests PROVE requests'[r].pc # "reopen"
  <2>1. CallStep(r)
    BY NextCallStep
  <2>2. ASSUME NEW o, NEW s,
               requests'[r] = [IdleRequest EXCEPT !.pc = "update", !.order = o,
                                 !.prev = orders[o].status, !.new = s,
                                 !.version = orders[o].version]
        PROVE  requests'[r].pc = "update"
    BY <2>2 DEF IdleRequest
  <2> QED BY <2>1, <2>2 DEF CallStep, NothingReopens
<1> QED BY <1>1 DEF NothingReopens

\* Without a call that reopens, no step does.
LEMMA OnlyCallsReopen ==
  ASSUME IndInv, NothingReopens, [Next]_vars
  PROVE  ~Reopening
<1> SUFFICES ASSUME NEW o \in Orders, orders[o].status = "EXPIRED", orders'[o].status = "PENDING"
             PROVE  FALSE
  BY DEF Reopening
<1>1. RowStep(o) /\ orders[o] \in Row
  BY NextRowStep DEF IndInv, TypeOK
<1>2. orders'[o] # [orders[o] EXCEPT !.deleted = TRUE]
  BY <1>1 DEF Row
<1> QED BY <1>1, <1>2 DEF RowStep, ReopensOnly, NothingReopens

\* Only the offer itself makes a driver able to answer, and a driver once
\* offered an order is remembered.
LEMMA OfferStep ==
  ASSUME IndInv, ~Reopening, [Next]_vars, NEW o \in Orders
  PROVE  /\ orders[o].attempted \subseteq orders'[o].attempted
         /\ \A d : AwaitsAnswerOf(orders'[o], d) =>
              \/ /\ AwaitsAnswerOf(orders[o], d)
                 /\ orders'[o].version = orders[o].version
              \/ d \in Drivers \ orders[o].attempted
<1> DEFINE old == orders[o]
           row == orders'[o]
<1>1. RowStep(o) /\ old \in Row
  BY NextRowStep DEF IndInv, TypeOK
<1>2. CASE row = old
  BY <1>2
<1>3. CASE row = [old EXCEPT !.deleted = TRUE]
  BY <1>1, <1>3 DEF Row, AwaitsAnswerOf
<1>4. CASE LegalWrite(old, row)
  <2>1. CASE \E d \in Drivers \ old.attempted : row = Offered(old, d)
    BY <1>1, <2>1 DEF Offered, Row, AwaitsAnswerOf
  <2>2. CASE \/ row = Expired(old) \/ row = Revoked(old) \/ row = Accepted(old)
             \/ \E d \in Drivers : row = Rejected(old, d)
    <3>1. row = Expired(old) =>
            row.status # "DRIVER_ASSIGNED" /\ old.attempted \subseteq row.attempted
      BY <1>1 DEF Expired, Row
    <3>2. row = Revoked(old) =>
            row.status # "DRIVER_ASSIGNED" /\ old.attempted \subseteq row.attempted
      BY <1>1 DEF Revoked, Row
    <3>3. row = Accepted(old) =>
            row.status # "DRIVER_ASSIGNED" /\ old.attempted \subseteq row.attempted
      BY <1>1 DEF Accepted, Row
    <3>4. ASSUME NEW d \in Drivers, row = Rejected(old, d)
          PROVE  row.status # "DRIVER_ASSIGNED" /\ old.attempted \subseteq row.attempted
      <4> DEFINE r == Revoked(old)
      <4>1. r \in Row /\ r.status # "DRIVER_ASSIGNED" /\ r.attempted = old.attempted
        BY <1>1, RowOps DEF Revoked, Row
      <4>2. row = [r EXCEPT !.attempted = @ \cup {d}]
        BY <3>4 DEF Rejected
      <4> HIDE DEF r
      <4> QED BY <4>1, <4>2 DEF Row
    <3> QED BY <2>2, <3>1, <3>2, <3>3, <3>4 DEF AwaitsAnswerOf
  <2>3. CASE \E s \in OrderStatus \ SystemOnly : row = Moved(old, s, old.version)
    <3>1. row.status # "DRIVER_ASSIGNED" /\ row.attempted = old.attempted
      BY <1>1, <2>3 DEF Moved, SystemOnly, Row
    <3> QED BY <3>1 DEF AwaitsAnswerOf
  <2>4. CASE old.status = "EXPIRED" /\ row = Reopened(old, old.version)
    <3>1. row.status = "PENDING"
      BY <1>1, <2>4 DEF Reopened, Row
    <3> QED BY <2>4, <3>1 DEF Reopening
  <2> QED BY <1>4, <2>1, <2>2, <2>3, <2>4 DEF LegalWrite
<1> QED BY <1>1, <1>2, <1>3, <1>4 DEF RowStep

-----------------------------------------------------------------------------
(* Which offer a timeout ends *)

\* The timer belongs to the offer that its driver can answer, if there is one.
ArmedRight(j) ==
  /\ j.driver \in orders[j.order].attempted
  /\ AwaitsAnswerOf(orders[j.order], j.driver) =>
       armedFor[j] = orders[j.order].version

\* A handler that is about to create a timer is the only one to do so for this
\* order and driver, and the first.
ArmsFirst(w, o, d) ==
  /\ d \in orders[o].attempted
  /\ ~Known(TimeoutJob(o, d))
  /\ AwaitsAnswerOf(orders[o], d) => workers[w].version = orders[o].version
  /\ \A v \in Workers : Arming(v, o, d) => v = w

TimerInv ==
  /\ \A j \in TimeoutJobs : Known(j) => ArmedRight(j)
  /\ \A w \in Workers, o \in Orders, d \in Drivers :
       Arming(w, o, d) => ArmsFirst(w, o, d)

\* What becomes known was known, or has just been armed.
LEMMA KnownBefore ==
  ASSUME IndInv, [Next]_vars, NEW j \in TimeoutJobs, Known(j)'
  PROVE  \/ Known(j) /\ armedFor'[j] = armedFor[j]
         \/ \E w \in Workers :
              /\ Arming(w, j.order, j.driver) /\ workers'[w].pc = "setKey"
              /\ armedFor'[j] = workers[w].version
<1>1. TimerStep(j) /\ \A w \in Workers : WorkStep(w)
  BY NextTimers, NextWorks DEF IndInv
<1>2. ASSUME NEW w \in Workers, workers'[w].pc # "idle", workers'[w].job = j
      PROVE  Known(j)
  <2>1. (workers[w].pc # "idle" /\ workers[w].job = j) \/ queue[j] = "waiting"
    BY <1>1, <1>2 DEF WorkStep, HandlerStep, Stays, Takes, Goes, Makes, Ends, Moves
  <2> QED BY <2>1 DEF Known
<1>3. queue'[j] # "absent" \/ Known(j)
  BY <1>2 DEF Known
<1> QED BY <1>1, <1>3 DEF TimerStep

\* Who is about to create a timer was so before, or has just made the offer.
LEMMA ArmsBefore ==
  ASSUME IndInv, [Next]_vars, NEW w \in Workers, NEW o, NEW d, Arming(w, o, d)'
  PROVE  \/ Arming(w, o, d) /\ workers'[w].version = workers[w].version
         \/ Makes(w) /\ OrderOf(w) = o /\ workers'[w].driver = d
<1>1. WorkStep(w)
  BY NextWorks DEF IndInv
<1>2. workers'[w].pc = "arm" /\ workers'[w].job.order = o /\ workers'[w].driver = d
  BY DEF Arming, OrderOf
<1> QED BY <1>1, <1>2 DEF WorkStep, HandlerStep, Stays, Takes, Goes, Makes, Ends, Moves, Arming, OrderOf

LEMMA TimerInductive ==
  ASSUME IndInv, TimerInv, ~Reopening, [Next]_vars
  PROVE  TimerInv'
<1>2. ASSUME NEW o \in Orders
      PROVE  /\ orders[o].attempted \subseteq orders'[o].attempted
             /\ \A d : AwaitsAnswerOf(orders'[o], d) =>
                  \/ /\ AwaitsAnswerOf(orders[o], d)
                     /\ orders'[o].version = orders[o].version
                  \/ d \in Drivers \ orders[o].attempted
  BY OfferStep
<1>3. ASSUME NEW j \in TimeoutJobs, Known(j)' PROVE ArmedRight(j)'
  <2> DEFINE o == j.order
             d == j.driver
  <2>0. o \in Orders /\ d \in Drivers
    BY TimerNames
  <2>1. CASE Known(j) /\ armedFor'[j] = armedFor[j]
    <3>1. ArmedRight(j)
      BY <2>1 DEF TimerInv
    <3> QED BY <1>2, <2>0, <2>1, <3>1 DEF ArmedRight
  <2>2. ASSUME NEW w \in Workers, Arming(w, o, d), armedFor'[j] = workers[w].version
        PROVE  ArmedRight(j)'
    <3>1. ArmsFirst(w, o, d)
      BY <2>0, <2>2 DEF TimerInv
    <3> QED BY <1>2, <2>0, <2>2, <3>1 DEF ArmedRight, ArmsFirst
  <2> QED BY <1>3, <2>1, <2>2, KnownBefore
<1>4. ASSUME NEW w \in Workers, NEW o \in Orders, NEW d \in Drivers, Arming(w, o, d)'
      PROVE  ArmsFirst(w, o, d)'
  <2> DEFINE j == TimeoutJob(o, d)
  <2>0. j \in TimeoutJobs /\ j.order = o /\ j.driver = d
    BY JobTypes DEF TimeoutJob
  <2>1. Known(j)' => \/ Known(j)
                     \/ \E v \in Workers : Arming(v, o, d) /\ workers'[v].pc = "setKey"
    BY <2>0, KnownBefore
  <2>2. CASE Arming(w, o, d) /\ workers'[w].version = workers[w].version
    <3>1. ArmsFirst(w, o, d)
      BY <2>2 DEF TimerInv
    <3>2. ~Known(j)'
      BY <1>4, <2>1, <3>1 DEF ArmsFirst, Arming
    <3>3. \A v \in Workers : Arming(v, o, d)' => v = w
      BY <3>1, ArmsBefore DEF ArmsFirst, Makes
    <3> QED BY <1>2, <2>2, <3>1, <3>2, <3>3 DEF ArmsFirst
  <2>3. CASE Makes(w) /\ OrderOf(w) = o /\ workers'[w].driver = d
    <3>1. /\ d \in Drivers \ orders[o].attempted
          /\ orders'[o] = Offered(orders[o], d) /\ orders[o] \in Row
          /\ workers'[w].version = orders[o].version + 1
      BY <2>3 DEF Makes, IndInv, TypeOK
    <3>2. d \in orders'[o].attempted /\ orders'[o].version = orders[o].version + 1
      BY <3>1 DEF Offered, Row
    <3>3. ~Known(j)
      BY <2>0, <3>1 DEF TimerInv, ArmedRight
    <3>4. \A v \in Workers : ~Arming(v, o, d)
      BY <3>1 DEF TimerInv, ArmsFirst
    <3>5. \A v \in Workers : Arming(v, o, d)' => v = w
      <4>1. ASSUME NEW v \in Workers \ {w} PROVE ~Arming(v, o, d)'
        <5>1. workers'[v] = workers[v]
          BY <2>3 DEF Makes
        <5> QED BY <3>4, <5>1 DEF Arming, OrderOf
      <4> QED BY <4>1
    <3> QED BY <2>1, <3>1, <3>2, <3>3, <3>4, <3>5 DEF ArmsFirst
  <2> QED BY <1>4, <2>2, <2>3, ArmsBefore
<1> QED BY <1>3, <1>4 DEF TimerInv

LEMMA TimerStart == Init => TimerInv
<1> SUFFICES ASSUME Init PROVE TimerInv
  OBVIOUS
<1>1. \A w \in Workers : workers[w].pc = "idle"
  BY DEF Init, IdleWorker
<1>2. \A j \in TimeoutJobs : queue[j] = "absent"
  BY JobTypes DEF Init
<1> QED BY <1>1, <1>2 DEF TimerInv, Known, Arming

\* As long as no expired order is reopened, a timeout ends the offer that its
\* job was created for and no other: whatever is called, also when handlers
\* fail or stall, triggers are repeated, jobs are handled twice or are
\* forgotten by the queue.
THEOREM StaleTimeoutsHarmless ==
  Spec /\ [][~Reopening]_vars => StaleTimeoutSkipped
<1>1. IndInv /\ TimerInv /\ [Next]_vars /\ [~Reopening]_vars => TimerInv'
  <2>1. UNCHANGED vars => ~Reopening
    BY DEF Reopening, vars
  <2> QED BY <2>1, TimerInductive
<1>2. IndInv /\ TimerInv /\ [Next]_vars =>
        [\A w \in Workers :
           RevokeOffer(w) /\ orders' # orders =>
             armedFor[workers[w].job] = orders[OrderOf(w)].version]_vars
  <2> SUFFICES ASSUME IndInv, TimerInv, NEW w \in Workers, RevokeOffer(w), orders' # orders
               PROVE  armedFor[workers[w].job] = orders[OrderOf(w)].version
    OBVIOUS
  <2> DEFINE o == OrderOf(w)
             j == workers[w].job
  <2>1. TimeoutApplies(orders[o], j.driver) /\ workers[w].pc = "revoke"
    BY DEF RevokeOffer, UnchangedTables
  <2>2. j \in Jobs /\ o \in Orders /\ j.order = o
    BY <2>1, JobTypes DEF IndInv, Targeted, OrderOf
  <2>3. j.driver # None
    BY <2>1, <2>2 DEF TimeoutApplies, IndInv, AssignmentAgrees, Agrees, Unassigned
  <2>4. j \in TimeoutJobs
    BY <2>2, <2>3 DEF Jobs, AssignJobs
  <2>5. ArmedRight(j)
    BY <2>1, <2>4 DEF TimerInv, Known
  <2> QED BY <2>1, <2>2, <2>5 DEF ArmedRight, TimeoutApplies, AwaitsAnswerOf
<1> QED BY <1>1, <1>2, TimerStart, Invariance, PTL DEF Spec, StaleTimeoutSkipped

-----------------------------------------------------------------------------
(* Who may get the next offer out, if nothing fails *)

ServeSteps == {"read", "find", "lock", "dropKey", "retrigger"}
CancelSteps == {"getKey", "removeJob", "delKey", "trigger"}

Serves(w, o) == workers[w].pc \in ServeSteps /\ OrderOf(w) = o
Cancels(r, o) == requests[r].pc \in CancelSteps /\ Target(r) = o

\* An order is in one hand: its outbox row, its assignment job, a driver who
\* can answer, a handler that is to offer it or to have it offered again, or
\* a call that has taken it from its driver.
Claim(o, x) ==
  \/ x = <<"outbox", o>> /\ outbox[o] = "PENDING"
  \/ x = <<"queue", o>> /\ queue[AssignJob(o)] = "waiting"
  \/ x = <<"offer", o>> /\ orders[o].status = "DRIVER_ASSIGNED"
  \/ \E w \in Workers : x = <<"worker", w>> /\ Serves(w, o)
  \/ \E r \in Requests : x = <<"call", r>> /\ Cancels(r, o)

OneClaim(o) == \A x, y : Claim(o, x) /\ Claim(o, y) => x = y

\* A step makes a claim only by giving another one up.
ClaimStep(o) ==
  \/ \A x : Claim(o, x)' => Claim(o, x)
  \/ \E x, y :
       /\ Claim(o, x) /\ ~Claim(o, x)'
       /\ \A z : Claim(o, z)' => Claim(o, z) \/ z = y

LEMMA OneClaimStays ==
  ASSUME NEW o, OneClaim(o), ClaimStep(o)
  PROVE  OneClaim(o)'
<1>1. CASE \A x : Claim(o, x)' => Claim(o, x)
  BY <1>1 DEF OneClaim
<1>2. ASSUME NEW x, NEW y, Claim(o, x), ~Claim(o, x)',
             \A z : Claim(o, z)' => Claim(o, z) \/ z = y
      PROVE  OneClaim(o)'
  <2>1. ASSUME NEW z, Claim(o, z)' PROVE z = y
    <3>1. Claim(o, z) => z = x
      BY <1>2 DEF OneClaim
    <3> QED BY <1>2, <2>1, <3>1
  <2> QED BY <2>1 DEF OneClaim
<1> QED BY <1>1, <1>2 DEF ClaimStep

\* A handler that goes on makes no new claim unless it ends an offer.
LEMMA ServeKeeping ==
  ASSUME TypeOK, Targeted, NEW w \in Workers, WorkerStep(w)
  PROVE  /\ \A v \in Workers : \A o : Serves(v, o)' => Serves(v, o) \/ (v = w /\ Ends(w))
         /\ \A v \in Workers : v = w \/ Stays(v)
         /\ \A v \in Workers \ {w} : workers'[v] = workers[v]
         /\ HandlerStep(w)
<1>1. \A v \in Workers : HandlerStep(v)
  BY WorkerWorks
<1>2. PICK l : Continue(w, l)
  BY DEF WorkerStep, ReadOrder, findNearestEligibleDrivers, assignDriverWithLock,
         NoDriverLocked, expireOrder, NoticeExpired, ArmTimeout, SetTimeoutKey,
         RevokeOffer, DropTimeoutKey, Retrigger, FinishJob, GoTo
<1>3. /\ \A v \in Workers : v = w \/ Stays(v)
      /\ \A v \in Workers \ {w} : workers'[v] = workers[v]
  BY <1>2, OneWorker
<1>4. ASSUME NEW v \in Workers, NEW o, Serves(v, o)'
      PROVE  Serves(v, o) \/ (v = w /\ Ends(w))
  <2>1. workers'[v].pc \in ServeSteps /\ workers'[v].job.order = o
    BY <1>4 DEF Serves, OrderOf
  <2>2. CASE v = w
    BY <1>1, <2>1, <2>2
       DEF HandlerStep, Stays, Goes, Makes, Moves, Serves, OrderOf, ServeSteps
  <2>3. CASE Stays(v)
    BY <2>1, <2>3 DEF Stays, Serves, OrderOf
  <2> QED BY <1>3, <2>2, <2>3
<1> QED BY <1>1, <1>3, <1>4

\* A call that goes on is no new claim unless it starts as one.
LEMMA CancelKeeping ==
  ASSUME TypeOK, NEW r \in Requests, NEW l, Proceed(r, l),
         l.pc \in CancelSteps => requests[r].pc \in CancelSteps /\ l.order = Target(r)
  PROVE  \A q \in Requests : \A o : Cancels(q, o)' => Cancels(q, o)
BY DEF Proceed, TypeOK, Cancels, Target

\* A row that is not an offer is no new claim.
LEMMA OfferKeeping ==
  ASSUME TypeOK, NEW p, NEW row, NEW prev, Save(p, row, prev), row.status # "DRIVER_ASSIGNED"
  PROVE  \A o \in Orders : orders'[o].status = "DRIVER_ASSIGNED" => orders[o].status = "DRIVER_ASSIGNED"
BY DEF Save, TypeOK

\* Adding an assignment job is a claim on its order at most.
LEMMA QueueAdding ==
  ASSUME TypeOK, NEW p \in Orders, queue' = AddJob(queue, AssignJob(p), "waiting"), NEW o \in Orders
  PROVE  queue'[AssignJob(o)] = "waiting" => queue[AssignJob(o)] = "waiting" \/ o = p
BY JobTypes DEF AddJob, TypeOK, AssignJob

LEMMA WorkerClaims ==
  ASSUME IndInv, NEW w \in Workers, WorkerStep(w)
  PROVE  \A o \in Orders : ClaimStep(o)
<1>p. PICK p : p = OrderOf(w)
  OBVIOUS
<1>0. TypeOK /\ Targeted /\ outbox' = outbox /\ requests' = requests
  BY DEF IndInv, WorkerStep, ReadOrder, findNearestEligibleDrivers, assignDriverWithLock,
         NoDriverLocked, expireOrder, NoticeExpired, ArmTimeout, SetTimeoutKey,
         RevokeOffer, DropTimeoutKey, Retrigger, FinishJob, UnchangedByWorkers
<1>1. /\ \A v \in Workers : \A o : Serves(v, o)' => Serves(v, o) \/ (v = w /\ Ends(w))
      /\ HandlerStep(w)
  BY <1>0, ServeKeeping
<1>2. \A r \in Requests : \A o : Cancels(r, o)' => Cancels(r, o)
  BY <1>0 DEF Cancels, Target
\* Of one order, nothing is new.
<1>3. ASSUME NEW o \in Orders, ~Ends(w) \/ o # p \/ workers'[w].pc \notin ServeSteps,
             queue'[AssignJob(o)] = "waiting" => queue[AssignJob(o)] = "waiting",
             orders'[o].status = "DRIVER_ASSIGNED" => orders[o].status = "DRIVER_ASSIGNED"
      PROVE  ClaimStep(o)
  <2>1. \A v \in Workers : Serves(v, o)' => Serves(v, o)
    BY <1>p, <1>1, <1>3 DEF Ends, Serves, OrderOf
  <2> QED BY <1>0, <1>2, <1>3, <2>1 DEF ClaimStep, Claim
<1>4. ASSUME workers[w].pc # "idle" PROVE p \in Orders
  BY <1>p, <1>0, <1>4, JobTypes DEF Targeted, OrderOf
<1>5. CASE assignDriverWithLock(w)
  <2>1. workers[w].pc = "lock" /\ queue' = queue /\ ~Ends(w) /\ p \in Orders
    BY <1>p, <1>4, <1>5 DEF assignDriverWithLock, Ends
  <2>2. \A o \in Orders : o = p \/ orders'[o] = orders[o]
    BY <1>p, <1>0, <1>5 DEF assignDriverWithLock, Save, TypeOK
  <2>3. workers'[w].pc = "arm"
    <3>1. PICK d : Continue(w, [workers[w] EXCEPT !.pc = "arm", !.driver = d, !.found = {},
                                  !.version = orders[p].version + 1])
      BY <1>p, <1>5 DEF assignDriverWithLock
    <3> DEFINE l == [workers[w] EXCEPT !.pc = "arm", !.driver = d, !.found = {},
                       !.version = orders[p].version + 1]
    <3>2. l.pc = "arm"
      BY <1>0 DEF TypeOK, Worker
    <3> HIDE DEF l
    <3> QED BY <1>0, <3>1, <3>2, OneWorker DEF l
  <2>4. Claim(p, <<"worker", w>>) /\ ~Claim(p, <<"worker", w>>)'
    BY <1>p, <2>1, <2>3 DEF Claim, Serves, ServeSteps
  <2>5. \A z : Claim(p, z)' => Claim(p, z) \/ z = <<"offer", p>>
    BY <1>0, <1>1, <1>2, <2>1 DEF Claim
  <2> QED BY <1>3, <2>1, <2>2, <2>4, <2>5 DEF ClaimStep
<1>6. CASE RevokeOffer(w)
  <2>1. workers[w].pc = "revoke" /\ queue' = queue /\ p \in Orders
    BY <1>p, <1>4, <1>6 DEF RevokeOffer
  <2>2. CASE TimeoutApplies(orders[p], workers[w].job.driver)
    <3>1. Save(p, Revoked(orders[p]), orders[p].status) /\ orders[p] \in Row
      BY <1>p, <1>0, <1>6, <2>1, <2>2 DEF RevokeOffer, TypeOK
    <3>2. Revoked(orders[p]).status # "DRIVER_ASSIGNED"
      BY <3>1 DEF Revoked, Row
    <3>3. /\ \A o \in Orders : orders'[o].status = "DRIVER_ASSIGNED" =>
                                 orders[o].status = "DRIVER_ASSIGNED"
          /\ orders'[p].status # "DRIVER_ASSIGNED"
      <4> DEFINE row == Revoked(orders[p])
      <4> HIDE DEF row
      <4>1. Save(p, row, orders[p].status) /\ row.status # "DRIVER_ASSIGNED"
        BY <3>1, <3>2 DEF row
      <4>2. orders'[p] = row
        BY <1>0, <2>1, <4>1 DEF Save, TypeOK
      <4> QED BY <1>0, <4>1, <4>2, OfferKeeping
    <3>4. Claim(p, <<"offer", p>>) /\ ~Claim(p, <<"offer", p>>)'
      BY <1>p, <2>2, <3>3 DEF Claim, TimeoutApplies
    <3>5. \A z : Claim(p, z)' => Claim(p, z) \/ z = <<"worker", w>>
      BY <1>0, <1>1, <1>2, <2>1, <3>3 DEF Claim
    <3>6. ClaimStep(p)
      BY <3>4, <3>5, Zenon DEF ClaimStep
    <3>7. ASSUME NEW o \in Orders, o # p PROVE ClaimStep(o)
      BY <1>3, <2>1, <3>3, <3>7
    <3> QED BY <3>6, <3>7
  <2>3. CASE ~TimeoutApplies(orders[p], workers[w].job.driver)
    <3>1. orders' = orders /\ GoTo(w, "finish")
      BY <1>p, <1>6, <2>3 DEF RevokeOffer, UnchangedTables
    <3>2. workers'[w].pc \notin ServeSteps
      BY <1>0, <3>1, OneStep DEF ServeSteps
    <3> QED BY <1>3, <2>1, <3>1, <3>2
  <2> QED BY <2>2, <2>3
<1>7. CASE Retrigger(w)
  <2>1. /\ workers[w].pc = "retrigger" /\ ~Ends(w) /\ p \in Orders /\ orders' = orders
        /\ queue' = AddJob(queue, AssignJob(p), "waiting") /\ GoTo(w, "finish")
    BY <1>p, <1>4, <1>7 DEF Retrigger, Ends, UnchangedTables
  <2>2. workers'[w].pc = "finish"
    BY <1>0, <2>1, OneStep
  <2>3. Claim(p, <<"worker", w>>) /\ ~Claim(p, <<"worker", w>>)'
    BY <1>p, <2>1, <2>2 DEF Claim, Serves, ServeSteps
  <2>4. \A z : Claim(p, z)' => Claim(p, z) \/ z = <<"queue", p>>
    BY <1>0, <1>1, <1>2, <2>1 DEF Claim
  <2>5. \A o \in Orders : o # p => (queue'[AssignJob(o)] = "waiting" => queue[AssignJob(o)] = "waiting")
    BY <1>0, <2>1, QueueAdding
  <2> QED BY <1>3, <2>1, <2>3, <2>4, <2>5 DEF ClaimStep
<1>8. CASE expireOrder(w)
  <2>1. workers[w].pc = "expire" /\ queue' = queue /\ ~Ends(w) /\ p \in Orders
    BY <1>p, <1>4, <1>8 DEF expireOrder, Ends
  <2>2. CASE orders' = orders
    BY <1>3, <2>1, <2>2
  <2>3. CASE Save(p, Expired(orders[p]), orders[p].status)
    <3>1. Expired(orders[p]).status = "EXPIRED"
      BY <1>0, <2>1 DEF Expired, TypeOK, Row
    <3>2. \A o \in Orders : orders'[o].status = "DRIVER_ASSIGNED" =>
                              orders[o].status = "DRIVER_ASSIGNED"
      BY <1>0, <2>3, <3>1, OfferKeeping
    <3> QED BY <1>3, <2>1, <3>2
  <2> QED BY <1>p, <1>8, <2>2, <2>3 DEF expireOrder, UnchangedTables
<1>9. CASE ArmTimeout(w) \/ FinishJob(w)
  <2>1. orders' = orders /\ ~Ends(w)
    BY <1>9 DEF ArmTimeout, FinishJob, Ends, UnchangedTables
  <2>2. \A o \in Orders : queue'[AssignJob(o)] = "waiting" => queue[AssignJob(o)] = "waiting"
    <3>1. CASE ArmTimeout(w)
      BY <1>0, <3>1, JobTypes DEF ArmTimeout, AddJob, TypeOK
    <3>2. CASE FinishJob(w)
      BY <1>0, <3>2, JobTypes DEF FinishJob, TypeOK
    <3> QED BY <1>9, <3>1, <3>2
  <2> QED BY <1>3, <2>1, <2>2
<1>10. CASE \/ ReadOrder(w) \/ findNearestEligibleDrivers(w) \/ NoDriverLocked(w)
            \/ NoticeExpired(w) \/ SetTimeoutKey(w) \/ DropTimeoutKey(w)
  <2>1. orders' = orders /\ queue' = queue /\ ~Ends(w)
    BY <1>10 DEF ReadOrder, findNearestEligibleDrivers, NoDriverLocked, NoticeExpired,
                 SetTimeoutKey, DropTimeoutKey, Ends, UnchangedTables
  <2> QED BY <1>3, <2>1
<1> QED BY <1>5, <1>6, <1>7, <1>8, <1>9, <1>10 DEF WorkerStep

\* An acceptance and a rejection take the order from its driver; a trigger
\* gives it to the queue.
LEMMA CallClaims ==
  ASSUME "reassign" \notin Calls, IndInv, NothingReopens, NEW r \in Requests,
         NewCall(r) \/ RequestStep(r) \/ RequestFails(r)
  PROVE  \A o \in Orders : ClaimStep(o)
<1>0. TypeOK /\ Targeted /\ outbox' = outbox /\ workers' = workers
  BY DEF IndInv, NewCall, Accept, Reject, ReadForUpdate, ReadForReassign, ReadForDelete,
         RequestStep, GetTimeoutKey, RemoveTimeoutJob, DeleteTimeoutKey, Announce,
         Trigger, CommitUpdate, CommitReopen, CommitDelete, RequestFails,
         UnchangedByRequests
<1>1. \A v \in Workers : \A o : Serves(v, o)' => Serves(v, o)
  BY <1>0 DEF Serves, OrderOf
\* Nothing is new, if the call's next step is no new claim.
<1>2. ASSUME NEW l, Proceed(r, l),
             l.pc \in CancelSteps => requests[r].pc \in CancelSteps /\ l.order = Target(r),
             \A o \in Orders : queue'[AssignJob(o)] = "waiting" => queue[AssignJob(o)] = "waiting",
             \A o \in Orders : orders'[o].status = "DRIVER_ASSIGNED" =>
                                 orders[o].status = "DRIVER_ASSIGNED"
      PROVE  \A o \in Orders : ClaimStep(o)
  BY <1>0, <1>1, <1>2, CancelKeeping DEF ClaimStep, Claim
<1>3. IdleRequest.pc = "idle" /\ "idle" \notin CancelSteps
  BY DEF IdleRequest, CancelSteps
\* A call that ends the offer of p.
<1>4. ASSUME NEW p \in Orders, NEW row, NEW l, AwaitsAnswerOf(orders[p], orders[p].assigned),
             Save(p, row, orders[p].status), row.status # "DRIVER_ASSIGNED",
             Proceed(r, l), l.order = p, queue' = queue, requests[r].pc = "idle"
      PROVE  \A o \in Orders : ClaimStep(o)
  <2>1. \A o \in Orders : orders'[o].status = "DRIVER_ASSIGNED" =>
                            orders[o].status = "DRIVER_ASSIGNED"
    BY <1>0, <1>4, OfferKeeping
  <2>2. orders'[p].status # "DRIVER_ASSIGNED"
    BY <1>0, <1>4 DEF Save, TypeOK
  <2>3. \A q \in Requests : \A o : Cancels(q, o)' => Cancels(q, o) \/ (q = r /\ o = p)
    BY <1>0, <1>4 DEF Cancels, Target, Proceed, TypeOK
  <2>4. Claim(p, <<"offer", p>>) /\ ~Claim(p, <<"offer", p>>)'
    BY <1>4, <2>2 DEF Claim, AwaitsAnswerOf
  <2>5. \A z : Claim(p, z)' => Claim(p, z) \/ z = <<"call", r>>
    BY <1>0, <1>1, <1>4, <2>1, <2>3 DEF Claim
  <2>6. ASSUME NEW o \in Orders, o # p PROVE ClaimStep(o)
    BY <1>0, <1>1, <1>4, <2>1, <2>3, <2>6 DEF Claim, ClaimStep
  <2> QED BY <2>4, <2>5, <2>6 DEF ClaimStep
<1>5. ASSUME NEW o \in Orders, NEW d \in Drivers, Accept(r, o, d)
      PROVE  \A p \in Orders : ClaimStep(p)
  <2> DEFINE row == Accepted(orders[o])
             l == [IdleRequest EXCEPT !.pc = "getKey", !.order = o, !.new = "DRIVER_ARRIVING"]
  <2>1. row.status # "DRIVER_ASSIGNED" /\ l.order = o
    BY <1>0 DEF Accepted, IdleRequest, TypeOK, Row
  <2>2. /\ AwaitsAnswerOf(orders[o], orders[o].assigned) /\ Save(o, row, orders[o].status)
        /\ Proceed(r, l) /\ queue' = queue /\ requests[r].pc = "idle"
    BY <1>5 DEF Accept, AwaitsAnswerOf, Starts
  <2> HIDE DEF row, l
  <2> QED BY <1>4, <2>1, <2>2
<1>6. ASSUME NEW o \in Orders, NEW d \in Drivers, Reject(r, o, d)
      PROVE  \A p \in Orders : ClaimStep(p)
  <2> DEFINE row == Rejected(orders[o], d)
             s == row.status
             l == [IdleRequest EXCEPT !.pc = "getKey", !.order = o, !.new = s]
  <2>1. row.status # "DRIVER_ASSIGNED"
    BY <1>0 DEF Rejected, Revoked, TypeOK, Row
  <2>2. l.order = o
    <3> HIDE DEF s
    <3> QED BY DEF IdleRequest
  <2>3. /\ AwaitsAnswerOf(orders[o], orders[o].assigned) /\ Save(o, row, orders[o].status)
        /\ Proceed(r, l) /\ queue' = queue /\ requests[r].pc = "idle"
    BY <1>6 DEF Reject, AwaitsAnswerOf, Starts
  <2> HIDE DEF row, l
  <2> QED BY <1>4, <2>1, <2>2, <2>3
<1>7. ASSUME NEW o \in Orders, NEW s \in OrderStatus, NEW user \in Users,
             ReadForUpdate(r, o, s, user)
      PROVE  \A p \in Orders : ClaimStep(p)
  <2> DEFINE l == [IdleRequest EXCEPT !.pc = "update", !.order = o,
                     !.prev = orders[o].status, !.new = s,
                     !.version = orders[o].version]
  <2>1. Proceed(r, l) /\ l.pc = "update" /\ queue' = queue /\ orders' = orders
    BY <1>7 DEF ReadForUpdate, IdleRequest, UnchangedTables
  <2> HIDE DEF l
  <2> QED BY <1>2, <2>1 DEF CancelSteps
<1>8. ASSUME NEW o \in Orders, ReadForDelete(r, o)
      PROVE  \A p \in Orders : ClaimStep(p)
  <2> DEFINE l == [IdleRequest EXCEPT !.pc = "delete", !.order = o]
  <2>1. Proceed(r, l) /\ l.pc = "delete" /\ queue' = queue /\ orders' = orders
    BY <1>8 DEF ReadForDelete, IdleRequest, UnchangedTables
  <2> HIDE DEF l
  <2> QED BY <1>2, <2>1 DEF CancelSteps
<1>9. \A o \in Orders : ~ReadForReassign(r, o)
  BY DEF ReadForReassign, Starts
<1>10. CASE GetTimeoutKey(r)
  <2> DEFINE d == timeoutKey[Target(r)]
             step == IF d = None THEN AfterCancel(r) ELSE "removeJob"
             l == [requests[r] EXCEPT !.driver = d, !.pc = step]
  <2>1. Proceed(r, l) /\ requests[r].pc = "getKey" /\ queue' = queue /\ orders' = orders
    BY <1>10 DEF GetTimeoutKey, UnchangedTables
  <2>2. l.order = Target(r)
    <3> HIDE DEF d, step
    <3> QED BY <1>0 DEF TypeOK, Request, Target
  <2> HIDE DEF l
  <2> QED BY <1>2, <2>1, <2>2 DEF CancelSteps
<1>11. CASE RemoveTimeoutJob(r)
  <2> DEFINE l == [requests[r] EXCEPT !.pc = "delKey", !.driver = None]
  <2>1. Proceed(r, l) /\ requests[r].pc = "removeJob" /\ orders' = orders
    BY <1>11 DEF RemoveTimeoutJob, UnchangedTables
  <2>2. l.order = Target(r)
    BY <1>0 DEF TypeOK, Request, Target
  <2>3. \A o \in Orders : queue'[AssignJob(o)] = "waiting" => queue[AssignJob(o)] = "waiting"
    BY <1>0, <1>11, JobTypes DEF RemoveTimeoutJob, RemoveJob, TypeOK
  <2> HIDE DEF l
  <2> QED BY <1>2, <2>1, <2>2, <2>3 DEF CancelSteps
<1>12. CASE DeleteTimeoutKey(r)
  <2> DEFINE l == [requests[r] EXCEPT !.pc = AfterCancel(r)]
  <2>1. Proceed(r, l) /\ requests[r].pc = "delKey" /\ queue' = queue /\ orders' = orders
    BY <1>12 DEF DeleteTimeoutKey, AdvanceTo, UnchangedTables
  <2>2. l.order = Target(r)
    BY <1>0 DEF TypeOK, Request, Target
  <2> HIDE DEF l
  <2> QED BY <1>2, <2>1, <2>2 DEF CancelSteps
<1>13. CASE Announce(r) \/ RequestFails(r)
  <2>1. Proceed(r, IdleRequest) /\ queue' = queue /\ orders' = orders
    BY <1>13 DEF Announce, RequestFails, UnchangedTables
  <2> QED BY <1>2, <1>3, <2>1
<1>14. CASE Trigger(r)
  <2>p. PICK p \in Orders : p = Target(r)
    BY <1>0, <1>14 DEF Trigger, Targeted, Target
  <2>1. /\ requests[r].pc = "trigger" /\ orders' = orders /\ Proceed(r, IdleRequest)
        /\ queue' = AddJob(queue, AssignJob(p), "waiting")
    BY <1>14, <2>p DEF Trigger, UnchangedTables
  <2>2. requests'[r].pc = "idle" /\ \A q \in Requests : \A o : Cancels(q, o)' => Cancels(q, o)
    BY <1>0, <1>3, <2>1, CancelKeeping DEF Proceed, TypeOK
  <2>3. Claim(p, <<"call", r>>) /\ ~Claim(p, <<"call", r>>)'
    BY <1>3, <2>p, <2>1, <2>2 DEF Claim, Cancels, CancelSteps
  <2>4. \A z : Claim(p, z)' => Claim(p, z) \/ z = <<"queue", p>>
    BY <1>0, <1>1, <2>1, <2>2 DEF Claim
  <2>5. ASSUME NEW o \in Orders, o # p PROVE ClaimStep(o)
    <3>1. queue'[AssignJob(o)] = "waiting" => queue[AssignJob(o)] = "waiting"
      BY <1>0, <2>1, <2>5, QueueAdding
    <3> QED BY <1>0, <1>1, <2>1, <2>2, <3>1 DEF Claim, ClaimStep
  <2> QED BY <2>3, <2>4, <2>5 DEF ClaimStep
<1>15. CASE CommitUpdate(r)
  <2> DEFINE p == Target(r)
             row == Moved(orders[p], requests[r].new, requests[r].version)
  <2>1. /\ requests[r].pc = "update" /\ Proceed(r, IdleRequest) /\ queue' = queue
        /\ orders' = orders \/ Save(p, row, requests[r].prev)
    BY <1>15 DEF CommitUpdate, UnchangedTables
  <2>2. requests[r].new # "DRIVER_ASSIGNED"
    BY <2>1 DEF IndInv, ReadsCurrent, Current, SystemOnly
  <2>3. row.status # "DRIVER_ASSIGNED"
    <3>1. orders[p] \in Row
      BY <1>0, <2>1 DEF Targeted, Target, TypeOK
    <3> QED BY <2>2, <3>1 DEF Moved, Row
  <2> HIDE DEF row, p
  <2>4. \A o \in Orders : orders'[o].status = "DRIVER_ASSIGNED" =>
                            orders[o].status = "DRIVER_ASSIGNED"
    BY <1>0, <2>1, <2>3, OfferKeeping
  <2> QED BY <1>2, <1>3, <2>1, <2>4
<1>16. CASE CommitDelete(r)
  <2>1. Proceed(r, IdleRequest) /\ queue' = queue
    BY <1>16 DEF CommitDelete
  <2>2. \A o \in Orders : orders'[o].status = orders[o].status
    BY <1>0, <1>16 DEF CommitDelete, TypeOK, Row
  <2> QED BY <1>2, <1>3, <2>1, <2>2
<1>17. ~CommitReopen(r)
  BY DEF CommitReopen, NothingReopens
<1> QED
  BY <1>5, <1>6, <1>7, <1>8, <1>9, <1>10, <1>11, <1>12, <1>13, <1>14, <1>15, <1>16, <1>17
     DEF NewCall, RequestStep

LEMMA NextClaims ==
  ASSUME "reassign" \notin Calls, FaultBound = 0, IndInv, NothingReopens, [Next]_vars
  PROVE  \A o \in Orders : ClaimStep(o)
<1>0. TypeOK /\ Targeted /\ ~(faults < FaultBound)
  BY DEF IndInv, TypeOK
\* Neither an order nor a handler nor a call changes.
<1>1. ASSUME UnchangedTables, workers' = workers, requests' = requests, NEW o \in Orders,
             outbox'[o] = "PENDING" => outbox[o] = "PENDING",
             queue'[AssignJob(o)] = "waiting" => queue[AssignJob(o)] = "waiting"
      PROVE  ClaimStep(o)
  BY <1>1 DEF UnchangedTables, ClaimStep, Claim, Serves, Cancels, OrderOf, Target
<1>2. CASE UNCHANGED vars
  BY <1>1, <1>2 DEF vars, UnchangedTables
<1>3. ASSUME NEW p \in Orders, OutboxTrigger(p)
      PROVE  \A o \in Orders : ClaimStep(o)
  <2>1. /\ outbox[p] = "PENDING" /\ outbox' = [outbox EXCEPT ![p] = "SENT"]
        /\ queue' = AddJob(queue, AssignJob(p), "waiting")
        /\ UnchangedTables /\ workers' = workers /\ requests' = requests
    BY <1>3 DEF OutboxTrigger, UnchangedActors
  <2>2. Claim(p, <<"outbox", p>>) /\ ~Claim(p, <<"outbox", p>>)'
    BY <1>0, <2>1 DEF Claim, TypeOK
  <2>3. \A z : Claim(p, z)' => Claim(p, z) \/ z = <<"queue", p>>
    BY <2>1, <2>2 DEF Claim, Serves, Cancels, OrderOf, Target, UnchangedTables
  <2>4. ASSUME NEW o \in Orders, o # p PROVE ClaimStep(o)
    <3>1. queue'[AssignJob(o)] = "waiting" => queue[AssignJob(o)] = "waiting"
      BY <1>0, <2>1, <2>4, QueueAdding
    <3>2. outbox'[o] = outbox[o]
      BY <1>0, <2>1, <2>4 DEF TypeOK
    <3> QED BY <1>1, <2>1, <3>1, <3>2
  <2> QED BY <2>2, <2>3, <2>4 DEF ClaimStep
<1>4. ASSUME NEW p \in Orders, OutboxSave(p) \/ KeyExpires(p)
      PROVE  \A o \in Orders : ClaimStep(o)
  <2>1. UnchangedTables /\ workers' = workers /\ requests' = requests /\ queue' = queue
    BY <1>4 DEF OutboxSave, KeyExpires, UnchangedActors
  <2>2. \A o \in Orders : outbox'[o] = "PENDING" => outbox[o] = "PENDING"
    BY <1>0, <1>4 DEF OutboxSave, KeyExpires, TypeOK
  <2> QED BY <1>1, <2>1, <2>2
<1>5. ASSUME NEW j \in TimeoutJobs, TimeoutElapses(j)
      PROVE  \A o \in Orders : ClaimStep(o)
  <2>1. UnchangedTables /\ workers' = workers /\ requests' = requests /\ outbox' = outbox
    BY <1>5 DEF TimeoutElapses, UnchangedActors
  <2>2. \A o \in Orders : queue'[AssignJob(o)] = queue[AssignJob(o)]
    BY <1>0, <1>5, TimerNames, JobTypes DEF TimeoutElapses, TypeOK
  <2> QED BY <1>1, <2>1, <2>2
<1>6. ASSUME NEW j \in Jobs, Evict(j)
      PROVE  \A o \in Orders : ClaimStep(o)
  <2>1. UnchangedTables /\ workers' = workers /\ requests' = requests /\ outbox' = outbox
    BY <1>6 DEF Evict, UnchangedActors
  <2>2. \A o \in Orders : queue'[AssignJob(o)] = "waiting" => queue[AssignJob(o)] = "waiting"
    BY <1>0, <1>6, JobTypes DEF Evict, TypeOK
  <2> QED BY <1>1, <2>1, <2>2
<1>7. ASSUME NEW w \in Workers, NEW j \in Jobs, TakeJob(w, j)
      PROVE  \A o \in Orders : ClaimStep(o)
  <2> DEFINE step == IF j \in AssignJobs THEN "read" ELSE "revoke"
             l == [IdleWorker EXCEPT !.job = j, !.pc = step]
  <2>1. /\ UnchangedTables /\ requests' = requests /\ outbox' = outbox
        /\ workers[w].pc = "idle" /\ Continue(w, l) /\ queue[j] = "waiting"
        /\ queue' = [queue EXCEPT ![j] = "active"]
    BY <1>7 DEF TakeJob, UnchangedByWorkers
  <2>2. l.job = j /\ l.pc = step
    BY DEF IdleWorker
  <2> HIDE DEF l
  <2>3. /\ \A o \in Orders : queue'[AssignJob(o)] = "waiting" => queue[AssignJob(o)] = "waiting"
        /\ queue'[j] = "active"
    BY <1>0, <2>1, JobTypes DEF TypeOK
  <2>4. \A v \in Workers : \A o :
          Serves(v, o)' => Serves(v, o) \/ (v = w /\ j \in AssignJobs /\ j.order = o)
    <3>1. workers'[w] = l /\ \A v \in Workers : v = w \/ Stays(v)
      BY <1>0, <2>1, OneWorker
    <3> QED BY <2>2, <3>1 DEF Serves, OrderOf, Stays, ServeSteps
  <2>5. ASSUME NEW o \in Orders, ~(j \in AssignJobs /\ j.order = o) PROVE ClaimStep(o)
    BY <2>1, <2>3, <2>4, <2>5 DEF ClaimStep, Claim, Cancels, Target, UnchangedTables
  <2>6. ASSUME NEW o \in Orders, j \in AssignJobs, j.order = o PROVE ClaimStep(o)
    <3>1. j = AssignJob(o)
      BY <2>6 DEF AssignJobs, AssignJob
    <3>2. Claim(o, <<"queue", o>>) /\ ~Claim(o, <<"queue", o>>)'
      BY <2>1, <2>3, <3>1 DEF Claim
    <3>3. \A z : Claim(o, z)' => Claim(o, z) \/ z = <<"worker", w>>
      BY <2>1, <2>3, <2>4 DEF Claim, Cancels, Target, UnchangedTables
    <3> QED BY <3>2, <3>3 DEF ClaimStep
  <2> QED BY <2>5, <2>6
<1>8. /\ \A o \in Orders : ~OutboxRetrigger(o)
      /\ \A w \in Workers : ~WorkerFails(w) /\ ~JobStalls(w)
  BY <1>0 DEF OutboxRetrigger, WorkerFails, JobStalls
<1> QED
  BY <1>2, <1>3, <1>4, <1>5, <1>6, <1>7, <1>8, WorkerClaims, CallClaims DEF Next

-----------------------------------------------------------------------------
(* That an open offer has its timer *)

Live == {"delayed", "waiting", "active"}

HasTimer(o, d) ==
  \/ queue[TimeoutJob(o, d)] \in Live
  \/ \E w \in Workers : /\ workers[w].pc = "arm"
                        /\ workers[w].job = AssignJob(o)
                        /\ workers[w].driver = d

\* What leads to an offer is an assignment job.
JobFits(w) == workers[w].pc \in {"read", "find", "lock", "arm"} => workers[w].job \in AssignJobs

\* Once a timeout has been handled, its driver cannot answer.
Ended(w) ==
  workers[w].pc \notin {"idle", "revoke"} /\ workers[w].job \in TimeoutJobs =>
    ~AwaitsAnswerOf(orders[OrderOf(w)], workers[w].job.driver)

OfferInv ==
  /\ NothingReopens
  /\ \A o \in Orders : OneClaim(o)
  /\ \A w \in Workers : JobFits(w) /\ Ended(w)
  /\ OfferHasTimer

\* A driver who becomes able to answer has just been offered the order.
LEMMA OfferMade ==
  ASSUME IndInv, NothingReopens, [Next]_vars, NEW o \in Orders, NEW d \in Drivers,
         AwaitsAnswerOf(orders'[o], d), ~AwaitsAnswerOf(orders[o], d)
  PROVE  \E w \in Workers : Makes(w) /\ OrderOf(w) = o /\ workers'[w].driver = d
<1>0. TypeOK /\ Targeted /\ orders[o] \in Row /\ orders'[o] # orders[o]
      /\ orders'[o].status = "DRIVER_ASSIGNED"
  BY DEF IndInv, TypeOK, AwaitsAnswerOf
\* Whoever writes another status has not done it.
<1>1. ASSUME NEW p \in Orders, NEW row, NEW prev, Save(p, row, prev),
             orders[p] \in Row => row.status # "DRIVER_ASSIGNED"
      PROVE  FALSE
  BY <1>0, <1>1 DEF Save, TypeOK
<1>2. \A row \in Row : /\ Expired(row).status # "DRIVER_ASSIGNED"
                       /\ Revoked(row).status # "DRIVER_ASSIGNED"
                       /\ Accepted(row).status # "DRIVER_ASSIGNED"
  BY DEF Expired, Revoked, Accepted, Row
<1>3. \A row \in Row, e \in Drivers : Rejected(row, e).status # "DRIVER_ASSIGNED"
  BY DEF Rejected, Revoked, Row
<1>4. ASSUME NEW w \in Workers, WorkerStep(w) PROVE assignDriverWithLock(w)
  <2>1. workers[w].pc # "idle" => OrderOf(w) \in Orders
    BY <1>0, JobTypes DEF Targeted, OrderOf
  <2>2. ~expireOrder(w)
    BY <1>0, <1>1, <1>2, <2>1 DEF expireOrder, UnchangedTables
  <2>3. ~RevokeOffer(w)
    BY <1>0, <1>1, <1>2, <2>1 DEF RevokeOffer, UnchangedTables
  <2> QED
    BY <1>0, <1>4, <2>2, <2>3
       DEF WorkerStep, ReadOrder, findNearestEligibleDrivers, NoDriverLocked, NoticeExpired,
           ArmTimeout, SetTimeoutKey, DropTimeoutKey, Retrigger, FinishJob, UnchangedTables
<1>5. ASSUME NEW r \in Requests, NewCall(r) PROVE FALSE
  <2>1. ASSUME NEW p \in Orders, NEW e \in Drivers, Accept(r, p, e) \/ Reject(r, p, e)
        PROVE  FALSE
    BY <1>1, <1>2, <1>3, <2>1 DEF Accept, Reject
  <2> QED BY <1>0, <1>5, <2>1
             DEF NewCall, ReadForUpdate, ReadForReassign, ReadForDelete, UnchangedTables
<1>6. ASSUME NEW r \in Requests, RequestStep(r) PROVE FALSE
  <2>1. CASE CommitUpdate(r)
    <3> DEFINE p == Target(r)
               row == Moved(orders[p], requests[r].new, requests[r].version)
    <3>1. p \in Orders /\ requests[r].new # "DRIVER_ASSIGNED"
      BY <1>0, <2>1 DEF CommitUpdate, Targeted, Target, IndInv, ReadsCurrent, Current, SystemOnly
    <3>2. orders[p] \in Row => row.status # "DRIVER_ASSIGNED"
      BY <3>1 DEF Moved, Row
    <3>3. orders' = orders \/ Save(p, row, requests[r].prev)
      BY <2>1 DEF CommitUpdate, UnchangedTables
    <3> HIDE DEF row, p
    <3> QED BY <1>0, <1>1, <3>1, <3>2, <3>3
  <2>2. CASE CommitDelete(r)
    BY <1>0, <2>2 DEF CommitDelete, TypeOK, Row, AwaitsAnswerOf
  <2> QED
    BY <1>0, <1>6, <2>1, <2>2
       DEF RequestStep, GetTimeoutKey, RemoveTimeoutJob, DeleteTimeoutKey, Announce,
           Trigger, CommitReopen, NothingReopens, UnchangedTables
<1>7. PICK w \in Workers : assignDriverWithLock(w) /\ WorkerStep(w)
  BY <1>0, <1>4, <1>5, <1>6
     DEF Next, vars, OutboxTrigger, OutboxSave, OutboxRetrigger, KeyExpires, TimeoutElapses,
         Evict, TakeJob, WorkerFails, JobStalls, RequestFails, UnchangedTables
<1>8. Makes(w)
  <2>1. workers[w].pc = "lock" /\ HandlerStep(w)
    BY <1>0, <1>7, WorkerWorks DEF assignDriverWithLock
  <2>2. workers'[w].pc = "arm"
    <3>1. PICK e : Continue(w, [workers[w] EXCEPT !.pc = "arm", !.driver = e, !.found = {},
                                  !.version = orders[OrderOf(w)].version + 1])
      BY <1>7 DEF assignDriverWithLock
    <3> DEFINE l == [workers[w] EXCEPT !.pc = "arm", !.driver = e, !.found = {},
                       !.version = orders[OrderOf(w)].version + 1]
    <3>2. l.pc = "arm"
      BY <1>0 DEF TypeOK, Worker
    <3> HIDE DEF l
    <3> QED BY <1>0, <3>1, <3>2, OneWorker DEF l
  <2> QED BY <2>1, <2>2 DEF HandlerStep, Stays, Goes, Moves, Ends
<1>9. OrderOf(w) = o
  BY <1>0, <1>8 DEF Makes, TypeOK
<1>10. orders'[o].assigned = workers'[w].driver
  BY <1>0, <1>8, <1>9 DEF Makes, TypeOK, Offered, Row
<1> QED BY <1>8, <1>9, <1>10 DEF AwaitsAnswerOf

\* A timer stays until its offer ends.
LEMMA TimerStays ==
  ASSUME FaultBound = 0, IndInv, TimerInv, OfferInv, [Next]_vars,
         NEW o \in Orders, NEW d \in Drivers,
         AwaitsAnswerOf(orders[o], d), HasTimer(o, d)
  PROVE  HasTimer(o, d)'
<1> DEFINE j == TimeoutJob(o, d)
<1>0. /\ TypeOK /\ Targeted /\ ~(faults < FaultBound)
      /\ j \in TimeoutJobs /\ j \in Jobs /\ queue \in [Jobs -> JobStates]
      /\ \A p : AssignJob(p) # j
  BY JobTypes, TimerNames DEF IndInv, TypeOK
<1>1. ASSUME workers' = workers, queue[j] \in Live => queue'[j] \in Live
      PROVE  HasTimer(o, d)'
  BY <1>1 DEF HasTimer
<1>2. ASSUME NEW p \in Orders, queue' = AddJob(queue, AssignJob(p), "waiting")
      PROVE  queue'[j] = queue[j]
  BY <1>0, <1>2 DEF AddJob
<1>3. CASE UNCHANGED vars
  BY <1>1, <1>3 DEF vars
<1>4. ASSUME NEW p \in Orders, OutboxTrigger(p) \/ OutboxSave(p) \/ KeyExpires(p)
      PROVE  HasTimer(o, d)'
  BY <1>1, <1>2, <1>4 DEF OutboxTrigger, OutboxSave, KeyExpires, UnchangedActors
<1>5. ASSUME NEW k \in Jobs, TimeoutElapses(k) \/ Evict(k)
      PROVE  HasTimer(o, d)'
  BY <1>0, <1>1, <1>5 DEF TimeoutElapses, Evict, UnchangedActors, Live, Retained
\* Who is about to create the timer goes on or stays.
<1>6. ASSUME NEW w \in Workers, workers[w].pc # "arm", queue[j] \in Live => queue'[j] \in Live,
             \A v \in Workers \ {w} : workers'[v] = workers[v]
      PROVE  HasTimer(o, d)'
  BY <1>6 DEF HasTimer
<1>7. ASSUME NEW w \in Workers, NEW k \in Jobs, TakeJob(w, k)
      PROVE  HasTimer(o, d)'
  <2>1. /\ workers[w].pc = "idle" /\ queue' = [queue EXCEPT ![k] = "active"]
        /\ \A v \in Workers \ {w} : workers'[v] = workers[v]
    BY <1>0, <1>7 DEF TakeJob, Continue, TypeOK
  <2> QED BY <1>0, <1>6, <2>1 DEF Live
<1>8. ASSUME NEW w \in Workers, WorkerStep(w)
      PROVE  HasTimer(o, d)'
  <2>0. \A v \in Workers \ {w} : workers'[v] = workers[v]
    BY <1>0, <1>8, ServeKeeping
  <2>1. CASE ArmTimeout(w)
    <3> DEFINE k == TimeoutJob(OrderOf(w), workers[w].driver)
    <3>1. queue' = AddJob(queue, k, "delayed") /\ workers[w].pc = "arm"
      BY <2>1 DEF ArmTimeout
    <3>2. CASE k = j
      <4>1. OrderOf(w) = o /\ workers[w].driver = d
        BY <3>2 DEF TimeoutJob
      <4>2. queue[j] = "absent"
        BY <3>1, <4>1 DEF TimerInv, ArmsFirst, Arming, Known
      <4>3. queue'[j] = "delayed"
        BY <1>0, <3>1, <3>2, <4>2 DEF AddJob
      <4> QED BY <4>3 DEF HasTimer, Live
    <3>3. CASE k # j
      <4>1. queue'[j] = queue[j]
        BY <1>0, <3>1, <3>3 DEF AddJob
      <4>2. \A v \in Workers :
              workers[v].job = AssignJob(o) /\ workers[v].driver = d => v # w
        BY <3>3 DEF OrderOf, AssignJob
      <4> QED BY <2>0, <4>1, <4>2 DEF HasTimer
    <3> QED BY <3>2, <3>3
  <2>2. CASE Retrigger(w)
    <3>1. /\ workers[w].pc = "retrigger" /\ OrderOf(w) \in Orders
          /\ queue' = AddJob(queue, AssignJob(OrderOf(w)), "waiting")
      BY <1>0, <2>2, JobTypes DEF Retrigger, Targeted, OrderOf
    <3> QED BY <1>2, <1>6, <2>0, <3>1
  <2>3. CASE FinishJob(w)
    <3>1. workers[w].pc = "finish"
      BY <2>3 DEF FinishJob
    <3>2. workers[w].job # j
      <4> SUFFICES ASSUME workers[w].job = j PROVE FALSE
        OBVIOUS
      <4>1. OrderOf(w) = o /\ workers[w].job.driver = d
        BY DEF OrderOf, TimeoutJob
      <4>2. Ended(w)
        BY DEF OfferInv
      <4> QED BY <1>0, <3>1, <4>1, <4>2 DEF Ended
    <3>3. queue'[j] = queue[j]
      BY <1>0, <2>3, <3>2 DEF FinishJob
    <3> QED BY <1>6, <2>0, <3>1, <3>3
  <2>4. CASE \/ ReadOrder(w) \/ findNearestEligibleDrivers(w) \/ assignDriverWithLock(w)
             \/ NoDriverLocked(w) \/ expireOrder(w) \/ NoticeExpired(w)
             \/ SetTimeoutKey(w) \/ RevokeOffer(w) \/ DropTimeoutKey(w)
    <3>1. queue' = queue /\ workers[w].pc # "arm"
      BY <2>4
         DEF ReadOrder, findNearestEligibleDrivers, assignDriverWithLock, NoDriverLocked,
             expireOrder, NoticeExpired, SetTimeoutKey, RevokeOffer, DropTimeoutKey
    <3> QED BY <1>6, <2>0, <3>1
  <2> QED BY <1>8, <2>1, <2>2, <2>3, <2>4 DEF WorkerStep
<1>9. ASSUME NEW r \in Requests, NewCall(r) \/ RequestStep(r) \/ RequestFails(r)
      PROVE  HasTimer(o, d)'
  <2>0. workers' = workers
    BY <1>9
       DEF NewCall, Accept, Reject, ReadForUpdate, ReadForReassign, ReadForDelete,
           RequestStep, GetTimeoutKey, RemoveTimeoutJob, DeleteTimeoutKey, Announce,
           Trigger, CommitUpdate, CommitReopen, CommitDelete, RequestFails,
           UnchangedByRequests
  \* A call removes only the timer of an offer that has ended.
  <2>1. CASE RemoveTimeoutJob(r)
    <3> DEFINE k == TimeoutJob(Target(r), requests[r].driver)
    <3>1. queue' = RemoveJob(queue, k) /\ requests[r].pc = "removeJob"
      BY <2>1 DEF RemoveTimeoutJob
    <3>2. k # j
      <4> SUFFICES ASSUME k = j PROVE FALSE
        OBVIOUS
      <4>1. Target(r) = o
        BY DEF TimeoutJob
      <4>2. Claim(o, <<"call", r>>)
        BY <3>1, <4>1 DEF Claim, Cancels, CancelSteps
      <4>3. Claim(o, <<"offer", o>>)
        BY DEF Claim, AwaitsAnswerOf
      <4>4. OneClaim(o)
        BY DEF OfferInv
      <4>5. <<"call", r>> = <<"offer", o>>
        BY <4>2, <4>3, <4>4 DEF OneClaim
      <4> QED BY <4>5
    <3>3. queue'[j] = queue[j]
      BY <1>0, <3>1, <3>2 DEF RemoveJob
    <3> QED BY <1>1, <2>0, <3>3
  <2>2. CASE Trigger(r)
    <3>1. Target(r) \in Orders /\ queue' = AddJob(queue, AssignJob(Target(r)), "waiting")
      BY <1>0, <2>2 DEF Trigger, Targeted, Target
    <3> QED BY <1>1, <1>2, <2>0, <3>1
  <2>3. CASE ~RemoveTimeoutJob(r) /\ ~Trigger(r)
    <3>1. queue' = queue
      BY <1>9, <2>3
         DEF NewCall, Accept, Reject, ReadForUpdate, ReadForReassign, ReadForDelete,
             RequestStep, GetTimeoutKey, DeleteTimeoutKey, Announce, CommitUpdate,
             CommitReopen, CommitDelete, RequestFails
    <3> QED BY <1>1, <2>0, <3>1
  <2> QED BY <2>1, <2>2, <2>3
<1>10. /\ \A p \in Orders : ~OutboxRetrigger(p)
       /\ \A w \in Workers : ~WorkerFails(w) /\ ~JobStalls(w)
  BY <1>0 DEF OutboxRetrigger, WorkerFails, JobStalls
<1> QED BY <1>3, <1>4, <1>5, <1>7, <1>8, <1>9, <1>10, JobTypes DEF Next

LEMMA OfferInductive ==
  ASSUME "reassign" \notin Calls, FaultBound = 0, IndInv, TimerInv, OfferInv, [Next]_vars
  PROVE  OfferInv'
<1>0. /\ TypeOK /\ Targeted /\ NothingReopens /\ NothingReopens' /\ ~Reopening
      /\ \A w \in Workers : WorkStep(w)
  BY NextWorks, ReopensNothing, OnlyCallsReopen DEF IndInv, OfferInv
<1>1. ASSUME NEW o \in Orders PROVE OneClaim(o)'
  BY <1>0, NextClaims, OneClaimStays DEF OfferInv
<1>2. ASSUME NEW w \in Workers PROVE JobFits(w)'
  BY <1>0 DEF OfferInv, JobFits, WorkStep, HandlerStep, Stays, Takes, Goes, Makes, Ends, Moves
<1>3. ASSUME NEW w \in Workers PROVE Ended(w)'
  <2> SUFFICES ASSUME workers'[w].pc \notin {"idle", "revoke"}, workers'[w].job \in TimeoutJobs
               PROVE  ~AwaitsAnswerOf(orders'[workers'[w].job.order], workers'[w].job.driver)
    BY DEF Ended, OrderOf
  <2>1. CASE Ends(w)
    BY <2>1 DEF Ends, OrderOf
  <2>2. CASE Takes(w)
    BY <2>2 DEF Takes, AssignJobs, TimeoutJobs
  <2>3. CASE workers[w].pc \notin {"idle", "revoke"} /\ workers'[w].job = workers[w].job
    <3> DEFINE j == workers[w].job
    <3>1. j \in TimeoutJobs /\ j.order \in Orders
      BY <2>3, TimerNames
    <3>2. ArmedRight(j)
      BY <2>3, <3>1 DEF TimerInv, Known
    <3>3. ~AwaitsAnswerOf(orders[j.order], j.driver)
      BY <2>3, <3>1 DEF OfferInv, Ended, OrderOf
    <3> QED BY <1>0, <2>3, <3>1, <3>2, <3>3, OfferStep DEF ArmedRight
  <2> QED BY <1>0, <2>1, <2>2, <2>3 DEF WorkStep, HandlerStep, Stays, Goes, Makes, Moves
<1>4. OfferHasTimer'
  <2> SUFFICES ASSUME NEW o \in Orders, NEW d, AwaitsAnswerOf(orders'[o], d)
               PROVE  HasTimer(o, d)'
    BY DEF OfferHasTimer, OpenOffer, AwaitsAnswerOf, HasTimer, Live
  <2>1. d \in Drivers
    <3>1. TypeOK' /\ AssignmentAgrees'
      BY NextInv DEF IndInv
    <3> QED BY <3>1 DEF TypeOK, Row, MaybeDriver, AssignmentAgrees, Agrees, Unassigned, AwaitsAnswerOf
  <2>2. CASE AwaitsAnswerOf(orders[o], d)
    <3>1. HasTimer(o, d)
      BY <2>2 DEF OfferInv, OfferHasTimer, OpenOffer, AwaitsAnswerOf, HasTimer, Live
    <3> QED BY <2>1, <2>2, <3>1, TimerStays
  <2>3. CASE ~AwaitsAnswerOf(orders[o], d)
    <3>1. PICK w \in Workers : Makes(w) /\ OrderOf(w) = o /\ workers'[w].driver = d
      BY <1>0, <2>1, <2>3, OfferMade
    <3>2. workers[w].job \in AssignJobs /\ workers[w].job.order = o
      BY <3>1 DEF OfferInv, JobFits, Makes, OrderOf
    <3>3. workers[w].job = AssignJob(o)
      BY <3>2 DEF AssignJobs, AssignJob
    <3> QED BY <3>1, <3>3 DEF HasTimer, Makes
  <2> QED BY <2>2, <2>3
<1> QED BY <1>0, <1>1, <1>2, <1>3, <1>4 DEF OfferInv

LEMMA OfferStart == Init => OfferInv
<1> SUFFICES ASSUME Init PROVE OfferInv
  OBVIOUS
<1>1. \A w \in Workers : workers[w].pc = "idle"
  BY DEF Init, IdleWorker
<1>2. NothingReopens /\ \A r \in Requests : requests[r].pc = "idle"
  BY DEF Init, IdleRequest, NothingReopens
<1>3. \A o \in Orders : orders[o].status = "PENDING" /\ queue[AssignJob(o)] = "absent"
  BY JobTypes DEF Init, NewOrder
<1>4. \A o \in Orders : OneClaim(o)
  BY <1>1, <1>2, <1>3 DEF OneClaim, Claim, Serves, Cancels, ServeSteps, CancelSteps
<1> QED BY <1>1, <1>2, <1>3, <1>4 DEF OfferInv, JobFits, Ended, OfferHasTimer, OpenOffer

\* While nobody asks for a reassignment and nothing fails, an offer that its driver can
\* still answer has its timer, or its handler is about to create it: no call
\* that ended an earlier offer takes it away, and the job is never one that
\* the queue still knows.
THEOREM OpenOffersTimed ==
  ASSUME "reassign" \notin Calls, FaultBound = 0
  PROVE  Spec => []OfferHasTimer
<1>1. IndInv /\ TimerInv /\ OfferInv /\ [Next]_vars => TimerInv'
  BY TimerInductive, OnlyCallsReopen DEF OfferInv
<1>2. IndInv /\ TimerInv /\ OfferInv /\ [Next]_vars => OfferInv'
  BY OfferInductive
<1>3. OfferInv => OfferHasTimer
  BY DEF OfferInv
<1> QED BY <1>1, <1>2, <1>3, TimerStart, OfferStart, Invariance, PTL DEF Spec

=============================================================================
