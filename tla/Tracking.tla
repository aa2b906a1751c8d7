------------------------------ MODULE Tracking ------------------------------
(***************************************************************************)
(* Following an order on its way: the positions a driver sends, the cached *)
(* order of a driver, and the job that recalculates the time of arrival.   *)
(* The orders themselves move as OrderLifecycle allows, which Dispatch     *)
(* implements; each such move is one commit, and the calls the code makes  *)
(* into TrackingService after that commit are steps of their own.          *)
(*                                                                         *)
(* A driver is offered orders only when its coordinates are known, and no  *)
(* code clears them, so the branch of handleEtaRecalculation for a driver  *)
(* without coordinates is not reachable and the coordinates are left out.  *)
(***************************************************************************)
EXTENDS JobQueue, Naturals

CONSTANTS
  Orders, Drivers, None,
  Requests,     \* calls in progress at the same time, of any process
  Workers,      \* tracking workers, one per running process
  FaultBound    \* bound: crashes, failed awaits and stalled jobs

ASSUME NoneAssumption == None \notin Drivers \cup Orders
ASSUME ActorsAssumption == Requests \cap Workers = {}
ASSUME BoundAssumption == FaultBound \in Nat

VARIABLES
  life,      \* status and driver of each order, see OrderLifecycle
  deleted,   \* the orders with a deleted_at
  queue,     \* state of job recalculate-eta:<order>
  jobDriver, \* the driver in the data of the job the queue knows
  etaKey,    \* Redis tracking:eta_job:<order> is set
  active,    \* Redis tracking:active_order:<driver>
  actors,    \* what each call and each worker is doing
  heard,     \* the driver whose position the room of an order last received
  etaSent,   \* orders whose room received a time of arrival
  faults     \* failures so far

vars == <<life, deleted, queue, jobDriver, etaKey, active, actors, heard,
          etaSent, faults>>
redis == <<etaKey, active>>
jobs == <<queue, jobDriver>>
rooms == <<heard, etaSent>>

Life == INSTANCE OrderLifecycle

OnItsWay == {"DRIVER_ARRIVING", "PICKED_UP", "IN_TRANSIT"}
Ended == {"DELIVERED", "CANCELLED", "FAILED"}
Pending == {"waiting", "delayed", "active"}

Steps == {"idle", "cache", "find", "remember", "getKey", "add", "setKey",
          "cancel", "remove", "delKey", "delete", "read", "next", "finish"}

\* "holds": the queue still counts on this worker for the job.
Actor == [pc : Steps, order : Orders \cup {None},
          driver : Drivers \cup {None}, holds : BOOLEAN]

Idle == [pc |-> "idle", order |-> None, driver |-> None, holds |-> TRUE]

Init ==
  /\ Life!Init
  /\ deleted = {}
  /\ queue = [o \in Orders |-> "absent"]
  /\ jobDriver = [o \in Orders |-> None]
  /\ etaKey = [o \in Orders |-> FALSE]
  /\ active = [d \in Drivers |-> None]
  /\ actors = [a \in Requests \cup Workers |-> Idle]
  /\ heard = [o \in Orders |-> None]
  /\ etaSent = {}
  /\ faults = 0

At(a, step) == actors[a].pc = step

Become(a, actor) == actors' = [actors EXCEPT ![a] = actor]

GoTo(a, step) == actors' = [actors EXCEPT ![a].pc = step]

\* A worker reports the end of its job; a call just ends.
Done(a) ==
  IF a \in Workers THEN GoTo(a, "finish") ELSE Become(a, Idle)

-----------------------------------------------------------------------------
(* The orders move, and the code calls the tracking service about it *)

Begin(r, step, o, d) ==
  /\ At(r, "idle")
  /\ Become(r, [Idle EXCEPT !.pc = step, !.order = o, !.driver = d])

\* acceptDispatch, which then ensures the job of the order.
Accept(r, o) ==
  /\ life[o].status = "DRIVER_ASSIGNED"
  /\ Life!Advance(o, "DRIVER_ARRIVING")
  /\ Begin(r, "getKey", o, life[o].assigned)

\* The order ends or is given up; its job is cancelled after the commit.
End(r, o) ==
  /\ \/ \E s \in Ended : Life!Advance(o, s)
     \/ Life!GiveUp(o)
     \/ Life!Withdraw(o) /\ life'[o].status = "EXPIRED"
  /\ Begin(r, "cancel", o, None)

\* Moves that make no call: an offer, an offer withdrawn for the next
\* attempt, a reopening, and the driver's own updates of the status.
MoveOn(o) ==
  /\ \/ \E d \in Drivers : Life!Offer(o, d)
     \/ Life!Withdraw(o) /\ life'[o].status = "PENDING"
     \/ Life!Reopen(o)
     \/ \E s \in OnItsWay : Life!Advance(o, s)
  /\ UNCHANGED actors

OrderMoves ==
  /\ \E o \in Orders \ deleted :
       \/ \E r \in Requests : Accept(r, o) \/ End(r, o)
       \/ MoveOn(o)
  /\ UNCHANGED <<deleted, jobs, redis, rooms, faults>>

\* softDelete reads the order without a lock and refuses one that is offered
\* or on its way; it deletes whatever the row has become since.
ReadForDelete(r, o) ==
  /\ o \notin deleted
  /\ life[o].status \notin OnItsWay \cup {"DRIVER_ASSIGNED"}
  /\ Begin(r, "delete", o, None)
  /\ UNCHANGED <<life, deleted, jobs, redis, rooms, faults>>

CommitDelete(r) ==
  /\ At(r, "delete")
  /\ deleted' = deleted \cup {actors[r].order}
  /\ Become(r, Idle)
  /\ UNCHANGED <<life, jobs, redis, rooms, faults>>

-----------------------------------------------------------------------------
(* handleLocationUpdate *)

handleLocationUpdate(r, d) ==
  /\ Begin(r, "cache", None, d)
  /\ UNCHANGED <<life, deleted, jobs, redis, rooms, faults>>

\* The position goes to the room of the order, whose job is ensured next.
Broadcast(r, o, d) ==
  /\ heard' = [heard EXCEPT ![o] = d]
  /\ Become(r, [actors[r] EXCEPT !.pc = "getKey", !.order = o])
  /\ UNCHANGED etaSent

ReadActiveOrder(r) ==
  LET d == actors[r].driver IN
    /\ At(r, "cache")
    /\ \/ active[d] # None /\ Broadcast(r, active[d], d)
       \/ active[d] = None /\ GoTo(r, "find") /\ UNCHANGED rooms
    /\ UNCHANGED <<life, deleted, jobs, redis, faults>>

\* Mutant: an offer that waits for its answer counts too.
CarriedOrOfferedTo(d) ==
  {o \in Orders \ deleted : /\ life[o].assigned = d
                            /\ \/ life[o].status \in OnItsWay
                               \/ life[o].status = "DRIVER_ASSIGNED"}

\* Mutant: the status is not looked at.
EverAssignedTo(d) == {o \in Orders \ deleted : life[o].assigned = d}

CarriedBy(d) ==
  {o \in Orders \ deleted : /\ life[o].assigned = d
                            /\ life[o].status \in OnItsWay}

FindActiveOrder(r) ==
  LET d == actors[r].driver IN
    /\ At(r, "find")
    /\ \/ \E o \in CarriedBy(d) :
            Become(r, [actors[r] EXCEPT !.pc = "remember", !.order = o])
       \/ CarriedBy(d) = {} /\ Become(r, Idle)
    /\ UNCHANGED <<life, deleted, jobs, redis, rooms, faults>>

RememberActiveOrder(r) ==
  LET o == actors[r].order
      d == actors[r].driver
  IN  /\ At(r, "remember")
      /\ active' = [active EXCEPT ![d] = o]
      /\ Broadcast(r, o, d)
      /\ UNCHANGED <<life, deleted, jobs, etaKey, faults>>

\* The entry lives for a minute.
ActiveExpires(d) ==
  /\ active[d] # None
  /\ active' = [active EXCEPT ![d] = None]
  /\ UNCHANGED <<life, deleted, jobs, etaKey, actors, rooms, faults>>

-----------------------------------------------------------------------------
(* ensureEtaJobScheduled and cancelEtaJob *)

\* Mutant: the arguments of the payload in the wrong order.
AddSwapped(o, d, state) ==
  /\ queue' = AddJob(queue, o, state)
  /\ jobDriver' =
       IF queue[o] = "absent" THEN [jobDriver EXCEPT ![o] = o] ELSE jobDriver

Add(o, d, state) ==
  /\ queue' = AddJob(queue, o, state)
  /\ jobDriver' =
       IF queue[o] = "absent" THEN [jobDriver EXCEPT ![o] = d] ELSE jobDriver

CheckEtaKey(r) ==
  /\ At(r, "getKey")
  /\ IF etaKey[actors[r].order] THEN Become(r, Idle) ELSE GoTo(r, "add")
  /\ UNCHANGED <<life, deleted, jobs, redis, rooms, faults>>

AddEtaJob(r) ==
  /\ At(r, "add")
  /\ Add(actors[r].order, actors[r].driver, "waiting")
  /\ GoTo(r, "setKey")
  /\ UNCHANGED <<life, deleted, redis, rooms, faults>>

\* The key is set after the first job and after the next one.
SetEtaKey(a) ==
  /\ At(a, "setKey")
  /\ etaKey' = [etaKey EXCEPT ![actors[a].order] = TRUE]
  /\ Done(a)
  /\ UNCHANGED <<life, deleted, jobs, active, rooms, faults>>

CancelGetKey(a) ==
  /\ At(a, "cancel")
  /\ IF etaKey[actors[a].order] THEN GoTo(a, "remove") ELSE Done(a)
  /\ UNCHANGED <<life, deleted, jobs, redis, rooms, faults>>

\* A worker that cancels its own job cannot remove it: the error is caught.
CancelRemove(a) ==
  LET o == actors[a].order IN
    /\ At(a, "remove")
    /\ queue' = RemoveJob(queue, o)
    /\ jobDriver' = [jobDriver EXCEPT ![o] = IF queue'[o] = "absent"
                                               THEN None ELSE @]
    /\ GoTo(a, "delKey")
    /\ UNCHANGED <<life, deleted, redis, rooms, faults>>

CancelDeleteKey(a) ==
  /\ At(a, "delKey")
  /\ etaKey' = [etaKey EXCEPT ![actors[a].order] = FALSE]
  /\ Done(a)
  /\ UNCHANGED <<life, deleted, jobs, active, rooms, faults>>

\* The entry lives for a day.
EtaKeyExpires(o) ==
  /\ etaKey[o]
  /\ etaKey' = [etaKey EXCEPT ![o] = FALSE]
  /\ UNCHANGED <<life, deleted, jobs, active, actors, rooms, faults>>

-----------------------------------------------------------------------------
(* The worker *)

TakeJob(w, o) ==
  /\ At(w, "idle")
  /\ queue[o] = "waiting"
  /\ queue' = [queue EXCEPT ![o] = "active"]
  /\ Become(w, [Idle EXCEPT !.pc = "read", !.order = o,
                            !.driver = jobDriver[o]])
  /\ UNCHANGED <<life, deleted, jobDriver, redis, rooms, faults>>

\* Mutant: the comparison of the drivers the wrong way round.
BelongsToOther(w) ==
  LET o == actors[w].order IN
    /\ o \notin deleted
    /\ life[o].assigned # None
    /\ life[o].assigned # actors[w].driver

\* The job still belongs to the order's driver.
Belongs(w) ==
  LET o == actors[w].order IN
    /\ o \notin deleted
    /\ life[o].assigned # None
    /\ life[o].assigned = actors[w].driver

\* handleEtaRecalculation: a job without its order is cancelled, else the
\* room receives position and time, and the next job is added.
Recalculate(w) ==
  LET o == actors[w].order IN
    /\ At(w, "read")
    /\ \/ ~Belongs(w) /\ GoTo(w, "cancel") /\ UNCHANGED rooms
       \/ /\ Belongs(w)
          /\ GoTo(w, "next")
          /\ heard' = [heard EXCEPT ![o] = actors[w].driver]
          /\ etaSent' = etaSent \cup {o}
    /\ UNCHANGED <<life, deleted, jobs, redis, faults>>

\* The id is the one of the job at work.
AddNextJob(w) ==
  /\ At(w, "next")
  /\ Add(actors[w].order, actors[w].driver, "delayed")
  /\ GoTo(w, "setKey")
  /\ UNCHANGED <<life, deleted, redis, rooms, faults>>

\* The queue hears of the end only from the worker it still counts on.
LeaveJob(w, state) ==
  /\ queue' = IF actors[w].holds
                THEN [queue EXCEPT ![actors[w].order] = state] ELSE queue
  /\ Become(w, Idle)
  /\ UNCHANGED jobDriver

FinishJob(w) ==
  /\ At(w, "finish")
  /\ LeaveJob(w, "completed")
  /\ UNCHANGED <<life, deleted, redis, rooms, faults>>

DelayElapses(o) ==
  /\ queue[o] = "delayed"
  /\ queue' = [queue EXCEPT ![o] = "waiting"]
  /\ UNCHANGED <<life, deleted, jobDriver, redis, actors, rooms, faults>>

\* Newer finished jobs push a finished one out.
Evict(o) ==
  /\ queue[o] \in Retained
  /\ queue' = [queue EXCEPT ![o] = "absent"]
  /\ jobDriver' = [jobDriver EXCEPT ![o] = None]
  /\ UNCHANGED <<life, deleted, redis, actors, rooms, faults>>

-----------------------------------------------------------------------------
(* Failures *)

Fault ==
  /\ faults < FaultBound
  /\ faults' = faults + 1
  /\ UNCHANGED <<life, deleted, redis, rooms>>

\* An await of a call throws or its process dies.
CallFails(r) ==
  /\ ~At(r, "idle")
  /\ Become(r, Idle)
  /\ UNCHANGED jobs
  /\ Fault

\* An await of the handler throws: the job fails, and is not tried again.
HandlerFails(w) ==
  /\ ~At(w, "idle")
  /\ LeaveJob(w, "failed")
  /\ Fault

\* The process dies, or the lock on the job is not renewed in time: the job
\* is handed out again, in the second case with its handler still at work.
JobStalls(w) ==
  /\ ~At(w, "idle") /\ actors[w].holds
  /\ queue' = [queue EXCEPT ![actors[w].order] = "waiting"]
  /\ \/ Become(w, Idle)
     \/ Become(w, [actors[w] EXCEPT !.holds = FALSE])
  /\ UNCHANGED jobDriver
  /\ Fault

-----------------------------------------------------------------------------
CallStep(r) ==
  \/ ReadActiveOrder(r) \/ FindActiveOrder(r) \/ RememberActiveOrder(r)
  \/ CheckEtaKey(r) \/ AddEtaJob(r) \/ SetEtaKey(r)
  \/ CancelGetKey(r) \/ CancelRemove(r) \/ CancelDeleteKey(r)
  \/ CommitDelete(r)

WorkerStep(w) ==
  \/ Recalculate(w) \/ AddNextJob(w) \/ SetEtaKey(w)
  \/ CancelGetKey(w) \/ CancelRemove(w) \/ CancelDeleteKey(w)
  \/ FinishJob(w)

Next ==
  \/ OrderMoves
  \/ \E o \in Orders : EtaKeyExpires(o) \/ DelayElapses(o) \/ Evict(o)
  \/ \E d \in Drivers : ActiveExpires(d)
  \/ \E r \in Requests :
       \/ \E d \in Drivers : handleLocationUpdate(r, d)
       \/ \E o \in Orders : ReadForDelete(r, o)
       \/ CallStep(r)
       \/ CallFails(r)
  \/ \E w \in Workers :
       \/ \E o \in Orders : TakeJob(w, o)
       \/ WorkerStep(w) \/ HandlerFails(w) \/ JobStalls(w)

Spec == Init /\ [][Next]_vars

(***************************************************************************)
(* Started calls and handlers go on (the event loop), waiting jobs are     *)
(* taken in turn, delays and the minute of the cached order end.  Nobody   *)
(* has to move an order or to send a position, and nothing promises that   *)
(* enough other jobs finish to evict one, or that a key lives a whole day. *)
(***************************************************************************)
Fairness ==
  /\ \A r \in Requests : WF_vars(CallStep(r))
  /\ \A w \in Workers : WF_vars(WorkerStep(w))
  /\ \A o \in Orders :
       SF_vars(\E w \in Workers : TakeJob(w, o)) /\ WF_vars(DelayElapses(o))
  /\ \A d \in Drivers : WF_vars(ActiveExpires(d))

FairSpec == Spec /\ Fairness

-----------------------------------------------------------------------------
(* Safety *)

\* Every variable stays within what the code can store in it.
TypeOK ==
  /\ life \in [Orders -> [status : Life!Statuses,
                          assigned : Drivers \cup {None}]]
  /\ deleted \subseteq Orders
  /\ queue \in [Orders -> JobStates]
  /\ jobDriver \in [Orders -> Drivers \cup {None}]
  /\ etaKey \in [Orders -> BOOLEAN]
  /\ active \in [Drivers -> Orders \cup {None}]
  /\ actors \in [Requests \cup Workers -> Actor]
  /\ heard \in [Orders -> Drivers \cup {None}]
  /\ etaSent \subseteq Orders
  /\ faults \in 0 .. FaultBound

\* The room of an order only ever receives positions of the driver that the
\* order was handed to, although the order of a driver is cached, and a job
\* and a call in progress carry the pair they once read.
RoomHearsItsDriver ==
  \A o \in Orders : heard[o] # None => heard[o] = life[o].assigned

\* The guard "ensure job's driver matches current assignment" never has to
\* act: a job the queue knows names the driver of its order.
JobFollowsAssignment ==
  \A o \in Orders : queue[o] # "absent" => jobDriver[o] = life[o].assigned

\* "Re-enqueue next recalculation after delay": while an order is on its way
\* and no call is in progress, its job is at work or another one is to come.
EtaKeepsComing ==
  \A o \in etaSent \ deleted :
    life[o].status \in OnItsWay =>
      \/ queue[o] \in Pending
      \/ \E a \in Requests \cup Workers : ~At(a, "idle")

-----------------------------------------------------------------------------
(* Liveness *)

\* Some actor is cancelling the job of this order.
Cancelling(o) ==
  \E a \in Requests \cup Workers :
    actors[a].order = o /\ actors[a].pc \in {"cancel", "remove", "delKey"}

\* When a call has found no job for an order on its way, no cancellation of
\* an earlier expiry is late and nothing fails, the customer receives a time
\* of arrival, or before that the order ends or is deleted by a call that
\* read it before it was offered.
EtaArrives ==
  \A o \in Orders :
    (/\ life[o].status \in OnItsWay
     /\ \E r \in Requests : At(r, "add") /\ actors[r].order = o
     /\ ~Cancelling(o))
      ~> \/ o \in etaSent
         \/ life[o].status \in Ended \/ o \in deleted
         \/ faults > 0

\* Recalculation stops after the order has ended or is deleted, which may be
\* on its way with nothing cancelled, though late calls and the cached order
\* of the driver may start the job again.
EtaStops ==
  \A o \in Orders :
    <>[](life[o].status \in Ended \/ o \in deleted)
      => <>[](queue[o] \notin Pending)

=============================================================================
