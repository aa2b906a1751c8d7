# A TLA+ development of the logistics dispatch service

The repository is a NestJS back end: customers create orders, a background
worker offers each order to one driver after another, drivers accept or reject
within a time limit, people move an accepted order on to its delivery, and the
customer follows it on a map. The modules here model what the code does between
two `await`s, TLC checks them on small instances, and TLAPS proves the safety
properties for instances of any size. Paths are relative to the
repository's code (`src/dispatch/...` is `src/src/dispatch/...` in PROJECT.json).

## 1. Inventory

| component | state | operations | interacts with | what is hard | modelled in |
|---|---|---|---|---|---|
| dispatch (`src/dispatch`) | queue `dispatch-queue`, Redis `dispatch_timeout:<order>`, columns `order_status`, `assigned_driver_id`, `dispatch_attempts`, `attempted_driver_ids`, `version` | triggerDispatch, handleAssignDriver, handleDispatchTimeout, acceptDispatch, rejectDispatch | orders (same rows), tracking (calls), events (publishes), BullMQ, Redis | handlers of several processes interleave at each await; job ids are reused; timers race with answers | `Dispatch` |
| orders (`src/orders`) | tables `orders`, `order_status_history` | createOrder, updateStatus, cancelOrder, reassignOrder, softDelete, a list | dispatch (trigger, same rows), tracking, Redis (idempotency keys) | optimistic writes on earlier reads beside pessimistic ones; soft deletion; check-then-act on a key | `Dispatch`, `Intake`, `Paging` |
| outbox (`src/outbox`) | table `outbox_events` | processOutbox every 5 s, handleRow | orders (writes rows), dispatch (trigger) | locks end with the read; ticks and processes overlap; stale rows are saved | `Intake` |
| tracking (`src/tracking`) | queue `tracking-queue`, Redis `tracking:eta_job:<order>`, `tracking:active_order:<driver>` | handleLocationUpdate, ensureEtaJobScheduled, cancelEtaJob, handleEtaRecalculation | orders (reads), dispatch and orders (call it), events | a job that adds itself again; cancellation racing with it; a stale cache | `Tracking` |
| drivers (`src/drivers`) | table `drivers` | toggleAvailability, updateLocation, toggleSuspension, a list | dispatch | a read-modify-write without a lock beside one with a lock; cursors | `Drivers`, `Paging` |
| auth (`src/auth`) | columns of `users` for links and Google accounts, Redis `refresh:<user>` | register, login, Google login, verify, resend, refresh, logout, forgot, reset | users, mail, Redis | check-then-act on tokens; whole entities saved over newer rows | `Accounts` |
| users (`src/users`) | table `users` | updateUserName, promoteToDriver, a list | drivers, auth | the check is outside the transaction; stale saves | `Accounts`, `Paging` |
| throttler (`src/common/throttler`) | Redis counts and blocks | increment (a Redis script) | every request | windows and blocks expire on their own; lost answers | `Throttler` |
| events (`src/events`) | Socket.IO rooms | four notifications, join and location messages | everyone publishes | fire and forget | partly: `Dispatch`, `Tracking` |
| redis, bullmq | keys with an expiry, jobs with ids | external clients | all of the above | retained ids, expiry at any time | as used: `JobQueue`, functions |
| mail, database, filters, interceptors, main | - | output, schema, formatting | - | - | no |

What makes each part correct: *dispatch and orders*: an order names a driver
exactly while it has one; each offer ends; timers end their own offer and no
other; the audit trail is exact; a deleted order stays as it is. *outbox*: a
processed row was triggered, a row is given up only after its failures, every
row settles. *tracking*: a customer sees the driver of the order and nobody
else, and the time of arrival comes and stops. *drivers*: a suspended driver is
not online; a write is lost only to a save of an older read; a list walked page
by page repeats nothing. *auth and users*: a driver has a profile, a session
has a proven owner, a spent link is dead, a decision stands. *throttler*: no
more than the limit passes, and a block lasts.

PROJECT.json lists the hazards, each at its line, with the properties that
cover it.

## 2. Modules

| module | role |
|---|---|
| `OrderRules` | `OrdersService.validateActor`, `validateTransition`, the transition table, who a caller is. Pure. |
| `JobQueue` | What the code relies on in a BullMQ queue with custom ids (external). Pure. |
| `OrderLifecycle` | Abstract specification: the moves of an order's status and driver. |
| `Dispatch`, `MCDispatch`, `DispatchProofs`, `TimerProofs` | The dispatch service, the order service's writes, the outbox trigger; the timers have proofs of their own. |
| `Tracking`, `TrackingProofs` | The tracking service over the moves of `OrderLifecycle`. |
| `Intake`, `IntakeProofs` | createOrder, its idempotency key, and the outbox worker. |
| `Paging` | The cursor pagination of the three lists. Pure. |
| `Drivers`, `MCDrivers`, `DriversProofs` | The drivers table, its writers, and a reader of the list (on `Paging`). |
| `Accounts`, `MCAccounts`, `AccountsProofs`, `LinkProofs` | One account: auth and users services; the links have proofs of their own. |
| `Throttler`, `MCThrottler`, `ThrottlerProofs` | The rate limiter. |

How they fit together: `Dispatch` implements `OrderLifecycle` (checked and
proved), and `Tracking` takes its orders from `OrderLifecycle` and adds the
calls that dispatch and orders make into the tracking service after each such
commit. Since `Tracking` allows every move of the lifecycle at every time, what
it shows holds for the orders as `Dispatch` moves them. `Intake` ends where
`Dispatch` starts: `triggered` is the set of orders whose `assign-driver` job
was added, and `Dispatch` begins with the outbox row of each order and lets its
trigger be repeated. `Drivers` is the reason why `Dispatch` lets any set of
drivers be eligible at any time.

In all models a transaction that locks its row is one action: nothing else
touches that row before it commits. Reads without a lock, queue calls and Redis
calls are actions of their own, so that others run in between. A call refused
before it writes changes nothing and is not an action. An "idle" record is a
slot for a handler or call; a record in progress holds the await it is at and
the locals it carries across it.

### `Dispatch`

| variable | code |
|---|---|
| `orders` | a row of table `orders`: `status`, `assigned`, `attempts`, `attempted` (a set: the code's array is only ever searched and extended), `version`, `deleted` (`deleted_at` is set) |
| `history` | the newest `order_status_history` row of each order (no code reads the table, so older rows are left out) |
| `outbox` | the `dispatch.trigger` row that `createOrder` writes with the order; `SENT` is between the trigger and the save |
| `queue` | job id -> state, see `JobQueue` |
| `timeoutKey` | the Redis key: the driver part of the stored job id, or `None` |
| `notified` | the last `order:status_changed` of each order |
| `workers`, `requests` | handlers and HTTP calls in progress |
| `faults` | failures so far |
| `armedFor` | history variable: the row version for which a timeout job was created |

`handleAssignDriver` is `ReadOrder`, `findNearestEligibleDrivers`,
`assignDriverWithLock` or `NoDriverLocked`, `expireOrder`, `NoticeExpired`,
`ArmTimeout`, `SetTimeoutKey`; `handleDispatchTimeout` is `RevokeOffer`,
`DropTimeoutKey`, `Retrigger`; `cancelDispatchTimeout` is `GetTimeoutKey`,
`RemoveTimeoutJob`, `DeleteTimeoutKey`; `updateStatus` and `reassignOrder` are a
read and a commit that tests the version (`StillAt`).

Abstractions: any subset of the drivers an order has not been offered to may be
eligible, and any of those may be free to lock (availability changes at any
time, `SKIP LOCKED` leaves out locked drivers; who is nearest decides only who
is tried first). A user is a role, whether the caller is the order's customer,
and a driver profile, which may be stale. `ensureEtaJobScheduled` and
`cancelEtaJob` touch a queue and a key that nothing here reads; they are in
`Tracking`. Notices to drivers have no effect on any state here.

Assumptions about external code, from the way `src/` uses it: `Queue.add` of an
id the queue knows is ignored whatever the state of the job; finished jobs keep
their id until 100 newer completed (1000 newer failed) ones push them out
(`src/dispatch/dispatch.module.ts:20-24`), modelled by `Evict`, which may take
any finished job at any time; `Job.remove` throws on a job a worker holds, and
the code catches that; a job whose process dies, or whose lock is not renewed in
time, is handed out again, in the second case while its handler is still at work
(`JobStalls`; the queue then ignores how that handler ends); TypeORM reads do not
return soft-deleted rows.

Two assumptions cannot be settled from the repository and are worth a look at
the installed versions. The ids with colons that the code builds are accepted by
the queue: BullMQ 5 (`package.json` asks for `^5.77.3`) may refuse an id of its
caller's that has a colon, unless it has three parts; then the adds of
`assign-driver:<order>` and `recalculate-eta:<order>` would throw, and only
`dispatch-timeout:<order>:<driver>` would do. And PostgreSQL accepts the
`FOR UPDATE` of `toggleSuspension` together with the left join of the relation it
loads. If either is refused, the operation never gets as far as the models let it.

### `OrderLifecycle`

What an order may do, told without workers, versions or queues: `Offer`,
`Withdraw`, `GiveUp`, `Reopen` and `Advance` along eight edges that keep the
driver. `Dispatch` implements it under the mapping `life[o]` = status and
assigned driver of the row; deletion, timers and everything else stutter.

### `Tracking`

| variable | code |
|---|---|
| `life`, `deleted` | the rows of `orders`, as far as tracking reads them |
| `queue`, `jobDriver` | the job `recalculate-eta:<order>` and the driver in its data |
| `etaKey`, `active` | the two Redis keys |
| `actors` | calls and workers in progress; `holds`: the queue still counts on the worker |
| `heard` | the driver whose position the room of an order last received |
| `etaSent` | orders whose room received a time of arrival |

`handleLocationUpdate` is the action of that name, then `ReadActiveOrder`, and
`FindActiveOrder`, `RememberActiveOrder` if nothing is cached; it ends in
`ensureEtaJobScheduled` (`CheckEtaKey`, `AddEtaJob`, `SetEtaKey`), which
`acceptDispatch` calls too (`Accept`). `cancelEtaJob` is `CancelGetKey`,
`CancelRemove`, `CancelDeleteKey`, called after every end of an order (`End`) and
by a worker whose job has lost its order. `softDelete` is `ReadForDelete` and
`CommitDelete`, as in `Dispatch`: it decides on an unlocked read, so that an
order accepted meanwhile is deleted with its driver; nothing is cancelled then,
the worker finds no order, and its customer never gets a time. `handleEtaRecalculation` is
`TakeJob`, `Recalculate`, `AddNextJob`, `SetEtaKey`, `FinishJob`. Distances and
speeds are not computed. A driver without coordinates is never offered an order
(the query of `findNearestEligibleDrivers` asks for them) and no code clears
them, so the branch of `handleEtaRecalculation` for such a driver cannot be
reached and has no action. `Recalculate` takes the reads of the order and the
driver and the broadcast as one step: an accepted order keeps its driver until it
ends, so that nothing that moves in between changes who is told what.

### `Intake`

| variable | code |
|---|---|
| `cached` | idempotency keys whose entry in Redis holds an answer |
| `requests` | calls of `createOrder`: looked up (`create`), committed (`store`) |
| `outbox` | the rows of `outbox_events`, one per order, numbered by age |
| `ticks` | runs of `processOutbox` with their copies of rows |
| `triggered`, `failures` | orders triggered; failed attempts of each row |
| `excused` | history variable: keys whose requests overlapped, or whose answer was lost or expired |

`Receive`, `PlaceOrder`, `StoreAnswer`, `RequestFails`, `KeyExpires`;
`ReadBatch`, `TriggerRow`, and a save as TypeORM does it: `Compare` reads the
row again and finds the columns that differ, `WriteColumns` writes them.
`SaveFails` follows the catch block, which counts an attempt on a copy whose
status is already `PROCESSED`, and saves again. A tick that has just read stands
at `begin`: its read may not have ended, and a row being written is locked as
well, so that another tick may find rows locked (`LockedBy`) and pass over them to younger ones (`SKIP LOCKED`), or may
find them free and read them too.

### `Paging` and `Drivers`

`created` and `drivers` are the columns of table `drivers` the properties are
about, `calls` the calls of `toggleAvailability` between read, comparison and
write, `reader` an admin who walks through the list with filter and cursor.
`decided`, `sent` and `overtook` are history variables: what the admin last
decided, the position last sent, and what calls in progress were about to write
when that came. `Paging` keeps the order by time and id, the condition after a
cursor, the bound on the page size, and that the cursor keeps milliseconds
of a time the database keeps in microseconds (`PerMilli` ticks).

### `Accounts`

One e-mail address. `row` is its row of `users`, `profile` that there is a row
of `drivers`, `session` that `refresh:<user>` holds a hash. Links are numbered
(`issued`); a stored hash and a stored time go by the number of the link they
were made for, so that a hash and a time of different links can be told apart.
A call is an entity between read, comparison and write, as above, with the
columns that are `select: false` missing from it (`Unset`) unless the query asks
for them: such a column is written only if the call set it. The entity that
`register` inserts and then saves again holds the columns it was created without
as `null`, which TypeORM sets after an insert, or not at all; `src/` does not
settle which, and `Insert` allows both. With `null`, the second save may wipe
out a reset link asked for between the two, and `LinksWhole` excuses just that. `mailed`, `spent`,
`proven`, `stale` and `loggedOut` are history variables. Passwords and the
contents of tokens are left out: whoever calls has the right ones. ADMIN
accounts are made outside this code and write none of these columns.

### `Throttler`

One key on one route. `count`, `countEnd`, `blockEnd` are the two keys in Redis,
`loaded` and `known` whether Redis and the process know the script, `callers`
the requests between evalsha, load and retry; `hits` and `passed` (the times at
which a request was counted and let through, in order) and `exceeded` are history
variables. A time is a millisecond; the script is one step, as Redis
runs it. A restart that loses the counts starts the history of what passed again.

## 3. Runs

| run | instance and bounds | shows |
|---|---|---|
| `dispatch_calls` | 1 order, 2 drivers, 1 worker, 2 calls of every kind, `MaxAttempts = 2`, `ResetBound = 4`, no failures | types; the customer hears of a driver only if one accepted; attempts are counted alike in each life; the audit trail is exact; every write moves the version; deleted rows stay |
| `dispatch_faults` | 2 workers, 1 call other than a reassignment, `MaxAttempts = 3`, `FaultBound = 1` | status and driver agree through crashes, failed, stalled and repeated jobs and triggers; refinement of `OrderLifecycle`; nobody is offered an order twice even when two workers are at the same job |
| `dispatch_progress` | 1 worker, 1 call, no reassignment, no failure, with fairness | each open offer has its timer; a timer ends no other offer; offers end, new orders are taken up, nothing hangs |
| `tracking` | 1 order, 2 drivers, 2 calls, 1 worker, `FaultBound = 1`, with fairness | rooms and jobs follow the assignment; a time of arrival comes; recalculation stops after the end or the deletion |
| `intake` | 2 orders, 1 key, 2 requests, 2 ticks, `BatchSize = 1`, `MaxAttempts = 2`, `FaultBound = 2`, with fairness | deduplication, honest statuses and counts, rows settle |
| `throttler` | 2 requests at a time, 7 in all, 7 ms, windows of 2 and 3 ms, blocks longer than, as long as and shorter than the window, `FaultBound = 1` | what passes in any window, how long a block holds, who is blocked |
| `drivers` | 3 rows of one millisecond of which row 1 changes (`Busy`), 2 toggles, `MaxPosition = 1`, page sizes 1 and 2 | which saves lose a write; pages repeat nothing and miss only what the cursor cuts off |
| `accounts` | 2 calls, 2 Google accounts, 3 links of which 1 gets too old (`LinkBound`, `LapseBound`) | profiles, sessions, links and decisions under stale saves |

Why the bounds are enough. *Orders*: one in `Dispatch` and `Tracking`; orders
share no rows, jobs or keys, only workers and call slots, which delays them,
and drivers, who may be eligible in any combination anyway. *`MaxAttempts`*: an
offer and its end count one each, so with 3 (the default of the code) the second
offer's end expires the order, and with 2 the first one's does. *`ResetBound`*
lets an expired order be reopened once with all of its later life. *`FaultBound`*
puts one failure at every await, two in `Intake`, where giving a row up takes
two. *Time* in `Throttler` covers two windows and a block after them. *Rows* in
`Drivers`: three times of which two are equal, so that a page ends within a
millisecond and on a row that leaves the filter. *Links*: one of each kind and
a replacement. The theorems lift all these bounds for the properties proved.

`CHECK_DEADLOCK FALSE` stands where the system rests: nobody calls the dispatch
service, a deleted order stays as it is in `Tracking`, and the bounds on orders,
time and requests end `Intake` and `Throttler`. `Drivers` and `Accounts` are
checked for deadlock.

Fairness. A started handler or call goes on, since the event loop runs every
continuation (WF); the cron keeps ticking (WF); delays end, and the minute of a
cached order does (WF); a worker takes waiting jobs first come first served, so
a job that waits again and again is taken (SF). Nobody has to call the API, and
nothing promises that enough other jobs finish to evict one, that a key lives
or expires, or that failures happen: none of these has fairness.
`EtaArrives` starts where a call has found no job for an order on its way, and
excludes three things that the code does not prevent: a failure; a deletion that
was decided before the order was offered; and a cancellation of the order's
expired life that is still in progress when the order has been reopened and
accepted again.

Four runs expect a violation. Each refutes what a text in the repository says:

| run | text | what the code does |
|---|---|---|
| `reject_stalls` | "Dispatch rejected. Reassigning another driver." (`src/dispatch/dispatch.service.ts:413`) | the second trigger has the id of a finished job the queue still knows, and is dropped |
| `timer_removed` | "seconds to wait for driver response before timeout" (README) | the cancellation of an old timer removes the next one |
| `eta_once` | "Re-enqueue next recalculation after delay" (`src/tracking/tracking.service.ts:167`) | the next job has the id of the job at work, and is dropped |
| `suspended_online` | "Your account is suspended, you cannot go online" (`src/drivers/drivers.service.ts:49`) | a toggle that read the row before the suspension is saved after it |

Other facts the models show, for which no run is kept: `NoticeExpired` says
EXPIRED also about an order that moved on; `updateStatus` and `cancelOrder`
publish nothing; `softDelete` decides on an unlocked read, so an order just
offered, or accepted since, can be deleted; an offer costs two of `MAX_DISPATCH_ATTEMPTS`; after a
reopening a timeout for the same driver's earlier offer may end the new one, and
a repeated offer may find its timer's id taken and get no timer.

## 4. Proofs

For any sets and numbers the constants' assumptions allow, each theorem states
`Spec => []P` or, for an action property, `Spec => P`; the two of `TimerProofs`
have a hypothesis, given with them:

| module | theorem | property |
|---|---|---|
| `DispatchProofs` | `TypeCorrect` | `TypeOK` |
| | `AssignmentSafe` | `AssignmentAgrees` |
| | `AuditSafe` | `AuditExact` |
| | `VersionSafe` | `EveryWriteVersioned` |
| | `DeletionSafe` | `DeletedRowFrozen` |
| | `OffersSafe` | `NoRepeatOffer` |
| | `BudgetSafe` | `AttemptAccounting` |
| | `ArrivalSafe` | `ArrivalNoticeTrue` |
| | `RefinesLifecycle` | `ImplementsLifecycle` |
| `TimerProofs` | `StaleTimeoutsHarmless` (as long as no step reopens an expired order) | `StaleTimeoutSkipped` |
| | `OpenOffersTimed` (no call asks for a reassignment and nothing fails) | `OfferHasTimer` |
| `TrackingProofs` | `TypeCorrect`, `RoomsAreRight`, `JobsAreRight` | `TypeOK`, `RoomHearsItsDriver`, `JobFollowsAssignment` |
| `IntakeProofs` | `TypeCorrect`, `ProcessedMeansTriggered`, `AttemptsAreHonest`, `KeysDedupe` | `TypeOK`, `ProcessedWasTriggered`, `AttemptsWereMade`, `SequentialDedupe` |
| `ThrottlerProofs` | `TypeCorrect`, `PenaltyHolds`, `TwoLimitsHold`, `BlockedForExcess` | `TypeOK`, `PenaltyServed`, `AtMostTwoLimits`, `ExcessOnly` |
| `DriversProofs` | `TypeCorrect`, `SuspensionHolds`, `WritesAreKept`, `PagesDisjoint`, `PagesCover` | `TypeOK`, `SuspendedOffline`, `WritesKept`, `NeverTwice`, `NothingElseMissed` |
| `AccountsProofs` | `TypeCorrect`, `RoleBringsProfile`, `SessionsNeedOwner`, `LogoutIsFinal`, `DecisionsKept` | `TypeOK`, `DriverHasProfile`, `SessionsProven`, `LogoutStands`, `DecisionsStand` |
| `LinkProofs` | `LinksWorkOnce`, `LinksStayWhole` | `SpentLinkDead`, `LinksWhole` |

The arguments.

*Dispatch.* The two optimistic calls write what they decided on an earlier read,
so none of these properties is inductive by itself. `IndInv` adds to `TypeOK` and
`AssignmentAgrees` that every handler at work has a job and every call an order
(`Targeted`), and `ReadsCurrent`: the version a call carries is at most the
row's, and if it is equal, the row still has the status the call read, from
which the step it asks for is legal. From that, `NextRowStep` shows that any step
does to any row one of three things: nothing, a deletion, or a `LegalWrite`
together with the matching audit entry. The theorems are then case distinctions
over `LegalWrite`. `BudgetSafe` needs in addition that `attempted` is finite,
`RefinesLifecycle` that a step writes one row at most (`OneRow`). `ArrivalSafe`
strengthens the property to the calls on their way to such a notice
(`NoticeInv`): an accepted order stays accepted (`CameStays`), and a call enters
these steps only by accepting.

*Timers.* A step is sorted by what it does to a handler (`WorkStep`), to a timer
job (`TimerStep`) and to a row (`OfferStep`: a driver becomes able to answer only
by an offer, and whom the order was offered stays in `attempted` until it is
reopened). `TimerInv` says that a timer the queue knows, or a handler still
works at, is armed for the version of the offer its driver can answer, if there
is one, and that a handler about to arm a timer is the only one for this order
and driver and the first: its driver was new to the order. That fails once an
expired order is reopened, since the list of drivers is emptied and a timer's id
may come a second time; therefore the hypothesis, which is about steps and not
about calls: pending orders may be triggered again, and anything may fail.
That the timer *exists* needs more: whoever cancels must not meet a later timer.
`OneClaim` says that an order has one claim at a time, which is an untriggered
outbox row, an assignment job, an open offer, a handler on its way from or to
an offer, or a call that answered one and still cancels. The next offer thus
comes after the cancellation of the one before. A second trigger
makes a second claim; it comes from a reassignment, and the run `timer_removed`
is what then happens. A handler that fails between offering the order and arming
the timer leaves the offer without one: its retry finds the order no longer
pending and returns. So both hypotheses are needed.

*Tracking.* Everything that carries a pair of an order and a driver (a cache
entry, a job, a call, a room) carries a pair that is `Held`: the order was
accepted by that driver, or cancelled while offered to it. No move of the
lifecycle undoes that. `OneHolder` is needed because a stalled job has two
workers: the queue counts on one of them.

*Intake.* Rows and all copies of rows agree with what was done (`Honest`);
triggers and failures only grow, so a stale copy still agrees when it is saved.
For a key of which nothing was lost, `Deduped` says where its one request is.

*Throttler.* `blockEnd` is the end of the penalty of the last hit that was too
many, and nothing has passed in the future. `TwoWindows` adds that what passed
since the window began is counted and within the limit, and that of what passed
before it only the last limit lies less than a window's length before its
beginning: two requests that are twice the limit apart in the order of passing
are then a window apart in time. `HonestCount` says that while no answer was lost
the count is the number of the last hits, and these are of this window; a
request that finds the count too high is its own witness.

*Drivers.* `RowsSteady`: a row, and every call that read it, agree with each
decision and position that no call overtook. `Reading`: nothing shown is below
the cursor, and every row that stayed and was not shown is below it or counted
as lost; this rests on lemmas about pages and about division (`SameMilli`).

*Accounts.* One invariant per theorem, over the row and every entity that may
still be saved over it: the role of a driver is nowhere before the profile is
(`ProfilesFirst`), a verified or linked entity belongs to a proven owner or to
the call that proves one (`OwnerFirst`), nobody is on the way to a session after
a quiet logout (`LoggedOutQuiet`), and an entity that was read before a decision
has marked the column it is going to overwrite (`Decided`). In `LinkProofs` a
step has one of a few shapes (`Shape`): it saves, it mails, or a call goes on
with a new link, with the end of a link, or without one. `LinksOnce`: a stored
link is not spent, the two hashes never share one, and a call that is to store a
link is the only one that holds it and has not mailed it, while a call that is to
end a link will write its hash; the entity of a registration that holds nulls
(`Blank`) brings no link back. `WholeLinks`: hash and time are of
one link in the row, and a call changes both or neither, unless the time it read
is already marked as stale.

Assumptions: `None` is no driver, no status, no key; `MaxAttempts`, limits and
windows are positive (the code floors a `MAX_DISPATCH_ATTEMPTS` below one to
zero, see the hazards); calls and workers are different; bounds are natural
numbers; driver ids are a finite set.

Only model-checked: the liveness properties (`OfferResolved`, `NewOrderTakenUp`,
`HandlersFinish`, `EtaArrives`, `EtaStops`, `EtaKeepsComing` in a run that expects
its violation, `RowsSettle`), which rest on fairness and are out of the prover's
reach. Every other property of a run that passes is a theorem.

## 5. Not modelled, and what is left

Not modelled: mail, connections, schema migrations, HTTP filters and
interceptors, request logging and `main`, which keep no state that a property is
about; the authentication of sockets and who joins which room; prices,
distances and arrival times; hashing; rate-limit keys (how a key is made of an
address or a user). `UsersService.findAll` does not bound its `limit` as the
other lists do; that is an error of one expression and not modelled.

Left for later, in this order:

1. `OfferHasTimer` after a reopening: which of the new life's offers have a timer.
2. An abstract specification of what the outbox promises, which `Intake` implements.
3. The rooms of the events gateway: joining while an order is handed on.
