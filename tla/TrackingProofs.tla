--------------------------- MODULE TrackingProofs ---------------------------
(***************************************************************************)
(* Theorems about Tracking, for any orders, drivers, calls in progress,    *)
(* workers and number of failures.  The argument is that the order of a    *)
(* pair (order, driver) that code carries around, in Redis, in a job or in *)
(* a call, was accepted by that driver, and so keeps it for ever.          *)
(***************************************************************************)
EXTENDS Tracking, TLAPS

USE NoneAssumption, ActorsAssumption, BoundAssumption

Acting == Requests \cup Workers

\* An offer always names a driver.
Lives ==
  {l \in [Orders -> [status : Life!Statuses, assigned : Drivers \cup {None}]] :
     \A o \in Orders : l[o].status = "DRIVER_ASSIGNED" => l[o].assigned # None}

\* The statuses an order has once a driver has accepted it, or at its end.
Settled == OnItsWay \cup Ended

\* The order was accepted by the driver, or cancelled while offered to it.
Held(l, o, d) ==
  /\ o \in Orders /\ d \in Drivers
  /\ l[o].assigned = d /\ l[o].status \in Settled

Kept(l, m) == \A o \in Orders, d \in Drivers : Held(l, o, d) => Held(m, o, d)

Carrying == {"remember", "getKey", "add", "read", "next"}
Asking == {"idle", "cache", "find"}

\* A call or a worker knows the order it works on, and carries a driver
\* along only if the order is held by it.
Fits(l, x) ==
  /\ x \in Actor
  /\ x.pc \in {"cache", "find"} => x.driver \in Drivers
  /\ x.pc \notin Asking => x.order \in Orders
  /\ x.pc \in Carrying => Held(l, x.order, x.driver)

JobsHeld(l, q, jd) == \A o \in Orders : q[o] # "absent" => Held(l, o, jd[o])
CachedHeld(l, c) == \A d \in Drivers : c[d] # None => Held(l, c[d], d)
RoomsHeld(l, h) == \A o \in Orders : h[o] # None => Held(l, o, h[o])
ActorsFit(l, acts) == \A a \in Acting : Fits(l, acts[a])

\* The queue counts on one worker for a job, and it is at work on it.
Holds(x) == x.pc # "idle" /\ x.holds

OneHolder(q, acts) ==
  \A w \in Workers : Holds(acts[w]) =>
    /\ acts[w].order \in Orders /\ q[acts[w].order] = "active"
    /\ \A v \in Workers \ {w} : Holds(acts[v]) => acts[v].order # acts[w].order

Inv ==
  /\ TypeOK /\ life \in Lives
  /\ JobsHeld(life, queue, jobDriver)
  /\ CachedHeld(life, active)
  /\ RoomsHeld(life, heard)
  /\ ActorsFit(life, actors)
  /\ OneHolder(queue, actors)

-----------------------------------------------------------------------------
(* The orders *)

LEMMA StatusesHas ==
  /\ Settled \subseteq Life!Statuses
  /\ "DRIVER_ASSIGNED" \in Life!Statuses \ Settled
  /\ "PENDING" \in Life!Statuses \ Settled
  /\ "EXPIRED" \in Life!Statuses \ Settled
  BY DEF Settled, OnItsWay, Ended, Life!Statuses

\* One order moves, and if it was settled it keeps its driver.
LEMMA MoveKeeps ==
  ASSUME NEW l \in Lives, NEW o \in Orders, NEW s \in Life!Statuses,
         NEW d \in Drivers \cup {None},
         l[o].status \in Settled /\ l[o].assigned # None =>
           s \in Settled /\ d = l[o].assigned,
         s = "DRIVER_ASSIGNED" => d # None
  PROVE /\ [l EXCEPT ![o] = Life!Stage(s, d)] \in Lives
        /\ Kept(l, [l EXCEPT ![o] = Life!Stage(s, d)])
  BY DEF Lives, Kept, Held, Life!Stage

LEMMA AdvanceKeeps ==
  ASSUME life \in Lives, NEW o \in Orders, NEW s, Life!Advance(o, s)
  PROVE life' \in Lives /\ Kept(life, life')
<1>1. s \in Settled
  BY DEF Life!Advance, Life!Advances, Settled, OnItsWay, Ended
<1>2. life[o].assigned \in Drivers \cup {None} /\ s \in Life!Statuses
  BY <1>1, StatusesHas DEF Lives
<1>3. life' = [life EXCEPT ![o] = Life!Stage(s, life[o].assigned)]
  BY DEF Life!Advance, Life!Move
<1> QED BY <1>1, <1>2, <1>3, MoveKeeps, StatusesHas

LEMMA UnsettledKeeps ==
  ASSUME life \in Lives, NEW o \in Orders,
         \/ \E d \in Drivers : Life!Offer(o, d)
         \/ Life!Withdraw(o) \/ Life!GiveUp(o) \/ Life!Reopen(o)
  PROVE life' \in Lives /\ Kept(life, life')
<1>1. life[o].status \notin Settled
  BY StatusesHas DEF Life!Offer, Life!Withdraw, Life!GiveUp, Life!Reopen
<1>2. \E s \in Life!Statuses, d \in Drivers \cup {None} :
        /\ s = "DRIVER_ASSIGNED" => d # None
        /\ life' = [life EXCEPT ![o] = Life!Stage(s, d)]
  <2>1. ASSUME NEW d \in Drivers, Life!Offer(o, d) 
        PROVE \E s \in Life!Statuses, e \in Drivers \cup {None} :
                /\ s = "DRIVER_ASSIGNED" => e # None
                /\ life' = [life EXCEPT ![o] = Life!Stage(s, e)]
    BY <2>1, StatusesHas DEF Life!Offer, Life!Move
  <2>2. CASE Life!Withdraw(o) \/ Life!GiveUp(o) \/ Life!Reopen(o)
    <3>1. \E s \in {"PENDING", "EXPIRED"} : life' = [life EXCEPT ![o] = Life!Stage(s, None)]
      BY <2>2 DEF Life!Withdraw, Life!GiveUp, Life!Reopen, Life!Move
    <3> QED BY <3>1, StatusesHas
  <2> QED BY <2>1, <2>2
<1>3. PICK s \in Life!Statuses, d \in Drivers \cup {None} :
        /\ s = "DRIVER_ASSIGNED" => d # None
        /\ life' = [life EXCEPT ![o] = Life!Stage(s, d)]
  BY <1>2
<1> QED BY <1>1, <1>3, MoveKeeps

LEMMA KeptCarries ==
  ASSUME NEW l, NEW m, Kept(l, m)
  PROVE /\ \A q, jd : JobsHeld(l, q, jd) => JobsHeld(m, q, jd)
        /\ \A c : CachedHeld(l, c) => CachedHeld(m, c)
        /\ \A h : RoomsHeld(l, h) => RoomsHeld(m, h)
        /\ \A x : Fits(l, x) => Fits(m, x)
        /\ \A acts : ActorsFit(l, acts) => ActorsFit(m, acts)
<1>1. \A o, d : Held(l, o, d) => Held(m, o, d)
  BY DEF Kept, Held
<1>2. \A x : Fits(l, x) => Fits(m, x)
  BY <1>1 DEF Fits
<1> QED BY <1>1, <1>2 DEF JobsHeld, CachedHeld, RoomsHeld, ActorsFit

-----------------------------------------------------------------------------
(* The actors *)

LEMMA IdleFits == \A l : Fits(l, Idle) /\ ~Holds(Idle)
  BY DEF Fits, Idle, Actor, Steps, Asking, Carrying, Holds

\* An actor takes another step; a worker keeps the job it holds, or ends.
LEMMA ActorSteps ==
  ASSUME Inv, NEW a \in Acting, NEW x, Fits(life, x),
         \/ a \in Requests
         \/ ~Holds(x)
         \/ Holds(actors[a]) /\ x.order = actors[a].order,
         actors' = [actors EXCEPT ![a] = x]
  PROVE /\ actors' \in [Acting -> Actor]
        /\ ActorsFit(life, actors')
        /\ OneHolder(queue, actors')
<1>1. actors \in [Acting -> Actor] /\ ActorsFit(life, actors) /\ OneHolder(queue, actors)
  BY DEF Inv, TypeOK, Acting
<1>2. actors' \in [Acting -> Actor]
  BY <1>1 DEF Fits
<1>3. actors'[a] = x /\ \A b \in Acting \ {a} : actors'[b] = actors[b]
  BY <1>1
<1>4. ActorsFit(life, actors')
  BY <1>1, <1>3 DEF ActorsFit
<1>5. ASSUME NEW w \in Workers, Holds(actors'[w]) PROVE
        Holds(actors[w]) /\ actors'[w].order = actors[w].order
  BY <1>3, <1>5 DEF Acting
<1>6. OneHolder(queue, actors')
  BY <1>1, <1>5 DEF OneHolder
<1> QED BY <1>2, <1>4, <1>6

LEMMA GoesTo ==
  ASSUME Inv, NEW a \in Acting, NEW s \in Steps \ Asking, GoTo(a, s),
         actors[a].pc \notin Asking, s \in Carrying => actors[a].pc \in Carrying
  PROVE /\ actors' \in [Acting -> Actor]
        /\ ActorsFit(life, actors')
        /\ OneHolder(queue, actors')
<1>1. Fits(life, actors[a])
  BY DEF Inv, ActorsFit
<1>2. PICK x : x = [actors[a] EXCEPT !.pc = s]
  OBVIOUS
<1>3. actors' = [actors EXCEPT ![a] = x]
  BY <1>2 DEF GoTo
<1>4. /\ x \in Actor /\ x.pc = s /\ x.order = actors[a].order
      /\ x.driver = actors[a].driver /\ x.holds = actors[a].holds
  BY <1>1, <1>2 DEF Fits, Actor
<1>5. Fits(life, x)
  BY <1>1, <1>4 DEF Fits, Asking
<1>6. Holds(x) => Holds(actors[a])
  BY <1>4 DEF Holds, Asking
<1> QED BY <1>3, <1>4, <1>5, <1>6, ActorSteps

LEMMA BecomesIdle ==
  ASSUME Inv, NEW a \in Acting, Become(a, Idle)
  PROVE /\ actors' \in [Acting -> Actor]
        /\ ActorsFit(life, actors')
        /\ OneHolder(queue, actors')
<1>1. Fits(life, Idle) /\ ~Holds(Idle)
  BY IdleFits
<1>2. actors' = [actors EXCEPT ![a] = Idle]
  BY DEF Become
<1> QED BY <1>1, <1>2, ActorSteps

LEMMA IsDone ==
  ASSUME Inv, NEW a \in Acting, Done(a), actors[a].pc \notin Asking
  PROVE /\ actors' \in [Acting -> Actor]
        /\ ActorsFit(life, actors')
        /\ OneHolder(queue, actors')
<1>1. CASE a \in Workers
  <2>1. GoTo(a, "finish")
    BY <1>1 DEF Done
  <2>2. "finish" \in Steps \ Asking /\ "finish" \notin Carrying
    BY DEF Steps, Asking, Carrying
  <2> QED BY <2>1, <2>2, GoesTo
<1>2. CASE a \notin Workers
  BY <1>2, BecomesIdle DEF Done
<1> QED BY <1>1, <1>2

\* A call begins about an order or a driver.
LEMMA Begins ==
  ASSUME Inv, NEW r \in Requests, NEW s \in Steps, NEW o \in Orders \cup {None},
         NEW d \in Drivers \cup {None}, NEW m, Begin(r, s, o, d), Kept(life, m),
         s \in {"cache", "find"} => d \in Drivers,
         s \notin Asking => o \in Orders,
         s \in Carrying => Held(m, o, d)
  PROVE /\ actors' \in [Acting -> Actor]
        /\ ActorsFit(m, actors')
        /\ OneHolder(queue, actors')
<1>1. PICK x : x = [Idle EXCEPT !.pc = s, !.order = o, !.driver = d]
  OBVIOUS
<1>2. x \in Actor /\ x.pc = s /\ x.order = o /\ x.driver = d
  BY <1>1 DEF Idle, Actor
<1>3. Fits(m, x)
  BY <1>2 DEF Fits
<1>4. actors' = [actors EXCEPT ![r] = x]
  BY <1>1 DEF Begin, Become
<1>5. actors \in [Acting -> Actor] /\ ActorsFit(m, actors) /\ OneHolder(queue, actors)
  BY KeptCarries DEF Inv, TypeOK, Acting
<1>6. actors'[r] = x /\ \A b \in Acting \ {r} : actors'[b] = actors[b]
  BY <1>4, <1>5 DEF Acting
<1>7. actors' \in [Acting -> Actor]
  BY <1>2, <1>4, <1>5
<1>8. ActorsFit(m, actors')
  BY <1>3, <1>5, <1>6 DEF ActorsFit
<1>9. OneHolder(queue, actors')
  BY <1>5, <1>6 DEF OneHolder, Acting
<1> QED BY <1>7, <1>8, <1>9

-----------------------------------------------------------------------------
(* The invariant *)

\* The queue changes, but no job that a worker holds.
LEMMA QueueChanges ==
  ASSUME NEW q, NEW p, NEW acts, OneHolder(q, acts),
         \A o \in Orders : q[o] = "active" => p[o] = "active"
  PROVE OneHolder(p, acts)
  BY DEF OneHolder

Rest ==
  /\ deleted' \subseteq Orders /\ etaKey' \in [Orders -> BOOLEAN]
  /\ etaSent' \subseteq Orders /\ faults' \in 0 .. FaultBound

\* What is not about a pair.
LEMMA RestStep == Inv /\ [Next]_vars => Rest
<1> SUFFICES ASSUME Inv, [Next]_vars PROVE Rest
  OBVIOUS
<1>1. /\ deleted \subseteq Orders /\ etaKey \in [Orders -> BOOLEAN]
      /\ etaSent \subseteq Orders /\ faults \in 0 .. FaultBound
  BY DEF Inv, TypeOK
<1>2. ASSUME UNCHANGED <<deleted, etaKey, etaSent, faults>> PROVE Rest
  BY <1>1, <1>2 DEF Rest
<1>3. ASSUME NEW a, SetEtaKey(a) \/ CancelDeleteKey(a) PROVE Rest
  BY <1>1, <1>3 DEF SetEtaKey, CancelDeleteKey, rooms, Rest
<1>4. ASSUME NEW a, Recalculate(a), a \in Acting PROVE Rest
  <2>1. actors[a].order \in Orders
    BY <1>4 DEF Recalculate, At, Inv, ActorsFit, Fits, Asking
  <2> QED BY <1>1, <1>4, <2>1 DEF Recalculate, rooms, redis, Rest
<1>5. ASSUME Fault PROVE Rest
  <2>1. faults + 1 \in 0 .. FaultBound
    BY <1>1, <1>5 DEF Fault
  <2> QED BY <1>1, <1>5, <2>1 DEF Fault, rooms, redis, Rest
<1>6. CASE OrderMoves
  BY <1>2, <1>6 DEF OrderMoves, redis, rooms
<1>7. ASSUME NEW o \in Orders,
             EtaKeyExpires(o) \/ DelayElapses(o) \/ Evict(o)
      PROVE Rest
  BY <1>1, <1>7 DEF EtaKeyExpires, DelayElapses, Evict, redis, rooms, Rest
<1>8. ASSUME NEW d \in Drivers, ActiveExpires(d) PROVE Rest
  BY <1>2, <1>8 DEF ActiveExpires, rooms
<1>9. ASSUME NEW r \in Requests,
             \/ \E d \in Drivers : handleLocationUpdate(r, d)
             \/ \E o \in Orders : ReadForDelete(r, o)
             \/ ReadActiveOrder(r) \/ FindActiveOrder(r) \/ RememberActiveOrder(r)
             \/ CheckEtaKey(r) \/ AddEtaJob(r) \/ CancelGetKey(r) \/ CancelRemove(r)
      PROVE Rest
  BY <1>2, <1>9 DEF handleLocationUpdate, ReadForDelete, ReadActiveOrder, FindActiveOrder,
    RememberActiveOrder, Broadcast, CheckEtaKey, AddEtaJob, CancelGetKey, CancelRemove,
    redis, rooms
<1>10. ASSUME NEW w \in Workers,
              \/ \E o \in Orders : TakeJob(w, o)
              \/ AddNextJob(w) \/ CancelGetKey(w) \/ CancelRemove(w) \/ FinishJob(w)
       PROVE Rest
  BY <1>2, <1>10 DEF TakeJob, AddNextJob, CancelGetKey, CancelRemove, FinishJob, redis, rooms
<1>11. ASSUME NEW r \in Requests, CallFails(r) PROVE Rest
  BY <1>5, <1>11 DEF CallFails
<1>12. ASSUME NEW w \in Workers, HandlerFails(w) \/ JobStalls(w) PROVE Rest
  BY <1>5, <1>12 DEF HandlerFails, JobStalls
<1>13. ASSUME NEW r \in Requests, CommitDelete(r) PROVE Rest
  <2>1. actors[r].order \in Orders
    BY <1>13 DEF CommitDelete, At, Inv, ActorsFit, Fits, Asking, Acting
  <2> QED BY <1>1, <1>13, <2>1 DEF CommitDelete, redis, rooms, Rest
<1>14. CASE UNCHANGED vars
  BY <1>2, <1>14 DEF vars
<1> QED BY <1>3, <1>4, <1>6, <1>7, <1>8, <1>9, <1>10, <1>11, <1>12, <1>13, <1>14
        DEF Next, CallStep, WorkerStep, Acting

\* The pairs.
Pairs ==
  /\ life \in Lives
  /\ queue \in [Orders -> JobStates] /\ jobDriver \in [Orders -> Drivers \cup {None}]
  /\ active \in [Drivers -> Orders \cup {None}] /\ heard \in [Orders -> Drivers \cup {None}]
  /\ actors \in [Acting -> Actor]
  /\ JobsHeld(life, queue, jobDriver)
  /\ CachedHeld(life, active)
  /\ RoomsHeld(life, heard)
  /\ ActorsFit(life, actors)
  /\ OneHolder(queue, actors)

LEMMA InvPairs == Inv <=> Pairs /\ /\ deleted \subseteq Orders /\ etaKey \in [Orders -> BOOLEAN]
                                   /\ etaSent \subseteq Orders /\ faults \in 0 .. FaultBound
  BY DEF Inv, Pairs, TypeOK, Lives, Acting

\* A job is added for an order that is held, and takes no worker's job away.
LEMMA AddJobKeeps ==
  ASSUME Pairs, NEW o \in Orders, NEW d, NEW s \in JobStates, Held(life, o, d), Add(o, d, s)
  PROVE /\ queue' \in [Orders -> JobStates] /\ jobDriver' \in [Orders -> Drivers \cup {None}]
        /\ JobsHeld(life, queue', jobDriver')
        /\ \A b \in Orders : queue[b] = "active" => queue'[b] = "active"
<1>1. /\ queue \in [Orders -> JobStates] /\ jobDriver \in [Orders -> Drivers \cup {None}]
      /\ JobsHeld(life, queue, jobDriver) /\ d \in Drivers
  BY DEF Pairs, Held
<1>2. CASE queue[o] = "absent"
  <2>1. queue' = [queue EXCEPT ![o] = s] /\ jobDriver' = [jobDriver EXCEPT ![o] = d]
    BY <1>2 DEF Add, AddJob
  <2> QED BY <1>1, <1>2, <2>1 DEF JobsHeld
<1>3. CASE queue[o] # "absent"
  <2>1. queue' = queue /\ jobDriver' = jobDriver
    BY <1>3 DEF Add, AddJob
  <2> QED BY <1>1, <2>1
<1> QED BY <1>2, <1>3

\* The end of a job, its failure or its stall: the worker lets go.
LEMMA LeaveKeeps ==
  ASSUME Inv, NEW w \in Workers, NEW s \in JobStates \ {"absent"}, NEW x,
         ~At(w, "idle"), Fits(life, x), ~Holds(x),
         queue' = (IF actors[w].holds THEN [queue EXCEPT ![actors[w].order] = s] ELSE queue),
         actors' = [actors EXCEPT ![w] = x]
  PROVE /\ queue' \in [Orders -> JobStates]
        /\ JobsHeld(life, queue', jobDriver)
        /\ actors' \in [Acting -> Actor]
        /\ ActorsFit(life, actors')
        /\ OneHolder(queue', actors')
<1>1. /\ actors' \in [Acting -> Actor]
      /\ ActorsFit(life, actors')
      /\ OneHolder(queue, actors')
  BY ActorSteps DEF Acting
<1>2. CASE ~actors[w].holds
  <2>1. queue' = queue
    BY <1>2
  <2> QED BY <1>1, <2>1 DEF Inv, TypeOK
<1>3. CASE actors[w].holds
  <2>1. PICK o : o = actors[w].order
    OBVIOUS
  <2>2. Holds(actors[w])
    BY <1>3 DEF Holds, At
  <2>3. /\ o \in Orders /\ queue[o] = "active"
        /\ \A v \in Workers \ {w} : Holds(actors[v]) => actors[v].order # o
    BY <2>1, <2>2 DEF Inv, OneHolder
  <2>4. queue' = [queue EXCEPT ![o] = s] /\ queue \in [Orders -> JobStates]
    BY <1>3, <2>1 DEF Inv, TypeOK
  <2>5. JobsHeld(life, queue', jobDriver)
    BY <2>3, <2>4 DEF Inv, JobsHeld
  <2>6. actors'[w] = x /\ \A b \in Workers \ {w} : actors'[b] = actors[b]
    BY DEF Inv, TypeOK
  <2>7. ASSUME NEW v \in Workers, Holds(actors'[v]) PROVE actors'[v].order # o
    BY <2>3, <2>6, <2>7
  <2>8. OneHolder(queue', actors')
    BY <1>1, <2>4, <2>7 DEF OneHolder
  <2> QED BY <1>1, <2>4, <2>5, <2>8
<1> QED BY <1>2, <1>3

LEMMA PairsStep == Inv /\ [Next]_vars => Pairs'
<1> SUFFICES ASSUME Inv, [Next]_vars PROVE Pairs'
  OBVIOUS
<1>0. Pairs
  BY InvPairs
<1>1. \A a \in Acting : Fits(life, actors[a])
  BY <1>0 DEF Pairs, ActorsFit
<1>2. Kept(life, life)
  BY DEF Kept
\* Only actors have changed.
<1>3. ASSUME UNCHANGED <<life, queue, jobDriver, active, heard>>,
             /\ actors' \in [Acting -> Actor] /\ ActorsFit(life, actors')
             /\ OneHolder(queue, actors')
      PROVE Pairs'
  BY <1>0, <1>3 DEF Pairs
<1>4. CASE OrderMoves
  <2>1. PICK o \in Orders \ deleted :
          \/ \E r \in Requests : Accept(r, o) \/ End(r, o)
          \/ MoveOn(o)
    BY <1>4 DEF OrderMoves
  <2>2. UNCHANGED <<queue, jobDriver, active, heard>> /\ life \in Lives
    BY <1>0, <1>4 DEF OrderMoves, jobs, redis, rooms, Pairs
  <2>3. ASSUME life' \in Lives, Kept(life, life'),
               /\ actors' \in [Acting -> Actor] /\ ActorsFit(life', actors')
               /\ OneHolder(queue, actors')
        PROVE Pairs'
    <3>1. /\ JobsHeld(life', queue, jobDriver)
          /\ CachedHeld(life', active) /\ RoomsHeld(life', heard)
      BY <1>0, <2>3, KeptCarries DEF Pairs
    <3> QED BY <1>0, <2>2, <2>3, <3>1 DEF Pairs
  <2>4. ASSUME NEW r \in Requests, Accept(r, o) PROVE Pairs'
    <3>1. Life!Advance(o, "DRIVER_ARRIVING") /\ Begin(r, "getKey", o, life[o].assigned)
      BY <2>4 DEF Accept
    <3>2. life' \in Lives /\ Kept(life, life')
      BY <2>2, <3>1, AdvanceKeeps
    <3>3. PICK d : d = life[o].assigned
      OBVIOUS
    <3>4. d \in Drivers
      BY <2>2, <2>4, <3>3 DEF Accept, Lives
    <3>5. Held(life', o, d)
      BY <2>2, <3>1, <3>3, <3>4
      DEF Held, Life!Advance, Life!Move, Life!Stage, Lives, Settled, OnItsWay
    <3>6. "getKey" \in Steps \ Asking
      BY DEF Steps, Asking
    <3>7. /\ actors' \in [Acting -> Actor] /\ ActorsFit(life', actors')
          /\ OneHolder(queue, actors')
      BY <3>1, <3>2, <3>3, <3>4, <3>5, <3>6, Begins DEF Asking
    <3> QED BY <2>3, <3>2, <3>7
  <2>5. ASSUME NEW r \in Requests, End(r, o) PROVE Pairs'
    <3>1. life' \in Lives /\ Kept(life, life')
      <4>1. CASE \E s \in Ended : Life!Advance(o, s)
        BY <2>2, <4>1, AdvanceKeeps
      <4>2. CASE Life!GiveUp(o) \/ Life!Withdraw(o)
        BY <2>2, <4>2, UnsettledKeeps
      <4> QED BY <2>5, <4>1, <4>2 DEF End
    <3>2. Begin(r, "cancel", o, None)
      BY <2>5 DEF End
    <3>3. "cancel" \in Steps \ Asking /\ "cancel" \notin Carrying /\ None \in Drivers \cup {None}
      BY DEF Steps, Asking, Carrying
    <3>4. /\ actors' \in [Acting -> Actor] /\ ActorsFit(life', actors')
          /\ OneHolder(queue, actors')
      BY <3>1, <3>2, <3>3, Begins DEF Asking
    <3> QED BY <2>3, <3>1, <3>4
  <2>6. CASE MoveOn(o)
    <3>1. life' \in Lives /\ Kept(life, life')
      <4>1. CASE \E s \in OnItsWay : Life!Advance(o, s)
        BY <2>2, <4>1, AdvanceKeeps
      <4>2. CASE \/ \E d \in Drivers : Life!Offer(o, d)
                 \/ Life!Withdraw(o) \/ Life!Reopen(o)
        BY <2>2, <4>2, UnsettledKeeps
      <4> QED BY <2>6, <4>1, <4>2 DEF MoveOn
    <3>2. ActorsFit(life', actors) /\ actors' = actors
      BY <1>0, <2>6, <3>1, KeptCarries DEF MoveOn, Pairs
    <3> QED BY <1>0, <2>3, <3>1, <3>2 DEF Pairs
  <2> QED BY <2>1, <2>4, <2>5, <2>6
<1>5. ASSUME NEW o \in Orders, EtaKeyExpires(o) PROVE Pairs'
  BY <1>0, <1>3, <1>5 DEF EtaKeyExpires, jobs, rooms, Pairs
<1>6. ASSUME NEW d \in Drivers, ActiveExpires(d) PROVE Pairs'
  <2>1. /\ active' \in [Drivers -> Orders \cup {None}]
        /\ CachedHeld(life, active')
    BY <1>0, <1>6 DEF ActiveExpires, Pairs, CachedHeld
  <2>2. UNCHANGED <<life, queue, jobDriver, actors, heard>>
    BY <1>6 DEF ActiveExpires, jobs, rooms
  <2> QED BY <1>0, <2>1, <2>2 DEF Pairs
<1>7. ASSUME NEW r \in Requests, NEW d \in Drivers, handleLocationUpdate(r, d) PROVE Pairs'
  <2>1. Begin(r, "cache", None, d)
        /\ UNCHANGED <<life, queue, jobDriver, active, heard>>
    BY <1>7 DEF handleLocationUpdate, jobs, redis, rooms
  <2>2. "cache" \in Steps /\ "cache" \in Asking /\ "cache" \notin Carrying
    BY DEF Steps, Asking, Carrying
  <2>3. /\ actors' \in [Acting -> Actor] /\ ActorsFit(life, actors')
        /\ OneHolder(queue, actors')
    BY <1>2, <2>1, <2>2, Begins
  <2> QED BY <1>3, <2>1, <2>3
\* A call takes up an order that is held by its driver.
<1>8. ASSUME NEW r \in Requests, NEW o \in Orders, NEW s \in {"remember", "getKey"},
             actors[r].pc \in {"cache", "find", "remember"},
             Held(life, o, actors[r].driver),
             actors' = [actors EXCEPT ![r] = [actors[r] EXCEPT !.pc = s, !.order = o]]
      PROVE /\ actors' \in [Acting -> Actor] /\ ActorsFit(life, actors')
            /\ OneHolder(queue, actors')
  <2>1. PICK x : x = [actors[r] EXCEPT !.pc = s, !.order = o]
    OBVIOUS
  <2>2. actors[r] \in Actor /\ s \in Steps /\ r \in Acting
    BY <1>1 DEF Fits, Acting, Steps
  <2>3. x \in Actor /\ x.pc = s /\ x.order = o /\ x.driver = actors[r].driver
    BY <2>1, <2>2 DEF Actor
  <2>4. Fits(life, x)
    BY <1>8, <2>3 DEF Fits
  <2> QED BY <1>8, <2>1, <2>2, <2>4, ActorSteps
<1>9. ASSUME NEW r \in Requests, ReadActiveOrder(r) PROVE Pairs'
  <2>1. PICK d : d = actors[r].driver
    OBVIOUS
  <2>2. d \in Drivers /\ actors[r].pc = "cache" /\ actors[r] \in Actor /\ r \in Acting
    BY <1>1, <1>9, <2>1 DEF ReadActiveOrder, At, Fits, Acting
  <2>3. UNCHANGED <<life, queue, jobDriver, active>>
    BY <1>9 DEF ReadActiveOrder, jobs, redis
  <2>4. CASE active[d] # None /\ Broadcast(r, active[d], d)
    <3>1. Held(life, active[d], d) /\ active[d] \in Orders
      BY <1>0, <2>2, <2>4 DEF Pairs, CachedHeld
    <3>2. /\ heard' = [heard EXCEPT ![active[d]] = d]
          /\ actors' = [actors EXCEPT ![r] =
                          [actors[r] EXCEPT !.pc = "getKey", !.order = active[d]]]
      BY <2>4 DEF Broadcast, Become
    <3>3. /\ heard' \in [Orders -> Drivers \cup {None}] /\ RoomsHeld(life, heard')
      BY <1>0, <2>2, <3>1, <3>2 DEF Pairs, RoomsHeld
    <3>4. /\ actors' \in [Acting -> Actor] /\ ActorsFit(life, actors')
          /\ OneHolder(queue, actors')
      BY <1>8, <2>1, <2>2, <3>1, <3>2
    <3> QED BY <1>0, <2>3, <3>3, <3>4 DEF Pairs
  <2>5. CASE GoTo(r, "find") /\ UNCHANGED rooms
    <3>1. PICK x : x = [actors[r] EXCEPT !.pc = "find"]
      OBVIOUS
    <3>2. x \in Actor /\ x.pc = "find" /\ x.driver = d
      BY <2>1, <2>2, <3>1 DEF Actor, Steps
    <3>3. Fits(life, x)
      BY <2>2, <3>2 DEF Fits, Asking, Carrying
    <3>4. actors' = [actors EXCEPT ![r] = x] /\ UNCHANGED heard
      BY <2>5, <3>1 DEF GoTo, rooms
    <3>5. /\ actors' \in [Acting -> Actor] /\ ActorsFit(life, actors')
          /\ OneHolder(queue, actors')
      BY <2>2, <3>3, <3>4, ActorSteps
    <3> QED BY <1>3, <2>3, <3>4, <3>5
  <2> QED BY <1>9, <2>1, <2>4, <2>5 DEF ReadActiveOrder
<1>10. ASSUME NEW r \in Requests, FindActiveOrder(r) PROVE Pairs'
  <2>1. PICK d : d = actors[r].driver
    OBVIOUS
  <2>2. d \in Drivers /\ actors[r].pc = "find" /\ r \in Acting
    BY <1>1, <1>10, <2>1 DEF FindActiveOrder, At, Fits, Acting
  <2>3. UNCHANGED <<life, queue, jobDriver, active, heard>>
    BY <1>10 DEF FindActiveOrder, jobs, redis, rooms
  <2>4. ASSUME NEW o \in CarriedBy(d),
               Become(r, [actors[r] EXCEPT !.pc = "remember", !.order = o])
        PROVE Pairs'
    <3>1. o \in Orders /\ Held(life, o, d)
      BY <2>2, <2>4 DEF CarriedBy, Held, Settled
    <3>2. /\ actors' \in [Acting -> Actor] /\ ActorsFit(life, actors')
          /\ OneHolder(queue, actors')
      BY <1>8, <2>1, <2>2, <2>4, <3>1 DEF Become
    <3> QED BY <1>3, <2>3, <3>2
  <2>5. CASE Become(r, Idle)
    BY <1>3, <2>2, <2>3, <2>5, BecomesIdle
  <2> QED BY <1>10, <2>1, <2>4, <2>5 DEF FindActiveOrder
<1>11. ASSUME NEW r \in Requests, RememberActiveOrder(r) PROVE Pairs'
  <2>1. PICK o, d : o = actors[r].order /\ d = actors[r].driver
    OBVIOUS
  <2>2. Held(life, o, d) /\ o \in Orders /\ d \in Drivers /\ actors[r].pc = "remember"
    BY <1>1, <1>11, <2>1
    DEF RememberActiveOrder, At, Fits, Acting, Carrying, Held
  <2>3. /\ active' = [active EXCEPT ![d] = o] /\ heard' = [heard EXCEPT ![o] = d]
        /\ actors' = [actors EXCEPT ![r] = [actors[r] EXCEPT !.pc = "getKey", !.order = o]]
        /\ UNCHANGED <<life, queue, jobDriver>>
    BY <1>11, <2>1 DEF RememberActiveOrder, Broadcast, Become, jobs
  <2>4. /\ heard' \in [Orders -> Drivers \cup {None}] /\ RoomsHeld(life, heard')
    BY <1>0, <2>2, <2>3 DEF Pairs, RoomsHeld
  <2>5. /\ active' \in [Drivers -> Orders \cup {None}] /\ CachedHeld(life, active')
    BY <1>0, <2>2, <2>3 DEF Pairs, CachedHeld
  <2>6. /\ actors' \in [Acting -> Actor] /\ ActorsFit(life, actors')
        /\ OneHolder(queue, actors')
    BY <1>8, <2>1, <2>2, <2>3
  <2> QED BY <1>0, <2>3, <2>4, <2>5, <2>6 DEF Pairs
<1>12. ASSUME NEW a \in Acting, NEW s \in Steps \ Asking, GoTo(a, s),
              actors[a].pc \notin Asking, s \in Carrying => actors[a].pc \in Carrying,
              UNCHANGED <<life, queue, jobDriver, active, heard>>
       PROVE Pairs'
  BY <1>3, <1>12, GoesTo
<1>13. ASSUME NEW r \in Requests, CheckEtaKey(r) PROVE Pairs'
  <2>1. UNCHANGED <<life, queue, jobDriver, active, heard>> /\ r \in Acting
    BY <1>13 DEF CheckEtaKey, jobs, redis, rooms, Acting
  <2>2. Become(r, Idle) \/ GoTo(r, "add")
    BY <1>13 DEF CheckEtaKey
  <2>3. "add" \in Steps \ Asking /\ actors[r].pc \notin Asking /\ actors[r].pc \in Carrying
    BY <1>13 DEF CheckEtaKey, At, Steps, Asking, Carrying
  <2>4. CASE Become(r, Idle)
    BY <1>3, <2>1, <2>4, BecomesIdle
  <2>5. CASE GoTo(r, "add")
    BY <1>12, <2>1, <2>3, <2>5
  <2> QED BY <2>2, <2>4, <2>5
\* A job is added, the first or the next.
<1>14. ASSUME NEW a \in Acting, NEW s \in JobStates, actors[a].pc \in {"add", "next"},
              Add(actors[a].order, actors[a].driver, s), GoTo(a, "setKey"),
              UNCHANGED <<life, active, heard>>
       PROVE Pairs'
  <2>1. PICK o, d : o = actors[a].order /\ d = actors[a].driver
    OBVIOUS
  <2>2. o \in Orders /\ Held(life, o, d)
    BY <1>1, <1>14, <2>1 DEF Fits, Carrying, Held
  <2>3. Add(o, d, s)
    BY <1>14, <2>1
  <2>4. /\ queue' \in [Orders -> JobStates] /\ jobDriver' \in [Orders -> Drivers \cup {None}]
        /\ JobsHeld(life, queue', jobDriver')
        /\ \A b \in Orders : queue[b] = "active" => queue'[b] = "active"
    BY <1>0, <2>2, <2>3, AddJobKeeps
  <2>5. "setKey" \in Steps \ Asking /\ actors[a].pc \notin Asking /\ actors[a].pc \in Carrying
    BY <1>14 DEF Steps, Asking, Carrying
  <2>6. /\ actors' \in [Acting -> Actor] /\ ActorsFit(life, actors')
        /\ OneHolder(queue, actors')
    BY <1>14, <2>5, GoesTo
  <2>7. OneHolder(queue', actors')
    BY <2>4, <2>6, QueueChanges
  <2> QED BY <1>0, <1>14, <2>4, <2>6, <2>7 DEF Pairs
<1>15. ASSUME NEW r \in Requests, AddEtaJob(r) PROVE Pairs'
  BY <1>14, <1>15 DEF AddEtaJob, At, Acting, JobStates, redis, rooms
<1>16. ASSUME NEW w \in Workers, AddNextJob(w) PROVE Pairs'
  BY <1>14, <1>16 DEF AddNextJob, At, Acting, JobStates, redis, rooms
<1>17. ASSUME NEW a \in Acting, SetEtaKey(a) \/ CancelDeleteKey(a) PROVE Pairs'
  <2>1. /\ Done(a) /\ actors[a].pc \notin Asking
        /\ UNCHANGED <<life, queue, jobDriver, active, heard>>
    BY <1>17 DEF SetEtaKey, CancelDeleteKey, At, Asking, jobs, rooms
  <2> QED BY <1>3, <2>1, IsDone
<1>18. ASSUME NEW a \in Acting, CancelGetKey(a) PROVE Pairs'
  <2>1. /\ GoTo(a, "remove") \/ Done(a)
        /\ actors[a].pc \notin Asking
        /\ UNCHANGED <<life, queue, jobDriver, active, heard>>
    BY <1>18 DEF CancelGetKey, At, Asking, jobs, redis, rooms
  <2>2. CASE Done(a)
    BY <1>3, <2>1, <2>2, IsDone
  <2>3. CASE GoTo(a, "remove")
    <3>1. "remove" \in Steps \ Asking /\ "remove" \notin Carrying
      BY DEF Steps, Asking, Carrying
    <3> QED BY <1>12, <2>1, <2>3, <3>1
  <2> QED BY <2>1, <2>2, <2>3
<1>19. ASSUME NEW a \in Acting, CancelRemove(a) PROVE Pairs'
  <2>1. PICK o : o = actors[a].order
    OBVIOUS
  <2>2. /\ queue' = RemoveJob(queue, o)
        /\ jobDriver' = [jobDriver EXCEPT ![o] = IF queue'[o] = "absent" THEN None ELSE @]
        /\ GoTo(a, "delKey") /\ actors[a].pc \notin Asking
        /\ UNCHANGED <<life, active, heard>>
    BY <1>19, <2>1 DEF CancelRemove, At, Asking, redis, rooms
  <2>3. o \in Orders
    BY <1>1, <2>1, <2>2 DEF Fits
  <2>4. /\ queue' \in [Orders -> JobStates]
        /\ \A b \in Orders : queue[b] = "active" => queue'[b] = "active"
        /\ \A b \in Orders : queue'[b] # "absent" => queue[b] # "absent"
    BY <1>0, <2>2, <2>3 DEF RemoveJob, Pairs, JobStates
  <2>5. jobDriver' \in [Orders -> Drivers \cup {None}]
        /\ \A b \in Orders : queue'[b] # "absent" => jobDriver'[b] = jobDriver[b]
    BY <1>0, <2>2, <2>3 DEF Pairs
  <2>6. JobsHeld(life, queue', jobDriver')
    BY <1>0, <2>4, <2>5 DEF Pairs, JobsHeld
  <2>7. "delKey" \in Steps \ Asking /\ "delKey" \notin Carrying
    BY DEF Steps, Asking, Carrying
  <2>8. /\ actors' \in [Acting -> Actor] /\ ActorsFit(life, actors')
        /\ OneHolder(queue, actors')
    BY <2>2, <2>7, GoesTo
  <2>9. OneHolder(queue', actors')
    BY <2>4, <2>8, QueueChanges
  <2> QED BY <1>0, <2>2, <2>4, <2>5, <2>6, <2>8, <2>9 DEF Pairs
<1>20. ASSUME NEW w \in Workers, NEW o \in Orders, TakeJob(w, o) PROVE Pairs'
  <2>1. PICK x : x = [Idle EXCEPT !.pc = "read", !.order = o, !.driver = jobDriver[o]]
    OBVIOUS
  <2>2. /\ queue[o] = "waiting" /\ queue' = [queue EXCEPT ![o] = "active"]
        /\ actors' = [actors EXCEPT ![w] = x]
        /\ UNCHANGED <<life, jobDriver, active, heard>>
    BY <1>20, <2>1 DEF TakeJob, Become, redis, rooms
  <2>3. Held(life, o, jobDriver[o]) /\ jobDriver[o] \in Drivers
    BY <1>0, <2>2 DEF Pairs, JobsHeld, Held
  <2>4. x \in Actor /\ x.pc = "read" /\ x.order = o /\ x.driver = jobDriver[o]
    BY <2>1, <2>3 DEF Idle, Actor, Steps
  <2>5. Fits(life, x)
    BY <2>3, <2>4 DEF Fits, Asking
  <2>6. actors \in [Acting -> Actor] /\ w \in Acting
    BY <1>0 DEF Pairs, Acting
  <2>7. /\ actors' \in [Acting -> Actor] /\ actors'[w] = x
        /\ \A b \in Acting \ {w} : actors'[b] = actors[b]
    BY <2>2, <2>4, <2>6
  <2>8. ActorsFit(life, actors')
    BY <1>1, <2>5, <2>7 DEF ActorsFit
  <2>9. /\ queue' \in [Orders -> JobStates] /\ queue'[o] = "active"
        /\ \A b \in Orders : queue[b] = "active" => queue'[b] = "active"
        /\ JobsHeld(life, queue', jobDriver)
    BY <1>0, <2>2 DEF Pairs, JobsHeld, JobStates
  <2>10. ASSUME NEW v \in Workers \ {w}, Holds(actors[v])
         PROVE /\ actors[v].order \in Orders /\ actors[v].order # o
               /\ queue[actors[v].order] = "active"
    BY <1>0, <2>2, <2>10 DEF Pairs, OneHolder
  <2>11. \A v, u \in Workers : u # v /\ Holds(actors[v]) /\ Holds(actors[u])
                                 => actors[u].order # actors[v].order
    BY <1>0 DEF Pairs, OneHolder
  <2>12. \A v \in Workers \ {w} : actors'[v] = actors[v]
    BY <2>7 DEF Acting
  <2>13. OneHolder(queue', actors')
    BY <2>4, <2>7, <2>9, <2>10, <2>11, <2>12 DEF OneHolder
  <2> QED BY <1>0, <2>2, <2>7, <2>8, <2>9, <2>13 DEF Pairs
<1>21. ASSUME NEW w \in Workers, Recalculate(w) PROVE Pairs'
  <2>1. PICK o, d : o = actors[w].order /\ d = actors[w].driver
    OBVIOUS
  <2>2. w \in Acting /\ actors[w].pc = "read" /\ actors[w].pc \notin Asking
    BY <1>21 DEF Recalculate, At, Acting, Asking
  <2>3. o \in Orders /\ d \in Drivers /\ Held(life, o, d)
    BY <1>1, <2>1, <2>2 DEF Fits, Carrying, Held
  <2>4. UNCHANGED <<life, queue, jobDriver, active>>
    BY <1>21 DEF Recalculate, jobs, redis
  <2>5. CASE GoTo(w, "cancel") /\ UNCHANGED rooms
    <3>1. "cancel" \in Steps \ Asking /\ "cancel" \notin Carrying
      BY DEF Steps, Asking, Carrying
    <3> QED BY <1>12, <2>2, <2>4, <2>5, <3>1 DEF rooms
  <2>6. CASE GoTo(w, "next") /\ heard' = [heard EXCEPT ![o] = d]
    <3>1. "next" \in Steps \ Asking /\ actors[w].pc \in Carrying
      BY <2>2 DEF Steps, Asking, Carrying
    <3>2. /\ actors' \in [Acting -> Actor] /\ ActorsFit(life, actors')
          /\ OneHolder(queue, actors')
      BY <2>2, <2>6, <3>1, GoesTo
    <3>3. /\ heard' \in [Orders -> Drivers \cup {None}] /\ RoomsHeld(life, heard')
      BY <1>0, <2>3, <2>6 DEF Pairs, RoomsHeld
    <3> QED BY <1>0, <2>4, <3>2, <3>3 DEF Pairs
  <2> QED BY <1>21, <2>1, <2>5, <2>6 DEF Recalculate
\* A worker lets go of its job.
<1>22. ASSUME NEW w \in Workers, NEW s \in JobStates \ {"absent"}, NEW x,
              ~At(w, "idle"), Fits(life, x), ~Holds(x),
              queue' = (IF actors[w].holds THEN [queue EXCEPT ![actors[w].order] = s]
                        ELSE queue),
              actors' = [actors EXCEPT ![w] = x],
              UNCHANGED <<life, jobDriver, active, heard>>
       PROVE Pairs'
  BY <1>0, <1>22, LeaveKeeps DEF Pairs
<1>23. ASSUME NEW w \in Workers, FinishJob(w) \/ HandlerFails(w) PROVE Pairs'
  <2>1. PICK s \in {"completed", "failed"} : LeaveJob(w, s)
    BY <1>23 DEF FinishJob, HandlerFails
  <2>2. ~At(w, "idle") /\ UNCHANGED <<life, jobDriver, active, heard>>
    BY <1>23, <2>1 DEF FinishJob, HandlerFails, Fault, LeaveJob, At, redis, rooms
  <2>3. s \in JobStates \ {"absent"}
    BY DEF JobStates
  <2>4. Fits(life, Idle) /\ ~Holds(Idle)
    BY IdleFits
  <2> QED BY <1>22, <2>1, <2>2, <2>3, <2>4 DEF LeaveJob, Become
<1>24. ASSUME NEW w \in Workers, JobStalls(w) PROVE Pairs'
  <2>1. /\ ~At(w, "idle") /\ actors[w].holds
        /\ queue' = [queue EXCEPT ![actors[w].order] = "waiting"]
        /\ UNCHANGED <<life, jobDriver, active, heard>>
    BY <1>24 DEF JobStalls, Fault, redis, rooms
  <2>2. "waiting" \in JobStates \ {"absent"} /\ w \in Acting
    BY DEF JobStates, Acting
  <2>3. CASE Become(w, Idle)
    <3>1. Fits(life, Idle) /\ ~Holds(Idle)
      BY IdleFits
    <3> QED BY <1>22, <2>1, <2>2, <2>3, <3>1 DEF Become
  <2>4. CASE Become(w, [actors[w] EXCEPT !.holds = FALSE])
    <3>1. PICK x : x = [actors[w] EXCEPT !.holds = FALSE]
      OBVIOUS
    <3>2. /\ x \in Actor /\ x.pc = actors[w].pc /\ x.order = actors[w].order
          /\ x.driver = actors[w].driver /\ ~x.holds
      BY <1>1, <2>2, <3>1 DEF Fits, Actor
    <3>3. Fits(life, x) /\ ~Holds(x)
      BY <1>1, <2>2, <3>2 DEF Fits, Holds
    <3> QED BY <1>22, <2>1, <2>2, <2>4, <3>1, <3>3 DEF Become
  <2> QED BY <1>24, <2>3, <2>4 DEF JobStalls
<1>25. ASSUME NEW r \in Requests, CallFails(r) PROVE Pairs'
  <2>1. Become(r, Idle) /\ UNCHANGED <<life, queue, jobDriver, active, heard>>
    BY <1>25 DEF CallFails, Fault, jobs, redis, rooms
  <2> QED BY <1>3, <2>1, BecomesIdle DEF Acting
<1>26. ASSUME NEW o \in Orders, DelayElapses(o) \/ Evict(o) PROVE Pairs'
  <2>1. UNCHANGED <<life, active, actors, heard>>
    BY <1>26 DEF DelayElapses, Evict, redis, rooms
  <2>2. /\ queue' \in [Orders -> JobStates] /\ jobDriver' \in [Orders -> Drivers \cup {None}]
        /\ \A b \in Orders : queue[b] = "active" => queue'[b] = "active"
        /\ JobsHeld(life, queue', jobDriver')
    BY <1>0, <1>26 DEF DelayElapses, Evict, Pairs, JobsHeld, JobStates, Retained
  <2>3. OneHolder(queue', actors)
    BY <1>0, <2>2, QueueChanges DEF Pairs
  <2> QED BY <1>0, <2>1, <2>2, <2>3 DEF Pairs
<1>27. ASSUME NEW r \in Requests, NEW o \in Orders, ReadForDelete(r, o) PROVE Pairs'
  <2>1. Begin(r, "delete", o, None)
        /\ UNCHANGED <<life, queue, jobDriver, active, heard>>
    BY <1>27 DEF ReadForDelete, jobs, redis, rooms
  <2>2. "delete" \in Steps \ Asking /\ "delete" \notin Carrying
    BY DEF Steps, Asking, Carrying
  <2>3. /\ actors' \in [Acting -> Actor] /\ ActorsFit(life, actors')
        /\ OneHolder(queue, actors')
    BY <1>2, <2>1, <2>2, Begins DEF Asking
  <2> QED BY <1>3, <2>1, <2>3
<1>28. ASSUME NEW r \in Requests, CommitDelete(r) PROVE Pairs'
  <2>1. Become(r, Idle) /\ UNCHANGED <<life, queue, jobDriver, active, heard>>
    BY <1>28 DEF CommitDelete, jobs, redis, rooms
  <2> QED BY <1>3, <2>1, BecomesIdle DEF Acting
<1>29. CASE UNCHANGED vars
  BY <1>0, <1>3, <1>29 DEF vars, Pairs
<1> QED BY <1>4, <1>5, <1>6, <1>7, <1>9, <1>10, <1>11, <1>13, <1>15, <1>16, <1>17, <1>18,
           <1>19, <1>20, <1>21, <1>23, <1>24, <1>25, <1>26, <1>27,
           <1>28, <1>29
        DEF Next, CallStep, WorkerStep, Acting

LEMMA InvInductive == Spec => []Inv
<1>1. Init => Inv
  <2> SUFFICES ASSUME Init PROVE Inv
    OBVIOUS
  <2>1. life \in Lives
    BY StatusesHas DEF Init, Life!Init, Life!Stage, Lives
  <2>2. /\ actors \in [Acting -> Actor] /\ ActorsFit(life, actors)
        /\ OneHolder(queue, actors)
    BY IdleFits DEF Init, ActorsFit, OneHolder, Acting, Fits
  <2>3. Pairs
    BY <2>1, <2>2 DEF Init, Pairs, JobsHeld, CachedHeld, RoomsHeld, JobStates
  <2> QED BY <2>3, InvPairs DEF Init
<1>2. Inv /\ [Next]_vars => Inv'
  <2> SUFFICES ASSUME Inv, [Next]_vars PROVE Inv'
    OBVIOUS
  <2>1. Pairs' /\ Rest
    BY PairsStep, RestStep
  <2> QED BY <2>1 DEF Inv, Pairs, Rest, TypeOK, Lives, Acting
<1> QED BY <1>1, <1>2, PTL DEF Spec

\* Type correctness: whatever calls, workers and failures interleave.
THEOREM TypeCorrect == Spec => []TypeOK
  BY InvInductive, PTL DEF Inv

\* The room of an order receives positions of no driver but the one that
\* accepted the order, though the pair is cached in Redis and carried by
\* jobs and calls while the order moves on.
THEOREM RoomsAreRight == Spec => []RoomHearsItsDriver
<1>1. Inv => RoomHearsItsDriver
  BY DEF Inv, RoomsHeld, Held, RoomHearsItsDriver
<1> QED BY <1>1, InvInductive, PTL

\* The driver in the data of a job the queue knows is the order's driver.
THEOREM JobsAreRight == Spec => []JobFollowsAssignment
<1>1. Inv => JobFollowsAssignment
  BY DEF Inv, JobsHeld, Held, JobFollowsAssignment
<1> QED BY <1>1, InvInductive, PTL

=============================================================================
