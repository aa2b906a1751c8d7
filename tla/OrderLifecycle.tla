--------------------------- MODULE OrderLifecycle ---------------------------
(***************************************************************************)
(* What the dispatch and order services together promise about an order:   *)
(* its status and its driver move along these edges and no others.  A      *)
(* driver is named exactly from the offer on, is dropped with the offer,   *)
(* and never changes once the offer is accepted.  The only way out of a    *)
(* terminal status is an admin reopening an expired order.                 *)
(***************************************************************************)
CONSTANTS Orders, Drivers, None

VARIABLE life   \* order -> status and assigned driver

Statuses ==
  {"PENDING", "DRIVER_ASSIGNED", "DRIVER_ARRIVING", "PICKED_UP",
   "IN_TRANSIT", "DELIVERED", "CANCELLED", "FAILED", "EXPIRED"}

Stage(s, d) == [status |-> s, assigned |-> d]

Init == life = [o \in Orders |-> Stage("PENDING", None)]

Move(o, stage) == life' = [life EXCEPT ![o] = stage]

Offer(o, d) ==
  /\ life[o].status = "PENDING"
  /\ Move(o, Stage("DRIVER_ASSIGNED", d))

\* The driver declines or does not answer: back to the pool, or given up.
Withdraw(o) ==
  /\ life[o].status = "DRIVER_ASSIGNED"
  /\ \E s \in {"PENDING", "EXPIRED"} : Move(o, Stage(s, None))

GiveUp(o) ==
  /\ life[o].status = "PENDING"
  /\ Move(o, Stage("EXPIRED", None))

Reopen(o) ==
  /\ life[o].status = "EXPIRED"
  /\ Move(o, Stage("PENDING", None))

\* People move the order on: the driver is kept.
Advances ==
  {<<"DRIVER_ASSIGNED", "DRIVER_ARRIVING">>,
   <<"DRIVER_ARRIVING", "PICKED_UP">>,
   <<"PICKED_UP", "IN_TRANSIT">>,
   <<"IN_TRANSIT", "DELIVERED">>,
   <<"IN_TRANSIT", "FAILED">>,
   <<"PENDING", "CANCELLED">>,
   <<"DRIVER_ASSIGNED", "CANCELLED">>,
   <<"DRIVER_ARRIVING", "CANCELLED">>}

Advance(o, s) ==
  /\ <<life[o].status, s>> \in Advances
  /\ Move(o, Stage(s, life[o].assigned))

Next ==
  \E o \in Orders :
    \/ \E d \in Drivers : Offer(o, d)
    \/ Withdraw(o)
    \/ GiveUp(o)
    \/ Reopen(o)
    \/ \E s \in {edge[2] : edge \in Advances} : Advance(o, s)

Spec == Init /\ [][Next]_life

=============================================================================
