----------------------------- MODULE OrderRules -----------------------------
(***************************************************************************)
(* The rules of the order service about statuses: which exist, which are   *)
(* terminal, which transitions the table allows, and which caller may ask  *)
(* for which of them (OrdersService.validateActor / validateTransition).   *)
(* A user is the content of a JWT: a role, whether the token's user is the *)
(* customer of the order, and the driver profile of a driver.              *)
(***************************************************************************)
CONSTANTS Drivers, None

ASSUME NoneAssumption == None \notin Drivers

OrderStatus ==
  {"PENDING", "DRIVER_ASSIGNED", "DRIVER_ARRIVING", "PICKED_UP",
   "IN_TRANSIT", "DELIVERED", "CANCELLED", "FAILED", "EXPIRED"}

ASSUME StatusAssumption == None \notin OrderStatus

Terminal == {"DELIVERED", "CANCELLED", "FAILED", "EXPIRED"}

\* A driver is on the way or carries the parcel.
Active == {"DRIVER_ASSIGNED", "DRIVER_ARRIVING", "PICKED_UP", "IN_TRANSIT"}

\* The table as a relation: <<from, to>> is allowed.
ORDER_TRANSITIONS ==
  ({"PENDING"} \X {"DRIVER_ASSIGNED", "CANCELLED", "EXPIRED"})
    \cup ({"DRIVER_ASSIGNED"} \X {"DRIVER_ARRIVING", "CANCELLED"})
    \cup ({"DRIVER_ARRIVING"} \X {"PICKED_UP", "CANCELLED"})
    \cup ({"PICKED_UP"} \X {"IN_TRANSIT"})
    \cup ({"IN_TRANSIT"} \X {"DELIVERED", "FAILED"})

SystemOnly == {"DRIVER_ASSIGNED", "EXPIRED"}

driverAllowedTransitions ==
  {<<"DRIVER_ASSIGNED", "DRIVER_ARRIVING">>,
   <<"DRIVER_ARRIVING", "PICKED_UP">>,
   <<"PICKED_UP", "IN_TRANSIT">>,
   <<"IN_TRANSIT", "DELIVERED">>,
   <<"IN_TRANSIT", "FAILED">>}

Users ==
  [role : {"ADMIN"}, owner : {FALSE}, profile : {None}]
    \cup [role : {"CUSTOMER"}, owner : BOOLEAN, profile : {None}]
    \cup [role : {"DRIVER"}, owner : {FALSE}, profile : Drivers \cup {None}]

validateActor(order, newStatus, user) ==
  /\ newStatus \notin SystemOnly
  /\ order.status \notin Terminal
  /\ \/ /\ user.role = "ADMIN"
        /\ \/ newStatus = "CANCELLED"
           \/ newStatus = "FAILED" /\ order.status = "IN_TRANSIT"
     \/ /\ user.role = "CUSTOMER"
        /\ user.owner
        /\ newStatus = "CANCELLED"
        /\ order.status \in {"PENDING", "DRIVER_ASSIGNED"}
     \/ /\ user.role = "DRIVER"
        /\ user.profile # None
        /\ order.assigned = user.profile
        /\ <<order.status, newStatus>> \in driverAllowedTransitions

validateTransition(current, newStatus) ==
  <<current, newStatus>> \in ORDER_TRANSITIONS

=============================================================================
