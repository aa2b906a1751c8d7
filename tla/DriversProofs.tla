---------------------------- MODULE DriversProofs ----------------------------
(***************************************************************************)
(* Theorems about Drivers, for any number of drivers, calls, positions and *)
(* creation times.                                                         *)
(***************************************************************************)
EXTENDS Drivers, FiniteSetTheorems, TLAPS

USE PerMilliAssumption, LimitAssumption, IdsAssumption, CreationsAssumption,
    LimitsAssumption, PositionAssumption

-----------------------------------------------------------------------------
(* Type correctness *)

LEMMA RowFields ==
  ASSUME NEW r \in Row
  PROVE /\ r.online \in BOOLEAN /\ r.suspended \in BOOLEAN /\ r.position \in Positions
  BY DEF Row

LEMMA MergedRow ==
  ASSUME NEW r \in Row, NEW e \in Row, NEW changed \in SUBSET Columns
  PROVE /\ Merged(r, e, changed) \in Row
        /\ Merged(r, e, changed).online =
             IF "online" \in changed THEN e.online ELSE r.online
        /\ Merged(r, e, changed).suspended =
             IF "suspended" \in changed THEN e.suspended ELSE r.suspended
        /\ Merged(r, e, changed).position =
             IF "position" \in changed THEN e.position ELSE r.position
  BY DEF Merged, Row, Columns

LEMMA SuspensionRow ==
  ASSUME NEW r \in Row
  PROVE /\ SuspensionToggled(r) \in Row
        /\ SuspensionToggled(r).suspended = ~r.suspended
        /\ SuspensionToggled(r).online = (r.online /\ r.suspended)
        /\ SuspensionToggled(r).position = r.position
  BY DEF SuspensionToggled, Row

LEMMA NewRowType == NewRow \in Row
  BY DEF NewRow, Row, Positions

LEMMA InProgressType ==
  ASSUME calls \in [Calls -> Call], NEW d
  PROVE InProgress(d) \in SUBSET Pending
  BY DEF InProgress, Pending, Call

LEMMA StoreType ==
  ASSUME TypeOK, NEW d \in DriverIds, NEW row \in Row, Store(d, row)
  PROVE /\ drivers' \in [DriverIds -> Row] /\ drivers'[d] = row
        /\ \A b \in DriverIds \ {d} : drivers'[b] = drivers[b]
        /\ reader' \in Reader
<1>1. /\ drivers' \in [DriverIds -> Row] /\ drivers'[d] = row
      /\ \A b \in DriverIds \ {d} : drivers'[b] = drivers[b]
  BY DEF Store, TypeOK
<1>2. reader' \in Reader
  BY DEF Store, TypeOK, Reader
<1> QED BY <1>1, <1>2

\* A call at work has a driver, and one that writes has something to write.
CallsBusy ==
  \A c \in Calls :
    /\ calls[c].pc # "idle" => calls[c].driver \in DriverIds
    /\ calls[c].pc = "idle" => calls[c].driver = None
    /\ calls[c].pc = "write" => calls[c].changed # {}

LEMMA IdleType == Idle \in Call /\ Idle.pc = "idle" /\ Idle.driver = None
  BY NewRowType DEF Idle, Call, Steps

LEMMA PageIn ==
  ASSUME NEW rows \in SUBSET DriverIds, NEW limit
  PROVE Page(created, rows, limit) \subseteq rows
  BY DEF Page

LEMMA CreatedType ==
  ASSUME TypeOK
  PROVE created \in [DriverIds -> Nat]
  BY DEF TypeOK

LEMMA CursorType ==
  ASSUME TypeOK, NEW x \in DriverIds
  PROVE /\ CursorAt(created, x) \in [time : Int, id : Nat]
        /\ CursorAt(created, x).id = x
        /\ CursorAt(created, x).time = created[x] - (created[x] % PerMilli)
        /\ created[x] % PerMilli \in 0 .. PerMilli - 1
<1>1. created[x] \in Nat /\ x \in Nat
  BY CreatedType
<1>2. created[x] % PerMilli \in 0 .. PerMilli - 1
  BY <1>1
<1> QED BY <1>1, <1>2 DEF CursorAt

LEMMA TypeStep == TypeOK /\ CallsBusy /\ [Next]_vars => TypeOK' /\ CallsBusy'
<1> SUFFICES ASSUME TypeOK, CallsBusy, [Next]_vars PROVE TypeOK' /\ CallsBusy'
  OBVIOUS
<1>1. ASSUME NEW c \in Calls, NEW d \in Busy, ReadForToggle(c, d) PROVE TypeOK' /\ CallsBusy'
  <2> DEFINE e == [drivers[d] EXCEPT !.online = ~@]
             x == [pc |-> "compare", driver |-> d, changed |-> {}, entity |-> e]
  <2>1. d \in DriverIds /\ drivers[d] \in Row
    BY DEF TypeOK
  <2>2. e \in Row
    BY <2>1 DEF Row
  <2>3. x \in Call
    BY <2>1, <2>2 DEF Call, Steps
  <2>4. calls' = [calls EXCEPT ![c] = x]
    BY <1>1 DEF ReadForToggle
  <2> HIDE DEF e
  <2>5. CallsBusy'
    BY <2>1, <2>4 DEF CallsBusy, TypeOK
  <2> HIDE DEF x
  <2>6. calls' \in [Calls -> Call]
    BY <2>3, <2>4 DEF TypeOK
  <2>7. UNCHANGED <<created, drivers, decided, sent, overtook, reader>>
    BY <1>1 DEF ReadForToggle
  <2> QED BY <2>5, <2>6, <2>7 DEF TypeOK
<1>2. ASSUME NEW c \in Calls, Compare(c) PROVE TypeOK' /\ CallsBusy'
  <2> DEFINE changed == Differing(drivers[calls[c].driver], calls[c].entity)
             x == [calls[c] EXCEPT !.pc = "write", !.changed = changed]
  <2>1. changed \in SUBSET Columns
    BY DEF Differing
  <2>2. calls[c] \in Call
    BY DEF TypeOK
  <2>3. calls' = [calls EXCEPT ![c] = IF changed = {} THEN Idle ELSE x]
    BY <1>2 DEF Compare
  <2> HIDE DEF changed
  <2>4. x \in Call /\ x.driver = calls[c].driver /\ x.pc = "write" /\ x.changed = changed
    <3>1. PICK y : y = calls[c] /\ y \in Call
      BY <2>2
    <3>2. PICK z : z = [y EXCEPT !.pc = "write", !.changed = changed]
      OBVIOUS
    <3>3. z \in Call /\ z.driver = y.driver /\ z.pc = "write" /\ z.changed = changed
      BY <2>1, <3>1, <3>2 DEF Call, Steps
    <3> QED BY <3>1, <3>2, <3>3
  <2>5. calls[c].driver \in DriverIds
    BY <1>2 DEF Compare, CallsBusy
  <2>6. calls' \in [Calls -> Call]
    BY <2>3, <2>4, IdleType DEF TypeOK
  <2>7. CallsBusy'
    BY <2>3, <2>4, <2>5, IdleType DEF CallsBusy, TypeOK
  <2> QED BY <1>2, <2>6, <2>7 DEF Compare, TypeOK
<1>3. ASSUME NEW c \in Calls, calls' = [calls EXCEPT ![c] = Idle]
      PROVE calls' \in [Calls -> Call] /\ CallsBusy'
  BY <1>3, IdleType DEF CallsBusy, TypeOK
<1>4. ASSUME NEW c \in Calls, WriteToggle(c) PROVE TypeOK' /\ CallsBusy'
  <2> DEFINE d == calls[c].driver
             row == Merged(drivers[d], calls[c].entity, calls[c].changed)
  <2>1. d \in DriverIds /\ calls[c].entity \in Row /\ calls[c].changed \in SUBSET Columns
    BY <1>4 DEF WriteToggle, CallsBusy, TypeOK, Call
  <2>2. row \in Row
    BY <2>1, MergedRow DEF TypeOK
  <2>3. Store(d, row)
    BY <1>4 DEF WriteToggle
  <2>4. drivers' \in [DriverIds -> Row] /\ reader' \in Reader
    BY <2>1, <2>2, <2>3, StoreType
  <2>5. calls' \in [Calls -> Call] /\ CallsBusy'
    BY <1>3, <1>4 DEF WriteToggle
  <2> QED BY <1>4, <2>4, <2>5 DEF WriteToggle, TypeOK
<1>5. ASSUME NEW c \in Calls, ToggleFails(c) PROVE TypeOK' /\ CallsBusy'
  BY <1>3, <1>5 DEF ToggleFails, TypeOK
<1>6. ASSUME NEW d \in Busy, toggleSuspension(d) PROVE TypeOK' /\ CallsBusy'
  <2>1. d \in DriverIds /\ drivers[d] \in Row
    BY DEF TypeOK
  <2>2. SuspensionToggled(drivers[d]) \in Row /\ drivers[d].suspended \in BOOLEAN
    BY <2>1, SuspensionRow, RowFields
  <2>3. drivers' \in [DriverIds -> Row] /\ reader' \in Reader
    BY <1>6, <2>1, <2>2, StoreType DEF toggleSuspension
  <2>4. InProgress(d) \in SUBSET Pending
    BY InProgressType DEF TypeOK
  <2>5. overtook' \in [DriverIds -> [decision : SUBSET Pending, position : SUBSET Pending]]
    BY <1>6, <2>4 DEF toggleSuspension, TypeOK
  <2>6. decided' \in [DriverIds -> BOOLEAN]
    BY <1>6, <2>2 DEF toggleSuspension, TypeOK
  <2> QED BY <1>6, <2>3, <2>5, <2>6 DEF toggleSuspension, TypeOK, CallsBusy
<1>7. ASSUME NEW d \in Busy, updateLocation(d) PROVE TypeOK' /\ CallsBusy'
  <2>1. d \in DriverIds /\ drivers[d] \in Row
    BY DEF TypeOK
  <2>2. sent[d] \in Nat /\ sent[d] + 1 \in Positions
    BY <1>7, <2>1 DEF updateLocation, TypeOK, Positions
  <2>3. [drivers[d] EXCEPT !.position = sent[d] + 1] \in Row
    BY <2>1, <2>2 DEF Row
  <2>4. drivers' \in [DriverIds -> Row] /\ reader' \in Reader
    BY <1>7, <2>1, <2>3, StoreType DEF updateLocation
  <2>5. InProgress(d) \in SUBSET Pending
    BY InProgressType DEF TypeOK
  <2>6. overtook' \in [DriverIds -> [decision : SUBSET Pending, position : SUBSET Pending]]
    BY <1>7, <2>5 DEF updateLocation, TypeOK
  <2>7. sent' \in [DriverIds -> Positions]
    BY <1>7, <2>2 DEF updateLocation, TypeOK
  <2> QED BY <1>7, <2>4, <2>6, <2>7 DEF updateLocation, TypeOK, CallsBusy
<1>8. ASSUME NEW o \in BOOLEAN, StartReading(o) PROVE TypeOK' /\ CallsBusy'
  <2>1. Matching(o) \subseteq DriverIds
    BY DEF Matching
  <2>2. reader' \in Reader
    BY <1>8, <2>1 DEF StartReading, NotReading, Reader
  <2> QED BY <1>8, <2>2 DEF StartReading, TypeOK, CallsBusy
<1>9. ASSUME NEW l \in Limits, ReadPage(l) PROVE TypeOK' /\ CallsBusy'
  <2> DEFINE rows == {d \in Matching(reader.onlineOnly) :
                        reader.cursor # None => Below(created, d, reader.cursor)}
             page == Page(created, rows, SafeLimit(l))
             Shown == [reader EXCEPT !.seen = @ \cup page,
                                     !.twice = @ \cup (reader.seen \cap page)]
  <2>1. rows \subseteq DriverIds
    BY DEF Matching
  <2>2. page \subseteq DriverIds
    BY <2>1, PageIn
  <2>3. \/ reader' = [Shown EXCEPT !.pc = "done"]
        \/ \E x \in page : reader' = [Shown EXCEPT !.cursor = CursorAt(created, x),
                                        !.lost = @ \cup {y \in rows \ page : CutOff(y, x)}]
    BY <1>9 DEF ReadPage
  <2>4. reader \in Reader
    BY DEF TypeOK
  <2> HIDE DEF rows, page
  <2>5. Shown \in Reader
    BY <2>2, <2>4 DEF Reader
  <2>6. ASSUME NEW x \in page
        PROVE [Shown EXCEPT !.cursor = CursorAt(created, x),
                            !.lost = @ \cup {y \in rows \ page : CutOff(y, x)}] \in Reader
    <3>1. CursorAt(created, x) \in [time : Int, id : Nat]
      BY <2>2, CursorType
    <3>2. {y \in rows \ page : CutOff(y, x)} \in SUBSET DriverIds
      BY <2>1
    <3> HIDE DEF Shown
    <3> QED BY <2>5, <3>1, <3>2 DEF Reader
  <2>7. [Shown EXCEPT !.pc = "done"] \in Reader
    <3> HIDE DEF Shown
    <3> QED BY <2>5 DEF Reader
  <2>8. reader' \in Reader
    BY <2>3, <2>6, <2>7
  <2> QED BY <1>9, <2>8 DEF ReadPage, TypeOK, CallsBusy
<1>10. CASE UNCHANGED vars
  BY <1>10 DEF vars, TypeOK, CallsBusy
<1> QED BY <1>1, <1>2, <1>4, <1>5, <1>6, <1>7, <1>8, <1>9, <1>10 DEF Next

LEMMA TypesInductive == Spec => [](TypeOK /\ CallsBusy)
<1>1. Init => TypeOK /\ CallsBusy
  <2> SUFFICES ASSUME Init PROVE TypeOK /\ CallsBusy
    OBVIOUS
  <2>1. drivers \in [DriverIds -> Row]
    <3>1. \A online \in BOOLEAN : [NewRow EXCEPT !.online = online] \in Row
      BY NewRowType DEF Row
    <3> QED BY <3>1 DEF Init
  <2>2. reader \in Reader
    BY DEF Init, NotReading, Reader
  <2>3. calls \in [Calls -> Call] /\ CallsBusy
    BY IdleType DEF Init, CallsBusy
  <2>4. sent \in [DriverIds -> Positions]
    BY DEF Init, Positions
  <2> QED BY <2>1, <2>2, <2>3, <2>4 DEF Init, TypeOK
<1> QED BY <1>1, TypeStep, PTL DEF Spec

\* Type correctness: the rows, the entities of calls and the reader's sets
\* hold values of the table, however the writers interleave.
THEOREM TypeCorrect == Spec => []TypeOK
  BY TypesInductive, PTL

-----------------------------------------------------------------------------
(* Suspension and positions *)

\* What the admin's last decision, or the position sent last, did not
\* overtake is not undone: the row agrees with it, and so does every call
\* that has read the row since.
Steady(d) ==
  /\ drivers[d].suspended /\ overtook[d].decision = {} => ~drivers[d].online
  /\ overtook[d].decision \cap {"read", "suspended"} = {}
       => drivers[d].suspended = decided[d]
  /\ overtook[d].position \cap {"read", "position"} = {}
       => drivers[d].position = sent[d]

CallSteady(c, d) ==
  calls[c].driver = d =>
    /\ overtook[d].decision = {} =>
         ~drivers[d].suspended /\ ~calls[c].entity.suspended
    /\ overtook[d].decision \cap {"read", "suspended"} = {} =>
         /\ calls[c].pc = "compare" => calls[c].entity.suspended = decided[d]
         /\ calls[c].pc = "write" => "suspended" \notin calls[c].changed
    /\ overtook[d].position \cap {"read", "position"} = {} =>
         /\ calls[c].pc = "compare" => calls[c].entity.position = sent[d]
         /\ calls[c].pc = "write" => "position" \notin calls[c].changed

RowsSteady ==
  \A d \in DriverIds : Steady(d) /\ \A c \in Calls : CallSteady(c, d)

\* The calls of a driver are in what is in progress.
LEMMA InProgressHas ==
  ASSUME CallsBusy, NEW c \in Calls, NEW d \in DriverIds, calls[c].driver = d,
         calls \in [Calls -> Call]
  PROVE /\ calls[c].pc = "compare" => "read" \in InProgress(d)
        /\ calls[c].pc = "write" => calls[c].changed \subseteq InProgress(d)
        /\ InProgress(d) # {}
<1>1. calls[c].pc \in {"compare", "write"}
  BY DEF CallsBusy, Call, Steps
<1>2. calls[c].pc = "compare" => "read" \in InProgress(d)
  BY DEF InProgress
<1>3. calls[c].pc = "write" => calls[c].changed \subseteq InProgress(d)
  BY DEF InProgress
<1>4. calls[c].pc = "write" => calls[c].changed # {}
  BY DEF CallsBusy
<1> QED BY <1>1, <1>2, <1>3, <1>4

\* Nothing of this driver changes.
LEMMA SteadyFrame ==
  ASSUME NEW d \in DriverIds, Steady(d), \A c \in Calls : CallSteady(c, d),
         drivers'[d] = drivers[d], overtook'[d] = overtook[d],
         decided'[d] = decided[d], sent'[d] = sent[d],
         \A c \in Calls : calls'[c] = calls[c] \/ calls'[c].driver # d
  PROVE Steady(d)' /\ \A c \in Calls : CallSteady(c, d)'
  BY DEF Steady, CallSteady

LEMMA SteadyStep ==
  TypeOK /\ CallsBusy /\ RowsSteady /\ [Next]_vars => RowsSteady'
<1> SUFFICES ASSUME TypeOK, CallsBusy, RowsSteady, [Next]_vars PROVE RowsSteady'
  OBVIOUS
<1>0. \A d \in DriverIds : Steady(d) /\ \A c \in Calls : CallSteady(c, d)
  BY DEF RowsSteady
<1>00. None \notin DriverIds /\ Idle.driver = None /\ Idle.pc = "idle"
  BY IdleType
<1>1. ASSUME NEW c \in Calls, NEW d \in Busy, ReadForToggle(c, d) PROVE RowsSteady'
  <2> DEFINE e == [drivers[d] EXCEPT !.online = ~@]
             x == [pc |-> "compare", driver |-> d, changed |-> {}, entity |-> e]
  <2>1. d \in DriverIds /\ drivers[d] \in Row
    BY DEF TypeOK
  <2>2. e.suspended = drivers[d].suspended /\ e.position = drivers[d].position
    BY <2>1 DEF Row
  <2>3. /\ UNCHANGED <<drivers, overtook, decided, sent>>
        /\ calls' = [calls EXCEPT ![c] = x]
        /\ drivers[d].online \/ ~drivers[d].suspended
    BY <1>1 DEF ReadForToggle, MayToggle
  <2> HIDE DEF e
  <2>4. calls'[c] = x /\ \A b \in Calls \ {c} : calls'[b] = calls[b]
    BY <2>3 DEF TypeOK
  <2>5. ASSUME NEW b \in DriverIds \ {d}
        PROVE Steady(b)' /\ \A a \in Calls : CallSteady(a, b)'
    BY <1>0, <2>3, <2>4, SteadyFrame
  <2>6. Steady(d)'
    BY <1>0, <2>1, <2>3 DEF Steady
  <2>7. CallSteady(c, d)'
    <3>1. Steady(d)
      BY <1>0, <2>1
    <3>2. overtook[d].decision = {} => ~drivers[d].suspended
      BY <2>3, <3>1 DEF Steady
    <3> QED BY <2>2, <2>3, <2>4, <3>1, <3>2 DEF Steady, CallSteady
  <2>8. ASSUME NEW a \in Calls \ {c} PROVE CallSteady(a, d)'
    BY <1>0, <2>1, <2>3, <2>4 DEF CallSteady
  <2> QED BY <2>5, <2>6, <2>7, <2>8 DEF RowsSteady
<1>2. ASSUME NEW c \in Calls, Compare(c) PROVE RowsSteady'
  <2>1. calls[c].driver \in DriverIds /\ calls[c].pc = "compare" /\ calls[c] \in Call
    BY <1>2 DEF Compare, CallsBusy, TypeOK
  <2>2. PICK d \in DriverIds : d = calls[c].driver
    BY <2>1
  <2>3. PICK changed \in SUBSET Columns : changed = Differing(drivers[d], calls[c].entity)
    BY DEF Differing
  <2>4. PICK x : x = [calls[c] EXCEPT !.pc = "write", !.changed = changed]
    OBVIOUS
  <2>5. x.driver = d /\ x.pc = "write" /\ x.changed = changed /\ x.entity = calls[c].entity
    BY <2>1, <2>2, <2>4 DEF Call
  <2>6. /\ UNCHANGED <<drivers, overtook, decided, sent>>
        /\ calls' = [calls EXCEPT ![c] = IF changed = {} THEN Idle ELSE x]
    BY <1>2, <2>2, <2>3, <2>4 DEF Compare
  <2>7. /\ "suspended" \in changed => drivers[d].suspended # calls[c].entity.suspended
        /\ "position" \in changed => drivers[d].position # calls[c].entity.position
    BY <2>3 DEF Differing
  <2>8. /\ calls'[c] = Idle \/ calls'[c] = x
        /\ \A b \in Calls \ {c} : calls'[b] = calls[b]
    BY <2>6 DEF TypeOK
  <2>9. ASSUME NEW b \in DriverIds \ {d}
        PROVE Steady(b)' /\ \A a \in Calls : CallSteady(a, b)'
    <3>1. calls'[c].driver # b
      BY <1>00, <2>5, <2>8
    <3>2. Steady(b) /\ \A a \in Calls : CallSteady(a, b)
      BY <1>0
    <3>3. \A a \in Calls : calls'[a] = calls[a] \/ calls'[a].driver # b
      BY <2>8, <3>1
    <3>4. /\ drivers'[b] = drivers[b] /\ overtook'[b] = overtook[b]
          /\ decided'[b] = decided[b] /\ sent'[b] = sent[b]
      BY <2>6
    <3> QED BY <3>2, <3>3, <3>4, SteadyFrame
  <2>10. Steady(d) /\ \A a \in Calls : CallSteady(a, d)
    BY <1>0
  <2>11. Steady(d)'
    BY <2>6, <2>10 DEF Steady
  <2>12. CallSteady(c, d)'
    <3>1. CASE calls'[c] = Idle
      BY <1>00, <3>1 DEF CallSteady
    <3>2. CASE calls'[c] = x
      <4>1. overtook[d].decision = {} => ~drivers[d].suspended /\ ~x.entity.suspended
        BY <2>2, <2>5, <2>10 DEF CallSteady
      <4>2. overtook[d].decision \cap {"read", "suspended"} = {} => "suspended" \notin changed
        BY <2>1, <2>2, <2>7, <2>10 DEF Steady, CallSteady
      <4>3. overtook[d].position \cap {"read", "position"} = {} => "position" \notin changed
        BY <2>1, <2>2, <2>7, <2>10 DEF Steady, CallSteady
      <4> QED BY <2>5, <2>6, <3>2, <4>1, <4>2, <4>3 DEF CallSteady
    <3> QED BY <2>8, <3>1, <3>2
  <2>13. ASSUME NEW a \in Calls \ {c} PROVE CallSteady(a, d)'
    BY <2>6, <2>8, <2>10 DEF CallSteady
  <2>14. ASSUME NEW b \in DriverIds PROVE Steady(b)' /\ \A a \in Calls : CallSteady(a, b)'
    BY <2>9, <2>11, <2>12, <2>13
  <2> QED BY <2>14 DEF RowsSteady
<1>3. ASSUME NEW c \in Calls, WriteToggle(c) PROVE RowsSteady'
  <2>1. /\ calls[c].driver \in DriverIds /\ calls[c].entity \in Row
        /\ calls[c].changed \in SUBSET Columns /\ calls[c].pc = "write"
    BY <1>3 DEF WriteToggle, CallsBusy, TypeOK, Call
  <2>2. PICK d \in DriverIds : d = calls[c].driver
    BY <2>1
  <2>3. drivers[d] \in Row
    BY DEF TypeOK
  <2>4. PICK row : row = Merged(drivers[d], calls[c].entity, calls[c].changed)
    OBVIOUS
  <2>5. /\ row \in Row
        /\ row.suspended = IF "suspended" \in calls[c].changed THEN calls[c].entity.suspended
                           ELSE drivers[d].suspended
        /\ row.position = IF "position" \in calls[c].changed THEN calls[c].entity.position
                          ELSE drivers[d].position
    BY <2>1, <2>3, <2>4, MergedRow
  <2>6. /\ Store(d, row) /\ UNCHANGED <<overtook, decided, sent>>
        /\ calls' = [calls EXCEPT ![c] = Idle]
    BY <1>3, <2>2, <2>4 DEF WriteToggle
  <2>7. drivers'[d] = row /\ \A b \in DriverIds \ {d} : drivers'[b] = drivers[b]
    BY <2>5, <2>6, StoreType
  <2>8. calls'[c] = Idle /\ \A b \in Calls \ {c} : calls'[b] = calls[b]
    BY <2>6 DEF TypeOK
  <2>9. ASSUME NEW b \in DriverIds \ {d}
        PROVE Steady(b)' /\ \A a \in Calls : CallSteady(a, b)'
    <3>1. calls'[c].driver # b
      BY <1>00, <2>8
    <3>2. Steady(b) /\ \A a \in Calls : CallSteady(a, b)
      BY <1>0
    <3>3. \A a \in Calls : calls'[a] = calls[a] \/ calls'[a].driver # b
      BY <2>8, <3>1
    <3>4. /\ drivers'[b] = drivers[b] /\ overtook'[b] = overtook[b]
          /\ decided'[b] = decided[b] /\ sent'[b] = sent[b]
      BY <2>6, <2>7
    <3> QED BY <3>2, <3>3, <3>4, SteadyFrame
  <2>10. Steady(d) /\ \A a \in Calls : CallSteady(a, d)
    BY <1>0
  <2>11. overtook[d].decision = {} => row.suspended = FALSE
    <3>1. calls[c].entity.suspended \in BOOLEAN /\ drivers[d].suspended \in BOOLEAN
      BY <2>1, <2>3, RowFields
    <3>2. CallSteady(c, d)
      BY <2>10
    <3> QED BY <2>2, <2>5, <3>1, <3>2 DEF CallSteady
  <2>12. overtook[d].decision \cap {"read", "suspended"} = {} =>
           row.suspended = drivers[d].suspended
    BY <2>1, <2>2, <2>5, <2>10 DEF CallSteady
  <2>13. overtook[d].position \cap {"read", "position"} = {} =>
           row.position = drivers[d].position
    BY <2>1, <2>2, <2>5, <2>10 DEF CallSteady
  <2>14. Steady(d)'
    BY <2>6, <2>7, <2>10, <2>11, <2>12, <2>13 DEF Steady
  <2>15. ASSUME NEW a \in Calls \ {c} PROVE CallSteady(a, d)'
    BY <2>6, <2>7, <2>8, <2>10, <2>11 DEF CallSteady
  <2>16. CallSteady(c, d)'
    BY <1>00, <2>8 DEF CallSteady
  <2>17. ASSUME NEW b \in DriverIds PROVE Steady(b)' /\ \A a \in Calls : CallSteady(a, b)'
    BY <2>9, <2>14, <2>15, <2>16
  <2> QED BY <2>17 DEF RowsSteady
<1>4. ASSUME NEW c \in Calls, ToggleFails(c) PROVE RowsSteady'
  <2>1. UNCHANGED <<drivers, overtook, decided, sent>> /\ calls' = [calls EXCEPT ![c] = Idle]
    BY <1>4 DEF ToggleFails
  <2>2. calls'[c] = Idle /\ \A b \in Calls \ {c} : calls'[b] = calls[b]
    BY <2>1 DEF TypeOK
  <2>3. ASSUME NEW b \in DriverIds PROVE Steady(b)' /\ \A a \in Calls : CallSteady(a, b)'
    BY <1>0, <1>00, <2>1, <2>2, SteadyFrame
  <2> QED BY <2>3 DEF RowsSteady
<1>5. ASSUME NEW d \in Busy, toggleSuspension(d) PROVE RowsSteady'
  <2>1. d \in DriverIds /\ drivers[d] \in Row
    BY DEF TypeOK
  <2> DEFINE row == SuspensionToggled(drivers[d])
  <2>2. /\ row \in Row /\ row.suspended = ~drivers[d].suspended
        /\ row.online = (drivers[d].online /\ drivers[d].suspended)
        /\ row.position = drivers[d].position
        /\ drivers[d].suspended \in BOOLEAN
    BY <2>1, SuspensionRow, RowFields
  <2>3. /\ Store(d, row) /\ UNCHANGED <<calls, sent>>
        /\ decided' = [decided EXCEPT ![d] = ~drivers[d].suspended]
        /\ overtook' = [overtook EXCEPT ![d].decision = InProgress(d)]
    BY <1>5 DEF toggleSuspension
  <2> HIDE DEF row
  <2>4. drivers'[d] = row /\ \A b \in DriverIds \ {d} : drivers'[b] = drivers[b]
    BY <2>1, <2>2, <2>3, StoreType
  <2>5. /\ decided'[d] = ~drivers[d].suspended
        /\ overtook'[d].decision = InProgress(d) /\ overtook'[d].position = overtook[d].position
        /\ \A b \in DriverIds \ {d} : decided'[b] = decided[b] /\ overtook'[b] = overtook[b]
    BY <2>1, <2>3 DEF TypeOK
  <2>6. ASSUME NEW b \in DriverIds \ {d}
        PROVE Steady(b)' /\ \A a \in Calls : CallSteady(a, b)'
    BY <1>0, <2>3, <2>4, <2>5, SteadyFrame
  <2>7. Steady(d)'
    BY <1>0, <2>1, <2>2, <2>3, <2>4, <2>5 DEF Steady
  <2>8. ASSUME NEW a \in Calls PROVE CallSteady(a, d)'
    <3>1. CallSteady(a, d)
      BY <1>0, <2>1
    <3>2. calls[a].driver = d =>
            /\ calls[a].pc = "compare" => "read" \in InProgress(d)
            /\ calls[a].pc = "write" => calls[a].changed \subseteq InProgress(d)
            /\ InProgress(d) # {}
      BY <2>1, InProgressHas DEF TypeOK
    <3> QED BY <2>3, <2>5, <3>1, <3>2 DEF CallSteady
  <2> QED BY <2>6, <2>7, <2>8 DEF RowsSteady
<1>6. ASSUME NEW d \in Busy, updateLocation(d) PROVE RowsSteady'
  <2>1. d \in DriverIds /\ drivers[d] \in Row
    BY DEF TypeOK
  <2> DEFINE row == [drivers[d] EXCEPT !.position = sent[d] + 1]
  <2>2. sent[d] \in Nat /\ sent[d] + 1 \in Positions
    BY <1>6, <2>1 DEF updateLocation, TypeOK, Positions
  <2>3. /\ row \in Row /\ row.suspended = drivers[d].suspended
        /\ row.online = drivers[d].online /\ row.position = sent[d] + 1
    BY <2>1, <2>2 DEF Row
  <2>4. /\ Store(d, row) /\ UNCHANGED <<calls, decided>>
        /\ sent' = [sent EXCEPT ![d] = @ + 1]
        /\ overtook' = [overtook EXCEPT ![d].position = InProgress(d)]
    BY <1>6 DEF updateLocation
  <2> HIDE DEF row
  <2>5. drivers'[d] = row /\ \A b \in DriverIds \ {d} : drivers'[b] = drivers[b]
    BY <2>1, <2>3, <2>4, StoreType
  <2>6. /\ sent'[d] = sent[d] + 1
        /\ overtook'[d].position = InProgress(d) /\ overtook'[d].decision = overtook[d].decision
        /\ \A b \in DriverIds \ {d} : sent'[b] = sent[b] /\ overtook'[b] = overtook[b]
    BY <2>1, <2>4 DEF TypeOK
  <2>7. ASSUME NEW b \in DriverIds \ {d}
        PROVE Steady(b)' /\ \A a \in Calls : CallSteady(a, b)'
    BY <1>0, <2>4, <2>5, <2>6, SteadyFrame
  <2>8. Steady(d)'
    BY <1>0, <2>1, <2>3, <2>4, <2>5, <2>6 DEF Steady
  <2>9. ASSUME NEW a \in Calls PROVE CallSteady(a, d)'
    <3>1. CallSteady(a, d)
      BY <1>0, <2>1
    <3>2. calls[a].driver = d =>
            /\ calls[a].pc = "compare" => "read" \in InProgress(d)
            /\ calls[a].pc = "write" => calls[a].changed \subseteq InProgress(d)
      BY <2>1, InProgressHas DEF TypeOK
    <3> QED BY <2>3, <2>4, <2>5, <2>6, <3>1, <3>2 DEF CallSteady
  <2> QED BY <2>7, <2>8, <2>9 DEF RowsSteady
<1>7. ASSUME UNCHANGED <<drivers, overtook, decided, sent, calls>> PROVE RowsSteady'
  BY <1>7 DEF RowsSteady, Steady, CallSteady
<1>8. ASSUME \/ \E o \in BOOLEAN : StartReading(o)
             \/ \E l \in Limits : ReadPage(l)
             \/ UNCHANGED vars
      PROVE RowsSteady'
  BY <1>7, <1>8 DEF StartReading, ReadPage, vars
<1> QED BY <1>1, <1>2, <1>3, <1>4, <1>5, <1>6, <1>8 DEF Next

LEMMA SteadyInductive == Spec => []RowsSteady
<1>1. Init => RowsSteady
  <2> SUFFICES ASSUME Init PROVE RowsSteady
    OBVIOUS
  <2>1. ASSUME NEW d \in DriverIds
        PROVE drivers[d].suspended = FALSE /\ drivers[d].position = 0
    BY DEF Init, NewRow
  <2>2. ASSUME NEW d \in DriverIds, NEW c \in Calls PROVE calls[c].driver # d
    BY IdleType DEF Init
  <2>3. ASSUME NEW d \in DriverIds PROVE decided[d] = FALSE /\ sent[d] = 0
    BY DEF Init
  <2> QED BY <2>1, <2>2, <2>3 DEF RowsSteady, Steady, CallSteady
<1> QED BY <1>1, TypesInductive, SteadyStep, PTL DEF Spec

\* A suspended driver is offline, whatever toggles began after the
\* suspension: only one that was in progress can bring the driver online.
THEOREM SuspensionHolds == Spec => []SuspendedOffline
<1>1. RowsSteady => SuspendedOffline
  BY DEF RowsSteady, Steady, SuspendedOffline
<1> QED BY <1>1, SteadyInductive, PTL

\* A toggle overwrites nobody's suspension or position but those that came
\* between its read and its save.
THEOREM WritesAreKept == Spec => []WritesKept
<1>1. RowsSteady => WritesKept
  BY DEF RowsSteady, Steady, WritesKept
<1> QED BY <1>1, SteadyInductive, PTL

-----------------------------------------------------------------------------
(* The list *)

LEMMA CreatedAt ==
  ASSUME TypeOK, NEW x \in DriverIds
  PROVE created[x] \in Nat /\ x \in Nat
  BY CreatedType

\* Everything on a page comes before everything of the rows that is not.
LEMMA PageFirst ==
  ASSUME TypeOK, NEW rows \in SUBSET DriverIds, NEW limit \in Int,
         NEW x \in Page(created, rows, limit), NEW y \in rows \ Page(created, rows, limit)
  PROVE created[y] < created[x] \/ (created[y] = created[x] /\ y < x)
<1>1. created[x] \in Nat /\ x \in Nat /\ created[y] \in Nat /\ y \in Nat /\ x # y
  BY CreatedAt DEF Page
<1>2. SUFFICES ASSUME created[x] < created[y] \/ (created[x] = created[y] /\ x < y) PROVE FALSE
  <2>1. PICK a, b, m, n \in Nat : a = created[x] /\ b = created[y] /\ m = x /\ n = y
    BY <1>1
  <2>2. a < b \/ (a = b /\ m < n) \/ b < a \/ (b = a /\ n < m)
    BY <1>1, <2>1
  <2> QED BY <2>1, <2>2
<1>3. Newer(created, rows, y) \subseteq Newer(created, rows, x)
  <2> SUFFICES ASSUME NEW z \in Newer(created, rows, y) PROVE z \in Newer(created, rows, x)
    OBVIOUS
  <2>1. z \in rows /\ created[z] \in Nat /\ z \in Nat
    BY CreatedAt DEF Newer
  <2> QED BY <1>1, <1>2, <2>1 DEF Newer
<1>4. IsFiniteSet(Newer(created, rows, x))
  BY FS_Subset DEF Newer
<1>5. /\ Cardinality(Newer(created, rows, x)) \in Nat
      /\ Cardinality(Newer(created, rows, y)) \in Nat
      /\ Cardinality(Newer(created, rows, y)) <= Cardinality(Newer(created, rows, x))
  BY <1>3, <1>4, FS_Subset, FS_CardinalityType
<1>6. Cardinality(Newer(created, rows, x)) < limit
  BY DEF Page
<1>7. Cardinality(Newer(created, rows, y)) < limit
  BY <1>5, <1>6
<1> QED BY <1>7 DEF Page

LEMMA SafeLimitType == ASSUME NEW l \in Limits PROVE SafeLimit(l) \in Int
  BY DEF SafeLimit

\* A row that a cursor is not above stays so when the cursor moves on.
LEMMA CursorsDescend ==
  ASSUME TypeOK, NEW c \in [time : Int, id : Nat], NEW x \in DriverIds, NEW y \in DriverIds,
         Below(created, x, c), ~Below(created, y, c)
  PROVE ~Below(created, y, CursorAt(created, x))
<1>1. /\ CursorAt(created, x).id = x
      /\ CursorAt(created, x).time = created[x] - (created[x] % PerMilli)
      /\ created[x] % PerMilli \in 0 .. PerMilli - 1
  BY CursorType
<1>2. created[x] \in Nat /\ x \in Nat /\ created[y] \in Nat /\ y \in Nat
  BY CreatedAt
<1>3. CursorAt(created, x).time \in Int /\ CursorAt(created, x).time <= created[x]
  BY <1>1, <1>2
<1> QED BY <1>1, <1>2, <1>3 DEF Below

\* The rows of a page are not below the cursor of its last row.
LEMMA PageAbove ==
  ASSUME TypeOK, NEW page \in SUBSET DriverIds, NEW x, LastOf(created, page, x),
         NEW y \in page
  PROVE ~Below(created, y, CursorAt(created, x))
<1>0. x \in DriverIds
  BY DEF LastOf
<1>1. /\ CursorAt(created, x).id = x
      /\ CursorAt(created, x).time = created[x] - (created[x] % PerMilli)
      /\ created[x] % PerMilli \in 0 .. PerMilli - 1
  BY <1>0, CursorType
<1>2. created[x] \in Nat /\ x \in Nat /\ created[y] \in Nat /\ y \in Nat
  BY <1>0, CreatedAt
<1>3. CursorAt(created, x).time \in Int /\ CursorAt(created, x).time <= created[x]
  BY <1>1, <1>2
<1>4. y = x \/ created[x] < created[y] \/ (created[x] = created[y] /\ x < y)
  BY DEF LastOf, Newer
<1>5. PICK a, b, m, n \in Nat, t \in Int :
        /\ a = created[x] /\ b = created[y] /\ m = x /\ n = y
        /\ t = CursorAt(created, x).time
  BY <1>2, <1>3
<1>6. t <= a /\ ((n = m /\ b = a) \/ a < b \/ (a = b /\ m < n))
  BY <1>3, <1>4, <1>5
<1>7. ~(b < t \/ (b = t /\ n < m))
  BY <1>6
<1> QED BY <1>1, <1>5, <1>7 DEF Below

\* Division by the ticks of a millisecond.
LEMMA SameMilli ==
  ASSUME NEW a \in Nat, NEW b \in Nat, a - (a % PerMilli) <= b, b <= a
  PROVE /\ b \div PerMilli = a \div PerMilli
        /\ b % PerMilli = 0 => b = a - (a % PerMilli)
<1>1. PICK p \in Nat : p = PerMilli /\ p > 0
  OBVIOUS
<1>2. PICK q \in Int, r \in Int : q = a \div p /\ r = a % p
  BY <1>1
<1>3. PICK u \in Int, v \in Int : u = b \div p /\ v = b % p
  BY <1>1
<1>4. a = p * q + r /\ 0 <= r /\ r < p
  BY <1>1, <1>2
<1>5. b = p * u + v /\ 0 <= v /\ v < p
  BY <1>1, <1>3
<1>6. p * q <= b /\ b <= p * q + r
  BY <1>1, <1>2, <1>4
<1>7. ~(u > q)
  <2> SUFFICES ASSUME u >= q + 1 PROVE FALSE
    OBVIOUS
  <2>1. p * u >= p * (q + 1)
    BY <1>1
  <2>2. p * (q + 1) = p * q + p
    BY <1>1
  <2> QED BY <1>1, <1>4, <1>5, <1>6, <2>1, <2>2
<1>8. ~(u < q)
  <2> SUFFICES ASSUME q >= u + 1 PROVE FALSE
    OBVIOUS
  <2>1. p * q >= p * (u + 1)
    BY <1>1
  <2>2. p * (u + 1) = p * u + p
    BY <1>1
  <2> QED BY <1>1, <1>4, <1>5, <1>6, <2>1, <2>2
<1>9. u = q
  BY <1>7, <1>8
<1>10. v = 0 => b = a - r
  BY <1>4, <1>5, <1>9
<1> QED BY <1>1, <1>2, <1>3, <1>9, <1>10

\* What a page leaves unread is below its cursor, or counted as lost.
LEMMA PageCovers ==
  ASSUME TypeOK, NEW rows \in SUBSET DriverIds, NEW limit \in Int, NEW x,
         LastOf(created, Page(created, rows, limit), x),
         NEW y \in rows \ Page(created, rows, limit)
  PROVE Below(created, y, CursorAt(created, x)) \/ CutOff(y, x)
<1>1. x \in Page(created, rows, limit) /\ x \in DriverIds
  BY PageIn DEF LastOf
<1>2. created[y] < created[x] \/ (created[y] = created[x] /\ y < x)
  BY <1>1, PageFirst
<1>3. created[x] \in Nat /\ x \in Nat /\ created[y] \in Nat /\ y \in Nat /\ x # y
  BY <1>1, CreatedAt
<1>4. /\ CursorAt(created, x).id = x
      /\ CursorAt(created, x).time = created[x] - (created[x] % PerMilli)
      /\ created[x] % PerMilli \in 0 .. PerMilli - 1
  BY <1>1, CursorType
<1>5. PICK a, b \in Nat, t \in Int :
        a = created[x] /\ b = created[y] /\ t = CursorAt(created, x).time
  BY <1>3, <1>4
<1>6. b <= a /\ t = a - (a % PerMilli)
  BY <1>2, <1>3, <1>4, <1>5
<1>7. CASE b < t
  BY <1>5, <1>7 DEF Below
<1>8. CASE t <= b
  <2>1. /\ b \div PerMilli = a \div PerMilli
        /\ b % PerMilli = 0 => b = t
    BY <1>6, <1>8, SameMilli
  <2>2. CASE b % PerMilli = 0 /\ ~(y > x)
    BY <1>3, <1>4, <1>5, <2>1, <2>2 DEF Below
  <2>3. CASE b % PerMilli = 0 => y > x
    BY <1>5, <2>1, <2>3 DEF CutOff
  <2> QED BY <2>2, <2>3
<1> QED BY <1>5, <1>7, <1>8

\* A reader at work has shown nothing below its cursor, and of the rows that
\* were there all the time has left only those below it.
Reading ==
  /\ reader.twice = {}
  /\ reader.pc = "reading" =>
       /\ reader.cursor = None => reader.seen = {}
       /\ reader.cursor # None =>
            \A y \in reader.seen : ~Below(created, y, reader.cursor)
       /\ reader.steady \subseteq Matching(reader.onlineOnly)
       /\ \A y \in reader.steady :
            \/ y \in reader.seen \cup reader.lost
            \/ reader.cursor # None => Below(created, y, reader.cursor)
  /\ reader.pc = "done" => reader.steady \subseteq reader.seen \cup reader.lost

\* A write to a row.
LEMMA ReadingStore ==
  ASSUME TypeOK, Reading, NEW d \in DriverIds, NEW row \in Row, Store(d, row),
         created' = created
  PROVE Reading'
<1>1. /\ reader \in Reader /\ drivers'[d] = row
      /\ \A b \in DriverIds \ {d} : drivers'[b] = drivers[b]
  BY StoreType DEF TypeOK
<1>2. CASE reader.onlineOnly /\ ~row.online
  <2>1. reader' = [reader EXCEPT !.steady = @ \ {d}]
    BY <1>2 DEF Store
  <2>2. /\ reader'.pc = reader.pc /\ reader'.cursor = reader.cursor
        /\ reader'.seen = reader.seen /\ reader'.twice = reader.twice
        /\ reader'.lost = reader.lost /\ reader'.onlineOnly = reader.onlineOnly
        /\ reader'.steady = reader.steady \ {d}
    BY <1>1, <2>1 DEF Reader
  <2>3. reader.steady \subseteq Matching(reader.onlineOnly) =>
          reader'.steady \subseteq Matching(reader.onlineOnly)'
    BY <1>1, <2>2 DEF Matching
  <2> QED BY <2>2, <2>3 DEF Reading
<1>3. CASE ~(reader.onlineOnly /\ ~row.online)
  <2>1. reader' = reader
    BY <1>3 DEF Store
  <2>2. reader.steady \subseteq Matching(reader.onlineOnly) =>
          reader'.steady \subseteq Matching(reader.onlineOnly)'
    BY <1>1, <1>3, <2>1 DEF Matching
  <2> QED BY <2>1, <2>2 DEF Reading
<1> QED BY <1>2, <1>3

LEMMA ReadingStep == TypeOK /\ CallsBusy /\ Reading /\ [Next]_vars => Reading'
<1> SUFFICES ASSUME TypeOK, CallsBusy, Reading, [Next]_vars PROVE Reading'
  OBVIOUS
<1>1. ASSUME UNCHANGED <<created, drivers, reader>> PROVE Reading'
  BY <1>1 DEF Reading, Matching
<1>2. ASSUME NEW c \in Calls,
             \/ \E d \in Busy : ReadForToggle(c, d)
             \/ Compare(c) \/ ToggleFails(c)
      PROVE Reading'
  BY <1>1, <1>2 DEF ReadForToggle, Compare, ToggleFails
<1>3. ASSUME NEW c \in Calls, WriteToggle(c) PROVE Reading'
  <2>1. /\ calls[c].driver \in DriverIds /\ calls[c].entity \in Row
        /\ calls[c].changed \in SUBSET Columns
    BY <1>3 DEF WriteToggle, CallsBusy, TypeOK, Call
  <2>2. PICK d \in DriverIds : d = calls[c].driver
    BY <2>1
  <2>3. drivers[d] \in Row
    BY DEF TypeOK
  <2>4. Merged(drivers[d], calls[c].entity, calls[c].changed) \in Row
    BY <2>1, <2>3, MergedRow
  <2>5. /\ Store(d, Merged(drivers[d], calls[c].entity, calls[c].changed))
        /\ created' = created
    BY <1>3, <2>2 DEF WriteToggle
  <2> QED BY <2>4, <2>5, ReadingStore
<1>4. ASSUME NEW d \in Busy, toggleSuspension(d) PROVE Reading'
  <2>1. d \in DriverIds /\ drivers[d] \in Row
    BY DEF TypeOK
  <2>2. SuspensionToggled(drivers[d]) \in Row
    BY <2>1, SuspensionRow
  <2>3. Store(d, SuspensionToggled(drivers[d])) /\ created' = created
    BY <1>4 DEF toggleSuspension
  <2> QED BY <2>1, <2>2, <2>3, ReadingStore
<1>5. ASSUME NEW d \in Busy, updateLocation(d) PROVE Reading'
  <2>1. d \in DriverIds /\ drivers[d] \in Row
    BY DEF TypeOK
  <2>2. sent[d] + 1 \in Positions
    BY <1>5, <2>1 DEF updateLocation, TypeOK, Positions
  <2>3. [drivers[d] EXCEPT !.position = sent[d] + 1] \in Row
    BY <2>1, <2>2 DEF Row
  <2>4. Store(d, [drivers[d] EXCEPT !.position = sent[d] + 1]) /\ created' = created
    BY <1>5 DEF updateLocation
  <2> QED BY <2>1, <2>3, <2>4, ReadingStore
<1>6. ASSUME NEW o \in BOOLEAN, StartReading(o) PROVE Reading'
  <2>1. /\ reader'.pc = "reading" /\ reader'.twice = {} /\ reader'.seen = {}
        /\ reader'.cursor = None /\ reader'.onlineOnly = o /\ reader'.steady = Matching(o)
        /\ drivers' = drivers
    BY <1>6 DEF StartReading, NotReading
  <2> QED BY <2>1 DEF Reading, Matching
<1>7. ASSUME NEW l \in Limits, ReadPage(l) PROVE Reading'
  <2>1. PICK rows : rows = {d \in Matching(reader.onlineOnly) :
                              reader.cursor # None => Below(created, d, reader.cursor)}
    OBVIOUS
  <2>2. PICK limit \in Int : limit = SafeLimit(l)
    BY SafeLimitType
  <2>3. PICK page : page = Page(created, rows, limit)
    OBVIOUS
  <2>4. rows \in SUBSET DriverIds
    BY <2>1 DEF Matching
  <2>5. page \subseteq rows
    BY <2>3, <2>4, PageIn
  <2>6. PICK shown : shown = [reader EXCEPT !.seen = @ \cup page,
                                            !.twice = @ \cup (reader.seen \cap page)]
    OBVIOUS
  <2>7. /\ reader.pc = "reading" /\ created' = created /\ drivers' = drivers
        /\ \/ rows = page /\ reader' = [shown EXCEPT !.pc = "done"]
           \/ \E x \in page :
                /\ LastOf(created, page, x)
                /\ reader' = [shown EXCEPT !.cursor = CursorAt(created, x),
                                           !.lost = @ \cup {y \in rows \ page : CutOff(y, x)}]
    <3> DEFINE R == {d \in Matching(reader.onlineOnly) :
                       reader.cursor # None => Below(created, d, reader.cursor)}
               P == Page(created, R, SafeLimit(l))
               S == [reader EXCEPT !.seen = @ \cup P, !.twice = @ \cup (reader.seen \cap P)]
    <3>1. /\ reader.pc = "reading" /\ created' = created /\ drivers' = drivers
          /\ \/ R = P /\ reader' = [S EXCEPT !.pc = "done"]
             \/ \E x \in P :
                  /\ LastOf(created, P, x)
                  /\ reader' = [S EXCEPT !.cursor = CursorAt(created, x),
                                         !.lost = @ \cup {y \in R \ P : CutOff(y, x)}]
      BY <1>7 DEF ReadPage
    <3>2. rows = R /\ page = P
      BY <2>1, <2>2, <2>3
    <3>3. shown = S
      BY <2>6, <3>2
    <3> HIDE DEF R, P, S
    <3> QED BY <3>1, <3>2, <3>3
  <2>8. reader \in Reader
    BY DEF TypeOK
  <2>9. reader.seen \cap page = {}
    BY <2>1, <2>5, <2>7 DEF Reading
  <2>10. /\ shown.seen = reader.seen \cup page /\ shown.twice = {} /\ shown.pc = "reading"
         /\ shown.steady = reader.steady /\ shown.lost = reader.lost
         /\ shown.onlineOnly = reader.onlineOnly /\ shown.cursor = reader.cursor
         /\ shown \in Reader
    BY <2>4, <2>5, <2>6, <2>7, <2>8, <2>9 DEF Reader, Reading
  <2>11. ASSUME NEW y \in reader.steady, y \notin reader.seen \cup reader.lost PROVE y \in rows
    BY <2>1, <2>7, <2>11 DEF Reading
  <2>12. CASE rows = page /\ reader' = [shown EXCEPT !.pc = "done"]
    <3>1. /\ reader'.pc = "done" /\ reader'.twice = {} /\ reader'.seen = reader.seen \cup page
          /\ reader'.steady = reader.steady /\ reader'.lost = reader.lost
      BY <2>10, <2>12 DEF Reader
    <3>2. reader'.steady \subseteq reader'.seen \cup reader'.lost
      BY <2>11, <2>12, <3>1
    <3> QED BY <3>1, <3>2 DEF Reading
  <2>13. ASSUME NEW x \in page, LastOf(created, page, x),
                reader' = [shown EXCEPT !.cursor = CursorAt(created, x),
                                        !.lost = @ \cup {y \in rows \ page : CutOff(y, x)}]
         PROVE Reading'
    <3>1. PICK cut : cut = {y \in rows \ page : CutOff(y, x)}
      OBVIOUS
    <3>2. /\ reader'.pc = "reading" /\ reader'.twice = {} /\ reader'.seen = reader.seen \cup page
          /\ reader'.steady = reader.steady /\ reader'.lost = reader.lost \cup cut
          /\ reader'.onlineOnly = reader.onlineOnly /\ reader'.cursor = CursorAt(created, x)
      BY <2>10, <2>13, <3>1 DEF Reader
    <3>3. x \in DriverIds /\ x \in rows /\ page \in SUBSET DriverIds
      BY <2>4, <2>5
    <3>4. CursorAt(created, x) # None
      BY <3>3, CursorType
    <3>5. ASSUME NEW y \in page PROVE ~Below(created, y, CursorAt(created, x))
      BY <2>13, <3>3, PageAbove
    <3>6. ASSUME NEW y \in reader.seen PROVE ~Below(created, y, CursorAt(created, x))
      <4>1. reader.cursor # None /\ ~Below(created, y, reader.cursor)
        BY <2>7 DEF Reading
      <4>2. Below(created, x, reader.cursor)
        BY <2>1, <3>3, <4>1
      <4>3. reader.cursor \in [time : Int, id : Nat] /\ y \in DriverIds
        BY <2>8, <4>1 DEF Reader
      <4> QED BY <3>3, <4>1, <4>2, <4>3, CursorsDescend
    <3>7. ASSUME NEW y \in reader.steady
          PROVE \/ y \in reader'.seen \cup reader'.lost
                \/ Below(created, y, CursorAt(created, x))
      <4>1. CASE y \in reader.seen \cup reader.lost \/ y \in page
        BY <3>2, <4>1
      <4>2. CASE y \notin reader.seen \cup reader.lost /\ y \notin page
        <5>1. y \in rows \ page
          BY <2>11, <4>2
        <5>2. Below(created, y, CursorAt(created, x)) \/ CutOff(y, x)
          BY <2>3, <2>4, <2>13, <5>1, PageCovers
        <5> QED BY <3>1, <3>2, <5>1, <5>2
      <4> QED BY <4>1, <4>2
    <3>8. \A y \in reader'.seen : ~Below(created, y, CursorAt(created, x))
      BY <3>2, <3>5, <3>6
    <3>9. reader.steady \subseteq Matching(reader.onlineOnly)
      BY <2>7 DEF Reading
    <3>10. Matching(reader.onlineOnly)' = Matching(reader.onlineOnly)
      BY <2>7, <3>2 DEF Matching
    <3>11. reader'.steady \subseteq Matching(reader.onlineOnly)'
      BY <3>2, <3>9, <3>10
    <3>12. \A y \in reader'.seen : ~Below(created', y, reader'.cursor)
      BY <2>7, <3>2, <3>8
    <3>13. \A y \in reader'.steady : \/ y \in reader'.seen \cup reader'.lost
                                     \/ Below(created', y, reader'.cursor)
      BY <2>7, <3>2, <3>7
    <3> QED BY <3>2, <3>4, <3>11, <3>12, <3>13 DEF Reading
  <2> QED BY <2>7, <2>12, <2>13
<1>8. CASE UNCHANGED vars
  BY <1>1, <1>8 DEF vars
<1> QED BY <1>2, <1>3, <1>4, <1>5, <1>6, <1>7, <1>8 DEF Next

LEMMA ReadingInductive == Spec => []Reading
<1>1. Init => Reading
  BY DEF Init, NotReading, Reading
<1> QED BY <1>1, TypesInductive, ReadingStep, PTL DEF Spec

\* No row comes up on two pages of the list, whatever the page sizes and
\* whoever is toggled in between, although the cursor drops the microseconds.
THEOREM PagesDisjoint == Spec => []NeverTwice
<1>1. Reading => NeverTwice
  BY DEF Reading, NeverTwice
<1> QED BY <1>1, ReadingInductive, PTL

\* Whoever reads the list to its end has seen every row that was there all
\* the time, save those of a millisecond that a page ended in.
THEOREM PagesCover == Spec => []NothingElseMissed
<1>1. Reading => NothingElseMissed
  BY DEF Reading, NothingElseMissed
<1> QED BY <1>1, ReadingInductive, PTL

=============================================================================
