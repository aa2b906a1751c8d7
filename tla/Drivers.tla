------------------------------ MODULE Drivers ------------------------------
(***************************************************************************)
(* The drivers table under its three writers and one reader: a driver      *)
(* toggles availability and sends positions, an admin toggles suspension,  *)
(* and an admin reads the list page by page meanwhile.                     *)
(*                                                                         *)
(* toggleSuspension locks the row it reads; toggleAvailability does not.   *)
(* It saves the entity it read, and a save of TypeORM reads the row again, *)
(* compares, and then writes the columns that differ.                      *)
(***************************************************************************)
EXTENDS Paging

CONSTANTS
  DriverIds,    \* the drivers by their ids, which order them
  Calls,        \* calls of toggleAvailability in progress
  None,
  Creations,    \* the creation times the drivers may have
  Limits,       \* what a reader may ask for
  Busy,         \* bound: the drivers whose rows change
  MaxPosition   \* bound: positions sent by a driver

ASSUME IdsAssumption ==
  /\ DriverIds \subseteq Nat /\ IsFiniteSet(DriverIds)
  /\ Busy \subseteq DriverIds
  /\ None \notin DriverIds /\ None \notin [time : Int, id : Nat]
ASSUME CreationsAssumption == Creations \subseteq [DriverIds -> Nat]
ASSUME LimitsAssumption == Limits \subseteq Int
ASSUME PositionAssumption == MaxPosition \in Nat

VARIABLES
  created,   \* when each driver was created, in ticks of the database
  drivers,   \* the rows
  calls,     \* what each call of toggleAvailability is doing
  decided,   \* what an admin last decided about the suspension
  sent,      \* the position each driver last sent
  overtook,  \* what calls were writing when the last decision, or position, came
  reader     \* an admin reading the list

vars == <<created, drivers, calls, decided, sent, overtook, reader>>

Columns == {"online", "suspended", "position"}
Positions == 0 .. MaxPosition

Row == [online : BOOLEAN, suspended : BOOLEAN, position : Positions]

Steps == {"idle", "compare", "write"}

\* "entity" is the row as the call holds it, "changed" what it will write.
Call == [pc : Steps, driver : DriverIds \cup {None},
         entity : Row, changed : SUBSET Columns]

NewRow == [online |-> FALSE, suspended |-> FALSE, position |-> 0]

Idle == [pc |-> "idle", driver |-> None, entity |-> NewRow, changed |-> {}]

\* "steady" are the rows that have matched the filter since the first page,
\* "lost" those cut off with the fraction of a page's last millisecond.
Reader == [pc : {"idle", "reading", "done"}, onlineOnly : BOOLEAN,
           cursor : [time : Int, id : Nat] \cup {None},
           seen : SUBSET DriverIds, twice : SUBSET DriverIds,
           steady : SUBSET DriverIds, lost : SUBSET DriverIds]

NotReading == [pc |-> "idle", onlineOnly |-> FALSE, cursor |-> None, seen |-> {},
               twice |-> {}, steady |-> {}, lost |-> {}]

Init ==
  /\ created \in Creations
  /\ \E online \in BOOLEAN :
       drivers = [d \in DriverIds |-> [NewRow EXCEPT !.online = online]]
  /\ calls = [c \in Calls |-> Idle]
  /\ decided = [d \in DriverIds |-> FALSE]
  /\ sent = [d \in DriverIds |-> 0]
  /\ overtook = [d \in DriverIds |-> [decision |-> {}, position |-> {}]]
  /\ reader = NotReading

\* What calls in progress are going to write of a row: the columns they have
\* found to differ, or whatever will differ from what they read.
Pending == Columns \cup {"read"}

InProgress(d) ==
  UNION {IF calls[c].pc = "compare" THEN {"read"} ELSE calls[c].changed :
           c \in {x \in Calls : calls[x].driver = d}}

\* A row is written; a reader of the online drivers may lose it.
Store(d, row) ==
  /\ drivers' = [drivers EXCEPT ![d] = row]
  /\ reader' = IF reader.onlineOnly /\ ~row.online
                 THEN [reader EXCEPT !.steady = @ \ {d}] ELSE reader

-----------------------------------------------------------------------------
(* toggleAvailability *)

MayToggle(row) == row.online \/ ~row.suspended

ReadForToggle(c, d) ==
  /\ calls[c].pc = "idle"
  /\ MayToggle(drivers[d])
  /\ calls' = [calls EXCEPT ![c] = [pc |-> "compare", driver |-> d, changed |-> {},
                                    entity |-> [drivers[d] EXCEPT !.online = ~@]]]
  /\ UNCHANGED <<created, drivers, decided, sent, overtook, reader>>

Differing(row, entity) == {x \in Columns : row[x] # entity[x]}

Compare(c) ==
  LET changed == Differing(drivers[calls[c].driver], calls[c].entity) IN
    /\ calls[c].pc = "compare"
    /\ calls' = [calls EXCEPT ![c] = IF changed = {} THEN Idle
                                     ELSE [@ EXCEPT !.pc = "write",
                                                    !.changed = changed]]
    /\ UNCHANGED <<created, drivers, decided, sent, overtook, reader>>

\* Mutant: the whole entity is written, compared or not.
Overwritten(row, entity, changed) == entity

Merged(row, entity, changed) ==
  [x \in Columns |-> IF x \in changed THEN entity[x] ELSE row[x]]

WriteToggle(c) ==
  LET d == calls[c].driver IN
    /\ calls[c].pc = "write"
    /\ Store(d, Merged(drivers[d], calls[c].entity, calls[c].changed))
    /\ calls' = [calls EXCEPT ![c] = Idle]
    /\ UNCHANGED <<created, decided, sent, overtook>>

\* An await throws or the process dies: nothing has been written.
ToggleFails(c) ==
  /\ calls[c].pc # "idle"
  /\ calls' = [calls EXCEPT ![c] = Idle]
  /\ UNCHANGED <<created, drivers, decided, sent, overtook, reader>>

-----------------------------------------------------------------------------
(* toggleSuspension and updateLocation *)

\* Mutant: the coordinates of a suspended driver are cleared.
SuspensionClearing(row) ==
  [row EXCEPT !.suspended = ~@, !.online = @ /\ row.suspended, !.position = None]

\* Mutant: a driver who is online stays so.
SuspendedInPlace(row) == [row EXCEPT !.suspended = ~@]

SuspensionToggled(row) ==
  [row EXCEPT !.suspended = ~@, !.online = @ /\ row.suspended]

toggleSuspension(d) ==
  /\ Store(d, SuspensionToggled(drivers[d]))
  /\ decided' = [decided EXCEPT ![d] = ~drivers[d].suspended]
  /\ overtook' = [overtook EXCEPT ![d].decision = InProgress(d)]
  /\ UNCHANGED <<created, calls, sent>>

updateLocation(d) ==
  /\ sent[d] < MaxPosition
  /\ sent' = [sent EXCEPT ![d] = @ + 1]
  /\ Store(d, [drivers[d] EXCEPT !.position = sent[d] + 1])
  /\ overtook' = [overtook EXCEPT ![d].position = InProgress(d)]
  /\ UNCHANGED <<created, calls, decided>>

-----------------------------------------------------------------------------
(* findAll *)

Matching(onlineOnly) == {d \in DriverIds : onlineOnly => drivers[d].online}

StartReading(onlineOnly) ==
  /\ reader.pc = "idle"
  /\ reader' = [NotReading EXCEPT !.pc = "reading", !.onlineOnly = onlineOnly,
                                  !.steady = Matching(onlineOnly)]
  /\ UNCHANGED <<created, drivers, calls, decided, sent, overtook>>

\* What a page that ends at x loses: of the rows created in its millisecond
\* all but those of a smaller id at the very start.
CutOff(y, x) ==
  /\ created[y] \div PerMilli = created[x] \div PerMilli
  /\ created[y] % PerMilli = 0 => y > x

\* A page, and the cursor of its last row if there is a next page.
ReadPage(limit) ==
  LET rows == {d \in Matching(reader.onlineOnly) :
                 reader.cursor # None => Below(created, d, reader.cursor)}
      page == Page(created, rows, SafeLimit(limit))
      Shown == [reader EXCEPT !.seen = @ \cup page,
                              !.twice = @ \cup (reader.seen \cap page)]
  IN  /\ reader.pc = "reading"
      /\ \/ rows = page /\ reader' = [Shown EXCEPT !.pc = "done"]
         \/ /\ rows # page
            /\ \E x \in page :
                 /\ LastOf(created, page, x)
                 /\ reader' = [Shown EXCEPT !.cursor = CursorAt(created, x),
                      !.lost = @ \cup {y \in rows \ page : CutOff(y, x)}]
      /\ UNCHANGED <<created, drivers, calls, decided, sent, overtook>>

-----------------------------------------------------------------------------
Next ==
  \/ \E c \in Calls :
       \/ \E d \in Busy : ReadForToggle(c, d)
       \/ Compare(c) \/ WriteToggle(c) \/ ToggleFails(c)
  \/ \E d \in Busy : toggleSuspension(d) \/ updateLocation(d)
  \/ \E onlineOnly \in BOOLEAN : StartReading(onlineOnly)
  \/ \E limit \in Limits : ReadPage(limit)

Spec == Init /\ [][Next]_vars

-----------------------------------------------------------------------------
(* Safety *)

\* Every variable stays within what the code can store in it.
TypeOK ==
  /\ created \in Creations
  /\ drivers \in [DriverIds -> Row]
  /\ calls \in [Calls -> Call]
  /\ decided \in [DriverIds -> BOOLEAN]
  /\ sent \in [DriverIds -> Positions]
  /\ overtook \in [DriverIds -> [decision : SUBSET Pending, position : SUBSET Pending]]
  /\ reader \in Reader

\* A suspended driver is offline, unless a toggle was in progress when the
\* suspension came.
SuspendedOffline ==
  \A d \in DriverIds :
    drivers[d].suspended /\ overtook[d].decision = {} => ~drivers[d].online

\* "Your account is suspended, you cannot go online", with no exception.
SuspendedIsOffline == \A d \in DriverIds : drivers[d].suspended => ~drivers[d].online

\* What others wrote stands, the admin's last decision and the position last
\* sent, unless a toggle had read the row before and not yet compared it, or
\* was about to write the column as it had read it.
WritesKept ==
  \A d \in DriverIds :
    /\ overtook[d].decision \cap {"read", "suspended"} = {}
         => drivers[d].suspended = decided[d]
    /\ overtook[d].position \cap {"read", "position"} = {}
         => drivers[d].position = sent[d]

\* No reader sees a row twice, whoever is toggled between the pages.
NeverTwice == reader.twice = {}

\* A reader that came to the end has seen every row that was there all the
\* time, except those that share a millisecond with the end of a page.
NothingElseMissed ==
  reader.pc = "done" => reader.steady \subseteq reader.seen \cup reader.lost

=============================================================================
