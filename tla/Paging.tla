------------------------------- MODULE Paging -------------------------------
(***************************************************************************)
(* Cursor pagination, as the three lists of orders, drivers and users do   *)
(* it: newest first by created_at and then id, a cursor that names the     *)
(* last row of a page, and one row more than the page to know of a next.   *)
(* The database keeps microseconds; the cursor goes through a JavaScript   *)
(* Date and keeps milliseconds.                                            *)
(***************************************************************************)
EXTENDS Integers, FiniteSets

CONSTANTS
  PerMilli,   \* ticks of the database's clock in a millisecond
  MAX_LIMIT

ASSUME PerMilliAssumption == PerMilli \in Nat \ {0}
ASSUME LimitAssumption == MAX_LIMIT \in Nat \ {0}

SafeLimit(limit) ==
  IF limit < 1 THEN 1 ELSE IF limit > MAX_LIMIT THEN MAX_LIMIT ELSE limit

\* Mutant: the next page starts with the last row of this one.
AtOrBelow(created, x, cursor) ==
  \/ created[x] < cursor.time
  \/ created[x] = cursor.time /\ x <= cursor.id

\* Mutant: the times alone are compared.
BelowInTime(created, x, cursor) == created[x] < cursor.time

\* The condition on the rows after a cursor, as the list of users writes it
\* out; the others compare the pair.
Below(created, x, cursor) ==
  \/ created[x] < cursor.time
  \/ created[x] = cursor.time /\ x < cursor.id

CursorAt(created, x) ==
  [time |-> created[x] - (created[x] % PerMilli), id |-> x]

\* Rows that come before x in the list.
Newer(created, rows, x) ==
  {y \in rows : \/ created[x] < created[y]
                \/ created[x] = created[y] /\ x < y}

Page(created, rows, limit) ==
  {x \in rows : Cardinality(Newer(created, rows, x)) < limit}

\* The last row of a page.
LastOf(created, page, x) ==
  /\ x \in page
  /\ page \ {x} \subseteq Newer(created, page, x)

=============================================================================
