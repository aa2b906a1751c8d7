----------------------------- MODULE LinkProofs -----------------------------
(***************************************************************************)
(* Theorems about the links of Accounts, for any number of calls, links    *)
(* and Google accounts: a link works once, and a stored hash and its time  *)
(* belong together.  What a step does to links has seven shapes; both      *)
(* invariants are then proved shape by shape.                              *)
(***************************************************************************)
EXTENDS AccountsProofs

\* A link belongs to one of the two hashes: its expiry time, and its user.
UntilOf(h) == IF h = "verifyHash" THEN "verifyUntil" ELSE "resetUntil"
UserOf(h) == IF h = "verifyHash" THEN "verify" ELSE "reset"

Linked == Secret \cup {UntilOf(h) : h \in Secret}

\* A call that made a link and has not sent it yet.
Maker(call) == call.kind \in {"register", "mail"} /\ call.pc # "insert"

Saving(call) == call.pc \in {"compare", "write"}

\* There are no links before there is a row, only calls that save hold
\* columns, and a call on its way to a session has no link.
GroundedCall(call) ==
  /\ Saving(call) => exists
  /\ ~Saving(call) => \A x \in Columns : call.entity[x] = Unset
  /\ call.pc \in {"byEmail", "drop", "lookup"} =>
       call.kind \notin {"register", "mail", "verify", "reset"}

Grounded ==
  /\ ~exists => \A x \in Linked : row[x] = None
  /\ \A c \in Calls : GroundedCall(calls[c])

-----------------------------------------------------------------------------
(* The shapes of a step *)

SameLinks == \A x \in Linked : row'[x] = row[x]

\* The call goes on, or starts, without links and without columns to save.
Passes(c) ==
  /\ Others(c) /\ SameLinks /\ UNCHANGED <<issued, mailed, spent>>
  /\ stale \subseteq stale' /\ (exists => exists')
  /\ ~Saving(calls'[c]) /\ ~Maker(calls'[c]) /\ calls'[c].kind \notin {"verify", "reset"}
  /\ \A x \in Columns : calls'[c].entity[x] = Unset

\* The call goes on to save an entity.
Saves(c) ==
  /\ Others(c) /\ SameLinks /\ UNCHANGED <<mailed, spent, stale>>
  /\ exists' /\ calls'[c].pc = "compare"

\* The entity holds no hash, and the time as it was read, if at all.
Untouched(e, h) == e[h] = Unset /\ e[UntilOf(h)] \in {Unset, row[UntilOf(h)]}

\* It holds null for hash and time, as the row does: it was inserted with both.
Blank(e, h) ==
  /\ h \in Watched /\ e[h] = None /\ e[UntilOf(h)] = None
  /\ row[h] = None /\ row[UntilOf(h)] = None

\* It holds a new link, for this hash only.
Makes(c, h) ==
  /\ Saves(c) /\ issued < LinkBound /\ issued' = issued + 1
  /\ calls'[c].kind \in {"register", "mail"} /\ calls'[c].link = issued + 1
  /\ calls'[c].entity[h] = issued + 1 /\ calls'[c].entity[UntilOf(h)] = issued + 1
  /\ \A g \in Secret \ {h} : Untouched(calls'[c].entity, g) \/ Blank(calls'[c].entity, g)

\* It ends a link that was sent, and is the one stored.
Uses(c, h) ==
  /\ Saves(c) /\ issued' = issued
  /\ calls'[c].kind = UserOf(h) /\ calls'[c].link \in mailed /\ row[h] = calls'[c].link
  /\ row[UntilOf(h)] # None
  /\ calls'[c].entity[h] = None /\ calls'[c].entity[UntilOf(h)] = None
  /\ \A g \in Secret \ {h} : Untouched(calls'[c].entity, g)

\* It has to do with no link.
Keeps(c) ==
  /\ Saves(c) /\ issued' = issued /\ calls'[c].kind \in {"name", "google"}
  /\ \A g \in Secret : Untouched(calls'[c].entity, g)

Shape(c) ==
  \/ Compare(c) \/ WriteColumns(c) \/ SendMail(c) \/ Passes(c) \/ Keeps(c)
  \/ \E h \in Secret : Makes(c, h) \/ Uses(c, h)

LinksStill == UNCHANGED <<exists, row, calls, issued, mailed, spent, stale>>

LEMMA HashNames ==
  /\ Secret = {"verifyHash", "resetHash"}
  /\ UntilOf("verifyHash") = "verifyUntil" /\ UntilOf("resetHash") = "resetUntil"
  /\ Linked = {"verifyHash", "verifyUntil", "resetHash", "resetUntil"}
  /\ Linked \subseteq Columns
  /\ \A h \in Secret : h \in Columns /\ UntilOf(h) \in Columns /\ UntilOf(h) \in Watched
  /\ \A h \in Secret : UntilOf(h) \notin Secret
<1>1. Secret = {"verifyHash", "resetHash"}
  BY DEF Secret
<1>2. UntilOf("verifyHash") = "verifyUntil" /\ UntilOf("resetHash") = "resetUntil"
  BY DEF UntilOf
<1>3. Linked = {"verifyHash", "verifyUntil", "resetHash", "resetUntil"}
  BY <1>1, <1>2 DEF Linked
<1> QED BY <1>1, <1>2, <1>3 DEF Columns, Watched

LEMMA IdleLinks ==
  /\ Idle.pc = "idle" /\ Idle.kind = "none" /\ \A x \in Columns : Idle.entity[x] = Unset
  /\ \A x \in Columns : Nothing[x] = Unset
  BY DEF Idle, Nothing

\* What an entity read from the row holds of links.
LEMMA LoadedLinks ==
  ASSUME row \in Row, NEW s \in SUBSET Secret
  PROVE /\ Loaded(s) \in Entity
        /\ \A h \in Secret \ s : Untouched(Loaded(s), h)
<1>1. Loaded(s) \in Entity
  BY LoadedType
<1>2. \A x \in Columns : Loaded(s)[x] = IF x \in Secret \ s THEN Unset ELSE row[x]
  BY DEF Loaded
<1> QED BY <1>1, <1>2, HashNames DEF Untouched

LEMMA MadeLinks ==
  ASSUME NEW e, DOMAIN e = Columns, e = [x \in Columns |-> e[x]], NEW l,
         \A h \in Secret : Untouched(e, h)
  PROVE /\ WithVerification(e, l).verifyHash = l /\ WithVerification(e, l).verifyUntil = l
        /\ Untouched(WithVerification(e, l), "resetHash")
        /\ WithReset(e, l).resetHash = l /\ WithReset(e, l).resetUntil = l
        /\ Untouched(WithReset(e, l), "verifyHash")
<1>1. {"verifyHash", "verifyUntil", "resetHash", "resetUntil"} \subseteq Columns
  BY DEF Columns
<1>2. /\ WithVerification(e, l).verifyHash = l /\ WithVerification(e, l).verifyUntil = l
      /\ WithVerification(e, l).resetHash = e.resetHash
      /\ WithVerification(e, l).resetUntil = e.resetUntil
  BY <1>1 DEF WithVerification
<1>3. /\ WithReset(e, l).resetHash = l /\ WithReset(e, l).resetUntil = l
      /\ WithReset(e, l).verifyHash = e.verifyHash
      /\ WithReset(e, l).verifyUntil = e.verifyUntil
  BY <1>1 DEF WithReset
<1>4. /\ e.resetHash = Unset /\ e.resetUntil \in {Unset, row.resetUntil}
      /\ e.verifyHash = Unset /\ e.verifyUntil \in {Unset, row.verifyUntil}
  BY HashNames DEF Untouched
<1> QED BY <1>2, <1>3, <1>4, HashNames DEF Untouched

\* A call without a link moves on, or ends.
LEMMA Moves ==
  ASSUME CallsOK, NEW c \in Calls, GroundedCall(calls[c]),
         UNCHANGED <<exists, row, issued, mailed, spent, stale>>,
         \/ /\ calls[c].pc \in {"byEmail", "drop", "lookup"}
            /\ \E s \in {"insert", "lookup", "open"} : calls' = [calls EXCEPT ![c].pc = s]
         \/ calls' = [calls EXCEPT ![c] = Idle]
  PROVE Passes(c)
<1>1. CASE /\ calls[c].pc \in {"byEmail", "drop", "lookup"}
           /\ \E s \in {"insert", "lookup", "open"} : calls' = [calls EXCEPT ![c].pc = s]
  <2>1. PICK s \in {"insert", "lookup", "open"} : calls' = [calls EXCEPT ![c].pc = s]
    BY <1>1
  <2>2. /\ Others(c) /\ calls'[c].entity = calls[c].entity /\ calls'[c].kind = calls[c].kind
        /\ calls'[c].pc = s
    BY <2>1, MoveFields
  <2>3. /\ calls[c].kind \notin {"register", "mail", "verify", "reset"}
        /\ \A x \in Columns : calls[c].entity[x] = Unset
    BY <1>1 DEF GroundedCall, Saving
  <2> QED BY <2>2, <2>3 DEF Passes, SameLinks, Saving, Maker
<1>2. CASE calls' = [calls EXCEPT ![c] = Idle]
  BY <1>2, EndFields, IdleLinks DEF Passes, SameLinks, Saving, Maker
<1> QED BY <1>1, <1>2

\* What a step does to links.
LEMMA Shapes ==
  ASSUME TypesInv, Grounded, [Next]_vars
  PROVE LinksStill \/ \E c \in Calls : Shape(c)
<1>0. /\ row \in Row /\ CallsOK /\ DOMAIN row = Columns /\ exists \in BOOLEAN
      /\ \A s \in SUBSET Secret : Loaded(s) \in Entity /\ DOMAIN Loaded(s) = Columns
  BY LoadedLinks DEF TypesInv, Rest, Row, Columns, Entity
<1>00. \A c \in Calls : GroundedCall(calls[c])
  BY DEF Grounded
<1> USE <1>0, IdleLinks
<1>1. ASSUME NEW c \in Calls, Compare(c) \/ WriteColumns(c) \/ SendMail(c)
      PROVE Shape(c)
  BY <1>1 DEF Shape
<1>3. ASSUME NEW c \in Calls, CallFails(c) PROVE Passes(c)
  BY <1>3, EndFields DEF CallFails, Passes, SameLinks, Saving, Maker
<1>4. ASSUME NEW c \in Calls, register(c) PROVE Passes(c)
  BY <1>4, StartFields DEF register, Passes, SameLinks, Saving, Maker
<1>5. ASSUME NEW c \in Calls, Insert(c) PROVE Passes(c) \/ Makes(c, "verifyHash")
  <2>1. CASE exists
    BY <1>5, <2>1, EndFields DEF Insert, Passes, SameLinks, Saving, Maker
  <2>2. CASE ~exists
    <3> DEFINE new == NewRow("LOCAL", None)
               held(other) == [x \in Columns |-> IF x \in {"role", "verified", "provider"}
                                                 THEN new[x] ELSE other]
               e(other) == WithVerification(held(other), issued + 1)
    <3>1. PICK other \in {None, Unset} :
            /\ Save(c, "register", e(other), issued + 1, None) /\ row' = new /\ exists'
            /\ UNCHANGED <<mailed, spent, stale>> /\ issued < LinkBound /\ issued' = issued + 1
      BY <1>5, <2>2 DEF Insert
    <3>2. /\ e(other).verifyHash = issued + 1 /\ e(other).verifyUntil = issued + 1
          /\ e(other).resetHash = other /\ e(other).resetUntil = other
      BY DEF WithVerification, Columns
    <3>3. Untouched(e(other), "resetHash") \/ Blank(e(other), "resetHash")
      BY <2>2, <3>2, HashNames DEF Untouched, Blank, Grounded, Watched
    <3>4. /\ Others(c) /\ calls'[c].entity = e(other) /\ calls'[c].kind = "register"
          /\ calls'[c].pc = "compare" /\ calls'[c].link = issued + 1
      BY <3>1, SaveFields DEF Save, CallsOK
    <3>5. SameLinks
      BY <2>2, <3>1, HashNames DEF NewRow, SameLinks, Grounded
    <3> HIDE DEF e
    <3> QED BY <3>1, <3>2, <3>3, <3>4, <3>5, HashNames DEF Makes, Saves
  <2> QED BY <2>1, <2>2
<1>6. ASSUME NEW c \in Calls, resendVerificationEmail(c) PROVE Makes(c, "verifyHash")
  <2> DEFINE e == WithVerification(Loaded({}), issued + 1)
  <2>1. Save(c, "mail", e, issued + 1, None)
    BY <1>6 DEF resendVerificationEmail
  <2>2. /\ e.verifyHash = issued + 1 /\ e.verifyUntil = issued + 1
        /\ Untouched(e, "resetHash")
    BY MadeLinks, LoadedLinks, ZenonT(40) DEF Loaded
  <2>3. /\ Others(c) /\ calls'[c].entity = e /\ calls'[c].kind = "mail"
        /\ calls'[c].pc = "compare" /\ calls'[c].link = issued + 1
    BY <2>1, SaveFields DEF Save, CallsOK
  <2>4. /\ UNCHANGED <<exists, row, mailed, spent, stale>> /\ exists
        /\ issued < LinkBound /\ issued' = issued + 1
    BY <1>6 DEF resendVerificationEmail
  <2> HIDE DEF e
  <2> QED BY <2>2, <2>3, <2>4, HashNames DEF Makes, Saves, SameLinks
<1>7. ASSUME NEW c \in Calls, forgotPassword(c) PROVE Makes(c, "resetHash")
  <2> DEFINE e == WithReset(Loaded({}), issued + 1)
  <2>1. Save(c, "mail", e, issued + 1, None)
    BY <1>7 DEF forgotPassword
  <2>2. /\ e.resetHash = issued + 1 /\ e.resetUntil = issued + 1
        /\ Untouched(e, "verifyHash")
    BY MadeLinks, LoadedLinks, ZenonT(40) DEF Loaded
  <2>3. /\ Others(c) /\ calls'[c].entity = e /\ calls'[c].kind = "mail"
        /\ calls'[c].pc = "compare" /\ calls'[c].link = issued + 1
    BY <2>1, SaveFields DEF Save, CallsOK
  <2>4. /\ UNCHANGED <<exists, row, mailed, spent, stale>> /\ exists
        /\ issued < LinkBound /\ issued' = issued + 1
    BY <1>7 DEF forgotPassword
  <2> HIDE DEF e
  <2> QED BY <2>2, <2>3, <2>4, HashNames DEF Makes, Saves, SameLinks
<1>9. ASSUME NEW c \in Calls, NEW link \in Links, verifyEmail(c, link)
      PROVE Uses(c, "verifyHash")
  <2> DEFINE r == Loaded({"verifyHash"})
             e == Verified(r)
  <2>1. Save(c, "verify", e, link, None)
    BY <1>9 DEF verifyEmail
  <2>2. DOMAIN r = Columns /\ Untouched(r, "resetHash")
    BY LoadedLinks, HashNames
  <2> HIDE DEF r
  <2>3. /\ e.verifyHash = None /\ e.verifyUntil = None
        /\ e.resetHash = r.resetHash /\ e.resetUntil = r.resetUntil
    BY <2>2 DEF Verified, Columns
  <2>4. Untouched(e, "resetHash")
    BY <2>2, <2>3, HashNames DEF Untouched
  <2>5. /\ Others(c) /\ calls'[c].entity = e /\ calls'[c].kind = "verify"
        /\ calls'[c].pc = "compare" /\ calls'[c].link = link
    BY <2>1, SaveFields DEF Save, CallsOK
  <2>6. /\ UNCHANGED <<exists, row, issued, mailed, spent, stale>> /\ exists
        /\ link \in mailed /\ row.verifyHash = link /\ row.verifyUntil # None
    BY <1>9, UnsetAssumption DEF verifyEmail, Accepts
  <2> HIDE DEF e
  <2> QED BY <2>3, <2>4, <2>5, <2>6, HashNames DEF Uses, UserOf, Saves, SameLinks
<1>10. ASSUME NEW c \in Calls, NEW link \in Links, resetPassword(c, link)
       PROVE Uses(c, "resetHash")
  <2> DEFINE r == Loaded({"resetHash"})
             e == Reset(r)
  <2>1. Save(c, "reset", e, link, None)
    BY <1>10 DEF resetPassword
  <2>2. DOMAIN r = Columns /\ Untouched(r, "verifyHash")
    BY LoadedLinks, HashNames
  <2> HIDE DEF r
  <2>3. /\ e.resetHash = None /\ e.resetUntil = None
        /\ e.verifyHash = r.verifyHash /\ e.verifyUntil = r.verifyUntil
    BY <2>2 DEF Reset, Columns
  <2>4. Untouched(e, "verifyHash")
    BY <2>2, <2>3, HashNames DEF Untouched
  <2>5. /\ Others(c) /\ calls'[c].entity = e /\ calls'[c].kind = "reset"
        /\ calls'[c].pc = "compare" /\ calls'[c].link = link
    BY <2>1, SaveFields DEF Save, CallsOK
  <2>6. /\ UNCHANGED <<exists, row, issued, mailed, spent, stale>> /\ exists
        /\ link \in mailed /\ row.resetHash = link /\ row.resetUntil # None
    BY <1>10, UnsetAssumption DEF resetPassword, Accepts
  <2> HIDE DEF e
  <2> QED BY <2>3, <2>4, <2>5, <2>6, HashNames DEF Uses, UserOf, Saves, SameLinks
<1>11. ASSUME NEW c \in Calls, login(c) PROVE Passes(c)
  BY <1>11, StartFields DEF login, Passes, SameLinks, Saving, Maker
<1>12. ASSUME NEW c \in Calls, NEW g \in GoogleIds, loginWithGoogle(c, g) PROVE Passes(c)
  <2>1. UNCHANGED <<exists, row, issued, mailed, spent, stale>>
    BY <1>12 DEF loginWithGoogle
  <2>2. CASE Start(c, "session", "open")
    BY <2>1, <2>2, StartFields DEF Passes, SameLinks, Saving, Maker
  <2>3. CASE calls' = [calls EXCEPT ![c] = [Idle EXCEPT !.pc = "byEmail", !.kind = "google",
                                                        !.google = g]]
    BY <2>1, <2>3, GoogleFields DEF Passes, SameLinks, Saving, Maker
  <2> QED BY <1>12, <2>2, <2>3 DEF loginWithGoogle
<1>13. ASSUME NEW c \in Calls, FindByEmail(c) PROVE Passes(c) \/ Keeps(c)
  <2>1. /\ UNCHANGED <<exists, row, issued, mailed, spent, stale>>
        /\ calls[c].pc = "byEmail"
    BY <1>13 DEF FindByEmail
  <2>2. CASE ~exists
    BY <1>13, <2>1, <2>2, <1>00, Moves DEF FindByEmail
  <2>3. CASE exists /\ row.provider = "GOOGLE"
    <3> DEFINE g == calls[c].google
               r == Loaded({})
               e == Relinked(r, g)
    <3>1. Save(c, "google", e, None, g)
      BY <1>13, <2>3 DEF FindByEmail
    <3>2. DOMAIN r = Columns /\ \A h \in Secret : Untouched(r, h)
      BY LoadedLinks
    <3> HIDE DEF r
    <3>3. \A x \in Linked : e[x] = r[x]
      BY <3>2, HashNames DEF Relinked
    <3>4. \A h \in Secret : Untouched(e, h)
      BY <3>2, <3>3, HashNames DEF Untouched
    <3>5. /\ Others(c) /\ calls'[c].entity = e /\ calls'[c].kind = "google"
          /\ calls'[c].pc = "compare"
      BY <3>1, SaveFields
    <3> HIDE DEF e
    <3> QED BY <2>1, <2>3, <3>4, <3>5 DEF Keeps, Saves, SameLinks
  <2>4. CASE exists /\ row.provider # "GOOGLE"
    BY <1>13, <2>1, <2>4, <1>00, Moves DEF FindByEmail
  <2> QED BY <2>2, <2>3, <2>4
<1>14. ASSUME NEW c \in Calls, InsertGoogle(c) PROVE Passes(c)
  <2>1. UNCHANGED <<issued, mailed, spent, stale>>
    BY <1>14 DEF InsertGoogle
  <2>2. CASE exists
    BY <1>14, <2>1, <2>2, EndFields DEF InsertGoogle, Passes, SameLinks, Saving, Maker
  <2>3. CASE ~exists
    <3>1. SameLinks
      BY <1>14, <2>3, HashNames DEF InsertGoogle, NewRow, SameLinks, Grounded
    <3> QED BY <1>14, <2>1, <2>3, <3>1, StartFields DEF InsertGoogle, Passes, Saving, Maker
  <2> QED BY <2>2, <2>3
<1>15. ASSUME NEW c \in Calls, OpenSession(c) PROVE Passes(c)
  BY <1>15, EndFields DEF OpenSession, Passes, SameLinks, Saving, Maker
<1>16. ASSUME NEW c \in Calls, DropToken(c) PROVE Passes(c)
  BY <1>16, <1>00, Moves DEF DropToken
<1>17. ASSUME NEW c \in Calls, LookUp(c) PROVE Passes(c)
  <2>1. \/ calls' = [calls EXCEPT ![c].pc = "open"]
        \/ calls' = [calls EXCEPT ![c] = Idle]
    BY <1>17 DEF LookUp
  <2> QED BY <1>17, <2>1, <1>00, Moves DEF LookUp
<1>18. ASSUME NEW c \in Calls, refresh(c) PROVE Passes(c)
  BY <1>18, StartFields DEF refresh, Passes, SameLinks, Saving, Maker
<1>19. ASSUME NEW c \in Calls, updateUserName(c) PROVE Keeps(c)
  <2>1. \A h \in Secret : Untouched(Loaded({}), h)
    BY LoadedLinks
  <2>2. /\ Others(c) /\ calls'[c].entity = Loaded({}) /\ calls'[c].kind = "name"
        /\ calls'[c].pc = "compare"
    BY <1>19, SaveFields DEF updateUserName
  <2> QED BY <1>19, <2>1, <2>2 DEF updateUserName, Keeps, Saves, SameLinks
<1>20. ASSUME NEW c \in Calls, promoteToDriver(c) PROVE Passes(c)
  BY <1>20, StartFields DEF promoteToDriver, Passes, SameLinks, Saving, Maker
<1>21. ASSUME NEW c \in Calls, CommitPromotion(c) PROVE Passes(c)
  <2>1. SameLinks
    BY <1>21, HashNames DEF CommitPromotion, Store, Promoted, SameLinks
  <2>2. stale \subseteq stale'
    BY <1>21 DEF CommitPromotion, Store
  <2> QED BY <1>21, <2>1, <2>2, EndFields DEF CommitPromotion, Passes, Saving, Maker
<1>22. ASSUME LinkLapses \/ logout \/ SessionExpires \/ UNCHANGED vars PROVE LinksStill
  BY <1>22 DEF LinkLapses, logout, SessionExpires, vars, LinksStill
<1>23. ASSUME NEW c \in Calls, Passes(c) \/ Keeps(c) \/ (\E h \in Secret : Makes(c, h) \/ Uses(c, h))
       PROVE Shape(c)
  BY <1>23 DEF Shape
<1> QED BY <1>1, <1>3, <1>4, <1>5, <1>6, <1>7, <1>9, <1>10, <1>11, <1>12, <1>13, <1>14, <1>15,
           <1>16, <1>17, <1>18, <1>19, <1>20, <1>21, <1>22, <1>23, HashNames DEF Next

\* What a save writes, and how the call goes on.
LEMMA WriteLinks ==
  ASSUME TypesInv, NEW c \in Calls, WriteColumns(c)
  PROVE /\ Others(c) /\ calls[c].pc = "write"
        /\ UNCHANGED <<exists, issued, mailed>> /\ stale \subseteq stale'
        /\ \A x \in Columns : row'[x] = IF x \in calls[c].changed THEN calls[c].entity[x]
                                        ELSE row[x]
        /\ \A x \in calls[c].changed : x \in Columns /\ calls[c].entity[x] # Unset
        /\ \A x \in Columns : calls'[c].entity[x] = Unset
        /\ ~Saving(calls'[c]) /\ calls'[c].kind \notin {"verify", "reset"}
        /\ Maker(calls'[c]) =>
             Maker(calls[c]) /\ calls'[c].link = calls[c].link /\ calls'[c].pc = "mail"
        /\ calls'[c].pc \notin {"byEmail", "drop", "lookup"}
        /\ spent' = IF calls[c].kind \in {"verify", "reset"} THEN spent \cup {calls[c].link}
                    ELSE spent
<1> DEFINE k == calls[c].kind
<1>1. /\ CallOK(calls[c]) /\ calls[c].pc = "write" /\ CallsOK
  BY DEF TypesInv, CallsOK, WriteColumns
<1>2. calls'[c] = IF NextStep(k) = "idle" THEN Idle
                  ELSE [Idle EXCEPT !.pc = NextStep(k), !.kind = k, !.link = calls[c].link]
  BY <1>1 DEF CallsOK, WriteColumns
<1>3. /\ NextStep(k) \in {"mail", "open", "idle"}
      /\ NextStep(k) # "idle" => k \in {"register", "mail", "google"}
      /\ k \in {"register", "mail"} => NextStep(k) = "mail"
  BY DEF NextStep
<1>4. /\ calls'[c].pc = NextStep(k) /\ calls'[c].entity = Nothing
      /\ calls'[c].kind = IF NextStep(k) = "idle" THEN "none" ELSE k
      /\ NextStep(k) # "idle" => calls'[c].link = calls[c].link
  BY <1>2 DEF Idle
<1>5. \A x \in Columns : row'[x] = IF x \in calls[c].changed THEN calls[c].entity[x] ELSE row[x]
  BY DEF WriteColumns, Store, Merged
<1>6. Others(c)
  BY <1>1, WriteFields
<1>7. /\ ~Saving(calls'[c]) /\ calls'[c].kind \notin {"verify", "reset"}
      /\ Maker(calls'[c]) =>
           Maker(calls[c]) /\ calls'[c].link = calls[c].link /\ calls'[c].pc = "mail"
      /\ calls'[c].pc \notin {"byEmail", "drop", "lookup"}
  BY <1>1, <1>3, <1>4 DEF Saving, Maker
<1>8. \A x \in calls[c].changed : x \in Columns /\ calls[c].entity[x] # Unset
  BY <1>1 DEF CallOK, Call
<1> QED BY <1>1, <1>4, <1>5, <1>6, <1>7, <1>8, IdleLinks DEF WriteColumns, Store

LEMMA CompareLinks ==
  ASSUME TypesInv, NEW c \in Calls, Compare(c)
  PROVE /\ Others(c) /\ UNCHANGED <<exists, row, issued, mailed, spent, stale>>
        /\ calls[c].pc = "compare" /\ calls'[c].pc = "write"
        /\ calls'[c].entity = calls[c].entity /\ calls'[c].kind = calls[c].kind
        /\ calls'[c].link = calls[c].link
        /\ \A h \in Secret : h \in calls'[c].changed <=> calls[c].entity[h] # Unset
        /\ \A x \in Columns \ Secret :
             x \in calls'[c].changed <=> calls[c].entity[x] \notin {Unset, row[x]}
<1>1. CallsOK /\ calls[c] \in Call
  BY DEF TypesInv, CallsOK, CallOK
<1>2. /\ calls'[c] = [calls[c] EXCEPT !.pc = "write", !.changed = Differing(calls[c].entity)]
      /\ Others(c)
  BY <1>1 DEF CallsOK, Others, Compare
<1>3. /\ calls'[c].pc = "write" /\ calls'[c].entity = calls[c].entity
      /\ calls'[c].kind = calls[c].kind /\ calls'[c].link = calls[c].link
      /\ calls'[c].changed = Differing(calls[c].entity)
  BY <1>1, <1>2 DEF Call
<1> QED BY <1>2, <1>3, HashNames DEF Compare, Differing

LEMMA MailLinks ==
  ASSUME TypesInv, NEW c \in Calls, SendMail(c)
  PROVE /\ Others(c) /\ UNCHANGED <<exists, row, issued, spent, stale>>
        /\ calls[c].pc = "mail" /\ calls[c].kind \in {"register", "mail"}
        /\ mailed' = mailed \cup {calls[c].link}
        /\ calls'[c].pc = "idle" /\ calls'[c].kind = "none"
        /\ \A x \in Columns : calls'[c].entity[x] = Unset
<1>1. CallsOK /\ CallOK(calls[c])
  BY DEF TypesInv, CallsOK
<1> QED BY <1>1, EndFields, IdleLinks DEF SendMail, CallOK

LEMMA GroundedStep == TypesInv /\ Grounded /\ [Next]_vars => Grounded'
<1> SUFFICES ASSUME TypesInv, Grounded, [Next]_vars PROVE Grounded'
  OBVIOUS
<1>0. \A c \in Calls : GroundedCall(calls[c])
  BY DEF Grounded
<1>1. ASSUME LinksStill PROVE Grounded'
  BY <1>1 DEF LinksStill, Grounded, GroundedCall
<1>2. ASSUME NEW c \in Calls, Others(c), exists => exists', ~exists' => SameLinks,
             GroundedCall(calls[c])'
      PROVE Grounded'
  <2>1. \A b \in Calls : GroundedCall(calls[b])'
    BY <1>0, <1>2 DEF Others, GroundedCall
  <2>2. ~exists' => \A x \in Linked : row'[x] = None
    BY <1>2 DEF Grounded, SameLinks
  <2> QED BY <2>1, <2>2 DEF Grounded
<1>3. ASSUME NEW c \in Calls, Compare(c) PROVE Grounded'
  <2>1. GroundedCall(calls[c])'
    BY <1>0, <1>3, CompareLinks DEF GroundedCall, Saving
  <2> QED BY <1>2, <1>3, <2>1, CompareLinks DEF SameLinks
<1>4. ASSUME NEW c \in Calls, WriteColumns(c) PROVE Grounded'
  <2>1. exists /\ exists'
    BY <1>0, <1>4, WriteLinks DEF GroundedCall, Saving
  <2>2. GroundedCall(calls[c])'
    BY <1>4, WriteLinks DEF GroundedCall
  <2> QED BY <1>2, <1>4, <2>1, <2>2, WriteLinks
<1>5. ASSUME NEW c \in Calls, SendMail(c) PROVE Grounded'
  <2>1. GroundedCall(calls[c])'
    BY <1>5, MailLinks DEF GroundedCall, Saving
  <2> QED BY <1>2, <1>5, <2>1, MailLinks DEF SameLinks
<1>6. ASSUME NEW c \in Calls, Passes(c) PROVE Grounded'
  <2>1. GroundedCall(calls[c])'
    BY <1>6 DEF Passes, GroundedCall, Maker
  <2> QED BY <1>2, <1>6, <2>1 DEF Passes
<1>7. ASSUME NEW c \in Calls, Saves(c) PROVE Grounded'
  <2>1. GroundedCall(calls[c])'
    BY <1>7 DEF Saves, GroundedCall, Saving
  <2> QED BY <1>2, <1>7, <2>1 DEF Saves
<1> QED BY <1>1, <1>3, <1>4, <1>5, <1>6, <1>7, Shapes DEF Shape, Makes, Uses, Keeps

LEMMA GroundedInductive == Spec => [](TypesInv /\ Grounded)
<1>1. Init => Grounded
  <2> SUFFICES ASSUME Init PROVE Grounded
    OBVIOUS
  <2>1. \A c \in Calls : GroundedCall(calls[c])
    BY IdleLinks DEF Init, GroundedCall, Saving
  <2>2. \A x \in Linked : row[x] = None
    BY HashNames DEF Init, NewRow
  <2> QED BY <2>1, <2>2 DEF Grounded
<1> QED BY <1>1, TypesInductive, GroundedStep, PTL DEF Spec

-----------------------------------------------------------------------------
(* A link works once *)

\* Until a link is mailed only the call that made it holds it, in one entity
\* and for one hash, and has not stored it before it writes; any other hash
\* an entity holds is null.  Who uses a link holds null in its place and
\* always writes it; the other hash is not it.
LinkCall(call) ==
  /\ Maker(call) => call.link \in 1 .. issued /\ call.link \notin mailed
  /\ \A h \in Secret :
       /\ Maker(call) /\ call.pc # "mail" => row[h] # call.link
       /\ call.entity[h] \in {Unset, None} \/ (Maker(call) /\ call.entity[h] = call.link)
       /\ call.entity[h] \notin {Unset, None} =>
            \A g \in Secret \ {h} : call.entity[g] \in {Unset, None}
       /\ call.kind = UserOf(h) =>
            /\ call.link \in mailed
            /\ \A g \in Secret \ {h} : row[g] # call.link
            /\ call.entity[h] # Unset
            /\ call.pc = "write" => h \in call.changed

LinksOnce ==
  /\ spent \subseteq mailed /\ mailed \subseteq 1 .. issued
  /\ \A h \in Secret :
       /\ row[h] \in (1 .. issued) \cup {None} /\ row[h] \notin spent
       /\ row[h] # None => \A g \in Secret \ {h} : row[g] # row[h]
  /\ \A c \in Calls : LinkCall(calls[c])
  /\ \A b, c \in Calls :
       b # c /\ Maker(calls[b]) /\ Maker(calls[c]) => calls[b].link # calls[c].link

\* A step of c that stores and mails nothing.
LEMMA OnceFrame ==
  ASSUME LinksOnce, issued \in Nat, NEW c \in Calls, Others(c), SameLinks,
         UNCHANGED <<mailed, spent>>, issued' \in {issued, issued + 1},
         LinkCall(calls[c])',
         Maker(calls'[c]) =>
           \/ calls'[c].link = issued + 1
           \/ Maker(calls[c]) /\ calls'[c].link = calls[c].link
  PROVE LinksOnce'
<1>1. \A h \in Secret : row'[h] = row[h]
  BY HashNames DEF SameLinks
<1>2. \A b \in Calls : LinkCall(calls[b])
  BY DEF LinksOnce
<1>3. 1 .. issued \subseteq 1 .. issued' /\ issued + 1 \notin 1 .. issued
  OBVIOUS
<1>4. ASSUME NEW b \in Calls \ {c} PROVE LinkCall(calls[b])'
  BY <1>1, <1>2, <1>3 DEF LinkCall, Others
<1>5. ASSUME NEW a \in Calls, NEW b \in Calls, a # b, Maker(calls'[a]), Maker(calls'[b])
      PROVE calls'[a].link # calls'[b].link
  BY <1>2, <1>3, <1>5 DEF LinksOnce, Others, LinkCall
<1>6. /\ spent' \subseteq mailed' /\ mailed' \subseteq 1 .. issued'
      /\ \A h \in Secret :
           /\ row'[h] \in (1 .. issued') \cup {None} /\ row'[h] \notin spent'
           /\ row'[h] # None => \A g \in Secret \ {h} : row'[g] # row'[h]
  BY <1>1, <1>3 DEF LinksOnce
<1> QED BY <1>4, <1>5, <1>6 DEF LinksOnce

LEMMA OnceStep == TypesInv /\ Grounded /\ LinksOnce /\ [Next]_vars => LinksOnce'
<1> SUFFICES ASSUME TypesInv, Grounded, LinksOnce, [Next]_vars PROVE LinksOnce'
  OBVIOUS
<1>0. /\ issued \in Nat /\ None \notin Links /\ Unset \notin Links /\ Unset # None
      /\ Links = 1 .. LinkBound /\ LinkBound \in Nat /\ 1 .. issued \subseteq Links
  BY BoundAssumption, UnsetAssumption DEF TypesInv, Rest, Links
<1>00. /\ \A c \in Calls : LinkCall(calls[c])
       /\ \A c \in Calls : GroundedCall(calls[c])
  BY DEF LinksOnce, Grounded
<1>1. ASSUME LinksStill PROVE LinksOnce'
  BY <1>1 DEF LinksStill, LinksOnce, LinkCall
<1>2. ASSUME NEW c \in Calls, Compare(c) PROVE LinksOnce'
  <2>1. /\ UNCHANGED <<exists, row, issued, mailed, spent, stale>> /\ Others(c)
        /\ calls[c].pc = "compare" /\ calls'[c].pc = "write"
        /\ calls'[c].entity = calls[c].entity /\ calls'[c].kind = calls[c].kind
        /\ calls'[c].link = calls[c].link
        /\ \A h \in Secret : h \in calls'[c].changed <=> calls[c].entity[h] # Unset
    BY <1>2, CompareLinks
  <2>2. Maker(calls'[c]) <=> Maker(calls[c])
    BY <2>1 DEF Maker
  <2>3. LinkCall(calls[c])'
    BY <2>1, <2>2, <1>00 DEF LinkCall
  <2> QED BY <1>0, <2>1, <2>2, <2>3, OnceFrame DEF SameLinks
<1>3. ASSUME NEW c \in Calls, WriteColumns(c) PROVE LinksOnce'
  <2>1. /\ Others(c) /\ calls[c].pc = "write"
        /\ UNCHANGED <<issued, mailed>>
        /\ \A h \in Secret : row'[h] = IF h \in calls[c].changed THEN calls[c].entity[h]
                                       ELSE row[h]
        /\ \A h \in Secret : h \in calls[c].changed => calls[c].entity[h] # Unset
        /\ \A h \in Secret : calls'[c].entity[h] = Unset
        /\ ~Saving(calls'[c]) /\ calls'[c].kind \notin {"verify", "reset"}
        /\ Maker(calls'[c]) => Maker(calls[c]) /\ calls'[c].link = calls[c].link
        /\ spent' = IF calls[c].kind \in {"verify", "reset"} THEN spent \cup {calls[c].link}
                    ELSE spent
    BY <1>3, WriteLinks, HashNames
  <2> DEFINE call == calls[c]
  <2>2. LinkCall(call)
    BY <1>00
  <2>3. ASSUME NEW h \in Secret
        PROVE row'[h] \in {row[h], None, IF Maker(call) THEN call.link ELSE None}
    BY <2>1, <2>2 DEF LinkCall
  <2>0. Maker(call) => call.link \notin {Unset, None}
    BY <2>2, <1>0 DEF LinkCall
  <2>4. \A h \in Secret : UserOf(h) \in {"verify", "reset"} /\ UserOf(h) \notin {"register", "mail"}
    BY DEF UserOf
  <2>5. /\ spent' \subseteq mailed' /\ mailed' \subseteq 1 .. issued'
    <3>1. call.kind \in {"verify", "reset"} => call.link \in mailed
      BY <2>2, HashNames DEF LinkCall, UserOf
    <3> QED BY <2>1, <3>1 DEF LinksOnce
  <2>6. ASSUME NEW h \in Secret PROVE row'[h] \in (1 .. issued') \cup {None} /\ row'[h] \notin spent'
    <3>1. row[h] \in (1 .. issued) \cup {None} /\ row[h] \notin spent /\ spent' \subseteq Links
      BY <2>1, <2>5, <1>0 DEF LinksOnce
    <3>2. CASE row'[h] = None
      BY <3>1, <3>2, <1>0
    <3>3. CASE Maker(call) /\ row'[h] = call.link
      BY <2>1, <2>2, <2>5, <3>3 DEF LinkCall
    <3>4. CASE row'[h] = row[h] /\ row'[h] # None
      <4>1. ASSUME NEW g \in Secret, call.kind = UserOf(g) PROVE row'[h] # call.link
        <5>1. CASE g = h
          <6>1. h \in call.changed /\ call.entity[h] \in {Unset, None} /\ call.entity[h] # Unset
            BY <2>1, <2>2, <2>4, <4>1, <5>1 DEF LinkCall, Maker
          <6> QED BY <2>1, <3>4, <6>1
        <5>2. CASE g # h
          BY <2>2, <3>4, <4>1, <5>2 DEF LinkCall
        <5> QED BY <5>1, <5>2
      <4>2. call.kind \in {"verify", "reset"} => \E g \in Secret : call.kind = UserOf(g)
        BY HashNames DEF UserOf
      <4> QED BY <2>1, <3>1, <3>4, <4>1, <4>2
    <3> QED BY <2>3, <3>2, <3>3, <3>4
  <2>7. ASSUME NEW h \in Secret, row'[h] # None, NEW g \in Secret \ {h} PROVE row'[g] # row'[h]
    <3>1. /\ row'[h] \in {row[h], IF Maker(call) THEN call.link ELSE None}
          /\ row'[g] \in {row[g], None, IF Maker(call) THEN call.link ELSE None}
      BY <2>3, <2>7
    <3>2. row[h] # None => row[g] # row[h]
      BY DEF LinksOnce
    <3>3. Maker(call) => row[h] # call.link /\ row[g] # call.link
      BY <2>1, <2>2 DEF LinkCall
    <3>4. Maker(call) /\ row'[h] = call.link => call.entity[h] = call.link
      BY <2>1, <3>3
    <3>5. Maker(call) /\ row'[g] = call.link => call.entity[g] = call.link
      BY <2>1, <3>3
    <3>6. Maker(call) => ~(call.entity[h] = call.link /\ call.entity[g] = call.link)
      BY <2>0, <2>2 DEF LinkCall
    <3> QED BY <2>7, <3>1, <3>2, <3>3, <3>4, <3>5, <3>6
  <2>8. ASSUME NEW b \in Calls PROVE LinkCall(calls[b])'
    <3>1. CASE b = c
      <4>1. Maker(calls'[c]) => calls'[c].link \in 1 .. issued /\ calls'[c].link \notin mailed
        BY <2>1, <2>2 DEF LinkCall
      <4>2. Maker(calls'[c]) => calls'[c].pc = "mail"
        BY <1>3, WriteLinks
      <4> QED BY <2>1, <2>4, <3>1, <4>1, <4>2 DEF LinkCall
    <3>2. CASE b # c
      <4>1. calls'[b] = calls[b] /\ LinkCall(calls[b])
        BY <2>1, <3>2, <1>00 DEF Others
      <4>2. Maker(call) => call.link \notin mailed /\ (Maker(calls[b]) => calls[b].link # call.link)
        BY <2>2, <3>2 DEF LinksOnce, LinkCall
      <4>3. mailed \subseteq Links /\ (Maker(calls[b]) => calls[b].link \in Links)
        BY <4>1, <1>0 DEF LinksOnce, LinkCall
      <4>4. ASSUME NEW h \in Secret, Maker(calls[b]), row[h] # calls[b].link
            PROVE row'[h] # calls[b].link
        BY <2>3, <4>2, <4>3, <4>4, <1>0
      <4>5. ASSUME NEW h \in Secret, calls[b].link \in mailed, row[h] # calls[b].link
            PROVE row'[h] # calls[b].link
        BY <2>3, <4>2, <4>3, <4>5, <1>0
      <4> QED BY <2>1, <4>1, <4>4, <4>5 DEF LinkCall
    <3> QED BY <3>1, <3>2
  <2>9. ASSUME NEW a \in Calls, NEW b \in Calls, a # b, Maker(calls'[a]), Maker(calls'[b])
      PROVE calls'[a].link # calls'[b].link
    BY <2>1, <2>9 DEF LinksOnce, Others
  <2> QED BY <2>5, <2>6, <2>7, <2>8, <2>9 DEF LinksOnce
<1>4. ASSUME NEW c \in Calls, SendMail(c) PROVE LinksOnce'
  <2>1. /\ Others(c) /\ UNCHANGED <<row, issued, spent>> /\ Maker(calls[c])
        /\ mailed' = mailed \cup {calls[c].link}
        /\ calls'[c].kind = "none" /\ \A h \in Secret : calls'[c].entity[h] = Unset
    BY <1>4, MailLinks, HashNames DEF Maker
  <2>2. ASSUME NEW b \in Calls PROVE LinkCall(calls[b])'
    <3>1. CASE b = c
      BY <2>1, <3>1 DEF LinkCall, Maker, UserOf
    <3>2. CASE b # c
      <4>1. calls'[b] = calls[b] /\ LinkCall(calls[b])
        BY <2>1, <3>2, <1>00 DEF Others
      <4>2. Maker(calls[b]) => calls[b].link # calls[c].link
        BY <2>1, <3>2 DEF LinksOnce
      <4> QED BY <2>1, <4>1, <4>2 DEF LinkCall
    <3> QED BY <3>1, <3>2
  <2>3. ASSUME NEW a \in Calls, NEW b \in Calls, a # b, Maker(calls'[a]), Maker(calls'[b])
        PROVE calls'[a].link # calls'[b].link
    BY <2>1, <2>3 DEF LinksOnce, Others, Maker
  <2>4. calls[c].link \in 1 .. issued
    BY <2>1, <1>00 DEF LinkCall
  <2> QED BY <2>1, <2>2, <2>3, <2>4 DEF LinksOnce
<1>5. ASSUME NEW c \in Calls, Passes(c) PROVE LinksOnce'
  <2>1. LinkCall(calls[c])'
    BY <1>5, HashNames DEF Passes, LinkCall, UserOf
  <2> QED BY <1>0, <1>5, <2>1, OnceFrame DEF Passes
<1>6. ASSUME NEW c \in Calls, NEW h \in Secret, Makes(c, h) PROVE LinksOnce'
  <2>1. /\ Others(c) /\ SameLinks /\ UNCHANGED <<mailed, spent>> /\ issued' = issued + 1
        /\ calls'[c].kind \in {"register", "mail"} /\ calls'[c].pc = "compare"
        /\ calls'[c].link = issued + 1 /\ calls'[c].entity[h] = issued + 1
        /\ \A g \in Secret \ {h} : calls'[c].entity[g] \in {Unset, None}
        /\ issued + 1 \in Links
    BY <1>0, <1>6 DEF Makes, Saves, Untouched, Blank
  <2>2. Maker(calls'[c]) /\ \A g \in Secret : UserOf(g) # calls'[c].kind
    BY <2>1 DEF Maker, UserOf
  <2>3. /\ issued + 1 \in 1 .. issued' /\ issued + 1 \notin mailed /\ issued + 1 # Unset
        /\ \A g \in Secret : row'[g] # issued + 1
    BY <2>1, <1>0, HashNames DEF LinksOnce, SameLinks
  <2>4. LinkCall(calls[c])'
    BY <2>1, <2>2, <2>3 DEF LinkCall
  <2> QED BY <1>0, <2>1, <2>4, OnceFrame
<1>7. ASSUME NEW c \in Calls, NEW h \in Secret, Uses(c, h) PROVE LinksOnce'
  <2>1. /\ Others(c) /\ SameLinks /\ UNCHANGED <<mailed, spent, issued>>
        /\ calls'[c].kind = UserOf(h) /\ calls'[c].pc = "compare"
        /\ calls'[c].link \in mailed /\ row[h] = calls'[c].link
        /\ calls'[c].entity[h] = None /\ \A g \in Secret \ {h} : calls'[c].entity[g] = Unset
    BY <1>7 DEF Uses, Saves, Untouched
  <2>2. ~Maker(calls'[c]) /\ \A g \in Secret \ {h} : UserOf(g) # calls'[c].kind
    BY <2>1, HashNames DEF Maker, UserOf
  <2>3. \A g \in Secret \ {h} : row'[g] # calls'[c].link
    <3>1. row[h] # None => \A g \in Secret \ {h} : row[g] # row[h]
      BY DEF LinksOnce
    <3>2. row[h] \in 1 .. issued
      BY <2>1 DEF LinksOnce
    <3>3. row[h] # None
      BY <3>2, <1>0
    <3>4. \A g \in Secret : row'[g] = row[g]
      BY <2>1, HashNames DEF SameLinks
    <3> QED BY <2>1, <3>1, <3>3, <3>4
  <2>4. LinkCall(calls[c])'
    BY <2>1, <2>2, <2>3, <1>0 DEF LinkCall
  <2> QED BY <1>0, <2>1, <2>2, <2>4, OnceFrame
<1>8. ASSUME NEW c \in Calls, Keeps(c) PROVE LinksOnce'
  <2>1. /\ Others(c) /\ SameLinks /\ UNCHANGED <<mailed, spent, issued>>
        /\ ~Maker(calls'[c]) /\ \A h \in Secret : calls'[c].kind # UserOf(h)
        /\ \A h \in Secret : calls'[c].entity[h] = Unset
    BY <1>8 DEF Keeps, Saves, Untouched, Maker, UserOf
  <2>2. LinkCall(calls[c])'
    BY <2>1 DEF LinkCall
  <2> QED BY <1>0, <2>1, <2>2, OnceFrame
<1> QED BY <1>1, <1>2, <1>3, <1>4, <1>5, <1>6, <1>7, <1>8, Shapes DEF Shape

LEMMA OnceInductive == Spec => []LinksOnce
<1>1. Init => LinksOnce
  <2> SUFFICES ASSUME Init PROVE LinksOnce
    OBVIOUS
  <2>1. \A c \in Calls : calls[c] = Idle
    BY DEF Init
  <2>2. ~Maker(Idle) /\ \A h \in Secret : Idle.entity[h] = Unset /\ Idle.kind # UserOf(h)
    BY IdleLinks, HashNames DEF Maker, UserOf
  <2>3. \A h \in Secret : row[h] = None
    BY HashNames DEF Init, NewRow
  <2>4. \A c \in Calls : LinkCall(calls[c])
    BY <2>1, <2>2 DEF LinkCall
  <2> QED BY <2>1, <2>2, <2>3, <2>4 DEF Init, LinksOnce
<1> QED BY <1>1, GroundedInductive, OnceStep, PTL DEF Spec

\* A link that has done its work is never stored again, whatever entities
\* were read before and are saved after it: who holds a link that may still
\* be stored is the call that made it, and has not sent it.
THEOREM LinksWorkOnce == Spec => []SpentLinkDead
<1>1. LinksOnce => SpentLinkDead
  BY HashNames DEF LinksOnce, SpentLinkDead
<1> QED BY <1>1, OnceInductive, PTL

-----------------------------------------------------------------------------
(* A hash and its time *)

\* Unless a call saved a time it had read: a call that saves either changes
\* the hash and the time to the same link, or to nothing, or leaves both, or
\* writes a null that is there already.
WholeCall(call, h) ==
  /\ call.pc = "compare" =>
       \/ /\ call.entity[h] # Unset /\ call.entity[UntilOf(h)] = call.entity[h]
          /\ row[UntilOf(h)] # call.entity[UntilOf(h)]
       \/ Untouched(call.entity, h) \/ Blank(call.entity, h)
  /\ call.pc = "write" =>
       \/ /\ h \in call.changed /\ UntilOf(h) \in call.changed
          /\ call.entity[UntilOf(h)] = call.entity[h]
       \/ h \notin call.changed /\ UntilOf(h) \notin call.changed
       \/ /\ h \in call.changed /\ UntilOf(h) \notin call.changed
          /\ Blank(call.entity, h)

Fresh(h) == h \notin stale /\ UntilOf(h) \notin stale

WholeLink(h) ==
  Fresh(h) =>
    row[h] = row[UntilOf(h)] /\ \A c \in Calls : WholeCall(calls[c], h)

WholeLinks == \A h \in Secret : WholeLink(h)

\* A step of c that writes no column of links.
LEMMA WholeFrame ==
  ASSUME WholeLinks, NEW c \in Calls, Others(c), SameLinks, stale \subseteq stale',
         \A h \in Secret :
           Fresh(h) /\ row[h] = row[UntilOf(h)] /\ WholeCall(calls[c], h) =>
             WholeCall(calls[c], h)'
  PROVE WholeLinks'
<1> SUFFICES ASSUME NEW h \in Secret, Fresh(h)'
             PROVE row'[h] = row'[UntilOf(h)] /\ \A b \in Calls : WholeCall(calls[b], h)'
  BY DEF WholeLinks, WholeLink
<1>1. /\ row'[h] = row[h] /\ row'[UntilOf(h)] = row[UntilOf(h)]
  BY DEF SameLinks, Linked
<1>2. /\ Fresh(h) /\ row[h] = row[UntilOf(h)]
      /\ \A b \in Calls : WholeCall(calls[b], h)
  BY DEF WholeLinks, WholeLink, Fresh
<1>3. WholeCall(calls[c], h)'
  BY <1>2
<1>4. \A b \in Calls \ {c} : WholeCall(calls[b], h)'
  BY <1>1, <1>2 DEF Others, WholeCall, Untouched, Blank
<1> QED BY <1>1, <1>2, <1>3, <1>4

LEMMA WholeStep ==
  TypesInv /\ Grounded /\ LinksOnce /\ WholeLinks /\ [Next]_vars => WholeLinks'
<1> SUFFICES ASSUME TypesInv, Grounded, LinksOnce, WholeLinks, [Next]_vars PROVE WholeLinks'
  OBVIOUS
<1>0. /\ issued \in Nat /\ None \notin Links /\ Unset \notin Links /\ Unset # None
      /\ Links = 1 .. LinkBound /\ LinkBound \in Nat
  BY BoundAssumption, UnsetAssumption DEF TypesInv, Rest, Links
<1>1. ASSUME LinksStill PROVE WholeLinks'
  BY <1>1 DEF LinksStill, WholeLinks, WholeLink, WholeCall, Untouched, Blank, Fresh
<1>2. ASSUME NEW c \in Calls, Compare(c) PROVE WholeLinks'
  <2>1. /\ UNCHANGED <<row, stale>> /\ Others(c)
        /\ calls[c].pc = "compare" /\ calls'[c].pc = "write"
        /\ calls'[c].entity = calls[c].entity
        /\ \A h \in Secret : h \in calls'[c].changed <=> calls[c].entity[h] # Unset
        /\ \A h \in Secret : UntilOf(h) \in calls'[c].changed <=>
                               calls[c].entity[UntilOf(h)] \notin {Unset, row[UntilOf(h)]}
    BY <1>2, CompareLinks, HashNames
  <2>2. ASSUME NEW h \in Secret, WholeCall(calls[c], h) PROVE WholeCall(calls[c], h)'
    <3>1. Blank(calls[c].entity, h) <=> Blank(calls[c].entity, h)'
      BY <2>1 DEF Blank
    <3>2. CASE Blank(calls[c].entity, h)
      BY <1>0, <2>1, <3>1, <3>2 DEF WholeCall, Blank
    <3>3. CASE ~Blank(calls[c].entity, h)
      BY <2>1, <2>2, <3>3 DEF WholeCall, Untouched
    <3> QED BY <3>2, <3>3
  <2> QED BY <2>1, <2>2, WholeFrame DEF SameLinks
<1>3. ASSUME NEW c \in Calls, WriteColumns(c) PROVE WholeLinks'
  <2> SUFFICES ASSUME NEW h \in Secret, Fresh(h)'
               PROVE row'[h] = row'[UntilOf(h)] /\ \A b \in Calls : WholeCall(calls[b], h)'
    BY DEF WholeLinks, WholeLink
  <2> DEFINE u == UntilOf(h)
  <2>1. /\ Others(c) /\ calls[c].pc = "write" /\ stale \subseteq stale'
        /\ row'[h] = IF h \in calls[c].changed THEN calls[c].entity[h] ELSE row[h]
        /\ row'[u] = IF u \in calls[c].changed THEN calls[c].entity[u] ELSE row[u]
        /\ ~Saving(calls'[c])
    BY <1>3, WriteLinks, HashNames
  <2>2. /\ row[h] = row[u] /\ \A b \in Calls : WholeCall(calls[b], h)
    BY <2>1 DEF WholeLinks, WholeLink, Fresh
  <2>3. row'[h] = row'[u]
    BY <2>1, <2>2 DEF WholeCall, Blank
  <2>4. /\ row'[u] # row[u] => ~Outdates(c, u)
        /\ h \in Watched /\ row'[h] # row[h] => ~Outdates(c, h)
    BY <1>3, HashNames DEF WriteColumns, Store, Fresh
  <2>5. ASSUME NEW b \in Calls \ {c} PROVE WholeCall(calls[b], h)'
    <3>1. calls'[b] = calls[b] /\ WholeCall(calls[b], h)
      BY <2>1, <2>2 DEF Others
    <3>2. CASE row'[u] = row[u]
      BY <2>2, <2>3, <3>1, <3>2 DEF WholeCall, Untouched, Blank
    <3>3. CASE row'[u] # row[u]
      <4>1. /\ calls[b].pc = "compare" => calls[b].entity[u] = Unset
            /\ calls[b].pc = "write" => u \notin calls[b].changed
            /\ calls[b].pc = "write" /\ h \in Watched => h \notin calls[b].changed
        BY <2>2, <2>3, <2>4, <3>3 DEF Outdates
      <4>2. calls[b].pc = "compare" => ~Blank(calls[b].entity, h)
        BY <1>0, <4>1 DEF Blank
      <4>3. calls[b].pc = "write" => h \notin calls[b].changed
        BY <3>1, <4>1 DEF WholeCall, Blank
      <4> QED BY <1>0, <3>1, <4>1, <4>2, <4>3 DEF WholeCall, Untouched
    <3> QED BY <3>2, <3>3
  <2>6. WholeCall(calls[c], h)'
    BY <2>1 DEF WholeCall, Saving
  <2> QED BY <2>3, <2>5, <2>6
<1>4. ASSUME NEW c \in Calls, SendMail(c) PROVE WholeLinks'
  <2>1. /\ Others(c) /\ UNCHANGED <<row, stale>> /\ calls'[c].pc = "idle"
    BY <1>4, MailLinks
  <2> QED BY <2>1, WholeFrame DEF SameLinks, WholeCall
<1>5. ASSUME NEW c \in Calls, Passes(c) PROVE WholeLinks'
  BY <1>5, WholeFrame DEF Passes, Saving, WholeCall
<1>6. ASSUME NEW c \in Calls, Saves(c),
             \A h \in Secret :
               \/ Untouched(calls'[c].entity, h) \/ Blank(calls'[c].entity, h)
               \/ /\ calls'[c].entity[h] # Unset
                  /\ calls'[c].entity[UntilOf(h)] = calls'[c].entity[h]
                  /\ row[h] = row[UntilOf(h)] => row[UntilOf(h)] # calls'[c].entity[h]
      PROVE WholeLinks'
  <2>1. /\ Others(c) /\ SameLinks /\ stale' = stale /\ calls'[c].pc = "compare"
    BY <1>6 DEF Saves
  <2>2. \A h \in Secret : row'[UntilOf(h)] = row[UntilOf(h)] /\ row'[h] = row[h]
    BY <2>1 DEF SameLinks, Linked
  <2>3. \A h \in Secret : row[h] = row[UntilOf(h)] => WholeCall(calls[c], h)'
    BY <1>6, <2>1, <2>2 DEF WholeCall, Untouched, Blank
  <2> QED BY <2>1, <2>3, WholeFrame
<1>7. ASSUME NEW c \in Calls, NEW h \in Secret, Makes(c, h) PROVE WholeLinks'
  <2>1. /\ issued + 1 \in Links /\ issued + 1 # Unset
        /\ row[h] # issued + 1
    BY <1>0, <1>7 DEF Makes, LinksOnce
  <2> QED BY <1>6, <1>7, <2>1 DEF Makes
<1>8. ASSUME NEW c \in Calls, NEW h \in Secret, Uses(c, h) PROVE WholeLinks'
  BY <1>0, <1>6, <1>8 DEF Uses
<1>9. ASSUME NEW c \in Calls, Keeps(c) PROVE WholeLinks'
  BY <1>6, <1>9 DEF Keeps
<1> QED BY <1>1, <1>2, <1>3, <1>4, <1>5, <1>7, <1>8, <1>9, Shapes DEF Shape

\* The hash in the row and the time beside it are of one link, or both null:
\* no other call's time ends a link or keeps it good, unless a call that had
\* read a time saved it over a newer one, or a registration saved the nulls
\* it was inserted with over a reset that was asked for meanwhile.
THEOREM LinksStayWhole == Spec => []LinksWhole
<1>1. Init => WholeLinks
  <2> SUFFICES ASSUME Init PROVE WholeLinks
    OBVIOUS
  <2>1. \A c \in Calls : calls[c].pc = "idle"
    BY IdleLinks DEF Init
  <2>2. \A h \in Secret : row[h] = None /\ row[UntilOf(h)] = None
    BY HashNames DEF Init, NewRow
  <2> QED BY <2>1, <2>2 DEF WholeLinks, WholeLink, WholeCall
<1>2. TypesInv /\ WholeLinks => LinksWhole
  <2>1. TypesInv => "verifyHash" \notin stale
    BY DEF TypesInv, Rest, Watched
  <2> QED BY <2>1, HashNames DEF WholeLinks, WholeLink, Fresh, LinksWhole
<1> QED BY <1>1, <1>2, GroundedInductive, OnceInductive, WholeStep, PTL DEF Spec

=============================================================================
