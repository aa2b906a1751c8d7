--------------------------- MODULE AccountsProofs ---------------------------
(***************************************************************************)
(* Theorems about Accounts, for any number of calls, links and Google      *)
(* accounts.                                                               *)
(***************************************************************************)
EXTENDS Accounts, TLAPS

\* A call is of the right form: what it is going to write is held by its
\* entity, and who sends or uses a link has one.
CallOK(x) ==
  /\ x \in Call
  /\ x.pc = "write" => \A y \in x.changed : x.entity[y] # Unset
  /\ x.kind \in {"register", "mail", "verify", "reset"} /\ x.pc # "insert" => x.link \in Links
  /\ x.pc = "mail" => x.kind \in {"register", "mail"}

CallsOK ==
  /\ DOMAIN calls = Calls /\ calls = [c \in Calls |-> calls[c]]
  /\ \A c \in Calls : CallOK(calls[c])

LEMMA RowTypes ==
  ASSUME NEW p \in {"LOCAL", "GOOGLE"}, NEW g \in GoogleIds \cup {None}
  PROVE NewRow(p, g) \in Row
  BY DEF NewRow, Row

LEMMA NothingType == Nothing \in Entity
  BY DEF Nothing, Entity, Columns

LEMMA LoadedType ==
  ASSUME row \in Row, NEW s
  PROVE /\ Loaded(s) \in Entity
        /\ \A x \in Columns \ Secret : Loaded(s)[x] = row[x]
  BY DEF Loaded, Row, Entity, Columns, Secret

LEMMA MergedType ==
  ASSUME row \in Row, NEW e \in Entity, NEW s \in SUBSET Columns,
         \A x \in s : e[x] # Unset
  PROVE Merged(e, s) \in Row
  BY DEF Merged, Row, Entity, Columns

\* One call changes, to something of the right form.
LEMMA OneCall ==
  ASSUME CallsOK, NEW c \in Calls, NEW x, CallOK(x), calls' = [calls EXCEPT ![c] = x]
  PROVE CallsOK'
  BY DEF CallsOK, CallOK

LEMMA IdleType == CallOK(Idle) /\ Idle.pc = "idle"
  BY NothingType DEF Idle, Call, Steps, CallOK

LEMMA StartType ==
  ASSUME CallsOK, NEW c \in Calls, NEW k \in Kinds, NEW s \in Steps \ {"write", "mail"},
         k \in {"google", "session", "promote"} \/ s = "insert", Start(c, k, s)
  PROVE CallsOK'
<1> DEFINE x == [Idle EXCEPT !.pc = s, !.kind = k]
<1>1. CallOK(x)
  BY NothingType DEF Idle, Call, CallOK
<1> QED BY <1>1, OneCall DEF Start

LEMMA SaveType ==
  ASSUME CallsOK, NEW c \in Calls, NEW k \in Kinds, NEW e \in Entity,
         NEW l \in Links \cup {None}, NEW g \in GoogleIds \cup {None},
         l \in Links \/ k \in {"google", "name"}, Save(c, k, e, l, g)
  PROVE CallsOK'
<1> DEFINE x == [pc |-> "compare", kind |-> k, entity |-> e, changed |-> {},
                 link |-> l, google |-> g]
<1>1. CallOK(x)
  BY DEF Call, CallOK, Steps
<1> QED BY <1>1, OneCall DEF Save

LEMMA EndType ==
  ASSUME CallsOK, NEW c \in Calls, calls' = [calls EXCEPT ![c] = Idle]
  PROVE CallsOK'
  BY OneCall, IdleType

\* A call that has no link moves on with what it has.
LEMMA MoveType ==
  ASSUME CallsOK, NEW c \in Calls, NEW s \in Steps \ {"write", "mail"},
         calls[c].pc \in {"byEmail", "drop", "lookup"}, calls' = [calls EXCEPT ![c].pc = s]
  PROVE CallsOK'
<1> DEFINE x == [calls[c] EXCEPT !.pc = s]
<1>1. CallOK(x)
  BY DEF CallsOK, CallOK, Call
<1>2. calls' = [calls EXCEPT ![c] = x]
  BY DEF CallsOK
<1> QED BY <1>1, <1>2, OneCall

Rest ==
  /\ exists \in BOOLEAN /\ profile \in BOOLEAN /\ session \in BOOLEAN
  /\ row \in Row
  /\ issued \in 0 .. LinkBound /\ lapsed \in 0 .. LinkBound
  /\ mailed \subseteq Links /\ spent \subseteq Links
  /\ proven \in BOOLEAN /\ loggedOut \in BOOLEAN
  /\ stale \subseteq Watched

LEMMA TypeStep == CallsOK /\ Rest /\ [Next]_vars => CallsOK' /\ Rest'
<1> SUFFICES ASSUME CallsOK, Rest, [Next]_vars PROVE CallsOK' /\ Rest'
  OBVIOUS
<1> USE BoundAssumption
<1>1. ASSUME NEW c \in Calls, Compare(c) PROVE CallsOK' /\ Rest'
  <2> DEFINE x == [calls[c] EXCEPT !.pc = "write", !.changed = Differing(calls[c].entity)]
  <2>1. calls' = [calls EXCEPT ![c] = x]
    BY <1>1 DEF Compare, CallsOK
  <2>2. CallOK(x)
    BY <1>1, ZenonT(40) DEF CallsOK, CallOK, Call, Differing, Steps, Compare
  <2>3. CallsOK'
    BY <2>1, <2>2, OneCall
  <2> QED BY <1>1, <2>3 DEF Compare, Rest
<1>2. ASSUME NEW c \in Calls, WriteColumns(c) PROVE CallsOK' /\ Rest'
  <2> DEFINE x == IF NextStep(calls[c].kind) = "idle" THEN Idle
                  ELSE [Idle EXCEPT !.pc = NextStep(calls[c].kind), !.kind = calls[c].kind,
                                    !.link = calls[c].link]
  <2>1. CallOK(calls[c]) /\ calls[c] \in Call /\ calls[c].pc = "write"
    BY <1>2 DEF CallsOK, CallOK, WriteColumns
  <2>2. /\ NextStep(calls[c].kind) \in {"mail", "open", "idle"}
        /\ NextStep(calls[c].kind) = "mail" <=> calls[c].kind \in {"register", "mail"}
        /\ NextStep(calls[c].kind) = "open" <=> calls[c].kind = "google"
    BY DEF NextStep
  <2>3. CallOK(x)
    <3>1. CASE NextStep(calls[c].kind) = "idle"
      BY <3>1, IdleType
    <3>2. CASE NextStep(calls[c].kind) # "idle"
      BY <3>2, <2>1, <2>2, NothingType DEF Idle, Call, CallOK, Steps, Kinds
    <3> QED BY <3>1, <3>2
  <2>4. CallsOK'
    BY <1>2, <2>3, OneCall DEF WriteColumns
  <2>5. row' \in Row
    BY <1>2, <2>1, MergedType DEF WriteColumns, Store, Rest, Call, CallOK
  <2>6. spent' \subseteq Links
    BY <1>2, <2>1 DEF WriteColumns, Rest, CallOK
  <2> QED BY <1>2, <2>4, <2>5, <2>6 DEF WriteColumns, Store, Rest
<1>3. ASSUME NEW c \in Calls, CallFails(c) PROVE CallsOK' /\ Rest'
  <2>1. CallsOK'
    BY <1>3, EndType DEF CallFails
  <2>2. Rest'
    BY <1>3 DEF CallFails, Rest
  <2> QED BY <2>1, <2>2
<1>4. ASSUME NEW c \in Calls, register(c) PROVE CallsOK' /\ Rest'
  <2>1. CallsOK'
    BY <1>4, StartType DEF register, Kinds, Steps
  <2>2. Rest'
    BY <1>4 DEF register, Rest
  <2> QED BY <2>1, <2>2
<1>5. ASSUME NEW c \in Calls, Insert(c) PROVE CallsOK' /\ Rest'
  <2>1. CASE exists
    BY <1>5, <2>1, EndType DEF Insert, Rest
  <2>2. CASE ~exists
    <3> DEFINE new == NewRow("LOCAL", None)
               held(other) == [x \in Columns |-> IF x \in {"role", "verified", "provider"}
                                                 THEN new[x] ELSE other]
               e(other) == WithVerification(held(other), issued + 1)
    <3>0. PICK other \in {None, Unset} : Save(c, "register", e(other), issued + 1, None)
      BY <1>5, <2>2 DEF Insert
    <3>1. issued + 1 \in Links
      BY <1>5 DEF Insert, Rest, Links
    <3>2. new \in Row
      BY RowTypes
    <3>3. e(other) \in Entity
      BY <3>1, <3>2 DEF WithVerification, Entity, Row, Columns
    <3>4. CallsOK'
      BY <3>0, <3>1, <3>3, SaveType DEF Kinds
    <3> QED BY <1>5, <2>2, <3>1, <3>2, <3>4 DEF Insert, Rest, Links
  <2> QED BY <2>1, <2>2
<1>6. ASSUME NEW c \in Calls, resendVerificationEmail(c) PROVE CallsOK' /\ Rest'
  <2>1. issued + 1 \in Links /\ issued' = issued + 1
    BY <1>6 DEF resendVerificationEmail, Rest, Links
  <2>2. Loaded({}) \in Entity
    BY LoadedType DEF Rest
  <2>3. WithVerification(Loaded({}), issued + 1) \in Entity
    BY <2>1, <2>2 DEF WithVerification, Entity
  <2>4. CallsOK'
    BY <1>6, <2>1, <2>3, SaveType DEF resendVerificationEmail, Kinds
  <2> QED BY <1>6, <2>1, <2>4 DEF resendVerificationEmail, Rest, Links
<1>7. ASSUME NEW c \in Calls, forgotPassword(c) PROVE CallsOK' /\ Rest'
  <2>1. issued + 1 \in Links /\ issued' = issued + 1
    BY <1>7 DEF forgotPassword, Rest, Links
  <2>2. Loaded({}) \in Entity
    BY LoadedType DEF Rest
  <2>3. WithReset(Loaded({}), issued + 1) \in Entity
    BY <2>1, <2>2 DEF WithReset, Entity
  <2>4. CallsOK'
    BY <1>7, <2>1, <2>3, SaveType DEF forgotPassword, Kinds
  <2> QED BY <1>7, <2>1, <2>4 DEF forgotPassword, Rest, Links
<1>8. ASSUME NEW c \in Calls, SendMail(c) PROVE CallsOK' /\ Rest'
  <2>1. calls[c].link \in Links
    BY <1>8 DEF CallsOK, CallOK, SendMail
  <2>2. CallsOK'
    BY <1>8, EndType DEF SendMail
  <2> QED BY <1>8, <2>1, <2>2 DEF SendMail, Rest
<1>9. ASSUME LinkLapses PROVE CallsOK' /\ Rest'
  BY <1>9 DEF LinkLapses, Rest, CallsOK
<1>10. ASSUME NEW c \in Calls, NEW link \in Links, verifyEmail(c, link) PROVE CallsOK' /\ Rest'
  <2>1. Loaded({"verifyHash"}) \in Entity
    BY LoadedType DEF Rest
  <2>2. Verified(Loaded({"verifyHash"})) \in Entity
    BY <2>1 DEF Verified, Entity
  <2>3. CallsOK'
    BY <1>10, <2>2, SaveType DEF verifyEmail, Kinds
  <2> QED BY <1>10, <2>3 DEF verifyEmail, Rest
<1>11. ASSUME NEW c \in Calls, NEW link \in Links, resetPassword(c, link) PROVE CallsOK' /\ Rest'
  <2>1. Loaded({"resetHash"}) \in Entity
    BY LoadedType DEF Rest
  <2>2. Reset(Loaded({"resetHash"})) \in Entity
    BY <2>1 DEF Reset, Entity
  <2>3. CallsOK'
    BY <1>11, <2>2, SaveType DEF resetPassword, Kinds
  <2> QED BY <1>11, <2>3 DEF resetPassword, Rest
<1>12. ASSUME NEW c \in Calls, login(c) PROVE CallsOK' /\ Rest'
  <2>1. CallsOK'
    BY <1>12, StartType DEF login, Kinds, Steps
  <2>2. Rest'
    BY <1>12 DEF login, Rest
  <2> QED BY <2>1, <2>2
<1>13. ASSUME NEW c \in Calls, NEW g \in GoogleIds, loginWithGoogle(c, g)
      PROVE CallsOK' /\ Rest'
  <2>1. CallsOK'
    <3>1. CASE exists /\ row.google = g
      BY <1>13, <3>1, StartType DEF loginWithGoogle, Kinds, Steps
    <3>2. CASE ~(exists /\ row.google = g)
      <4> DEFINE x == [Idle EXCEPT !.pc = "byEmail", !.kind = "google", !.google = g]
      <4>1. CallOK(x)
        BY NothingType DEF Idle, Call, CallOK, Steps, Kinds
      <4> QED BY <1>13, <3>2, <4>1, OneCall DEF loginWithGoogle
    <3> QED BY <3>1, <3>2
  <2> QED BY <1>13, <2>1 DEF loginWithGoogle, Rest
<1>14. ASSUME NEW c \in Calls, FindByEmail(c) PROVE CallsOK' /\ Rest'
  <2> DEFINE g == calls[c].google
  <2>1. CASE ~exists
    BY <1>14, <2>1, MoveType DEF FindByEmail, Steps, Rest
  <2>2. CASE exists /\ row.provider = "GOOGLE"
    <3>1. g \in GoogleIds \cup {None}
      BY DEF CallsOK, CallOK, Call
    <3>2. Loaded({}) \in Entity
      BY LoadedType DEF Rest
    <3>3. Relinked(Loaded({}), g) \in Entity
      BY <3>1, <3>2 DEF Relinked, Entity
    <3> QED BY <1>14, <2>2, <3>1, <3>3, SaveType DEF FindByEmail, Kinds, Rest
  <2>3. CASE exists /\ row.provider # "GOOGLE"
    BY <1>14, <2>3, EndType DEF FindByEmail, Rest
  <2> QED BY <2>1, <2>2, <2>3
<1>15. ASSUME NEW c \in Calls, InsertGoogle(c) PROVE CallsOK' /\ Rest'
  <2>1. CASE exists
    BY <1>15, <2>1, EndType DEF InsertGoogle, Rest
  <2>2. CASE ~exists
    <3>1. NewRow("GOOGLE", calls[c].google) \in Row
      BY RowTypes DEF CallsOK, CallOK, Call
    <3>2. CallsOK'
      BY <1>15, <2>2, StartType DEF InsertGoogle, Kinds, Steps
    <3> QED BY <1>15, <2>2, <3>1, <3>2 DEF InsertGoogle, Rest
  <2> QED BY <2>1, <2>2
<1>16. ASSUME NEW c \in Calls, OpenSession(c) PROVE CallsOK' /\ Rest'
  <2>1. CallsOK'
    BY <1>16, EndType DEF OpenSession
  <2>2. Rest'
    BY <1>16 DEF OpenSession, Rest
  <2> QED BY <2>1, <2>2
<1>17. ASSUME NEW c \in Calls, DropToken(c) PROVE CallsOK' /\ Rest'
  <2>1. CallsOK'
    BY <1>17, MoveType DEF DropToken, Steps
  <2>2. Rest'
    BY <1>17 DEF DropToken, Rest
  <2> QED BY <2>1, <2>2
<1>18. ASSUME NEW c \in Calls, refresh(c) PROVE CallsOK' /\ Rest'
  <2>1. CallsOK'
    BY <1>18, StartType DEF refresh, Kinds, Steps
  <2>2. Rest'
    BY <1>18 DEF refresh, Rest
  <2> QED BY <2>1, <2>2
<1>19. ASSUME NEW c \in Calls, LookUp(c) PROVE CallsOK' /\ Rest'
  <2>1. CASE row.verified
    <3>1. calls' = [calls EXCEPT ![c].pc = "open"]
      BY <1>19, <2>1 DEF LookUp, CallsOK
    <3> QED BY <1>19, <3>1, MoveType DEF LookUp, Steps, Rest
  <2>2. CASE ~row.verified
    BY <1>19, <2>2, EndType DEF LookUp, Rest
  <2> QED BY <2>1, <2>2
<1>20. ASSUME NEW c \in Calls, updateUserName(c) PROVE CallsOK' /\ Rest'
  <2>1. Loaded({}) \in Entity
    BY LoadedType DEF Rest
  <2> QED BY <1>20, <2>1, SaveType DEF updateUserName, Kinds, Rest
<1>21. ASSUME NEW c \in Calls, promoteToDriver(c) PROVE CallsOK' /\ Rest'
  <2>1. CallsOK'
    BY <1>21, StartType DEF promoteToDriver, Kinds, Steps
  <2>2. Rest'
    BY <1>21 DEF promoteToDriver, Rest
  <2> QED BY <2>1, <2>2
<1>22. ASSUME NEW c \in Calls, CommitPromotion(c) PROVE CallsOK' /\ Rest'
  <2>1. CallsOK'
    BY <1>22, EndType DEF CommitPromotion
  <2>2. Promoted(row) \in Row
    BY DEF Promoted, Row, Rest
  <2> QED BY <1>22, <2>1, <2>2 DEF CommitPromotion, Store, Rest
<1>23. ASSUME logout PROVE CallsOK' /\ Rest'
  BY <1>23 DEF logout, Rest, CallsOK
<1>24. ASSUME SessionExpires PROVE CallsOK' /\ Rest'
  BY <1>24 DEF SessionExpires, Rest, CallsOK
<1>25. ASSUME UNCHANGED vars PROVE CallsOK' /\ Rest'
  BY <1>25 DEF vars, Rest, CallsOK
<1> QED BY <1>1, <1>2, <1>3, <1>4, <1>5, <1>6, <1>7, <1>8, <1>9, <1>10, <1>11, <1>12, <1>13,
           <1>14, <1>15, <1>16, <1>17, <1>18, <1>19, <1>20, <1>21, <1>22, <1>23, <1>24, <1>25
           DEF Next

TypesInv == CallsOK /\ Rest

LEMMA TypesInductive == Spec => []TypesInv
<1>1. Init => TypesInv
  <2> SUFFICES ASSUME Init PROVE TypesInv
    OBVIOUS
  <2>1. CallsOK
    BY IdleType DEF Init, CallsOK
  <2>2. row \in Row
    BY RowTypes DEF Init
  <2>3. issued \in 0 .. LinkBound /\ lapsed \in 0 .. LinkBound
    BY BoundAssumption DEF Init
  <2>4. Rest
    BY <2>2, <2>3 DEF Init, Rest
  <2> QED BY <2>1, <2>4 DEF TypesInv
<1> QED BY <1>1, TypeStep, PTL DEF Spec, TypesInv

\* Type correctness: whatever the calls in progress read and save, the row
\* holds values of its columns, and a link that is mailed or spent exists.
THEOREM TypeCorrect == Spec => []TypeOK
<1>1. TypesInv => TypeOK
  BY DEF TypesInv, CallsOK, CallOK, Rest, TypeOK
<1> QED BY <1>1, TypesInductive, PTL

\* What the other properties need to know of a call that starts, saves, ends
\* or moves on.
Others(c) == \A b \in Calls \ {c} : calls'[b] = calls[b]

LEMMA StartFields ==
  ASSUME CallsOK, NEW c \in Calls, NEW k, NEW s, Start(c, k, s)
  PROVE /\ Others(c) /\ calls'[c].entity = Nothing /\ calls'[c].kind = k /\ calls'[c].pc = s
<1>1. calls'[c] = [Idle EXCEPT !.pc = s, !.kind = k] /\ Others(c)
  BY DEF Start, CallsOK, Others
<1> QED BY <1>1 DEF Idle

LEMMA SaveFields ==
  ASSUME CallsOK, NEW c \in Calls, NEW k, NEW e, NEW l, NEW g, Save(c, k, e, l, g)
  PROVE Others(c) /\ calls'[c].entity = e /\ calls'[c].kind = k /\ calls'[c].pc = "compare"
  BY DEF Save, CallsOK, Others

LEMMA EndFields ==
  ASSUME CallsOK, NEW c \in Calls, calls' = [calls EXCEPT ![c] = Idle]
  PROVE /\ Others(c) /\ calls'[c].entity = Nothing /\ calls'[c].kind = "none"
        /\ calls'[c].pc = "idle"
  BY DEF CallsOK, Others, Idle

LEMMA MoveFields ==
  ASSUME CallsOK, NEW c \in Calls, NEW s, calls' = [calls EXCEPT ![c].pc = s]
  PROVE /\ Others(c) /\ calls'[c].entity = calls[c].entity /\ calls'[c].kind = calls[c].kind
        /\ calls'[c].pc = s
<1>1. calls'[c] = [calls[c] EXCEPT !.pc = s] /\ Others(c)
  BY DEF CallsOK, Others
<1>2. calls[c] \in Call
  BY DEF CallsOK, CallOK
<1> QED BY <1>1, <1>2 DEF Call

LEMMA CompareFields ==
  ASSUME CallsOK, NEW c \in Calls, Compare(c)
  PROVE /\ Others(c) /\ calls'[c].entity = calls[c].entity /\ calls'[c].kind = calls[c].kind
        /\ calls'[c].pc = "write" /\ calls'[c].changed = Differing(calls[c].entity)
<1>1. /\ calls'[c] = [calls[c] EXCEPT !.pc = "write", !.changed = Differing(calls[c].entity)]
      /\ Others(c)
  BY DEF CallsOK, Others, Compare
<1>2. calls[c] \in Call
  BY DEF CallsOK, CallOK
<1> QED BY <1>1, <1>2 DEF Call

LEMMA WriteFields ==
  ASSUME CallsOK, NEW c \in Calls, WriteColumns(c)
  PROVE /\ Others(c) /\ calls'[c].entity = Nothing
        /\ calls'[c].pc = NextStep(calls[c].kind)
        /\ calls'[c].kind \in {calls[c].kind, "none"}
        /\ calls'[c].pc # "idle" => calls'[c].kind = calls[c].kind
<1>1. calls'[c] = IF NextStep(calls[c].kind) = "idle" THEN Idle
                  ELSE [Idle EXCEPT !.pc = NextStep(calls[c].kind), !.kind = calls[c].kind,
                                    !.link = calls[c].link]
  BY DEF CallsOK, WriteColumns
<1>2. Others(c)
  BY DEF CallsOK, WriteColumns, Others
<1> QED BY <1>1, <1>2 DEF Idle

LEMMA GoogleFields ==
  ASSUME CallsOK, NEW c \in Calls, NEW g,
         calls' = [calls EXCEPT ![c] = [Idle EXCEPT !.pc = "byEmail", !.kind = "google",
                                                    !.google = g]]
  PROVE /\ Others(c) /\ calls'[c].entity = Nothing /\ calls'[c].kind = "google"
        /\ calls'[c].pc = "byEmail"
<1>1. calls'[c] = [Idle EXCEPT !.pc = "byEmail", !.kind = "google", !.google = g]
  BY DEF CallsOK
<1>2. Others(c)
  BY DEF CallsOK, Others
<1>3. Idle.entity = Nothing
  BY DEF Idle
<1>4. calls'[c].entity = Nothing
  BY <1>1, <1>3 DEF Idle
<1>5. calls'[c].kind = "google" /\ calls'[c].pc = "byEmail"
  BY <1>1, ZenonT(40) DEF Idle
<1> QED BY <1>2, <1>4, <1>5

LEMMA NothingFields == Nothing.role = Unset /\ Nothing.verified = Unset /\ Nothing.google = Unset
  BY DEF Nothing, Columns

LEMMA LoadedFields ==
  ASSUME row \in Row, NEW s
  PROVE /\ Loaded(s) \in Entity
        /\ Loaded(s).role = row.role /\ Loaded(s).verified = row.verified
        /\ Loaded(s).google = row.google
  BY DEF Loaded, Row, Entity, Columns, Secret

LEMMA VerificationFields ==
  ASSUME row \in Row, NEW s, NEW l
  PROVE /\ WithVerification(Loaded(s), l).role = row.role
        /\ WithVerification(Loaded(s), l).verified = row.verified
        /\ WithVerification(Loaded(s), l).google = row.google
<1> DEFINE e == Loaded(s)
<1>1. e \in Entity /\ e.role = row.role /\ e.verified = row.verified /\ e.google = row.google
  BY LoadedFields
<1> HIDE DEF e
<1>2. /\ WithVerification(e, l).role = e.role /\ WithVerification(e, l).verified = e.verified
        /\ WithVerification(e, l).google = e.google
  BY <1>1 DEF WithVerification, Entity
<1> QED BY <1>1, <1>2 DEF e

LEMMA ResetLinkFields ==
  ASSUME row \in Row, NEW s, NEW l
  PROVE /\ WithReset(Loaded(s), l).role = row.role
        /\ WithReset(Loaded(s), l).verified = row.verified
        /\ WithReset(Loaded(s), l).google = row.google
<1> DEFINE e == Loaded(s)
<1>1. e \in Entity /\ e.role = row.role /\ e.verified = row.verified /\ e.google = row.google
  BY LoadedFields
<1> HIDE DEF e
<1>2. /\ WithReset(e, l).role = e.role /\ WithReset(e, l).verified = e.verified
        /\ WithReset(e, l).google = e.google
  BY <1>1 DEF WithReset, Entity
<1> QED BY <1>1, <1>2 DEF e

LEMMA VerifiedFields ==
  ASSUME row \in Row, NEW s
  PROVE /\ Verified(Loaded(s)).role = row.role /\ Verified(Loaded(s)).verified = TRUE
        /\ Verified(Loaded(s)).google = row.google
<1> DEFINE e == Loaded(s)
<1>1. e \in Entity /\ e.role = row.role /\ e.verified = row.verified /\ e.google = row.google
  BY LoadedFields
<1> HIDE DEF e
<1>2. /\ Verified(e).role = e.role /\ Verified(e).verified = TRUE
        /\ Verified(e).google = e.google
  BY <1>1 DEF Verified, Entity
<1> QED BY <1>1, <1>2 DEF e

LEMMA ResetFields ==
  ASSUME row \in Row, NEW s
  PROVE /\ Reset(Loaded(s)).role = row.role /\ Reset(Loaded(s)).verified = row.verified
        /\ Reset(Loaded(s)).google = row.google
<1> DEFINE e == Loaded(s)
<1>1. e \in Entity /\ e.role = row.role /\ e.verified = row.verified /\ e.google = row.google
  BY LoadedFields
<1> HIDE DEF e
<1>2. /\ Reset(e).role = e.role /\ Reset(e).verified = e.verified
        /\ Reset(e).google = e.google
  BY <1>1 DEF Reset, Entity
<1> QED BY <1>1, <1>2 DEF e

LEMMA RelinkedFields ==
  ASSUME row \in Row, NEW s, NEW l
  PROVE /\ Relinked(Loaded(s), l).role = row.role /\ Relinked(Loaded(s), l).verified = TRUE
<1> DEFINE e == Loaded(s)
<1>1. e \in Entity /\ e.role = row.role /\ e.verified = row.verified /\ e.google = row.google
  BY LoadedFields
<1> HIDE DEF e
<1>2. /\ Relinked(e, l).role = e.role /\ Relinked(e, l).verified = TRUE
  BY <1>1 DEF Relinked, Entity
<1> QED BY <1>1, <1>2 DEF e


\* What a sign-up inserts and goes on to save.
LEMMA InsertFields ==
  ASSUME CallsOK, NEW c \in Calls, Insert(c), ~exists
  PROVE /\ Others(c) /\ calls'[c].kind = "register" /\ calls'[c].pc = "compare"
        /\ calls'[c].entity.role = "CUSTOMER" /\ calls'[c].entity.verified = FALSE
        /\ calls'[c].entity.google \notin GoogleIds
        /\ row' = NewRow("LOCAL", None) /\ exists'
<1> DEFINE new == NewRow("LOCAL", None)
           held(other) == [x \in Columns |-> IF x \in {"role", "verified", "provider"}
                                             THEN new[x] ELSE other]
           e(other) == WithVerification(held(other), issued + 1)
<1>1. PICK other \in {None, Unset} :
        Save(c, "register", e(other), issued + 1, None) /\ row' = new /\ exists'
  BY DEF Insert
<1>2. /\ Others(c) /\ calls'[c].entity = e(other)
      /\ calls'[c].kind = "register" /\ calls'[c].pc = "compare"
  BY <1>1, SaveFields
<1>3. /\ e(other).role = new.role /\ e(other).verified = new.verified
      /\ e(other).google = other
  BY DEF WithVerification, Columns
<1>4. other \notin GoogleIds
  BY UnsetAssumption
<1> QED BY <1>1, <1>2, <1>3, <1>4 DEF NewRow

-----------------------------------------------------------------------------
(* Profiles *)

\* The role of a driver is nowhere, neither in the row nor in an entity that
\* may be saved, before the profile is there.
ProfilesFirst ==
  /\ row.role = "DRIVER" => profile
  /\ \A c \in Calls : calls[c].entity.role = "DRIVER" => profile

LEMMA ProfilesFrame ==
  ASSUME ProfilesFirst, NEW c \in Calls, Others(c), profile => profile',
         row'.role = "DRIVER" => row.role = "DRIVER" \/ profile',
         calls'[c].entity.role = "DRIVER" =>
           profile' \/ row.role = "DRIVER" \/ calls[c].entity.role = "DRIVER"
  PROVE ProfilesFirst'
  BY DEF ProfilesFirst, Others

LEMMA ProfilesStep == TypesInv /\ ProfilesFirst /\ [Next]_vars => ProfilesFirst'
<1> SUFFICES ASSUME TypesInv, ProfilesFirst, [Next]_vars PROVE ProfilesFirst'
  OBVIOUS
<1>0. /\ row \in Row /\ CallsOK /\ row.verified \in BOOLEAN /\ proven \in BOOLEAN
      /\ row.google \in GoogleIds \cup {None} /\ profile \in BOOLEAN
  BY DEF TypesInv, Rest, Row
<1> USE <1>0, NothingFields, UnsetAssumption
<1>1. ASSUME NEW c \in Calls, Compare(c) PROVE ProfilesFirst'
  BY <1>1, CompareFields, ProfilesFrame DEF Compare
<1>2. ASSUME NEW c \in Calls, WriteColumns(c) PROVE ProfilesFirst'
  <2>1. row'.role \in {row.role, calls[c].entity.role} /\ profile' = profile
    BY <1>2 DEF WriteColumns, Store, Merged, Columns
  <2> QED BY <1>2, <2>1, WriteFields, ProfilesFrame DEF ProfilesFirst
<1>3. ASSUME NEW c \in Calls, CallFails(c) PROVE ProfilesFirst'
  BY <1>3, EndFields, ProfilesFrame DEF CallFails
<1>4. ASSUME NEW c \in Calls, register(c) PROVE ProfilesFirst'
  <2>1. UNCHANGED <<exists, row, profile, session, proven, stale, loggedOut>>
    BY <1>4 DEF register
  <2>2. /\ Others(c) /\ calls'[c].entity = Nothing
        /\ calls'[c].kind = "register" /\ calls'[c].pc = "insert"
    BY <1>4, StartFields DEF register
  <2> QED BY <2>1, <2>2, ProfilesFrame
<1>5. ASSUME NEW c \in Calls, Insert(c) PROVE ProfilesFirst'
  <2>1. CASE exists
    BY <1>5, <2>1, EndFields, ProfilesFrame DEF Insert
  <2>2. CASE ~exists
    <3>1. row' = NewRow("LOCAL", None)
      BY <1>5, <2>2, InsertFields
    <3>2. row'.role = "CUSTOMER" /\ row'.verified = FALSE /\ row'.google = None
      BY <3>1 DEF NewRow
    <3>3. UNCHANGED <<profile, session, proven, stale, loggedOut>>
      BY <1>5 DEF Insert
    <3>4. /\ Others(c) /\ calls'[c].kind = "register" /\ calls'[c].pc = "compare"
          /\ calls'[c].entity.role = "CUSTOMER" /\ calls'[c].entity.verified = FALSE
          /\ calls'[c].entity.google \notin GoogleIds
      BY <1>5, <2>2, InsertFields
    <3> QED BY <3>2, <3>3, <3>4, ProfilesFrame
  <2> QED BY <2>1, <2>2
<1>6. ASSUME NEW c \in Calls, resendVerificationEmail(c) PROVE ProfilesFirst'
  <2> DEFINE e == WithVerification(Loaded({}), issued + 1)
  <2>1. e.role = row.role /\ e.google = row.google /\ e.verified = row.verified
    BY VerificationFields
  <2>2. Save(c, "mail", e, issued + 1, None)
    BY <1>6 DEF resendVerificationEmail
  <2>3. /\ Others(c) /\ calls'[c].entity = e /\ calls'[c].kind = "mail"
        /\ calls'[c].pc = "compare"
    BY <2>2, SaveFields
  <2>4. UNCHANGED <<row, profile, session, proven, stale, loggedOut>> /\ exists' = exists /\ exists
    BY <1>6 DEF resendVerificationEmail
  <2> HIDE DEF e
  <2> QED BY <2>1, <2>3, <2>4, ProfilesFrame
<1>7. ASSUME NEW c \in Calls, forgotPassword(c) PROVE ProfilesFirst'
  <2> DEFINE e == WithReset(Loaded({}), issued + 1)
  <2>1. e.role = row.role /\ e.google = row.google /\ e.verified = row.verified
    BY ResetLinkFields
  <2>2. Save(c, "mail", e, issued + 1, None)
    BY <1>7 DEF forgotPassword
  <2>3. /\ Others(c) /\ calls'[c].entity = e /\ calls'[c].kind = "mail"
        /\ calls'[c].pc = "compare"
    BY <2>2, SaveFields
  <2>4. UNCHANGED <<row, profile, session, proven, stale, loggedOut>> /\ exists' = exists /\ exists
    BY <1>7 DEF forgotPassword
  <2> HIDE DEF e
  <2> QED BY <2>1, <2>3, <2>4, ProfilesFrame
<1>8. ASSUME NEW c \in Calls, SendMail(c) PROVE ProfilesFirst'
  BY <1>8, EndFields, ProfilesFrame DEF SendMail
<1>9. ASSUME NEW c \in Calls, NEW link \in Links, verifyEmail(c, link) PROVE ProfilesFirst'
  <2> DEFINE e == Verified(Loaded({"verifyHash"}))
  <2>1. e.role = row.role /\ e.google = row.google /\ e.verified = TRUE
    BY VerifiedFields
  <2>2. Save(c, "verify", e, link, None)
    BY <1>9 DEF verifyEmail
  <2>3. /\ Others(c) /\ calls'[c].entity = e /\ calls'[c].kind = "verify"
        /\ calls'[c].pc = "compare"
    BY <2>2, SaveFields
  <2>4. UNCHANGED <<row, profile, session, proven, stale, loggedOut>> /\ exists' = exists /\ exists
    BY <1>9 DEF verifyEmail
  <2> HIDE DEF e
  <2> QED BY <2>1, <2>3, <2>4, ProfilesFrame
<1>10. ASSUME NEW c \in Calls, NEW link \in Links, resetPassword(c, link) PROVE ProfilesFirst'
  <2> DEFINE e == Reset(Loaded({"resetHash"}))
  <2>1. e.role = row.role /\ e.google = row.google /\ e.verified = row.verified
    BY ResetFields
  <2>2. Save(c, "reset", e, link, None)
    BY <1>10 DEF resetPassword
  <2>3. /\ Others(c) /\ calls'[c].entity = e /\ calls'[c].kind = "reset"
        /\ calls'[c].pc = "compare"
    BY <2>2, SaveFields
  <2>4. UNCHANGED <<row, profile, session, proven, stale, loggedOut>> /\ exists' = exists /\ exists
    BY <1>10 DEF resetPassword
  <2> HIDE DEF e
  <2> QED BY <2>1, <2>3, <2>4, ProfilesFrame
<1>11. ASSUME NEW c \in Calls, login(c) PROVE ProfilesFirst'
  <2>1. /\ UNCHANGED <<exists, row, profile, session, proven, stale>> /\ loggedOut' = FALSE
        /\ exists /\ row.verified
    BY <1>11 DEF login, MayLogIn
  <2>2. /\ Others(c) /\ calls'[c].entity = Nothing
        /\ calls'[c].kind = "session" /\ calls'[c].pc = "open"
    BY <1>11, StartFields DEF login
  <2> QED BY <2>1, <2>2, ProfilesFrame
<1>12. ASSUME NEW c \in Calls, NEW g \in GoogleIds, loginWithGoogle(c, g) PROVE ProfilesFirst'
  <2>1. UNCHANGED <<exists, row, profile, session, proven, stale>> /\ loggedOut' = FALSE
    BY <1>12 DEF loginWithGoogle
  <2>2. CASE exists /\ row.google = g
    <3>1. /\ Others(c) /\ calls'[c].entity = Nothing
          /\ calls'[c].kind = "session" /\ calls'[c].pc = "open"
      BY <1>12, <2>2, StartFields DEF loginWithGoogle
    <3> QED BY <2>1, <2>2, <3>1, ProfilesFrame
  <2>3. CASE ~(exists /\ row.google = g)
    <3>1. /\ Others(c) /\ calls'[c].entity = Nothing
          /\ calls'[c].kind = "google" /\ calls'[c].pc = "byEmail"
      BY <1>12, <2>3, GoogleFields DEF loginWithGoogle
    <3> QED BY <2>1, <3>1, ProfilesFrame
  <2> QED BY <2>2, <2>3
<1>13. ASSUME NEW c \in Calls, FindByEmail(c) PROVE ProfilesFirst'
  <2>1. UNCHANGED <<exists, row, profile, session, proven, stale, loggedOut>>
    BY <1>13 DEF FindByEmail
  <2>2. CASE ~exists
    <3>1. /\ Others(c) /\ calls'[c].entity = calls[c].entity /\ calls'[c].kind = calls[c].kind
          /\ calls'[c].pc = "insert" /\ calls[c].pc = "byEmail"
      BY <1>13, <2>2, MoveFields DEF FindByEmail
    <3> QED BY <2>1, <3>1, ProfilesFrame
  <2>3. CASE exists /\ row.provider = "GOOGLE"
    <3> DEFINE g == calls[c].google
               e == Relinked(Loaded({}), g)
    <3>1. e.role = row.role /\ e.verified = TRUE
      BY RelinkedFields
    <3>2. Save(c, "google", e, None, g) /\ calls[c].pc = "byEmail"
      BY <1>13, <2>3 DEF FindByEmail
    <3>3. /\ Others(c) /\ calls'[c].entity = e /\ calls'[c].kind = "google"
          /\ calls'[c].pc = "compare"
      BY <3>2, SaveFields
    <3> HIDE DEF e
    <3> QED BY <2>1, <2>3, <3>1, <3>2, <3>3, ProfilesFrame
  <2>4. CASE exists /\ row.provider # "GOOGLE"
    <3>1. /\ Others(c) /\ calls'[c].entity = Nothing
          /\ calls'[c].kind = "none" /\ calls'[c].pc = "idle"
      BY <1>13, <2>4, EndFields DEF FindByEmail
    <3> QED BY <2>1, <3>1, ProfilesFrame
  <2> QED BY <2>2, <2>3, <2>4
<1>14. ASSUME NEW c \in Calls, InsertGoogle(c) PROVE ProfilesFirst'
  <2>1. CASE exists
    <3>1. UNCHANGED <<exists, row, profile, session, proven, stale, loggedOut>>
      BY <1>14, <2>1 DEF InsertGoogle
    <3>2. /\ Others(c) /\ calls'[c].entity = Nothing
          /\ calls'[c].kind = "none" /\ calls'[c].pc = "idle"
      BY <1>14, <2>1, EndFields DEF InsertGoogle
    <3> QED BY <3>1, <3>2, ProfilesFrame
  <2>2. CASE ~exists
    <3>1. row'.role = "CUSTOMER" /\ proven' /\ UNCHANGED <<profile, session, loggedOut>>
      BY <1>14, <2>2 DEF InsertGoogle, NewRow
    <3> QED BY <1>14, <2>2, <3>1, StartFields, ProfilesFrame DEF InsertGoogle
  <2> QED BY <2>1, <2>2
<1>15. ASSUME NEW c \in Calls, OpenSession(c) PROVE ProfilesFirst'
  <2>1. /\ UNCHANGED <<exists, row, profile, proven, stale, loggedOut>> /\ session' = TRUE
        /\ calls[c].pc = "open"
    BY <1>15 DEF OpenSession
  <2>2. /\ Others(c) /\ calls'[c].entity = Nothing
        /\ calls'[c].kind = "none" /\ calls'[c].pc = "idle"
    BY <1>15, EndFields DEF OpenSession
  <2> QED BY <2>1, <2>2, ProfilesFrame
<1>16. ASSUME NEW c \in Calls, DropToken(c) PROVE ProfilesFirst'
  <2>1. /\ UNCHANGED <<exists, row, profile, proven, stale, loggedOut>> /\ session' = FALSE
        /\ calls[c].pc = "drop"
    BY <1>16 DEF DropToken
  <2>2. /\ Others(c) /\ calls'[c].entity = calls[c].entity /\ calls'[c].kind = calls[c].kind
        /\ calls'[c].pc = "lookup"
    BY <1>16, MoveFields DEF DropToken
  <2> QED BY <2>1, <2>2, ProfilesFrame
<1>17. ASSUME NEW c \in Calls, LookUp(c) PROVE ProfilesFirst'
  <2>1. /\ UNCHANGED <<exists, row, profile, session, proven, stale, loggedOut>>
        /\ calls[c].pc = "lookup"
    BY <1>17 DEF LookUp
  <2>2. CASE row.verified
    <3>1. calls' = [calls EXCEPT ![c].pc = "open"]
      BY <1>17, <2>2 DEF LookUp
    <3>2. /\ Others(c) /\ calls'[c].entity = calls[c].entity /\ calls'[c].kind = calls[c].kind
          /\ calls'[c].pc = "open"
      BY <3>1, MoveFields
    <3> QED BY <2>1, <2>2, <3>2, ProfilesFrame
  <2>3. CASE ~row.verified
    <3>1. /\ Others(c) /\ calls'[c].entity = Nothing
          /\ calls'[c].kind = "none" /\ calls'[c].pc = "idle"
      BY <1>17, <2>3, EndFields DEF LookUp
    <3> QED BY <2>1, <3>1, ProfilesFrame
  <2> QED BY <2>2, <2>3
<1>18. ASSUME NEW c \in Calls, refresh(c) PROVE ProfilesFirst'
  <2>1. UNCHANGED <<exists, row, profile, session, proven, stale, loggedOut>> /\ session
    BY <1>18 DEF refresh, TokenKnown
  <2>2. /\ Others(c) /\ calls'[c].entity = Nothing
        /\ calls'[c].kind = "session" /\ calls'[c].pc = "drop"
    BY <1>18, StartFields DEF refresh
  <2> QED BY <2>1, <2>2, ProfilesFrame
<1>19. ASSUME NEW c \in Calls, updateUserName(c) PROVE ProfilesFirst'
  <2> DEFINE e == Loaded({})
  <2>1. e.role = row.role /\ e.google = row.google /\ e.verified = row.verified
    BY LoadedFields
  <2>2. Save(c, "name", e, None, None)
    BY <1>19 DEF updateUserName
  <2>3. /\ Others(c) /\ calls'[c].entity = e /\ calls'[c].kind = "name"
        /\ calls'[c].pc = "compare"
    BY <2>2, SaveFields
  <2>4. UNCHANGED <<row, profile, session, proven, stale, loggedOut>> /\ exists' = exists /\ exists
    BY <1>19 DEF updateUserName
  <2> HIDE DEF e
  <2> QED BY <2>1, <2>3, <2>4, ProfilesFrame
<1>20. ASSUME NEW c \in Calls, promoteToDriver(c) PROVE ProfilesFirst'
  <2>1. UNCHANGED <<exists, row, profile, session, proven, stale, loggedOut>> /\ exists
    BY <1>20 DEF promoteToDriver
  <2>2. /\ Others(c) /\ calls'[c].entity = Nothing
        /\ calls'[c].kind = "promote" /\ calls'[c].pc = "promote"
    BY <1>20, StartFields DEF promoteToDriver
  <2> QED BY <2>1, <2>2, ProfilesFrame
<1>21. ASSUME NEW c \in Calls, CommitPromotion(c) PROVE ProfilesFirst'
  <2>1. Promoted(row).verified = row.verified /\ Promoted(row).google = row.google
    BY DEF Promoted, Row
  <2>2. /\ row'.verified = row.verified /\ row'.google = row.google
        /\ profile' = TRUE /\ UNCHANGED <<exists, session, proven, loggedOut>>
    BY <1>21, <2>1 DEF CommitPromotion, Store
  <2>3. /\ Others(c) /\ calls'[c].entity = Nothing
        /\ calls'[c].kind = "none" /\ calls'[c].pc = "idle"
    BY <1>21, EndFields DEF CommitPromotion
  <2> QED BY <2>2, <2>3, ProfilesFrame
<1>22. ASSUME LinkLapses \/ logout \/ SessionExpires \/ UNCHANGED vars PROVE ProfilesFirst'
  BY <1>22 DEF LinkLapses, logout, SessionExpires, vars, ProfilesFirst
<1> QED BY <1>1, <1>2, <1>3, <1>4, <1>5, <1>6, <1>7, <1>8, <1>9, <1>10, <1>11,
           <1>12, <1>13, <1>14, <1>15, <1>16, <1>17, <1>18, <1>19, <1>20, <1>21, <1>22 DEF Next

LEMMA ProfilesInductive == Spec => [](TypesInv /\ ProfilesFirst)
<1>1. Init => ProfilesFirst
  BY UnsetAssumption, NothingFields DEF Init, ProfilesFirst, NewRow, Idle
<1> QED BY <1>1, TypesInductive, ProfilesStep, PTL DEF Spec

\* Whoever has the role of a driver has a profile: no entity that is saved
\* over a promotion, or late, brings the role without it.
THEOREM RoleBringsProfile == Spec => []DriverHasProfile
<1>1. ProfilesFirst => DriverHasProfile
  BY DEF ProfilesFirst, DriverHasProfile
<1> QED BY <1>1, ProfilesInductive, PTL

-----------------------------------------------------------------------------
(* Sessions and logout *)

\* Nothing that lets somebody in exists, or is going to be saved, before the
\* owner was there; who saves a verification makes it so.
OwnerKnown(call, known) ==
  /\ call.entity.verified = TRUE => known \/ call.kind \in {"verify", "google"}
  /\ call.entity.google \in GoogleIds => known \/ call.kind = "google"
  /\ call.pc \in {"open", "drop", "lookup"} => known

OwnerFirst ==
  /\ row.verified => proven
  /\ row.google # None => proven
  /\ session => proven
  /\ \A c \in Calls : OwnerKnown(calls[c], proven)

LEMMA OwnerFrame ==
  ASSUME OwnerFirst, NEW c \in Calls, Others(c), proven => proven',
         row'.verified => proven', row'.google # None => proven', session' => proven',
         OwnerKnown(calls'[c], proven')
  PROVE OwnerFirst'
  BY DEF OwnerFirst, Others, OwnerKnown

LEMMA OwnerStep == TypesInv /\ OwnerFirst /\ [Next]_vars => OwnerFirst'
<1> SUFFICES ASSUME TypesInv, OwnerFirst, [Next]_vars PROVE OwnerFirst'
  OBVIOUS
<1>0. /\ row \in Row /\ CallsOK /\ row.verified \in BOOLEAN /\ proven \in BOOLEAN
      /\ row.google \in GoogleIds \cup {None} /\ profile \in BOOLEAN
  BY DEF TypesInv, Rest, Row
<1>00. (row.verified => proven) /\ (row.google # None => proven) /\ (session => proven)
  BY DEF OwnerFirst
<1>000. \A c \in Calls : OwnerKnown(calls[c], proven)
  BY DEF OwnerFirst
<1> USE <1>0, <1>00, NothingFields, UnsetAssumption DEF OwnerKnown
<1>1. ASSUME NEW c \in Calls, Compare(c) PROVE OwnerFirst'
  BY <1>1, CompareFields, <1>000, OwnerFrame DEF Compare
<1>2. ASSUME NEW c \in Calls, WriteColumns(c) PROVE OwnerFirst'
  <2>1. /\ calls[c].entity.google \in GoogleIds \cup {None, Unset}
        /\ calls[c].entity.verified \in BOOLEAN \cup {Unset}
        /\ "google" \in calls[c].changed => calls[c].entity.google # Unset
        /\ "verified" \in calls[c].changed => calls[c].entity.verified # Unset
    BY <1>2 DEF WriteColumns, CallOK, Call, Entity, CallsOK
  <2>2. /\ row'.google = IF "google" \in calls[c].changed THEN calls[c].entity.google
                         ELSE row.google
        /\ row'.verified = IF "verified" \in calls[c].changed THEN calls[c].entity.verified
                           ELSE row.verified
    BY <1>2 DEF WriteColumns, Store, Merged, Columns
  <2>3. proven' = (proven \/ calls[c].kind \in {"verify", "google"}) /\ session' = session
    BY <1>2 DEF WriteColumns
  <2>4. (row'.verified => proven') /\ (row'.google # None => proven') /\ (session' => proven')
    BY <2>1, <2>2, <2>3 DEF OwnerFirst, OwnerKnown
  <2>5. /\ NextStep(calls[c].kind) = "open" => calls[c].kind = "google"
        /\ NextStep(calls[c].kind) \notin {"drop", "lookup"}
    BY DEF NextStep
  <2>6. OwnerKnown(calls'[c], proven')
    BY <1>2, <2>3, <2>5, WriteFields DEF OwnerKnown
  <2> QED BY <1>2, <2>3, <2>4, <2>6, WriteFields, OwnerFrame
<1>3. ASSUME NEW c \in Calls, CallFails(c) PROVE OwnerFirst'
  BY <1>3, EndFields, OwnerFrame DEF CallFails
<1>4. ASSUME NEW c \in Calls, register(c) PROVE OwnerFirst'
  <2>1. UNCHANGED <<exists, row, profile, session, proven, stale, loggedOut>>
    BY <1>4 DEF register
  <2>2. /\ Others(c) /\ calls'[c].entity = Nothing
        /\ calls'[c].kind = "register" /\ calls'[c].pc = "insert"
    BY <1>4, StartFields DEF register
  <2> QED BY <2>1, <2>2, OwnerFrame
<1>5. ASSUME NEW c \in Calls, Insert(c) PROVE OwnerFirst'
  <2>1. CASE exists
    BY <1>5, <2>1, EndFields, OwnerFrame DEF Insert
  <2>2. CASE ~exists
    <3>1. row' = NewRow("LOCAL", None)
      BY <1>5, <2>2, InsertFields
    <3>2. row'.role = "CUSTOMER" /\ row'.verified = FALSE /\ row'.google = None
      BY <3>1 DEF NewRow
    <3>3. UNCHANGED <<profile, session, proven, stale, loggedOut>>
      BY <1>5 DEF Insert
    <3>4. /\ Others(c) /\ calls'[c].kind = "register" /\ calls'[c].pc = "compare"
          /\ calls'[c].entity.role = "CUSTOMER" /\ calls'[c].entity.verified = FALSE
          /\ calls'[c].entity.google \notin GoogleIds
      BY <1>5, <2>2, InsertFields
    <3> QED BY <3>2, <3>3, <3>4, OwnerFrame
  <2> QED BY <2>1, <2>2
<1>6. ASSUME NEW c \in Calls, resendVerificationEmail(c) PROVE OwnerFirst'
  <2> DEFINE e == WithVerification(Loaded({}), issued + 1)
  <2>1. e.role = row.role /\ e.google = row.google /\ e.verified = row.verified
    BY VerificationFields
  <2>2. Save(c, "mail", e, issued + 1, None)
    BY <1>6 DEF resendVerificationEmail
  <2>3. /\ Others(c) /\ calls'[c].entity = e /\ calls'[c].kind = "mail"
        /\ calls'[c].pc = "compare"
    BY <2>2, SaveFields
  <2>4. UNCHANGED <<row, profile, session, proven, stale, loggedOut>> /\ exists' = exists /\ exists
    BY <1>6 DEF resendVerificationEmail
  <2> HIDE DEF e
  <2> QED BY <2>1, <2>3, <2>4, OwnerFrame
<1>7. ASSUME NEW c \in Calls, forgotPassword(c) PROVE OwnerFirst'
  <2> DEFINE e == WithReset(Loaded({}), issued + 1)
  <2>1. e.role = row.role /\ e.google = row.google /\ e.verified = row.verified
    BY ResetLinkFields
  <2>2. Save(c, "mail", e, issued + 1, None)
    BY <1>7 DEF forgotPassword
  <2>3. /\ Others(c) /\ calls'[c].entity = e /\ calls'[c].kind = "mail"
        /\ calls'[c].pc = "compare"
    BY <2>2, SaveFields
  <2>4. UNCHANGED <<row, profile, session, proven, stale, loggedOut>> /\ exists' = exists /\ exists
    BY <1>7 DEF forgotPassword
  <2> HIDE DEF e
  <2> QED BY <2>1, <2>3, <2>4, OwnerFrame
<1>8. ASSUME NEW c \in Calls, SendMail(c) PROVE OwnerFirst'
  BY <1>8, EndFields, OwnerFrame DEF SendMail
<1>9. ASSUME NEW c \in Calls, NEW link \in Links, verifyEmail(c, link) PROVE OwnerFirst'
  <2> DEFINE e == Verified(Loaded({"verifyHash"}))
  <2>1. e.role = row.role /\ e.google = row.google /\ e.verified = TRUE
    BY VerifiedFields
  <2>2. Save(c, "verify", e, link, None)
    BY <1>9 DEF verifyEmail
  <2>3. /\ Others(c) /\ calls'[c].entity = e /\ calls'[c].kind = "verify"
        /\ calls'[c].pc = "compare"
    BY <2>2, SaveFields
  <2>4. UNCHANGED <<row, profile, session, proven, stale, loggedOut>> /\ exists' = exists /\ exists
    BY <1>9 DEF verifyEmail
  <2> HIDE DEF e
  <2> QED BY <2>1, <2>3, <2>4, OwnerFrame
<1>10. ASSUME NEW c \in Calls, NEW link \in Links, resetPassword(c, link) PROVE OwnerFirst'
  <2> DEFINE e == Reset(Loaded({"resetHash"}))
  <2>1. e.role = row.role /\ e.google = row.google /\ e.verified = row.verified
    BY ResetFields
  <2>2. Save(c, "reset", e, link, None)
    BY <1>10 DEF resetPassword
  <2>3. /\ Others(c) /\ calls'[c].entity = e /\ calls'[c].kind = "reset"
        /\ calls'[c].pc = "compare"
    BY <2>2, SaveFields
  <2>4. UNCHANGED <<row, profile, session, proven, stale, loggedOut>> /\ exists' = exists /\ exists
    BY <1>10 DEF resetPassword
  <2> HIDE DEF e
  <2> QED BY <2>1, <2>3, <2>4, OwnerFrame
<1>11. ASSUME NEW c \in Calls, login(c) PROVE OwnerFirst'
  <2>1. /\ UNCHANGED <<exists, row, profile, session, proven, stale>> /\ loggedOut' = FALSE
        /\ exists /\ row.verified
    BY <1>11 DEF login, MayLogIn
  <2>2. /\ Others(c) /\ calls'[c].entity = Nothing
        /\ calls'[c].kind = "session" /\ calls'[c].pc = "open"
    BY <1>11, StartFields DEF login
  <2> QED BY <2>1, <2>2, OwnerFrame
<1>12. ASSUME NEW c \in Calls, NEW g \in GoogleIds, loginWithGoogle(c, g) PROVE OwnerFirst'
  <2>1. UNCHANGED <<exists, row, profile, session, proven, stale>> /\ loggedOut' = FALSE
    BY <1>12 DEF loginWithGoogle
  <2>2. CASE exists /\ row.google = g
    <3>1. /\ Others(c) /\ calls'[c].entity = Nothing
          /\ calls'[c].kind = "session" /\ calls'[c].pc = "open"
      BY <1>12, <2>2, StartFields DEF loginWithGoogle
    <3> QED BY <2>1, <2>2, <3>1, OwnerFrame
  <2>3. CASE ~(exists /\ row.google = g)
    <3>1. /\ Others(c) /\ calls'[c].entity = Nothing
          /\ calls'[c].kind = "google" /\ calls'[c].pc = "byEmail"
      BY <1>12, <2>3, GoogleFields DEF loginWithGoogle
    <3> QED BY <2>1, <3>1, OwnerFrame
  <2> QED BY <2>2, <2>3
<1>13. ASSUME NEW c \in Calls, FindByEmail(c) PROVE OwnerFirst'
  <2>1. UNCHANGED <<exists, row, profile, session, proven, stale, loggedOut>>
    BY <1>13 DEF FindByEmail
  <2>2. CASE ~exists
    <3>1. /\ Others(c) /\ calls'[c].entity = calls[c].entity /\ calls'[c].kind = calls[c].kind
          /\ calls'[c].pc = "insert" /\ calls[c].pc = "byEmail"
      BY <1>13, <2>2, MoveFields DEF FindByEmail
    <3> QED BY <2>1, <3>1, <1>000, OwnerFrame
  <2>3. CASE exists /\ row.provider = "GOOGLE"
    <3> DEFINE g == calls[c].google
               e == Relinked(Loaded({}), g)
    <3>1. e.role = row.role /\ e.verified = TRUE
      BY RelinkedFields
    <3>2. Save(c, "google", e, None, g) /\ calls[c].pc = "byEmail"
      BY <1>13, <2>3 DEF FindByEmail
    <3>3. /\ Others(c) /\ calls'[c].entity = e /\ calls'[c].kind = "google"
          /\ calls'[c].pc = "compare"
      BY <3>2, SaveFields
    <3> HIDE DEF e
    <3> QED BY <2>1, <2>3, <3>1, <3>2, <3>3, OwnerFrame
  <2>4. CASE exists /\ row.provider # "GOOGLE"
    <3>1. /\ Others(c) /\ calls'[c].entity = Nothing
          /\ calls'[c].kind = "none" /\ calls'[c].pc = "idle"
      BY <1>13, <2>4, EndFields DEF FindByEmail
    <3> QED BY <2>1, <3>1, OwnerFrame
  <2> QED BY <2>2, <2>3, <2>4
<1>14. ASSUME NEW c \in Calls, InsertGoogle(c) PROVE OwnerFirst'
  <2>1. CASE exists
    <3>1. UNCHANGED <<exists, row, profile, session, proven, stale, loggedOut>>
      BY <1>14, <2>1 DEF InsertGoogle
    <3>2. /\ Others(c) /\ calls'[c].entity = Nothing
          /\ calls'[c].kind = "none" /\ calls'[c].pc = "idle"
      BY <1>14, <2>1, EndFields DEF InsertGoogle
    <3> QED BY <3>1, <3>2, OwnerFrame
  <2>2. CASE ~exists
    <3>1. row'.role = "CUSTOMER" /\ proven' /\ UNCHANGED <<profile, session, loggedOut>>
      BY <1>14, <2>2 DEF InsertGoogle, NewRow
    <3> QED BY <1>14, <2>2, <3>1, StartFields, OwnerFrame DEF InsertGoogle
  <2> QED BY <2>1, <2>2
<1>15. ASSUME NEW c \in Calls, OpenSession(c) PROVE OwnerFirst'
  <2>1. /\ UNCHANGED <<exists, row, profile, proven, stale, loggedOut>> /\ session' = TRUE
        /\ calls[c].pc = "open"
    BY <1>15 DEF OpenSession
  <2>2. /\ Others(c) /\ calls'[c].entity = Nothing
        /\ calls'[c].kind = "none" /\ calls'[c].pc = "idle"
    BY <1>15, EndFields DEF OpenSession
  <2> QED BY <2>1, <2>2, <1>000, OwnerFrame
<1>16. ASSUME NEW c \in Calls, DropToken(c) PROVE OwnerFirst'
  <2>1. /\ UNCHANGED <<exists, row, profile, proven, stale, loggedOut>> /\ session' = FALSE
        /\ calls[c].pc = "drop"
    BY <1>16 DEF DropToken
  <2>2. /\ Others(c) /\ calls'[c].entity = calls[c].entity /\ calls'[c].kind = calls[c].kind
        /\ calls'[c].pc = "lookup"
    BY <1>16, MoveFields DEF DropToken
  <2> QED BY <2>1, <2>2, <1>000, OwnerFrame
<1>17. ASSUME NEW c \in Calls, LookUp(c) PROVE OwnerFirst'
  <2>1. /\ UNCHANGED <<exists, row, profile, session, proven, stale, loggedOut>>
        /\ calls[c].pc = "lookup"
    BY <1>17 DEF LookUp
  <2>2. CASE row.verified
    <3>1. calls' = [calls EXCEPT ![c].pc = "open"]
      BY <1>17, <2>2 DEF LookUp
    <3>2. /\ Others(c) /\ calls'[c].entity = calls[c].entity /\ calls'[c].kind = calls[c].kind
          /\ calls'[c].pc = "open"
      BY <3>1, MoveFields
    <3> QED BY <2>1, <2>2, <3>2, <1>000, OwnerFrame
  <2>3. CASE ~row.verified
    <3>1. /\ Others(c) /\ calls'[c].entity = Nothing
          /\ calls'[c].kind = "none" /\ calls'[c].pc = "idle"
      BY <1>17, <2>3, EndFields DEF LookUp
    <3> QED BY <2>1, <3>1, OwnerFrame
  <2> QED BY <2>2, <2>3
<1>18. ASSUME NEW c \in Calls, refresh(c) PROVE OwnerFirst'
  <2>1. UNCHANGED <<exists, row, profile, session, proven, stale, loggedOut>> /\ session
    BY <1>18 DEF refresh, TokenKnown
  <2>2. /\ Others(c) /\ calls'[c].entity = Nothing
        /\ calls'[c].kind = "session" /\ calls'[c].pc = "drop"
    BY <1>18, StartFields DEF refresh
  <2> QED BY <2>1, <2>2, OwnerFrame
<1>19. ASSUME NEW c \in Calls, updateUserName(c) PROVE OwnerFirst'
  <2> DEFINE e == Loaded({})
  <2>1. e.role = row.role /\ e.google = row.google /\ e.verified = row.verified
    BY LoadedFields
  <2>2. Save(c, "name", e, None, None)
    BY <1>19 DEF updateUserName
  <2>3. /\ Others(c) /\ calls'[c].entity = e /\ calls'[c].kind = "name"
        /\ calls'[c].pc = "compare"
    BY <2>2, SaveFields
  <2>4. UNCHANGED <<row, profile, session, proven, stale, loggedOut>> /\ exists' = exists /\ exists
    BY <1>19 DEF updateUserName
  <2> HIDE DEF e
  <2> QED BY <2>1, <2>3, <2>4, OwnerFrame
<1>20. ASSUME NEW c \in Calls, promoteToDriver(c) PROVE OwnerFirst'
  <2>1. UNCHANGED <<exists, row, profile, session, proven, stale, loggedOut>> /\ exists
    BY <1>20 DEF promoteToDriver
  <2>2. /\ Others(c) /\ calls'[c].entity = Nothing
        /\ calls'[c].kind = "promote" /\ calls'[c].pc = "promote"
    BY <1>20, StartFields DEF promoteToDriver
  <2> QED BY <2>1, <2>2, OwnerFrame
<1>21. ASSUME NEW c \in Calls, CommitPromotion(c) PROVE OwnerFirst'
  <2>1. Promoted(row).verified = row.verified /\ Promoted(row).google = row.google
    BY DEF Promoted, Row
  <2>2. /\ row'.verified = row.verified /\ row'.google = row.google
        /\ profile' = TRUE /\ UNCHANGED <<exists, session, proven, loggedOut>>
    BY <1>21, <2>1 DEF CommitPromotion, Store
  <2>3. /\ Others(c) /\ calls'[c].entity = Nothing
        /\ calls'[c].kind = "none" /\ calls'[c].pc = "idle"
    BY <1>21, EndFields DEF CommitPromotion
  <2> QED BY <2>2, <2>3, OwnerFrame
<1>22. ASSUME LinkLapses \/ logout \/ SessionExpires \/ UNCHANGED vars PROVE OwnerFirst'
  <2>1. UNCHANGED <<row, calls, proven>> /\ (session' = session \/ session' = FALSE)
    BY <1>22 DEF LinkLapses, logout, SessionExpires, vars
  <2>2. /\ row'.verified => proven'
        /\ row'.google # None => proven'
        /\ session' => proven'
    BY <2>1
  <2>3. \A c \in Calls : OwnerKnown(calls'[c], proven')
    BY <2>1, <1>000
  <2> QED BY <2>2, <2>3 DEF OwnerFirst
<1> QED BY <1>1, <1>2, <1>3, <1>4, <1>5, <1>6, <1>7, <1>8, <1>9, <1>10, <1>11,
           <1>12, <1>13, <1>14, <1>15, <1>16, <1>17, <1>18, <1>19, <1>20, <1>21, <1>22 DEF Next

LEMMA OwnerInductive == Spec => [](TypesInv /\ OwnerFirst)
<1>1. Init => OwnerFirst
  <2> SUFFICES ASSUME Init PROVE OwnerFirst
    OBVIOUS
  <2>1. Idle.entity = Nothing /\ Idle.kind = "none" /\ Idle.pc = "idle"
    BY DEF Idle
  <2>2. row.verified = FALSE /\ row.google = None /\ session = FALSE
    BY DEF Init, NewRow
  <2>3. ASSUME NEW c \in Calls PROVE calls[c] = Idle
    BY DEF Init
  <2> QED BY <2>1, <2>2, <2>3, UnsetAssumption, NothingFields DEF OwnerFirst, OwnerKnown
<1> QED BY <1>1, TypesInductive, OwnerStep, PTL DEF Spec

\* A session is open only when the owner of the address was there once, by a
\* link from a mail or by Google, whichever way and order the calls took.
THEOREM SessionsNeedOwner == Spec => []SessionsProven
<1>1. OwnerFirst => SessionsProven
  BY DEF OwnerFirst, SessionsProven
<1> QED BY <1>1, OwnerInductive, PTL

\* After a logout nobody is on the way to a session, until a login.
LoggedOutQuiet == loggedOut => ~session /\ \A c \in Calls : ~Opening(c)

LEMMA LogoutFrame ==
  ASSUME LoggedOutQuiet, NEW c \in Calls, Others(c),
         loggedOut' => loggedOut,
         loggedOut' => session' = session \/ ~session' \/ Opening(c),
         loggedOut' /\ ~session =>
           \/ calls'[c].pc \notin {"open", "drop", "lookup", "byEmail"} /\ calls'[c].kind # "google"
           \/ Opening(c)
  PROVE LoggedOutQuiet'
  BY DEF LoggedOutQuiet, Others, Opening

LEMMA LogoutStep == TypesInv /\ LoggedOutQuiet /\ [Next]_vars => LoggedOutQuiet'
<1> SUFFICES ASSUME TypesInv, LoggedOutQuiet, [Next]_vars PROVE LoggedOutQuiet'
  OBVIOUS
<1>0. /\ row \in Row /\ CallsOK /\ row.verified \in BOOLEAN /\ proven \in BOOLEAN
      /\ row.google \in GoogleIds \cup {None} /\ profile \in BOOLEAN
  BY DEF TypesInv, Rest, Row
<1> USE <1>0 DEF Opening
<1>1. ASSUME NEW c \in Calls, Compare(c) PROVE LoggedOutQuiet'
  BY <1>1, CompareFields, LogoutFrame DEF Compare
<1>2. ASSUME NEW c \in Calls, WriteColumns(c) PROVE LoggedOutQuiet'
  <2>1. NextStep(calls[c].kind) \in {"open", "drop", "lookup", "byEmail"} => calls[c].kind = "google"
    BY DEF NextStep
  <2> QED BY <1>2, <2>1, WriteFields, LogoutFrame DEF WriteColumns
<1>3. ASSUME NEW c \in Calls, CallFails(c) PROVE LoggedOutQuiet'
  BY <1>3, EndFields, LogoutFrame DEF CallFails
<1>4. ASSUME NEW c \in Calls, register(c) PROVE LoggedOutQuiet'
  <2>1. UNCHANGED <<exists, row, profile, session, proven, stale, loggedOut>>
    BY <1>4 DEF register
  <2>2. /\ Others(c) /\ calls'[c].entity = Nothing
        /\ calls'[c].kind = "register" /\ calls'[c].pc = "insert"
    BY <1>4, StartFields DEF register
  <2> QED BY <2>1, <2>2, LogoutFrame
<1>5. ASSUME NEW c \in Calls, Insert(c) PROVE LoggedOutQuiet'
  <2>1. CASE exists
    BY <1>5, <2>1, EndFields, LogoutFrame DEF Insert
  <2>2. CASE ~exists
    <3>1. row' = NewRow("LOCAL", None)
      BY <1>5, <2>2, InsertFields
    <3>2. row'.role = "CUSTOMER" /\ row'.verified = FALSE /\ row'.google = None
      BY <3>1 DEF NewRow
    <3>3. UNCHANGED <<profile, session, proven, stale, loggedOut>>
      BY <1>5 DEF Insert
    <3>4. /\ Others(c) /\ calls'[c].kind = "register" /\ calls'[c].pc = "compare"
          /\ calls'[c].entity.role = "CUSTOMER" /\ calls'[c].entity.verified = FALSE
          /\ calls'[c].entity.google \notin GoogleIds
      BY <1>5, <2>2, InsertFields
    <3> QED BY <3>2, <3>3, <3>4, LogoutFrame
  <2> QED BY <2>1, <2>2
<1>6. ASSUME NEW c \in Calls, resendVerificationEmail(c) PROVE LoggedOutQuiet'
  <2> DEFINE e == WithVerification(Loaded({}), issued + 1)
  <2>1. e.role = row.role /\ e.google = row.google /\ e.verified = row.verified
    BY VerificationFields
  <2>2. Save(c, "mail", e, issued + 1, None)
    BY <1>6 DEF resendVerificationEmail
  <2>3. /\ Others(c) /\ calls'[c].entity = e /\ calls'[c].kind = "mail"
        /\ calls'[c].pc = "compare"
    BY <2>2, SaveFields
  <2>4. UNCHANGED <<row, profile, session, proven, stale, loggedOut>> /\ exists' = exists /\ exists
    BY <1>6 DEF resendVerificationEmail
  <2> HIDE DEF e
  <2> QED BY <2>1, <2>3, <2>4, LogoutFrame
<1>7. ASSUME NEW c \in Calls, forgotPassword(c) PROVE LoggedOutQuiet'
  <2> DEFINE e == WithReset(Loaded({}), issued + 1)
  <2>1. e.role = row.role /\ e.google = row.google /\ e.verified = row.verified
    BY ResetLinkFields
  <2>2. Save(c, "mail", e, issued + 1, None)
    BY <1>7 DEF forgotPassword
  <2>3. /\ Others(c) /\ calls'[c].entity = e /\ calls'[c].kind = "mail"
        /\ calls'[c].pc = "compare"
    BY <2>2, SaveFields
  <2>4. UNCHANGED <<row, profile, session, proven, stale, loggedOut>> /\ exists' = exists /\ exists
    BY <1>7 DEF forgotPassword
  <2> HIDE DEF e
  <2> QED BY <2>1, <2>3, <2>4, LogoutFrame
<1>8. ASSUME NEW c \in Calls, SendMail(c) PROVE LoggedOutQuiet'
  BY <1>8, EndFields, LogoutFrame DEF SendMail
<1>9. ASSUME NEW c \in Calls, NEW link \in Links, verifyEmail(c, link) PROVE LoggedOutQuiet'
  <2> DEFINE e == Verified(Loaded({"verifyHash"}))
  <2>1. e.role = row.role /\ e.google = row.google /\ e.verified = TRUE
    BY VerifiedFields
  <2>2. Save(c, "verify", e, link, None)
    BY <1>9 DEF verifyEmail
  <2>3. /\ Others(c) /\ calls'[c].entity = e /\ calls'[c].kind = "verify"
        /\ calls'[c].pc = "compare"
    BY <2>2, SaveFields
  <2>4. UNCHANGED <<row, profile, session, proven, stale, loggedOut>> /\ exists' = exists /\ exists
    BY <1>9 DEF verifyEmail
  <2> HIDE DEF e
  <2> QED BY <2>1, <2>3, <2>4, LogoutFrame
<1>10. ASSUME NEW c \in Calls, NEW link \in Links, resetPassword(c, link) PROVE LoggedOutQuiet'
  <2> DEFINE e == Reset(Loaded({"resetHash"}))
  <2>1. e.role = row.role /\ e.google = row.google /\ e.verified = row.verified
    BY ResetFields
  <2>2. Save(c, "reset", e, link, None)
    BY <1>10 DEF resetPassword
  <2>3. /\ Others(c) /\ calls'[c].entity = e /\ calls'[c].kind = "reset"
        /\ calls'[c].pc = "compare"
    BY <2>2, SaveFields
  <2>4. UNCHANGED <<row, profile, session, proven, stale, loggedOut>> /\ exists' = exists /\ exists
    BY <1>10 DEF resetPassword
  <2> HIDE DEF e
  <2> QED BY <2>1, <2>3, <2>4, LogoutFrame
<1>11. ASSUME NEW c \in Calls, login(c) PROVE LoggedOutQuiet'
  <2>1. /\ UNCHANGED <<exists, row, profile, session, proven, stale>> /\ loggedOut' = FALSE
        /\ exists /\ row.verified
    BY <1>11 DEF login, MayLogIn
  <2>2. /\ Others(c) /\ calls'[c].entity = Nothing
        /\ calls'[c].kind = "session" /\ calls'[c].pc = "open"
    BY <1>11, StartFields DEF login
  <2> QED BY <2>1, <2>2, LogoutFrame
<1>12. ASSUME NEW c \in Calls, NEW g \in GoogleIds, loginWithGoogle(c, g) PROVE LoggedOutQuiet'
  <2>1. UNCHANGED <<exists, row, profile, session, proven, stale>> /\ loggedOut' = FALSE
    BY <1>12 DEF loginWithGoogle
  <2>2. CASE exists /\ row.google = g
    <3>1. /\ Others(c) /\ calls'[c].entity = Nothing
          /\ calls'[c].kind = "session" /\ calls'[c].pc = "open"
      BY <1>12, <2>2, StartFields DEF loginWithGoogle
    <3> QED BY <2>1, <2>2, <3>1, LogoutFrame
  <2>3. CASE ~(exists /\ row.google = g)
    <3>1. /\ Others(c) /\ calls'[c].entity = Nothing
          /\ calls'[c].kind = "google" /\ calls'[c].pc = "byEmail"
      BY <1>12, <2>3, GoogleFields DEF loginWithGoogle
    <3> QED BY <2>1, <3>1, LogoutFrame
  <2> QED BY <2>2, <2>3
<1>13. ASSUME NEW c \in Calls, FindByEmail(c) PROVE LoggedOutQuiet'
  <2>1. UNCHANGED <<exists, row, profile, session, proven, stale, loggedOut>>
    BY <1>13 DEF FindByEmail
  <2>2. CASE ~exists
    <3>1. /\ Others(c) /\ calls'[c].entity = calls[c].entity /\ calls'[c].kind = calls[c].kind
          /\ calls'[c].pc = "insert" /\ calls[c].pc = "byEmail"
      BY <1>13, <2>2, MoveFields DEF FindByEmail
    <3> QED BY <2>1, <3>1, LogoutFrame
  <2>3. CASE exists /\ row.provider = "GOOGLE"
    <3> DEFINE g == calls[c].google
               e == Relinked(Loaded({}), g)
    <3>1. e.role = row.role /\ e.verified = TRUE
      BY RelinkedFields
    <3>2. Save(c, "google", e, None, g) /\ calls[c].pc = "byEmail"
      BY <1>13, <2>3 DEF FindByEmail
    <3>3. /\ Others(c) /\ calls'[c].entity = e /\ calls'[c].kind = "google"
          /\ calls'[c].pc = "compare"
      BY <3>2, SaveFields
    <3> HIDE DEF e
    <3> QED BY <2>1, <2>3, <3>1, <3>2, <3>3, LogoutFrame
  <2>4. CASE exists /\ row.provider # "GOOGLE"
    <3>1. /\ Others(c) /\ calls'[c].entity = Nothing
          /\ calls'[c].kind = "none" /\ calls'[c].pc = "idle"
      BY <1>13, <2>4, EndFields DEF FindByEmail
    <3> QED BY <2>1, <3>1, LogoutFrame
  <2> QED BY <2>2, <2>3, <2>4
<1>14. ASSUME NEW c \in Calls, InsertGoogle(c) PROVE LoggedOutQuiet'
  <2>1. CASE exists
    <3>1. UNCHANGED <<exists, row, profile, session, proven, stale, loggedOut>>
      BY <1>14, <2>1 DEF InsertGoogle
    <3>2. /\ Others(c) /\ calls'[c].entity = Nothing
          /\ calls'[c].kind = "none" /\ calls'[c].pc = "idle"
      BY <1>14, <2>1, EndFields DEF InsertGoogle
    <3> QED BY <3>1, <3>2, LogoutFrame
  <2>2. CASE ~exists
    <3>1. row'.role = "CUSTOMER" /\ proven' /\ UNCHANGED <<profile, session, loggedOut>>
      BY <1>14, <2>2 DEF InsertGoogle, NewRow
    <3> QED BY <1>14, <2>2, <3>1, StartFields, LogoutFrame DEF InsertGoogle
  <2> QED BY <2>1, <2>2
<1>15. ASSUME NEW c \in Calls, OpenSession(c) PROVE LoggedOutQuiet'
  <2>1. /\ UNCHANGED <<exists, row, profile, proven, stale, loggedOut>> /\ session' = TRUE
        /\ calls[c].pc = "open"
    BY <1>15 DEF OpenSession
  <2>2. /\ Others(c) /\ calls'[c].entity = Nothing
        /\ calls'[c].kind = "none" /\ calls'[c].pc = "idle"
    BY <1>15, EndFields DEF OpenSession
  <2> QED BY <2>1, <2>2, LogoutFrame
<1>16. ASSUME NEW c \in Calls, DropToken(c) PROVE LoggedOutQuiet'
  <2>1. /\ UNCHANGED <<exists, row, profile, proven, stale, loggedOut>> /\ session' = FALSE
        /\ calls[c].pc = "drop"
    BY <1>16 DEF DropToken
  <2>2. /\ Others(c) /\ calls'[c].entity = calls[c].entity /\ calls'[c].kind = calls[c].kind
        /\ calls'[c].pc = "lookup"
    BY <1>16, MoveFields DEF DropToken
  <2> QED BY <2>1, <2>2, LogoutFrame
<1>17. ASSUME NEW c \in Calls, LookUp(c) PROVE LoggedOutQuiet'
  <2>1. /\ UNCHANGED <<exists, row, profile, session, proven, stale, loggedOut>>
        /\ calls[c].pc = "lookup"
    BY <1>17 DEF LookUp
  <2>2. CASE row.verified
    <3>1. calls' = [calls EXCEPT ![c].pc = "open"]
      BY <1>17, <2>2 DEF LookUp
    <3>2. /\ Others(c) /\ calls'[c].entity = calls[c].entity /\ calls'[c].kind = calls[c].kind
          /\ calls'[c].pc = "open"
      BY <3>1, MoveFields
    <3> QED BY <2>1, <2>2, <3>2, LogoutFrame
  <2>3. CASE ~row.verified
    <3>1. /\ Others(c) /\ calls'[c].entity = Nothing
          /\ calls'[c].kind = "none" /\ calls'[c].pc = "idle"
      BY <1>17, <2>3, EndFields DEF LookUp
    <3> QED BY <2>1, <3>1, LogoutFrame
  <2> QED BY <2>2, <2>3
<1>18. ASSUME NEW c \in Calls, refresh(c) PROVE LoggedOutQuiet'
  <2>1. UNCHANGED <<exists, row, profile, session, proven, stale, loggedOut>> /\ session
    BY <1>18 DEF refresh, TokenKnown
  <2>2. /\ Others(c) /\ calls'[c].entity = Nothing
        /\ calls'[c].kind = "session" /\ calls'[c].pc = "drop"
    BY <1>18, StartFields DEF refresh
  <2> QED BY <2>1, <2>2, LogoutFrame
<1>19. ASSUME NEW c \in Calls, updateUserName(c) PROVE LoggedOutQuiet'
  <2> DEFINE e == Loaded({})
  <2>1. e.role = row.role /\ e.google = row.google /\ e.verified = row.verified
    BY LoadedFields
  <2>2. Save(c, "name", e, None, None)
    BY <1>19 DEF updateUserName
  <2>3. /\ Others(c) /\ calls'[c].entity = e /\ calls'[c].kind = "name"
        /\ calls'[c].pc = "compare"
    BY <2>2, SaveFields
  <2>4. UNCHANGED <<row, profile, session, proven, stale, loggedOut>> /\ exists' = exists /\ exists
    BY <1>19 DEF updateUserName
  <2> HIDE DEF e
  <2> QED BY <2>1, <2>3, <2>4, LogoutFrame
<1>20. ASSUME NEW c \in Calls, promoteToDriver(c) PROVE LoggedOutQuiet'
  <2>1. UNCHANGED <<exists, row, profile, session, proven, stale, loggedOut>> /\ exists
    BY <1>20 DEF promoteToDriver
  <2>2. /\ Others(c) /\ calls'[c].entity = Nothing
        /\ calls'[c].kind = "promote" /\ calls'[c].pc = "promote"
    BY <1>20, StartFields DEF promoteToDriver
  <2> QED BY <2>1, <2>2, LogoutFrame
<1>21. ASSUME NEW c \in Calls, CommitPromotion(c) PROVE LoggedOutQuiet'
  <2>1. Promoted(row).verified = row.verified /\ Promoted(row).google = row.google
    BY DEF Promoted, Row
  <2>2. /\ row'.verified = row.verified /\ row'.google = row.google
        /\ profile' = TRUE /\ UNCHANGED <<exists, session, proven, loggedOut>>
    BY <1>21, <2>1 DEF CommitPromotion, Store
  <2>3. /\ Others(c) /\ calls'[c].entity = Nothing
        /\ calls'[c].kind = "none" /\ calls'[c].pc = "idle"
    BY <1>21, EndFields DEF CommitPromotion
  <2> QED BY <2>2, <2>3, LogoutFrame
<1>22. ASSUME LinkLapses \/ logout \/ SessionExpires \/ UNCHANGED vars PROVE LoggedOutQuiet'
  BY <1>22 DEF LinkLapses, logout, SessionExpires, vars, LoggedOutQuiet, Opening
<1> QED BY <1>1, <1>2, <1>3, <1>4, <1>5, <1>6, <1>7, <1>8, <1>9, <1>10, <1>11,
           <1>12, <1>13, <1>14, <1>15, <1>16, <1>17, <1>18, <1>19, <1>20, <1>21, <1>22 DEF Next

\* A logout stands: none of the calls that go on afterwards leads to a
\* session, but a login or a call that was on its way.
THEOREM LogoutIsFinal == Spec => []LogoutStands
<1>1. Init => LoggedOutQuiet
  BY DEF Init, LoggedOutQuiet
<1>2. LoggedOutQuiet => LogoutStands
  BY DEF LoggedOutQuiet, LogoutStands
<1> QED BY <1>1, <1>2, TypesInductive, LogoutStep, PTL DEF Spec

-----------------------------------------------------------------------------
(* What was decided *)

\* Who saves has a row to save to; what it holds, or is going to write,
\* agrees with the decisions whose columns have not been overtaken; and who
\* saves a verification writes it, if it is the first.
DecidedCall(call) ==
  /\ call.pc \in {"compare", "write", "promote"} => exists
  /\ profile /\ "role" \notin stale =>
       /\ call.pc = "compare" => call.entity.role \in {Unset, "DRIVER"}
       /\ call.pc = "write" /\ "role" \in call.changed => call.entity.role = "DRIVER"
  /\ proven /\ "verified" \notin stale =>
       /\ call.pc = "compare" => call.entity.verified \in {Unset, TRUE}
       /\ call.pc = "write" /\ "verified" \in call.changed => call.entity.verified = TRUE
  /\ call.kind \in {"verify", "google"} /\ call.pc \in {"compare", "write"} =>
       call.entity.verified = TRUE
  /\ call.kind \in {"verify", "google"} /\ call.pc = "write" /\ ~proven =>
       "verified" \in call.changed

Decided ==
  /\ profile => exists
  /\ proven => exists
  /\ profile /\ "role" \notin stale => row.role = "DRIVER"
  /\ proven /\ "verified" \notin stale => row.verified = TRUE
  /\ \A c \in Calls : DecidedCall(calls[c])

\* A step that decides nothing.
LEMMA DecidedFrame ==
  ASSUME Decided, NEW c \in Calls, Others(c),
         UNCHANGED <<exists, profile, proven, stale>>,
         row'.role = row.role, row'.verified = row.verified,
         calls'[c].pc \in {"compare", "promote"} => exists,
         calls'[c].pc # "write",
         calls'[c].pc = "compare" =>
           /\ calls'[c].entity.role \in {Unset, row.role}
           /\ calls'[c].entity.verified \in {Unset, row.verified, TRUE}
           /\ calls'[c].kind \in {"verify", "google"} => calls'[c].entity.verified = TRUE
  PROVE Decided'
<1>1. DecidedCall(calls[c])'
  BY DEF Decided, DecidedCall
<1>2. \A b \in Calls \ {c} : DecidedCall(calls[b])'
  BY DEF Decided, DecidedCall, Others
<1> QED BY <1>1, <1>2 DEF Decided

LEMMA DecidedStep ==
  TypesInv /\ ProfilesFirst /\ OwnerFirst /\ Decided /\ [Next]_vars => Decided'
<1> SUFFICES ASSUME TypesInv, ProfilesFirst, OwnerFirst, Decided, [Next]_vars PROVE Decided'
  OBVIOUS
<1>0. /\ row \in Row /\ CallsOK /\ row.verified \in BOOLEAN /\ proven \in BOOLEAN
      /\ row.google \in GoogleIds \cup {None} /\ profile \in BOOLEAN
  BY DEF TypesInv, Rest, Row
<1>00. (row.verified => proven) /\ row.verified \in BOOLEAN
  BY <1>0 DEF OwnerFirst
<1>000. \A c \in Calls : DecidedCall(calls[c])
  BY DEF Decided
<1> USE <1>0
<1>1. ASSUME NEW c \in Calls, Compare(c) PROVE Decided'
  <2>1. UNCHANGED <<exists, row, profile, proven, stale>> /\ calls[c].pc = "compare"
    BY <1>1 DEF Compare
  <2>2. /\ Others(c) /\ calls'[c].entity = calls[c].entity /\ calls'[c].kind = calls[c].kind
        /\ calls'[c].pc = "write" /\ calls'[c].changed = Differing(calls[c].entity)
    BY <1>1, CompareFields
  <2>3. /\ "role" \in Differing(calls[c].entity) => calls[c].entity.role # Unset
        /\ "verified" \in Differing(calls[c].entity) => calls[c].entity.verified # Unset
        /\ calls[c].entity.verified = TRUE /\ row.verified = FALSE =>
             "verified" \in Differing(calls[c].entity)
    BY UnsetAssumption DEF Differing, Columns
  <2>4. DecidedCall(calls[c])
    BY <1>000
  <2>5. DecidedCall(calls[c])'
    BY <2>1, <2>2, <2>3, <2>4, <1>00 DEF DecidedCall
  <2> QED BY <2>1, <2>2, <2>5 DEF Decided, DecidedCall, Others
<1>2. ASSUME NEW c \in Calls, WriteColumns(c) PROVE Decided'
  <2> DEFINE new == Merged(calls[c].entity, calls[c].changed)
  <2>1. /\ UNCHANGED <<exists, profile>> /\ exists /\ Others(c)
        /\ calls'[c].pc \notin {"compare", "write", "promote"}
    <3>1. NextStep(calls[c].kind) \notin {"compare", "write", "promote"}
      BY DEF NextStep
    <3> QED BY <1>2, <3>1, <1>000, WriteFields DEF WriteColumns, DecidedCall
  <2>2. /\ new.role = IF "role" \in calls[c].changed THEN calls[c].entity.role ELSE row.role
        /\ new.verified = IF "verified" \in calls[c].changed THEN calls[c].entity.verified
                          ELSE row.verified
    BY DEF Merged, Columns
  <2>3. row' = new /\ stale' = stale \cup {x \in Watched : new[x] # row[x] /\ Outdates(c, x)}
    BY <1>2 DEF WriteColumns, Store
  <2>4. proven' = (proven \/ calls[c].kind \in {"verify", "google"}) /\ calls[c].pc = "write"
    BY <1>2 DEF WriteColumns
  <2>5. DecidedCall(calls[c])
    BY <1>000
  <2>6. stale \subseteq stale'
    BY <2>3
  <2>7. profile' /\ "role" \notin stale' => row'.role = "DRIVER"
    BY <2>1, <2>2, <2>3, <2>4, <2>5, <2>6 DEF DecidedCall, Decided
  <2>8. proven' /\ "verified" \notin stale' => row'.verified = TRUE
    <3>1. CASE proven
      BY <2>2, <2>3, <2>4, <2>5, <2>6, <3>1 DEF DecidedCall, Decided
    <3>2. CASE ~proven
      BY <2>2, <2>3, <2>4, <2>5, <3>2 DEF DecidedCall
    <3> QED BY <3>1, <3>2
  <2>9. ASSUME NEW b \in Calls \ {c} PROVE DecidedCall(calls[b])'
    <3>1. calls'[b] = calls[b] /\ DecidedCall(calls[b])
      BY <2>1, <1>000 DEF Others
    <3>2. CASE proven
      BY <2>1, <2>4, <2>6, <3>1, <3>2 DEF DecidedCall
    <3>3. CASE ~proven /\ ~proven'
      BY <2>1, <2>6, <3>1, <3>3 DEF DecidedCall
    <3>4. CASE ~proven /\ proven'
      <4>1. new.verified = TRUE /\ row.verified = FALSE
        BY <2>2, <2>4, <2>5, <3>4, <1>00 DEF DecidedCall
      <4>2. Outdates(c, "verified") => "verified" \in stale'
        BY <2>3, <4>1 DEF Watched
      <4>3. "verified" \notin stale' =>
              /\ calls[b].pc = "compare" => calls[b].entity.verified = Unset
              /\ calls[b].pc = "write" => "verified" \notin calls[b].changed
        BY <4>2 DEF Outdates
      <4> QED BY <2>1, <2>6, <3>1, <3>4, <4>3 DEF DecidedCall
    <3> QED BY <3>2, <3>3, <3>4
  <2>10. DecidedCall(calls[c])'
    BY <2>1, <1>2, WriteFields DEF DecidedCall
  <2>11. \A b \in Calls : DecidedCall(calls[b])'
    BY <2>9, <2>10
  <2>12. (profile' => exists') /\ (proven' => exists')
    BY <2>1
  <2> QED BY <2>7, <2>8, <2>11, <2>12 DEF Decided
<1>3. ASSUME NEW c \in Calls, CallFails(c) PROVE Decided'
  BY <1>3, EndFields, DecidedFrame DEF CallFails
<1>4. ASSUME NEW c \in Calls, register(c) PROVE Decided'
  <2>1. UNCHANGED <<exists, row, profile, session, proven, stale, loggedOut>>
    BY <1>4 DEF register
  <2>2. /\ Others(c) /\ calls'[c].entity = Nothing
        /\ calls'[c].kind = "register" /\ calls'[c].pc = "insert"
    BY <1>4, StartFields DEF register
  <2> QED BY <2>1, <2>2, DecidedFrame
<1>5. ASSUME NEW c \in Calls, Insert(c) PROVE Decided'
  <2>1. CASE exists
    BY <1>5, <2>1, EndFields, DecidedFrame DEF Insert
  <2>2. CASE ~exists
    <3>1. row' = NewRow("LOCAL", None)
      BY <1>5, <2>2, InsertFields
    <3>2. row'.role = "CUSTOMER" /\ row'.verified = FALSE /\ row'.google = None
      BY <3>1 DEF NewRow
    <3>3. UNCHANGED <<profile, session, proven, stale, loggedOut>>
      BY <1>5 DEF Insert
    <3>4. /\ Others(c) /\ calls'[c].kind = "register" /\ calls'[c].pc = "compare"
          /\ calls'[c].entity.role = "CUSTOMER" /\ calls'[c].entity.verified = FALSE
          /\ calls'[c].entity.google \notin GoogleIds
      BY <1>5, <2>2, InsertFields
    <3>5. exists' = TRUE
      BY <1>5, <2>2, InsertFields
    <3>6. profile = FALSE /\ proven = FALSE
      BY <2>2 DEF Decided
    <3>7. DecidedCall(calls[c])'
      BY <3>3, <3>4, <3>5, <3>6 DEF DecidedCall
    <3>8. \A b \in Calls \ {c} : DecidedCall(calls[b])'
      BY <1>000, <2>2, <3>3, <3>4, <3>6 DEF DecidedCall, Others
    <3> QED BY <3>3, <3>5, <3>6, <3>7, <3>8 DEF Decided
  <2> QED BY <2>1, <2>2
<1>6. ASSUME NEW c \in Calls, resendVerificationEmail(c) PROVE Decided'
  <2> DEFINE e == WithVerification(Loaded({}), issued + 1)
  <2>1. e.role = row.role /\ e.google = row.google /\ e.verified = row.verified
    BY VerificationFields
  <2>2. Save(c, "mail", e, issued + 1, None)
    BY <1>6 DEF resendVerificationEmail
  <2>3. /\ Others(c) /\ calls'[c].entity = e /\ calls'[c].kind = "mail"
        /\ calls'[c].pc = "compare"
    BY <2>2, SaveFields
  <2>4. UNCHANGED <<row, profile, session, proven, stale, loggedOut>> /\ exists' = exists /\ exists
    BY <1>6 DEF resendVerificationEmail
  <2> HIDE DEF e
  <2> QED BY <2>1, <2>3, <2>4, DecidedFrame
<1>7. ASSUME NEW c \in Calls, forgotPassword(c) PROVE Decided'
  <2> DEFINE e == WithReset(Loaded({}), issued + 1)
  <2>1. e.role = row.role /\ e.google = row.google /\ e.verified = row.verified
    BY ResetLinkFields
  <2>2. Save(c, "mail", e, issued + 1, None)
    BY <1>7 DEF forgotPassword
  <2>3. /\ Others(c) /\ calls'[c].entity = e /\ calls'[c].kind = "mail"
        /\ calls'[c].pc = "compare"
    BY <2>2, SaveFields
  <2>4. UNCHANGED <<row, profile, session, proven, stale, loggedOut>> /\ exists' = exists /\ exists
    BY <1>7 DEF forgotPassword
  <2> HIDE DEF e
  <2> QED BY <2>1, <2>3, <2>4, DecidedFrame
<1>8. ASSUME NEW c \in Calls, SendMail(c) PROVE Decided'
  BY <1>8, EndFields, DecidedFrame DEF SendMail
<1>9. ASSUME NEW c \in Calls, NEW link \in Links, verifyEmail(c, link) PROVE Decided'
  <2> DEFINE e == Verified(Loaded({"verifyHash"}))
  <2>1. e.role = row.role /\ e.google = row.google /\ e.verified = TRUE
    BY VerifiedFields
  <2>2. Save(c, "verify", e, link, None)
    BY <1>9 DEF verifyEmail
  <2>3. /\ Others(c) /\ calls'[c].entity = e /\ calls'[c].kind = "verify"
        /\ calls'[c].pc = "compare"
    BY <2>2, SaveFields
  <2>4. UNCHANGED <<row, profile, session, proven, stale, loggedOut>> /\ exists' = exists /\ exists
    BY <1>9 DEF verifyEmail
  <2> HIDE DEF e
  <2> QED BY <2>1, <2>3, <2>4, DecidedFrame
<1>10. ASSUME NEW c \in Calls, NEW link \in Links, resetPassword(c, link) PROVE Decided'
  <2> DEFINE e == Reset(Loaded({"resetHash"}))
  <2>1. e.role = row.role /\ e.google = row.google /\ e.verified = row.verified
    BY ResetFields
  <2>2. Save(c, "reset", e, link, None)
    BY <1>10 DEF resetPassword
  <2>3. /\ Others(c) /\ calls'[c].entity = e /\ calls'[c].kind = "reset"
        /\ calls'[c].pc = "compare"
    BY <2>2, SaveFields
  <2>4. UNCHANGED <<row, profile, session, proven, stale, loggedOut>> /\ exists' = exists /\ exists
    BY <1>10 DEF resetPassword
  <2> HIDE DEF e
  <2> QED BY <2>1, <2>3, <2>4, DecidedFrame
<1>11. ASSUME NEW c \in Calls, login(c) PROVE Decided'
  <2>1. /\ UNCHANGED <<exists, row, profile, session, proven, stale>> /\ loggedOut' = FALSE
        /\ exists /\ row.verified
    BY <1>11 DEF login, MayLogIn
  <2>2. /\ Others(c) /\ calls'[c].entity = Nothing
        /\ calls'[c].kind = "session" /\ calls'[c].pc = "open"
    BY <1>11, StartFields DEF login
  <2> QED BY <2>1, <2>2, DecidedFrame
<1>12. ASSUME NEW c \in Calls, NEW g \in GoogleIds, loginWithGoogle(c, g) PROVE Decided'
  <2>1. UNCHANGED <<exists, row, profile, session, proven, stale>> /\ loggedOut' = FALSE
    BY <1>12 DEF loginWithGoogle
  <2>2. CASE exists /\ row.google = g
    <3>1. /\ Others(c) /\ calls'[c].entity = Nothing
          /\ calls'[c].kind = "session" /\ calls'[c].pc = "open"
      BY <1>12, <2>2, StartFields DEF loginWithGoogle
    <3> QED BY <2>1, <2>2, <3>1, DecidedFrame
  <2>3. CASE ~(exists /\ row.google = g)
    <3>1. /\ Others(c) /\ calls'[c].entity = Nothing
          /\ calls'[c].kind = "google" /\ calls'[c].pc = "byEmail"
      BY <1>12, <2>3, GoogleFields DEF loginWithGoogle
    <3> QED BY <2>1, <3>1, DecidedFrame
  <2> QED BY <2>2, <2>3
<1>13. ASSUME NEW c \in Calls, FindByEmail(c) PROVE Decided'
  <2>1. UNCHANGED <<exists, row, profile, session, proven, stale, loggedOut>>
    BY <1>13 DEF FindByEmail
  <2>2. CASE ~exists
    <3>1. /\ Others(c) /\ calls'[c].entity = calls[c].entity /\ calls'[c].kind = calls[c].kind
          /\ calls'[c].pc = "insert" /\ calls[c].pc = "byEmail"
      BY <1>13, <2>2, MoveFields DEF FindByEmail
    <3> QED BY <2>1, <3>1, <1>000, DecidedFrame
  <2>3. CASE exists /\ row.provider = "GOOGLE"
    <3> DEFINE g == calls[c].google
               e == Relinked(Loaded({}), g)
    <3>1. e.role = row.role /\ e.verified = TRUE
      BY RelinkedFields
    <3>2. Save(c, "google", e, None, g) /\ calls[c].pc = "byEmail"
      BY <1>13, <2>3 DEF FindByEmail
    <3>3. /\ Others(c) /\ calls'[c].entity = e /\ calls'[c].kind = "google"
          /\ calls'[c].pc = "compare"
      BY <3>2, SaveFields
    <3> HIDE DEF e
    <3> QED BY <2>1, <2>3, <3>1, <3>2, <3>3, DecidedFrame
  <2>4. CASE exists /\ row.provider # "GOOGLE"
    <3>1. /\ Others(c) /\ calls'[c].entity = Nothing
          /\ calls'[c].kind = "none" /\ calls'[c].pc = "idle"
      BY <1>13, <2>4, EndFields DEF FindByEmail
    <3> QED BY <2>1, <3>1, DecidedFrame
  <2> QED BY <2>2, <2>3, <2>4
<1>14. ASSUME NEW c \in Calls, InsertGoogle(c) PROVE Decided'
  <2>1. CASE exists
    <3>1. UNCHANGED <<exists, row, profile, session, proven, stale, loggedOut>>
      BY <1>14, <2>1 DEF InsertGoogle
    <3>2. /\ Others(c) /\ calls'[c].entity = Nothing
          /\ calls'[c].kind = "none" /\ calls'[c].pc = "idle"
      BY <1>14, <2>1, EndFields DEF InsertGoogle
    <3> QED BY <3>1, <3>2, DecidedFrame
  <2>2. CASE ~exists
    <3>0. NewRow("GOOGLE", calls[c].google).verified = TRUE
      BY DEF NewRow
    <3>1. /\ row'.verified = TRUE /\ exists' = TRUE /\ UNCHANGED <<profile, stale>>
      BY <1>14, <2>2, <3>0 DEF InsertGoogle
    <3>2. profile = FALSE
      BY <2>2 DEF Decided
    <3>3. /\ Others(c) /\ calls'[c].entity = Nothing
          /\ calls'[c].kind = "google" /\ calls'[c].pc = "open"
      BY <1>14, <2>2, StartFields DEF InsertGoogle
    <3>4. \A b \in Calls : DecidedCall(calls[b])'
      BY <1>000, <2>2, <3>1, <3>2, <3>3 DEF DecidedCall, Others
    <3> QED BY <3>1, <3>2, <3>4 DEF Decided
  <2> QED BY <2>1, <2>2
<1>15. ASSUME NEW c \in Calls, OpenSession(c) PROVE Decided'
  <2>1. /\ UNCHANGED <<exists, row, profile, proven, stale, loggedOut>> /\ session' = TRUE
        /\ calls[c].pc = "open"
    BY <1>15 DEF OpenSession
  <2>2. /\ Others(c) /\ calls'[c].entity = Nothing
        /\ calls'[c].kind = "none" /\ calls'[c].pc = "idle"
    BY <1>15, EndFields DEF OpenSession
  <2> QED BY <2>1, <2>2, <1>000, DecidedFrame
<1>16. ASSUME NEW c \in Calls, DropToken(c) PROVE Decided'
  <2>1. /\ UNCHANGED <<exists, row, profile, proven, stale, loggedOut>> /\ session' = FALSE
        /\ calls[c].pc = "drop"
    BY <1>16 DEF DropToken
  <2>2. /\ Others(c) /\ calls'[c].entity = calls[c].entity /\ calls'[c].kind = calls[c].kind
        /\ calls'[c].pc = "lookup"
    BY <1>16, MoveFields DEF DropToken
  <2> QED BY <2>1, <2>2, <1>000, DecidedFrame
<1>17. ASSUME NEW c \in Calls, LookUp(c) PROVE Decided'
  <2>1. /\ UNCHANGED <<exists, row, profile, session, proven, stale, loggedOut>>
        /\ calls[c].pc = "lookup"
    BY <1>17 DEF LookUp
  <2>2. CASE row.verified
    <3>1. calls' = [calls EXCEPT ![c].pc = "open"]
      BY <1>17, <2>2 DEF LookUp
    <3>2. /\ Others(c) /\ calls'[c].entity = calls[c].entity /\ calls'[c].kind = calls[c].kind
          /\ calls'[c].pc = "open"
      BY <3>1, MoveFields
    <3> QED BY <2>1, <2>2, <3>2, <1>000, DecidedFrame
  <2>3. CASE ~row.verified
    <3>1. /\ Others(c) /\ calls'[c].entity = Nothing
          /\ calls'[c].kind = "none" /\ calls'[c].pc = "idle"
      BY <1>17, <2>3, EndFields DEF LookUp
    <3> QED BY <2>1, <3>1, DecidedFrame
  <2> QED BY <2>2, <2>3
<1>18. ASSUME NEW c \in Calls, refresh(c) PROVE Decided'
  <2>1. UNCHANGED <<exists, row, profile, session, proven, stale, loggedOut>> /\ session
    BY <1>18 DEF refresh, TokenKnown
  <2>2. /\ Others(c) /\ calls'[c].entity = Nothing
        /\ calls'[c].kind = "session" /\ calls'[c].pc = "drop"
    BY <1>18, StartFields DEF refresh
  <2> QED BY <2>1, <2>2, DecidedFrame
<1>19. ASSUME NEW c \in Calls, updateUserName(c) PROVE Decided'
  <2> DEFINE e == Loaded({})
  <2>1. e.role = row.role /\ e.google = row.google /\ e.verified = row.verified
    BY LoadedFields
  <2>2. Save(c, "name", e, None, None)
    BY <1>19 DEF updateUserName
  <2>3. /\ Others(c) /\ calls'[c].entity = e /\ calls'[c].kind = "name"
        /\ calls'[c].pc = "compare"
    BY <2>2, SaveFields
  <2>4. UNCHANGED <<row, profile, session, proven, stale, loggedOut>> /\ exists' = exists /\ exists
    BY <1>19 DEF updateUserName
  <2> HIDE DEF e
  <2> QED BY <2>1, <2>3, <2>4, DecidedFrame
<1>20. ASSUME NEW c \in Calls, promoteToDriver(c) PROVE Decided'
  <2>1. UNCHANGED <<exists, row, profile, session, proven, stale, loggedOut>> /\ exists
    BY <1>20 DEF promoteToDriver
  <2>2. /\ Others(c) /\ calls'[c].entity = Nothing
        /\ calls'[c].kind = "promote" /\ calls'[c].pc = "promote"
    BY <1>20, StartFields DEF promoteToDriver
  <2> QED BY <2>1, <2>2, DecidedFrame
<1>21. ASSUME NEW c \in Calls, CommitPromotion(c) PROVE Decided'
  <2>1. /\ Others(c) /\ calls'[c].entity = Nothing
        /\ calls'[c].kind = "none" /\ calls'[c].pc = "idle"
    BY <1>21, EndFields DEF CommitPromotion
  <2>2. UNCHANGED <<exists, proven>> /\ calls[c].pc = "promote"
    BY <1>21 DEF CommitPromotion
  <2>3. exists
    BY <2>2, <1>000 DEF DecidedCall
  <2>4. CASE profile
    <3>1. UNCHANGED <<row, profile, stale>>
      BY <1>21, <2>4 DEF CommitPromotion
    <3> QED BY <2>1, <2>2, <3>1, DecidedFrame
  <2>5. CASE ~profile
    <3> DEFINE new == Promoted(row)
    <3>1. /\ profile' = TRUE /\ row' = new
          /\ stale' = stale \cup {x \in Watched : new[x] # row[x] /\ Outdates(c, x)}
      BY <1>21, <2>5 DEF CommitPromotion, Store
    <3>2. new.role = "DRIVER" /\ new.verified = row.verified
      BY DEF Promoted, Row
    <3>3. row.role # "DRIVER" /\ stale \subseteq stale'
      BY <2>5, <3>1 DEF ProfilesFirst
    <3>4. ASSUME NEW b \in Calls \ {c} PROVE DecidedCall(calls[b])'
      <4>1. calls'[b] = calls[b] /\ DecidedCall(calls[b])
        BY <2>1, <1>000 DEF Others
      <4>2. Outdates(c, "role") => "role" \in stale'
        BY <3>1, <3>2, <3>3 DEF Watched
      <4>3. "role" \notin stale' =>
              /\ calls[b].pc = "compare" => calls[b].entity.role = Unset
              /\ calls[b].pc = "write" => "role" \notin calls[b].changed
        BY <4>2 DEF Outdates
      <4> QED BY <2>2, <3>3, <4>1, <4>3 DEF DecidedCall
    <3>5. DecidedCall(calls[c])'
      BY <2>1 DEF DecidedCall
    <3>6. \A b \in Calls : DecidedCall(calls[b])'
      BY <3>4, <3>5
    <3>7. proven' /\ "verified" \notin stale' => row'.verified = TRUE
      BY <2>2, <3>1, <3>2, <3>3 DEF Decided
    <3> QED BY <2>2, <2>3, <3>1, <3>2, <3>6, <3>7 DEF Decided
  <2> QED BY <2>4, <2>5
<1>22. ASSUME LinkLapses \/ logout \/ SessionExpires \/ UNCHANGED vars PROVE Decided'
  <2>1. UNCHANGED <<exists, row, calls, profile, proven, stale>>
    BY <1>22 DEF LinkLapses, logout, SessionExpires, vars
  <2> QED BY <2>1 DEF Decided, DecidedCall
<1> QED BY <1>1, <1>2, <1>3, <1>4, <1>5, <1>6, <1>7, <1>8, <1>9, <1>10, <1>11,
           <1>12, <1>13, <1>14, <1>15, <1>16, <1>17, <1>18, <1>19, <1>20, <1>21, <1>22 DEF Next

\* What was decided stands: a promoted user keeps the role and a proven owner
\* stays verified, unless a call that had read the older value saves it.
THEOREM DecisionsKept == Spec => []DecisionsStand
<1>1. Init => Decided
  <2> SUFFICES ASSUME Init PROVE Decided
    OBVIOUS
  <2>1. ASSUME NEW c \in Calls PROVE calls[c].pc = "idle" /\ calls[c].kind = "none"
    BY DEF Init, Idle
  <2>2. profile = FALSE /\ proven = FALSE
    BY DEF Init
  <2> QED BY <2>1, <2>2 DEF Decided, DecidedCall
<1>2. Decided => DecisionsStand
  BY DEF Decided, DecisionsStand
<1> QED BY <1>1, <1>2, ProfilesInductive, OwnerInductive, DecidedStep, PTL DEF Spec

=============================================================================
