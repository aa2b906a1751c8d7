------------------------------ MODULE Accounts ------------------------------
(***************************************************************************)
(* One account (one e-mail address) and everything that writes it: sign up *)
(* by mail or with Google, the links of verification and reset mails, the  *)
(* session of a refresh token, the user's own name, and the promotion to a *)
(* driver by an admin.                                                     *)
(*                                                                         *)
(* Most calls read an entity, change it and save it.  A save of TypeORM    *)
(* reads the row again, compares it with the entity, and then writes the   *)
(* columns that differ, those the call never meant to change included.     *)
(* A column with select: false is in neither read: an entity that holds it *)
(* always writes it, any other leaves it alone.                            *)
(*                                                                         *)
(* Passwords, names and the contents of tokens are left out: whoever calls *)
(* has the right password, Google's word for the address, or a good token. *)
(***************************************************************************)
EXTENDS Naturals

CONSTANTS
  Calls,       \* calls in progress, of any process
  GoogleIds,   \* Google accounts with this address, one after the other
  None,        \* null
  Unset,       \* a column that the entity does not hold
  LinkBound,   \* bound: links made
  LapseBound   \* bound: links that get too old

Links == 1 .. LinkBound

ASSUME BoundAssumption == LinkBound \in Nat /\ LapseBound \in 0 .. LinkBound
ASSUME UnsetAssumption ==
  /\ Unset \notin {"CUSTOMER", "DRIVER"} /\ Unset \notin {"LOCAL", "GOOGLE"}
  /\ Unset \notin BOOLEAN /\ Unset \notin GoogleIds \cup {None}
  /\ Unset \notin Links \cup {None} /\ None \notin Links \cup GoogleIds

VARIABLES
  exists,    \* there is a row
  row,       \* the row of users
  profile,   \* there is a row of drivers for it
  session,   \* Redis refresh:<user> holds the hash of a refresh token
  calls,     \* what each call is doing
  issued,    \* links made so far; they are numbered
  lapsed,    \* of these, how many are too old (each lives ten minutes)
  mailed,    \* links whose mail was sent
  spent,     \* links that have done their work
  proven,    \* the owner of the address was there: by a link, or with Google
  stale,     \* columns that changed while a call was going to save an older value
  loggedOut  \* since the last logout nobody was on the way to a session

vars == <<exists, row, profile, session, calls, issued, lapsed, mailed, spent,
          proven, stale, loggedOut>>

Columns == {"role", "verified", "provider", "google",
            "verifyHash", "verifyUntil", "resetHash", "resetUntil"}
Secret == {"verifyHash", "resetHash"}    \* select: false

\* The columns whose stale saves a property is about.
Watched == {"role", "verified", "verifyUntil", "resetHash", "resetUntil"}

\* A hash and an expiry time go by the number of the link they were made for.
Row == [role : {"CUSTOMER", "DRIVER"}, verified : BOOLEAN,
        provider : {"LOCAL", "GOOGLE"}, google : GoogleIds \cup {None},
        verifyHash : Links \cup {None}, verifyUntil : Links \cup {None},
        resetHash : Links \cup {None}, resetUntil : Links \cup {None}]

Entity == [role : {"CUSTOMER", "DRIVER", Unset}, verified : BOOLEAN \cup {Unset},
           provider : {"LOCAL", "GOOGLE", Unset}, google : GoogleIds \cup {None, Unset},
           verifyHash : Links \cup {None, Unset}, verifyUntil : Links \cup {None, Unset},
           resetHash : Links \cup {None, Unset}, resetUntil : Links \cup {None, Unset}]

\* Mutant: the role is taken from the request.
NewRowOfRole(provider, google) ==
  [role |-> IF provider = "LOCAL" THEN "DRIVER" ELSE "CUSTOMER",
   verified |-> provider = "GOOGLE", provider |-> provider,
   google |-> google, verifyHash |-> None, verifyUntil |-> None,
   resetHash |-> None, resetUntil |-> None]

NewRow(provider, google) ==
  [role |-> "CUSTOMER", verified |-> provider = "GOOGLE", provider |-> provider,
   google |-> google, verifyHash |-> None, verifyUntil |-> None,
   resetHash |-> None, resetUntil |-> None]

Nothing == [x \in Columns |-> Unset]

Kinds == {"register", "mail", "verify", "reset", "name", "google", "session", "promote"}
Steps == {"idle", "insert", "compare", "write", "mail", "byEmail", "open",
          "drop", "lookup", "promote"}

Call == [pc : Steps, kind : Kinds \cup {"none"}, entity : Entity, changed : SUBSET Columns,
         link : Links \cup {None}, google : GoogleIds \cup {None}]

Idle == [pc |-> "idle", kind |-> "none", entity |-> Nothing, changed |-> {},
         link |-> None, google |-> None]

Init ==
  /\ exists = FALSE /\ row = NewRow("LOCAL", None) /\ profile = FALSE /\ session = FALSE
  /\ calls = [c \in Calls |-> Idle]
  /\ issued = 0 /\ lapsed = 0 /\ mailed = {} /\ spent = {}
  /\ proven = FALSE /\ stale = {} /\ loggedOut = FALSE

-----------------------------------------------------------------------------
(* Reading and saving an entity *)

\* Mutant: the entity holds every column.
LoadedWithSecrets(secrets) == row

\* The row as a query returns it that asks for these secrets as well.
Loaded(secrets) == [x \in Columns |-> IF x \in Secret \ secrets THEN Unset ELSE row[x]]

Start(c, kind, step) == calls' = [calls EXCEPT ![c] = [Idle EXCEPT !.pc = step, !.kind = kind]]

\* The call goes on to save this entity.
Save(c, kind, entity, link, google) ==
  calls' = [calls EXCEPT ![c] = [pc |-> "compare", kind |-> kind, entity |-> entity,
                                 changed |-> {}, link |-> link, google |-> google]]

Differing(entity) ==
  {x \in Columns : entity[x] # Unset /\ (x \in Secret \/ entity[x] # row[x])}

Compare(c) ==
  /\ calls[c].pc = "compare"
  /\ calls' = [calls EXCEPT ![c].pc = "write", ![c].changed = Differing(calls[c].entity)]
  /\ UNCHANGED <<exists, row, profile, session, issued, lapsed, mailed, spent, proven,
                 stale, loggedOut>>

Merged(entity, changed) == [x \in Columns |-> IF x \in changed THEN entity[x] ELSE row[x]]

\* Another call is going to save what it read of this column.
Outdates(c, x) ==
  \E b \in Calls \ {c} :
    \/ calls[b].pc = "compare" /\ calls[b].entity[x] # Unset
    \/ calls[b].pc = "write" /\ x \in calls[b].changed

Store(c, new) ==
  /\ row' = new
  /\ stale' = stale \cup {x \in Watched : new[x] # row[x] /\ Outdates(c, x)}

\* After the save: the mail, the session, or the answer.
NextStep(kind) ==
  CASE kind \in {"register", "mail"} -> "mail" [] kind = "google" -> "open" [] OTHER -> "idle"

WriteColumns(c) ==
  LET call == calls[c] IN
    /\ call.pc = "write"
    /\ Store(c, Merged(call.entity, call.changed))
    /\ calls' = [calls EXCEPT ![c] = IF NextStep(call.kind) = "idle" THEN Idle
                                     ELSE [Idle EXCEPT !.pc = NextStep(call.kind),
                                                       !.kind = call.kind, !.link = call.link]]
    /\ spent' = IF call.kind \in {"verify", "reset"} THEN spent \cup {call.link} ELSE spent
    /\ proven' = (proven \/ call.kind \in {"verify", "google"})
    /\ UNCHANGED <<exists, profile, session, issued, lapsed, mailed, loggedOut>>

\* An await throws, the mail server refuses, or the process dies.
CallFails(c) ==
  /\ calls[c].pc # "idle"
  /\ calls' = [calls EXCEPT ![c] = Idle]
  /\ UNCHANGED <<exists, row, profile, session, issued, lapsed, mailed, spent, proven,
                 stale, loggedOut>>

-----------------------------------------------------------------------------
(* Links: register, resendVerificationEmail, forgotPassword, and their use *)

register(c) ==
  /\ calls[c].pc = "idle" /\ ~exists
  /\ Start(c, "register", "insert")
  /\ UNCHANGED <<exists, row, profile, session, issued, lapsed, mailed, spent, proven,
                 stale, loggedOut>>

WithVerification(entity, link) ==
  [entity EXCEPT !.verifyHash = link, !.verifyUntil = link]
WithReset(entity, link) == [entity EXCEPT !.resetHash = link, !.resetUntil = link]

\* The inserted entity holds what it was created with; the columns it was
\* created without are null in it now, or still not there.  The address is
\* unique.
Insert(c) ==
  LET new == NewRow("LOCAL", None)
      Held(other) == [x \in Columns |-> IF x \in {"role", "verified", "provider"} THEN new[x]
                                        ELSE other]
  IN  /\ calls[c].pc = "insert" /\ calls[c].kind = "register"
      /\ issued < LinkBound
      /\ IF exists
           THEN /\ calls' = [calls EXCEPT ![c] = Idle]
                /\ UNCHANGED <<exists, row, issued>>
           ELSE /\ exists' = TRUE /\ row' = new /\ issued' = issued + 1
                /\ \E other \in {None, Unset} :
                     Save(c, "register", WithVerification(Held(other), issued + 1),
                          issued + 1, None)
      /\ UNCHANGED <<profile, session, lapsed, mailed, spent, proven, stale, loggedOut>>

resendVerificationEmail(c) ==
  /\ calls[c].pc = "idle" /\ exists /\ ~row.verified
  /\ issued < LinkBound /\ issued' = issued + 1
  /\ Save(c, "mail", WithVerification(Loaded({}), issued + 1), issued + 1, None)
  /\ UNCHANGED <<exists, row, profile, session, lapsed, mailed, spent, proven, stale,
                 loggedOut>>

forgotPassword(c) ==
  /\ calls[c].pc = "idle" /\ exists /\ row.provider = "LOCAL"
  /\ issued < LinkBound /\ issued' = issued + 1
  /\ Save(c, "mail", WithReset(Loaded({}), issued + 1), issued + 1, None)
  /\ UNCHANGED <<exists, row, profile, session, lapsed, mailed, spent, proven, stale,
                 loggedOut>>

\* A mail that is not sent is CallFails.
SendMail(c) ==
  /\ calls[c].pc = "mail"
  /\ mailed' = mailed \cup {calls[c].link}
  /\ calls' = [calls EXCEPT ![c] = Idle]
  /\ UNCHANGED <<exists, row, profile, session, issued, lapsed, spent, proven, stale,
                 loggedOut>>

LinkLapses ==
  /\ lapsed < issued /\ lapsed < LapseBound
  /\ lapsed' = lapsed + 1
  /\ UNCHANGED <<exists, row, profile, session, calls, issued, mailed, spent, proven,
                 stale, loggedOut>>

\* Mutant: the expiry time stays.
VerifiedUntil(entity) == [entity EXCEPT !.verified = TRUE, !.verifyHash = None]

Verified(entity) ==
  [entity EXCEPT !.verified = TRUE, !.verifyHash = None, !.verifyUntil = None]

Reset(entity) == [entity EXCEPT !.resetHash = None, !.resetUntil = None]

\* The link is the one whose hash is stored, and the stored time is not over.
Accepts(link, hash, until) ==
  link \in mailed /\ row[hash] = link /\ row[until] \in Links /\ row[until] > lapsed

verifyEmail(c, link) ==
  /\ calls[c].pc = "idle" /\ exists /\ ~row.verified
  /\ Accepts(link, "verifyHash", "verifyUntil")
  /\ Save(c, "verify", Verified(Loaded({"verifyHash"})), link, None)
  /\ UNCHANGED <<exists, row, profile, session, issued, lapsed, mailed, spent, proven,
                 stale, loggedOut>>

resetPassword(c, link) ==
  /\ calls[c].pc = "idle" /\ exists
  /\ Accepts(link, "resetHash", "resetUntil")
  /\ Save(c, "reset", Reset(Loaded({"resetHash"})), link, None)
  /\ UNCHANGED <<exists, row, profile, session, issued, lapsed, mailed, spent, proven,
                 stale, loggedOut>>

-----------------------------------------------------------------------------
(* Sessions: login, loginWithGoogle, refresh, logout *)

\* Mutant: the account need not be verified.
MayLogInUnverified == row.provider = "LOCAL"

MayLogIn == row.provider = "LOCAL" /\ row.verified

login(c) ==
  /\ calls[c].pc = "idle" /\ exists /\ MayLogIn
  /\ Start(c, "session", "open")
  /\ loggedOut' = FALSE
  /\ UNCHANGED <<exists, row, profile, session, issued, lapsed, mailed, spent, proven, stale>>

\* By the id first; a second query asks for the address.
loginWithGoogle(c, g) ==
  /\ calls[c].pc = "idle"
  /\ IF exists /\ row.google = g THEN Start(c, "session", "open")
     ELSE calls' = [calls EXCEPT ![c] = [Idle EXCEPT !.pc = "byEmail", !.kind = "google",
                                                     !.google = g]]
  /\ loggedOut' = FALSE
  /\ UNCHANGED <<exists, row, profile, session, issued, lapsed, mailed, spent, proven, stale>>

Relinked(entity, g) ==
  [entity EXCEPT !.google = g, !.provider = "GOOGLE", !.verified = TRUE]

\* An address with a password is refused.
FindByEmail(c) ==
  LET g == calls[c].google IN
    /\ calls[c].pc = "byEmail"
    /\ CASE ~exists -> calls' = [calls EXCEPT ![c].pc = "insert"]
         [] exists /\ row.provider = "GOOGLE" ->
              Save(c, "google", Relinked(Loaded({}), g), None, g)
         [] OTHER -> calls' = [calls EXCEPT ![c] = Idle]
    /\ UNCHANGED <<exists, row, profile, session, issued, lapsed, mailed, spent, proven,
                   stale, loggedOut>>

InsertGoogle(c) ==
  /\ calls[c].pc = "insert" /\ calls[c].kind = "google"
  /\ IF exists
       THEN /\ calls' = [calls EXCEPT ![c] = Idle]
            /\ UNCHANGED <<exists, row, proven>>
       ELSE /\ exists' = TRUE /\ row' = NewRow("GOOGLE", calls[c].google) /\ proven' = TRUE
            /\ Start(c, "google", "open")
  /\ UNCHANGED <<profile, session, issued, lapsed, mailed, spent, stale, loggedOut>>

\* generateTokens
OpenSession(c) ==
  /\ calls[c].pc = "open"
  /\ session' = TRUE
  /\ calls' = [calls EXCEPT ![c] = Idle]
  /\ UNCHANGED <<exists, row, profile, issued, lapsed, mailed, spent, proven, stale, loggedOut>>

\* Mutant: whether the token is still known is not asked.
TokenGood == proven

\* The bearer of the current token; any other is refused.
TokenKnown == session

refresh(c) ==
  /\ calls[c].pc = "idle" /\ TokenKnown
  /\ Start(c, "session", "drop")
  /\ UNCHANGED <<exists, row, profile, session, issued, lapsed, mailed, spent, proven,
                 stale, loggedOut>>

\* verifyRefreshToken deletes the key, whichever token it holds by now.
DropToken(c) ==
  /\ calls[c].pc = "drop"
  /\ session' = FALSE
  /\ calls' = [calls EXCEPT ![c].pc = "lookup"]
  /\ UNCHANGED <<exists, row, profile, issued, lapsed, mailed, spent, proven, stale, loggedOut>>

\* The strategy and the service look the user up, each: the second counts.
LookUp(c) ==
  /\ calls[c].pc = "lookup"
  /\ calls' = [calls EXCEPT ![c] = IF row.verified THEN [@ EXCEPT !.pc = "open"] ELSE Idle]
  /\ UNCHANGED <<exists, row, profile, session, issued, lapsed, mailed, spent, proven,
                 stale, loggedOut>>

\* A call that may still open a session.
Opening(c) == calls[c].pc \in {"open", "drop", "lookup", "byEmail"} \/ calls[c].kind = "google"

\* The guard's look at the user and the call are one step, here and below.
logout ==
  /\ exists /\ row.verified
  /\ session' = FALSE
  /\ loggedOut' = \A c \in Calls : ~Opening(c)
  /\ UNCHANGED <<exists, row, profile, calls, issued, lapsed, mailed, spent, proven, stale>>

SessionExpires ==
  /\ session /\ session' = FALSE
  /\ UNCHANGED <<exists, row, profile, calls, issued, lapsed, mailed, spent, proven, stale,
                 loggedOut>>

-----------------------------------------------------------------------------
(* Users: updateUserName, promoteToDriver *)

updateUserName(c) ==
  /\ calls[c].pc = "idle" /\ exists /\ row.verified
  /\ Save(c, "name", Loaded({}), None, None)
  /\ UNCHANGED <<exists, row, profile, session, issued, lapsed, mailed, spent, proven,
                 stale, loggedOut>>

promoteToDriver(c) ==
  /\ calls[c].pc = "idle" /\ exists /\ row.role = "CUSTOMER"
  /\ Start(c, "promote", "promote")
  /\ UNCHANGED <<exists, row, profile, session, issued, lapsed, mailed, spent, proven,
                 stale, loggedOut>>

\* Mutant: a role the table does not know.
PromotedTwice(r) == [r EXCEPT !.role = "DRIVER_PENDING"]

\* Mutant: the profile is made and the role forgotten.
ProfiledOnly(r) == r

Promoted(r) == [r EXCEPT !.role = "DRIVER"]

\* One transaction; a profile that is there already rolls it back.
CommitPromotion(c) ==
  /\ calls[c].pc = "promote"
  /\ calls' = [calls EXCEPT ![c] = Idle]
  /\ IF profile THEN UNCHANGED <<row, profile, stale>>
     ELSE Store(c, Promoted(row)) /\ profile' = TRUE
  /\ UNCHANGED <<exists, session, issued, lapsed, mailed, spent, proven, loggedOut>>

-----------------------------------------------------------------------------
Next ==
  \/ \E c \in Calls :
       \/ Compare(c) \/ WriteColumns(c) \/ CallFails(c)
       \/ register(c) \/ Insert(c) \/ resendVerificationEmail(c) \/ forgotPassword(c)
       \/ SendMail(c)
       \/ \E link \in Links : verifyEmail(c, link) \/ resetPassword(c, link)
       \/ login(c) \/ OpenSession(c) \/ FindByEmail(c) \/ InsertGoogle(c)
       \/ \E g \in GoogleIds : loginWithGoogle(c, g)
       \/ refresh(c) \/ DropToken(c) \/ LookUp(c)
       \/ updateUserName(c) \/ promoteToDriver(c) \/ CommitPromotion(c)
  \/ LinkLapses \/ logout \/ SessionExpires

Spec == Init /\ [][Next]_vars

-----------------------------------------------------------------------------
(* Safety *)

\* Every variable stays within what the code can store in it.
TypeOK ==
  /\ exists \in BOOLEAN /\ profile \in BOOLEAN /\ session \in BOOLEAN
  /\ row \in Row
  /\ calls \in [Calls -> Call]
  /\ issued \in 0 .. LinkBound /\ lapsed \in 0 .. LinkBound
  /\ mailed \subseteq Links /\ spent \subseteq Links
  /\ proven \in BOOLEAN /\ loggedOut \in BOOLEAN
  /\ stale \subseteq Watched

\* Whoever has the role of a driver has a profile (resolveDriverProfileId
\* finds one), whatever entities are saved over a promotion.
DriverHasProfile == exists /\ row.role = "DRIVER" => profile

\* What was decided stands: a promoted user has the role and a proven owner
\* is verified, unless a call that had read the old value went on to save it.
DecisionsStand ==
  /\ profile /\ "role" \notin stale => row.role = "DRIVER"
  /\ proven /\ "verified" \notin stale => row.verified

\* A stored hash and the time beside it belong to one link: no other call's
\* time ends or revives a link, unless a call saved a time it had read, or a
\* registration saved its row again over a reset that was asked for meanwhile.
LinksWhole ==
  /\ "verifyUntil" \notin stale => row.verifyHash = row.verifyUntil
  /\ {"resetHash", "resetUntil"} \cap stale = {} => row.resetHash = row.resetUntil

\* A link that has done its work is never good again, although entities read
\* before are saved after it.
SpentLinkDead == row.verifyHash \notin spent /\ row.resetHash \notin spent

\* Nobody has a session whose owner was never there.
SessionsProven == session => proven

\* After a logout there is no session until somebody logs in, unless a call
\* was already on the way to one.
LogoutStands == loggedOut => ~session

=============================================================================
