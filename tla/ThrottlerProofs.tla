-------------------------- MODULE ThrottlerProofs --------------------------
(***************************************************************************)
(* Theorems about Throttler, for any settings of a route, any number of    *)
(* requests and failures and any time.                                     *)
(***************************************************************************)
EXTENDS Throttler, TLAPS

USE ConfigsAssumption, BoundsAssumption

\* The settings are positive.
LEMMA ConfTypes ==
  ASSUME TypeOK
  PROVE /\ conf.limit \in Nat \ {0} /\ conf.ttl \in Nat \ {0} /\ conf.block \in Nat \ {0}
        /\ now \in Nat /\ now \in Times
<1>1. conf \in [limit : Nat \ {0}, ttl : Nat \ {0}, block : Nat \ {0}]
  BY DEF TypeOK
<1> QED BY <1>1 DEF TypeOK, Times

\* What the script leaves in the keys.
LEMMA ScriptTypes ==
  ASSUME TypeOK, RunScript
  PROVE /\ count' \in Nat
        /\ countEnd' \in Nat \cup {Gone} /\ blockEnd' \in Nat \cup {Gone}
        /\ exceeded' \in Nat \cup {Gone}
<1>1. /\ count \in Nat /\ now \in Nat
      /\ countEnd \in Nat \cup {Gone} /\ blockEnd \in Nat \cup {Gone}
      /\ exceeded \in Nat \cup {Gone}
  BY ConfTypes DEF TypeOK
<1>2. now + conf.ttl \in Nat /\ now + conf.block \in Nat
  BY ConfTypes
<1>3. NewCount \in Nat
  BY <1>1 DEF NewCount
<1>4. CASE Blocked
  BY <1>1, <1>4 DEF RunScript, keys
<1>5. CASE ~Blocked
  <2>1. CountHit /\ BlockIfTooMany
    BY <1>5 DEF RunScript
  <2>2. count' \in Nat /\ countEnd' \in Nat \cup {Gone}
    BY <1>1, <1>2, <1>3, <2>1 DEF CountHit
  <2>3. blockEnd' \in Nat \cup {Gone} /\ exceeded' \in Nat \cup {Gone}
    BY <1>1, <1>2, <2>1 DEF BlockIfTooMany
  <2> QED BY <2>2, <2>3
<1> QED BY <1>4, <1>5

LEMMA TypeStep == TypeOK /\ [Next]_vars => TypeOK'
<1> SUFFICES ASSUME TypeOK, [Next]_vars PROVE TypeOK'
  OBVIOUS
<1>0. now \in Times /\ now \in Nat
  BY ConfTypes
\* A step of a request in the process.
<1>1. ASSUME NEW c \in Callers, NEW s \in {"idle", "try", "load", "run"}, Become(c, s)
      PROVE callers' \in [Callers -> {"idle", "try", "load", "run"}]
  BY <1>1 DEF Become, TypeOK
<1>2. ASSUME NEW c \in Callers, Start(c) \/ ScriptMissing(c) PROVE TypeOK'
  <2>1. \E s \in {"idle", "try", "load", "run"} : Become(c, s)
    BY <1>2 DEF Start, ScriptMissing
  <2>2. callers' \in [Callers -> {"idle", "try", "load", "run"}]
    BY <1>1, <2>1
  <2> QED BY <1>2, <2>2 DEF Start, ScriptMissing, keys, TypeOK
<1>3. ASSUME NEW c \in Callers, Answered(c) PROVE TypeOK'
  <2>1. callers' \in [Callers -> {"idle", "try", "load", "run"}]
    BY <1>1, <1>3 DEF Answered
  <2>2. /\ count' \in Nat
        /\ countEnd' \in Nat \cup {Gone} /\ blockEnd' \in Nat \cup {Gone}
        /\ exceeded' \in Nat \cup {Gone}
    BY <1>3, ScriptTypes DEF Answered
  <2>3. hits' \in Seq(Times)
    BY <1>0, <1>3 DEF Answered, TypeOK
  <2>4. passed' \in Seq(Times)
    BY <1>0, <1>3 DEF Answered, TypeOK
  <2>5. UNCHANGED <<conf, now, loaded, known, faults>>
    BY <1>3 DEF Answered
  <2> QED BY <2>1, <2>2, <2>3, <2>4, <2>5 DEF TypeOK
<1>4. ASSUME NEW c \in Callers, AnswerLost(c) PROVE TypeOK'
  <2>1. \E s \in {"idle", "try", "load", "run"} : Become(c, s)
    BY <1>4 DEF AnswerLost
  <2>2. callers' \in [Callers -> {"idle", "try", "load", "run"}]
    BY <1>1, <2>1
  <2>3. /\ count' \in Nat
        /\ countEnd' \in Nat \cup {Gone} /\ blockEnd' \in Nat \cup {Gone}
        /\ exceeded' \in Nat \cup {Gone}
    BY <1>4, ScriptTypes DEF AnswerLost
  <2>4. faults' \in 0 .. FaultBound /\ UNCHANGED <<conf, now, loaded, known, hits, passed>>
    BY <1>4 DEF AnswerLost, TypeOK
  <2> QED BY <2>2, <2>3, <2>4 DEF TypeOK
<1>5. ASSUME NEW c \in Callers, LoadScript(c) PROVE TypeOK'
  <2>1. callers' \in [Callers -> {"idle", "try", "load", "run"}]
    BY <1>1, <1>5 DEF LoadScript
  <2> QED BY <1>5, <2>1 DEF LoadScript, keys, TypeOK
<1>6. CASE Restart
  <2>1. faults' \in 0 .. FaultBound /\ loaded' = FALSE
        /\ UNCHANGED <<conf, now, known, callers, hits>>
    BY <1>6 DEF Restart, TypeOK
  <2>2. CASE UNCHANGED <<keys, passed, exceeded>>
    BY <2>1, <2>2 DEF keys, TypeOK
  <2>3. CASE /\ count' = 0 /\ countEnd' = Gone /\ blockEnd' = Gone
             /\ passed' = <<>> /\ exceeded' = Gone
    <3>1. <<>> \in Seq(Times) /\ 0 \in Nat
      OBVIOUS
    <3> QED BY <2>1, <2>3, <3>1 DEF TypeOK
  <2> QED BY <1>6, <2>2, <2>3 DEF Restart
<1>7. CASE TimePasses
  BY <1>0, <1>7 DEF TimePasses, keys, Times, TypeOK
<1>8. CASE UNCHANGED vars
  BY <1>8 DEF vars, keys, TypeOK
<1> QED BY <1>2, <1>3, <1>4, <1>5, <1>6, <1>7, <1>8 DEF Next

LEMMA TypesInductive == Spec => []TypeOK
<1>1. Init => TypeOK
  <2> SUFFICES ASSUME Init PROVE TypeOK
    OBVIOUS
  <2>1. now \in Times /\ faults \in 0 .. FaultBound
    BY DEF Init, Times
  <2>2. hits \in Seq(Times) /\ passed \in Seq(Times)
    BY DEF Init
  <2>3. callers \in [Callers -> {"idle", "try", "load", "run"}]
    BY DEF Init
  <2> QED BY <2>1, <2>2, <2>3 DEF Init, TypeOK
<1> QED BY <1>1, TypeStep, PTL DEF Spec

\* Type correctness: counts never go below zero, times are times.
THEOREM TypeCorrect == Spec => []TypeOK
  BY TypesInductive, PTL

-----------------------------------------------------------------------------
(* The penalty *)

\* The block key and the last hit that was too many belong together, and
\* nothing has passed in the future.
Penalty ==
  /\ blockEnd = IF exceeded = Gone THEN Gone ELSE exceeded + conf.block
  /\ exceeded # Gone => exceeded <= now
  /\ \A i \in DOMAIN passed : passed[i] <= now
  /\ PenaltyServed

\* A request that passes is the last of those that did.
LEMMA OneMore ==
  ASSUME NEW S, NEW q \in Seq(S), NEW x \in S
  PROVE /\ Append(q, x) \in Seq(S) /\ Len(Append(q, x)) = Len(q) + 1 /\ Len(q) \in Nat
        /\ DOMAIN Append(q, x) = 1 .. Len(q) + 1 /\ DOMAIN q = 1 .. Len(q)
        /\ Append(q, x)[Len(q) + 1] = x
        /\ \A i \in 1 .. Len(q) : Append(q, x)[i] = q[i] /\ q[i] \in S
  OBVIOUS

\* A run of the script whose answer passes nothing.
LEMMA PenaltyScript ==
  ASSUME TypeOK, Penalty, RunScript, UNCHANGED <<conf, now, passed>>
  PROVE Penalty'
<1>1. conf.block \in Nat \ {0} /\ now \in Nat
  BY ConfTypes
<1>2. CASE UNCHANGED <<blockEnd, exceeded>>
  BY <1>2 DEF Penalty, PenaltyServed
<1>3. CASE blockEnd' = now + conf.block /\ exceeded' = now
  <2>1. now # Gone
    BY <1>1 DEF Gone
  <2>2. PenaltyServed'
    BY <1>1, <1>3 DEF Penalty, PenaltyServed
  <2> QED BY <1>1, <1>3, <2>1, <2>2 DEF Penalty
<1> QED BY <1>2, <1>3 DEF RunScript, BlockIfTooMany, keys

LEMMA PenaltyStep == TypeOK /\ Penalty /\ [Next]_vars => Penalty'
<1> SUFFICES ASSUME TypeOK, Penalty, [Next]_vars PROVE Penalty'
  OBVIOUS
<1>0. /\ conf.block \in Nat \ {0} /\ now \in Nat /\ now \in Times
      /\ exceeded \in Nat \cup {Gone} /\ passed \in Seq(Times)
  BY ConfTypes DEF TypeOK
<1>1. ASSUME UNCHANGED <<conf, now, blockEnd, passed, exceeded>> PROVE Penalty'
  BY <1>1 DEF Penalty, PenaltyServed
<1>2. ASSUME NEW c \in Callers, Start(c) \/ ScriptMissing(c) \/ LoadScript(c) PROVE Penalty'
  BY <1>1, <1>2 DEF Start, ScriptMissing, LoadScript, keys
<1>3. ASSUME NEW c \in Callers, Answered(c) PROVE Penalty'
  <2>1. RunScript /\ UNCHANGED <<conf, now>>
    BY <1>3 DEF Answered
  <2>2. CASE ~Passes
    BY <1>3, <2>1, <2>2, PenaltyScript DEF Answered
  <2>3. CASE Passes
    <3>1. UNCHANGED <<blockEnd, exceeded>> /\ ~Blocked
      BY <2>1, <2>3 DEF Passes, RunScript, BlockIfTooMany, keys
    <3>2. passed' = Append(passed, now)
      BY <1>3, <2>3 DEF Answered
    <3>3. exceeded # Gone => exceeded + conf.block <= now
      BY <1>0, <3>1 DEF Penalty, Blocked, Gone
    <3>4. \A i \in DOMAIN passed' :
            passed'[i] = now \/ (i \in DOMAIN passed /\ passed'[i] = passed[i])
      BY <1>0, <3>2, OneMore
    <3>5. PenaltyServed'
      BY <2>1, <3>1, <3>3, <3>4 DEF Penalty, PenaltyServed
    <3>6. \A i \in DOMAIN passed' : passed'[i] <= now
      BY <1>0, <3>4 DEF Penalty
    <3> QED BY <2>1, <3>1, <3>5, <3>6 DEF Penalty
  <2> QED BY <2>2, <2>3
<1>4. ASSUME NEW c \in Callers, AnswerLost(c) PROVE Penalty'
  BY <1>4, PenaltyScript DEF AnswerLost
<1>5. CASE Restart
  <2>1. UNCHANGED <<conf, now>>
    BY <1>5 DEF Restart
  <2>2. CASE UNCHANGED <<keys, passed, exceeded>>
    BY <1>1, <2>1, <2>2 DEF keys
  <2>3. CASE /\ blockEnd' = Gone /\ passed' = <<>> /\ exceeded' = Gone
    BY <2>1, <2>3 DEF Penalty, PenaltyServed
  <2> QED BY <1>5, <2>2, <2>3 DEF Restart
<1>6. CASE TimePasses
  <2>1. now' = now + 1 /\ UNCHANGED <<conf, blockEnd, passed, exceeded>>
    BY <1>6 DEF TimePasses, keys
  <2>2. \A i \in DOMAIN passed : passed[i] <= now + 1
    BY <1>0, OneMore DEF Penalty, Times
  <2>3. exceeded # Gone => exceeded <= now + 1
    BY <1>0 DEF Penalty, Gone
  <2> QED BY <2>1, <2>2, <2>3 DEF Penalty, PenaltyServed
<1>7. CASE UNCHANGED vars
  BY <1>1, <1>7 DEF vars, keys
<1> QED BY <1>2, <1>3, <1>4, <1>5, <1>6, <1>7 DEF Next

\* A caller who exceeded the limit is refused until the block ends: neither
\* the end of the window, nor a script that was forgotten and loaded again,
\* nor a request that was counted twice lets one through.
THEOREM PenaltyHolds == Spec => []PenaltyServed
<1>1. Init => Penalty
  BY DEF Init, Penalty, PenaltyServed
<1>2. Penalty => PenaltyServed
  BY DEF Penalty
<1> QED BY <1>1, <1>2, TypesInductive, PenaltyStep, PTL DEF Spec

-----------------------------------------------------------------------------
(* Windows *)

WindowStart == countEnd - conf.ttl

\* How the script counts, if the key is not blocked.
LEMMA ScriptCounts ==
  ASSUME TypeOK, RunScript, UNCHANGED <<conf, now>>
  PROVE \/ /\ Blocked /\ UNCHANGED <<count, countEnd, exceeded>>
        \/ /\ ~Blocked
           /\ \/ CountAlive /\ count' = count + 1 /\ countEnd' = countEnd
              \/ ~CountAlive /\ count' = 1 /\ countEnd' = now + conf.ttl
           /\ count' = NewCount
           /\ exceeded' = IF TooMany THEN now ELSE exceeded
  BY DEF RunScript, CountHit, BlockIfTooMany, NewCount, keys

\* The requests that passed since the window began are at most the limit,
\* and counted; those of the windows before it, but for the last limit of
\* them, passed a whole ttl before it began.
TwoWindows ==
  /\ countEnd = Gone => passed = <<>>
  /\ countEnd # Gone => WindowStart <= now
  /\ \A i \in DOMAIN passed :
       /\ passed[i] <= countEnd
       /\ passed[i] >= WindowStart =>
            /\ Len(passed) - i < conf.limit
            /\ CountAlive => Len(passed) - i < count
       /\ \A j \in DOMAIN passed :
            passed[j] < WindowStart /\ j - i >= conf.limit => passed[i] <= WindowStart - conf.ttl
  /\ AtMostTwoLimits

\* A run of the script after which nothing or this request passes.
LEMMA WindowScript ==
  ASSUME TypeOK, TwoWindows, RunScript, UNCHANGED <<conf, now>>,
         passed' = passed \/ (Passes /\ passed' = Append(passed, now))
  PROVE TwoWindows'
<1>0. /\ conf.limit \in Nat \ {0} /\ conf.ttl \in Nat \ {0} /\ now \in Nat /\ now \in Times
      /\ count \in Nat /\ countEnd \in Nat \cup {Gone} /\ passed \in Seq(Times)
      /\ DOMAIN passed = 1 .. Len(passed) /\ Len(passed) \in Nat /\ Gone = -1
      /\ \A i \in DOMAIN passed : passed[i] \in Nat
  BY ConfTypes DEF TypeOK, Times, Gone
<1> DEFINE n == Len(passed)
           w == countEnd - conf.ttl
           limit == conf.limit
           ttl == conf.ttl
<1>00. n \in Nat /\ w \in Int /\ limit \in Nat \ {0} /\ ttl \in Nat \ {0} /\ w = countEnd - ttl
  BY <1>0
<1>1. /\ countEnd = Gone => n = 0
      /\ countEnd # Gone => w <= now
      /\ \A i \in 1 .. n :
           /\ passed[i] <= countEnd /\ passed[i] \in Nat
           /\ passed[i] >= w => n - i < limit /\ (CountAlive => n - i < count)
      /\ \A i, j \in 1 .. n : passed[j] < w /\ j - i >= limit => passed[i] <= w - ttl
      /\ \A i, j \in 1 .. n : j - i >= 2 * limit => passed[j] - passed[i] >= ttl
  BY <1>0 DEF TwoWindows, WindowStart, AtMostTwoLimits
\* The invariant again, of the state after the run.
<1> DEFINE Most == \A i \in 1 .. Len(passed') :
                     /\ passed'[i] <= countEnd'
                     /\ passed'[i] >= countEnd' - conf.ttl =>
                          Len(passed') - i < conf.limit /\ Len(passed') - i < count'
           Older == \A i, j \in 1 .. Len(passed') :
                      passed'[j] < countEnd' - conf.ttl /\ j - i >= conf.limit =>
                        passed'[i] <= countEnd' - conf.ttl - conf.ttl
           Apart == \A i, j \in 1 .. Len(passed') :
                      j - i >= 2 * conf.limit => passed'[j] - passed'[i] >= conf.ttl
<1>2. ASSUME DOMAIN passed' = 1 .. Len(passed'), countEnd' # Gone, countEnd' - conf.ttl <= now,
             Most, Older, Apart
      PROVE TwoWindows'
  <2>1. AtMostTwoLimits'
    BY <1>2 DEF AtMostTwoLimits
  <2>2. (countEnd = Gone => passed = <<>>)' /\ (countEnd # Gone => WindowStart <= now)'
    BY <1>2 DEF WindowStart
  <2>3. \A i \in DOMAIN passed' :
          /\ passed'[i] <= countEnd'
          /\ passed'[i] >= WindowStart' =>
               /\ Len(passed') - i < conf'.limit
               /\ CountAlive' => Len(passed') - i < count'
    BY <1>2 DEF WindowStart
  <2>4. \A i \in DOMAIN passed' : \A j \in DOMAIN passed' :
          passed'[j] < WindowStart' /\ j - i >= conf'.limit =>
            passed'[i] <= WindowStart' - conf'.ttl
    BY <1>2 DEF WindowStart
  <2> QED BY <2>1, <2>2, <2>3, <2>4 DEF TwoWindows
<1>3. Passes => ~Blocked /\ NewCount <= limit
  <2>1. NewCount \in Nat
    BY <1>0 DEF NewCount
  <2> QED BY <1>0, <2>1 DEF Passes, TooMany
<1>4. CASE Blocked
  <2>1. UNCHANGED <<conf, now, count, countEnd, passed>>
    BY <1>3, <1>4, ScriptCounts
  <2> QED BY <2>1 DEF TwoWindows, WindowStart, AtMostTwoLimits, CountAlive
<1>5. ASSUME passed' = Append(passed, now)
      PROVE /\ DOMAIN passed' = 1 .. n + 1 /\ Len(passed') = n + 1 /\ passed'[n + 1] = now
            /\ \A i \in 1 .. n : passed'[i] = passed[i]
  <2>1. Append(passed, now)[Len(passed) + 1] = now
    BY <1>0, OneMore
  <2>2. \A i \in 1 .. Len(passed) : Append(passed, now)[i] = passed[i]
    BY <1>0, OneMore
  <2>3. /\ DOMAIN Append(passed, now) = 1 .. Len(passed) + 1
        /\ Len(Append(passed, now)) = Len(passed) + 1
    BY <1>0, OneMore
  <2> QED BY <1>5, <2>1, <2>2, <2>3
<1>6. DOMAIN passed = 1 .. n /\ Len(passed) = n /\ conf.limit = limit /\ conf.ttl = ttl
  BY <1>0
<1> HIDE DEF n, w, limit, ttl
<1>7. CASE ~Blocked /\ CountAlive
  <2>1. /\ count' = count + 1 /\ countEnd' = countEnd /\ NewCount = count + 1
        /\ countEnd # Gone /\ now <= countEnd /\ countEnd \in Nat
    BY <1>0, <1>7, ScriptCounts DEF CountAlive
  <2>2. CASE passed' = passed
    <3>1. ASSUME NEW i \in 1 .. n
          PROVE /\ passed[i] <= countEnd
                /\ passed[i] >= w => n - i < limit /\ n - i < count + 1
      BY <1>0, <1>00, <1>1, <1>7
    <3>2. Most
      BY <1>6, <2>1, <2>2, <3>1, <1>00
    <3>3. Older
      BY <1>00, <1>1, <1>6, <2>1, <2>2
    <3>4. Apart
      BY <1>1, <1>6, <2>2
    <3>5. countEnd' - conf.ttl <= now
      BY <1>00, <1>1, <1>6, <2>1
    <3> QED BY <1>2, <1>6, <2>1, <2>2, <3>2, <3>3, <3>4, <3>5
  <2>3. CASE Passes /\ passed' = Append(passed, now)
    <3>1. /\ DOMAIN passed' = 1 .. n + 1 /\ Len(passed') = n + 1 /\ passed'[n + 1] = now
          /\ \A i \in 1 .. n : passed'[i] = passed[i] /\ passed[i] \in Nat
      BY <1>1, <1>5, <2>3
    <3>2. count + 1 <= limit
      BY <1>3, <2>1, <2>3
    <3>3. ASSUME NEW i \in 1 .. n + 1
          PROVE /\ passed'[i] <= countEnd
                /\ passed'[i] >= w => n + 1 - i < limit /\ n + 1 - i < count + 1
      <4>1. CASE i \in 1 .. n
        <5>1. passed[i] >= w => n - i < count
          BY <1>1, <1>7, <4>1
        <5> QED BY <1>0, <1>00, <1>1, <3>1, <3>2, <4>1, <5>1
      <4>2. CASE i = n + 1
        BY <1>0, <1>00, <2>1, <3>1, <3>2, <4>2
      <4> QED BY <1>00, <4>1, <4>2
    <3>4. ASSUME NEW i \in 1 .. n + 1, NEW j \in 1 .. n + 1, passed'[j] < w, j - i >= limit
          PROVE passed'[i] <= w - ttl
      <4>1. j # n + 1
        BY <1>0, <1>00, <1>1, <2>1, <3>1, <3>4
      <4>2. i \in 1 .. n /\ j \in 1 .. n
        BY <1>00, <3>4, <4>1
      <4> QED BY <1>1, <3>1, <3>4, <4>2
    <3>5. ASSUME NEW i \in 1 .. n + 1, NEW j \in 1 .. n + 1, j - i >= 2 * limit
          PROVE passed'[j] - passed'[i] >= ttl
      <4>1. i \in 1 .. n
        BY <1>00, <3>5
      <4>2. CASE j \in 1 .. n
        BY <1>1, <3>1, <3>5, <4>1, <4>2
      <4>3. CASE j = n + 1
        <5> DEFINE m == n + 1 - limit
        <5>1. m \in 1 .. n /\ m - i >= limit /\ n - m = limit - 1
          BY <1>00, <3>5, <4>3
        <5> HIDE DEF m
        <5>2. passed[m] >= w => n - m < count
          BY <1>1, <1>7, <5>1
        <5>3. passed[m] < w
          BY <1>0, <1>00, <3>1, <3>2, <5>1, <5>2
        <5>4. passed[i] <= w - ttl
          BY <1>1, <4>1, <5>1, <5>3
        <5>5. w <= now
          BY <1>1, <2>1
        <5> QED BY <1>0, <1>00, <3>1, <4>1, <4>3, <5>4, <5>5
      <4> QED BY <1>00, <4>2, <4>3
    <3>6. countEnd' - conf.ttl = w /\ w <= now
      BY <1>00, <1>1, <1>6, <2>1
    <3>7. Most
      BY <1>6, <2>1, <3>1, <3>3, <3>6
    <3>8. Older
      BY <1>6, <3>1, <3>4, <3>6
    <3>9. Apart
      BY <1>6, <3>1, <3>5
    <3> QED BY <1>2, <2>1, <3>1, <3>6, <3>7, <3>8, <3>9
  <2> QED BY <2>2, <2>3
<1>8. CASE ~Blocked /\ ~CountAlive
  <2>1. /\ count' = 1 /\ countEnd' = now + ttl /\ countEnd < now /\ now + ttl # Gone
        /\ countEnd' - ttl = now /\ countEnd \in Int
    BY <1>0, <1>8, ScriptCounts DEF CountAlive, ttl
  <2>2. ASSUME NEW i \in 1 .. n, NEW j \in 1 .. n, j - i >= limit
        PROVE passed[i] <= now - ttl
    <3>1. ~(n - i < limit)
      BY <1>00, <2>2
    <3>2. passed[i] < w /\ passed[i] \in Nat
      BY <1>00, <1>1, <3>1
    <3> QED BY <1>0, <1>00, <2>1, <3>2
  <2>3. \A i \in 1 .. n : passed[i] < now /\ passed[i] \in Nat
    BY <1>0, <1>1, <2>1
  <2>4. CASE passed' = passed
    <3>1. ASSUME NEW i \in 1 .. n
          PROVE passed[i] <= now + ttl /\ ~(passed[i] >= now)
      BY <1>0, <1>00, <2>3
    <3>2. countEnd' - conf.ttl = now /\ now <= now
      BY <1>0, <1>6, <2>1
    <3>3. Most
      BY <1>6, <2>1, <2>4, <3>1, <3>2
    <3>4. Older
      BY <1>6, <2>2, <2>4, <3>2
    <3>5. Apart
      BY <1>1, <1>6, <2>4
    <3> QED BY <1>2, <1>6, <2>1, <2>4, <3>2, <3>3, <3>4, <3>5
  <2>5. CASE Passes /\ passed' = Append(passed, now)
    <3>1. /\ DOMAIN passed' = 1 .. n + 1 /\ Len(passed') = n + 1 /\ passed'[n + 1] = now
          /\ \A i \in 1 .. n : passed'[i] = passed[i]
      BY <1>5, <2>5
    <3>2. ASSUME NEW i \in 1 .. n + 1
          PROVE /\ passed'[i] <= now + ttl
                /\ passed'[i] >= now => n + 1 - i < limit /\ n + 1 - i < 1
      <4>1. CASE i \in 1 .. n
        BY <1>0, <1>00, <2>3, <3>1, <4>1
      <4>2. CASE i = n + 1
        BY <1>0, <1>00, <3>1, <4>2
      <4> QED BY <1>00, <4>1, <4>2
    <3>3. ASSUME NEW i \in 1 .. n + 1, NEW j \in 1 .. n + 1, passed'[j] < now, j - i >= limit
          PROVE passed'[i] <= now - ttl
      <4>1. j # n + 1
        BY <1>0, <3>1, <3>3
      <4>2. i \in 1 .. n /\ j \in 1 .. n
        BY <1>00, <3>3, <4>1
      <4> QED BY <2>2, <3>1, <3>3, <4>2
    <3>4. ASSUME NEW i \in 1 .. n + 1, NEW j \in 1 .. n + 1, j - i >= 2 * limit
          PROVE passed'[j] - passed'[i] >= ttl
      <4>1. i \in 1 .. n
        BY <1>00, <3>4
      <4>2. CASE j \in 1 .. n
        BY <1>1, <3>1, <3>4, <4>1, <4>2
      <4>3. CASE j = n + 1
        <5>1. n \in 1 .. n /\ n - i >= limit
          BY <1>00, <3>4, <4>1, <4>3
        <5>2. passed[i] <= now - ttl /\ passed[i] \in Nat
          BY <2>2, <2>3, <4>1, <5>1
        <5> QED BY <1>0, <1>00, <3>1, <4>1, <4>3, <5>2
      <4> QED BY <1>00, <4>2, <4>3
    <3>5. countEnd' - conf.ttl = now /\ now <= now
      BY <1>0, <1>6, <2>1
    <3>6. Most
      BY <1>6, <2>1, <3>1, <3>2, <3>5
    <3>7. Older
      BY <1>6, <3>1, <3>3, <3>5
    <3>8. Apart
      BY <1>6, <3>1, <3>4
    <3> QED BY <1>2, <2>1, <3>1, <3>5, <3>6, <3>7, <3>8
  <2> QED BY <2>4, <2>5
<1> QED BY <1>4, <1>7, <1>8

LEMMA WindowsStep == TypeOK /\ TwoWindows /\ [Next]_vars => TwoWindows'
<1> SUFFICES ASSUME TypeOK, TwoWindows, [Next]_vars PROVE TwoWindows'
  OBVIOUS
<1>0. /\ conf.ttl \in Nat \ {0} /\ now \in Nat
      /\ countEnd \in Nat \cup {Gone} /\ Gone = -1
  BY ConfTypes DEF TypeOK, Gone
<1>1. ASSUME UNCHANGED <<conf, now, count, countEnd, passed>> PROVE TwoWindows'
  BY <1>1 DEF TwoWindows, WindowStart, AtMostTwoLimits, CountAlive
<1>2. ASSUME NEW c \in Callers, Start(c) \/ ScriptMissing(c) \/ LoadScript(c) PROVE TwoWindows'
  BY <1>1, <1>2 DEF Start, ScriptMissing, LoadScript, keys
<1>3. ASSUME NEW c \in Callers, Answered(c) PROVE TwoWindows'
  BY <1>3, WindowScript DEF Answered
<1>4. ASSUME NEW c \in Callers, AnswerLost(c) PROVE TwoWindows'
  BY <1>4, WindowScript DEF AnswerLost
<1>5. CASE Restart
  <2>1. UNCHANGED <<conf, now>>
    BY <1>5 DEF Restart
  <2>2. CASE UNCHANGED <<keys, passed, exceeded>>
    BY <1>1, <2>1, <2>2 DEF keys
  <2>3. CASE countEnd' = Gone /\ passed' = <<>>
    BY <2>3 DEF TwoWindows, AtMostTwoLimits
  <2> QED BY <1>5, <2>2, <2>3 DEF Restart
<1>6. CASE TimePasses
  <2>1. now' = now + 1 /\ UNCHANGED <<conf, count, countEnd, passed>>
    BY <1>6 DEF TimePasses, keys
  <2>2. CountAlive' => CountAlive
    BY <1>0, <2>1 DEF CountAlive
  <2>3. WindowStart' = WindowStart /\ (countEnd' # Gone => WindowStart' <= now')
    BY <1>0, <2>1 DEF TwoWindows, WindowStart
  <2> QED BY <2>1, <2>2, <2>3 DEF TwoWindows, AtMostTwoLimits
<1>7. CASE UNCHANGED vars
  BY <1>1, <1>7 DEF vars, keys
<1> QED BY <1>2, <1>3, <1>4, <1>5, <1>6, <1>7 DEF Next

\* In whatever order the script runs, is forgotten or is run twice for one
\* request: of any two limits of requests and one more that pass, the last
\* is at least a ttl after the first.
THEOREM TwoLimitsHold == Spec => []AtMostTwoLimits
<1>1. Init => TwoWindows
  BY DEF Init, TwoWindows, AtMostTwoLimits
<1>2. TwoWindows => AtMostTwoLimits
  BY DEF TwoWindows
<1> QED BY <1>1, <1>2, TypesInductive, WindowsStep, PTL DEF Spec

-----------------------------------------------------------------------------
(* Who is blocked *)

\* As long as every answer has arrived, what the key counts is the last of
\* the hits, and these are of its window.
HonestCount ==
  faults = 0 =>
    /\ count <= Len(hits)
    /\ countEnd = Gone => count = 0
    /\ countEnd # Gone => WindowStart <= now
    /\ \A i \in DOMAIN hits :
         hits[i] <= now /\ (i > Len(hits) - count => hits[i] >= WindowStart)
    /\ ExcessOnly

\* A run of the script whose answer arrives.
LEMMA HonestScript ==
  ASSUME TypeOK, HonestCount, RunScript, faults = 0,
         UNCHANGED <<conf, now, faults>>, hits' = Append(hits, now)
  PROVE HonestCount'
<1>0. /\ conf.limit \in Nat \ {0} /\ conf.ttl \in Nat \ {0} /\ now \in Nat /\ now \in Times
      /\ count \in Nat /\ countEnd \in Nat \cup {Gone} /\ hits \in Seq(Times)
      /\ exceeded \in Nat \cup {Gone} /\ Gone = -1
  BY ConfTypes DEF TypeOK, Gone
<1> DEFINE n == Len(hits)
           limit == conf.limit
           ttl == conf.ttl
<1>1. /\ n \in Nat /\ DOMAIN hits = 1 .. n
      /\ DOMAIN hits' = 1 .. n + 1 /\ Len(hits') = n + 1 /\ hits'[n + 1] = now
      /\ \A i \in 1 .. n : hits'[i] = hits[i] /\ hits[i] \in Nat
  <2>1. n \in Nat /\ DOMAIN hits = 1 .. n
    BY <1>0, OneMore
  <2>2. DOMAIN hits' = 1 .. n + 1 /\ Len(hits') = n + 1
    BY <1>0, OneMore
  <2>3. hits'[n + 1] = now
    BY <1>0, OneMore
  <2>4. \A i \in 1 .. n : hits'[i] = hits[i] /\ hits[i] \in Times
    BY <1>0, OneMore
  <2> QED BY <2>1, <2>2, <2>3, <2>4 DEF Times
<1>2. /\ count <= n
      /\ countEnd = Gone => count = 0
      /\ countEnd # Gone => countEnd - ttl <= now
      /\ \A i \in 1 .. n : hits[i] <= now
      /\ \A i \in 1 .. n : i > n - count => hits[i] >= countEnd - ttl
      /\ ExcessOnly
  BY <1>1 DEF HonestCount, WindowStart
<1>3. limit \in Nat \ {0} /\ ttl \in Nat \ {0} /\ conf.limit = limit /\ conf.ttl = ttl
  BY <1>0
<1> HIDE DEF n, limit, ttl
\* What was counted before is still among the hits.
<1>4. ASSUME exceeded' = exceeded PROVE ExcessOnly'
  <2> SUFFICES ASSUME exceeded # Gone
      PROVE \E i, j \in DOMAIN hits' :
              j - i >= limit /\ exceeded - ttl <= hits'[i] /\ hits'[j] <= exceeded
    BY <1>3, <1>4 DEF ExcessOnly
  <2>1. PICK i \in 1 .. n, j \in 1 .. n :
          j - i >= limit /\ exceeded - ttl <= hits[i] /\ hits[j] <= exceeded
    BY <1>1, <1>2, <1>3 DEF ExcessOnly
  <2>2. i \in DOMAIN hits' /\ j \in DOMAIN hits' /\ hits'[i] = hits[i] /\ hits'[j] = hits[j]
    BY <1>1
  <2> QED BY <2>1, <2>2
<1>5. \A i \in 1 .. n + 1 : hits'[i] <= now
  BY <1>0, <1>1, <1>2
<1>6. CASE UNCHANGED <<count, countEnd, exceeded>>
  <2>1. \A i \in 1 .. n + 1 : i > n + 1 - count => hits'[i] >= countEnd - ttl
    <3> SUFFICES ASSUME NEW i \in 1 .. n + 1, i > n + 1 - count
                 PROVE hits'[i] >= countEnd - ttl
      OBVIOUS
    <3>1. CASE i = n + 1
      BY <1>0, <1>1, <1>2, <1>3, <3>1
    <3>2. CASE i \in 1 .. n
      BY <1>0, <1>1, <1>2, <1>3, <3>2
    <3> QED BY <1>1, <3>1, <3>2
  <2>2. count <= n + 1
    BY <1>0, <1>1, <1>2
  <2>3. ExcessOnly' /\ count' = count /\ WindowStart' = countEnd - ttl
    BY <1>3, <1>4, <1>6 DEF WindowStart
  <2>4. (countEnd = Gone => count = 0)' /\ (countEnd # Gone => WindowStart <= now)'
    BY <1>2, <1>6, <2>3
  <2>5. count' <= Len(hits')
    BY <1>1, <2>2, <2>3
  <2>6. \A i \in DOMAIN hits' :
          hits'[i] <= now' /\ (i > Len(hits') - count' => hits'[i] >= WindowStart')
    <3>1. now' = now /\ DOMAIN hits' = 1 .. n + 1 /\ Len(hits') = n + 1
      BY <1>1
    <3>2. count' \in Nat
      BY ScriptTypes
    <3>3. ASSUME NEW i \in 1 .. n + 1
          PROVE hits'[i] <= now' /\ (i > Len(hits') - count' => hits'[i] >= WindowStart')
      <4>1. hits'[i] <= now'
        BY <1>5, <3>1
      <4>2. i > n + 1 - count' => hits'[i] >= WindowStart'
        BY <2>1, <2>3
      <4>3. Len(hits') - count' = n + 1 - count'
        BY <1>0, <1>1, <3>1, <3>2 DEF n
      <4> QED BY <4>1, <4>2, <4>3
    <3> QED BY <3>1, <3>3
  <2> QED BY <2>3, <2>4, <2>5, <2>6 DEF HonestCount
<1>7. CASE /\ CountAlive /\ count' = count + 1 /\ countEnd' = countEnd
           /\ exceeded' = IF count + 1 > limit THEN now ELSE exceeded
  <2>1. countEnd # Gone /\ countEnd \in Nat /\ now <= countEnd /\ countEnd - ttl <= now
    BY <1>0, <1>2, <1>7 DEF CountAlive
  <2>2. \A i \in 1 .. n + 1 : i > n - count => hits'[i] >= countEnd - ttl
    <3> SUFFICES ASSUME NEW i \in 1 .. n + 1, i > n - count
                 PROVE hits'[i] >= countEnd - ttl
      OBVIOUS
    <3>1. CASE i = n + 1
      BY <1>1, <2>1, <3>1
    <3>2. CASE i \in 1 .. n
      BY <1>1, <1>2, <3>2
    <3> QED BY <1>1, <3>1, <3>2
  <2>3. ExcessOnly'
    <3>1. CASE count + 1 > limit
      <4> DEFINE i == n + 1 - limit
      <4>1. /\ i \in 1 .. n + 1 /\ n + 1 \in 1 .. n + 1
            /\ i > n - count /\ n + 1 - i >= limit
        BY <1>0, <1>1, <1>2, <1>3, <3>1
      <4> HIDE DEF i
      <4>2. now - ttl <= hits'[i]
        <5>1. hits'[i] \in Nat
          BY <1>0, <1>1, <4>1
        <5>2. hits'[i] >= countEnd - ttl
          BY <2>2, <4>1
        <5> DEFINE h == hits'[i]
        <5>3. h \in Nat /\ h >= countEnd - ttl
          BY <5>1, <5>2
        <5> HIDE DEF h
        <5>4. now - ttl <= h
          BY <1>0, <1>3, <2>1, <5>3
        <5> QED BY <5>4 DEF h
      <4>3. hits'[n + 1] <= now
        BY <1>5, <4>1
      <4>4. exceeded' = now
        BY <1>7, <3>1
      <4> DEFINE j == n + 1
      <4>5. /\ i \in DOMAIN hits' /\ j \in DOMAIN hits' /\ j - i >= conf'.limit
            /\ exceeded' - conf'.ttl <= hits'[i] /\ hits'[j] <= exceeded'
        BY <1>1, <1>3, <4>1, <4>2, <4>3, <4>4
      <4> HIDE DEF j
      <4> QED BY <4>5, Zenon DEF ExcessOnly
    <3>2. CASE ~(count + 1 > limit)
      BY <1>4, <1>7, <3>2
    <3> QED BY <3>1, <3>2
  <2>4. count' <= n + 1 /\ n + 1 - count' = n - count
    BY <1>0, <1>1, <1>2, <1>7
  <2> QED BY <1>1, <1>3, <1>5, <1>7, <2>1, <2>2, <2>3, <2>4 DEF HonestCount, WindowStart
<1>8. CASE /\ count' = 1 /\ countEnd' = now + ttl
           /\ exceeded' = IF 1 > limit THEN now ELSE exceeded
  <2>1. exceeded' = exceeded
    BY <1>3, <1>8
  <2>2. countEnd' # Gone /\ countEnd' - ttl = now /\ countEnd' - ttl <= now
    BY <1>0, <1>3, <1>8
  <2>3. \A i \in 1 .. n + 1 : i > n + 1 - count' => hits'[i] >= countEnd' - ttl
    BY <1>0, <1>1, <1>8, <2>2
  <2>4. count' <= n + 1
    BY <1>1, <1>8
  <2>5. ExcessOnly' /\ WindowStart' = countEnd' - ttl
    BY <1>3, <1>4, <2>1 DEF WindowStart
  <2>6. count' <= Len(hits')
    BY <1>1, <2>4
  <2>7. \A i \in DOMAIN hits' :
          hits'[i] <= now' /\ (i > Len(hits') - count' => hits'[i] >= WindowStart')
    <3>1. now' = now /\ DOMAIN hits' = 1 .. n + 1 /\ Len(hits') = n + 1
      BY <1>1
    <3>2. count' \in Nat
      BY ScriptTypes
    <3>3. ASSUME NEW i \in 1 .. n + 1
          PROVE hits'[i] <= now' /\ (i > Len(hits') - count' => hits'[i] >= WindowStart')
      <4>1. hits'[i] <= now'
        BY <1>5, <3>1
      <4>2. i > n + 1 - count' => hits'[i] >= WindowStart'
        BY <2>3, <2>5
      <4>3. Len(hits') - count' = n + 1 - count'
        BY <1>0, <1>1, <3>1, <3>2 DEF n
      <4> QED BY <4>1, <4>2, <4>3
    <3> QED BY <3>1, <3>3
  <2>8. (countEnd # Gone => WindowStart <= now)'
    BY <2>2, <2>5
  <2> QED BY <2>2, <2>5, <2>6, <2>7, <2>8 DEF HonestCount
<1> QED BY <1>3, <1>6, <1>7, <1>8, ScriptCounts DEF NewCount, TooMany

LEMMA HonestStep == TypeOK /\ HonestCount /\ [Next]_vars => HonestCount'
<1> SUFFICES ASSUME TypeOK, HonestCount, [Next]_vars PROVE HonestCount'
  OBVIOUS
<1>0. /\ conf.ttl \in Nat \ {0} /\ now \in Nat /\ countEnd \in Nat \cup {Gone} /\ Gone = -1
      /\ hits \in Seq(Times) /\ faults \in Nat
  BY ConfTypes DEF TypeOK, Gone
<1>1. ASSUME UNCHANGED <<conf, now, count, countEnd, hits, exceeded, faults>> PROVE HonestCount'
  BY <1>1 DEF HonestCount, WindowStart, ExcessOnly
<1>2. ASSUME NEW c \in Callers, Start(c) \/ ScriptMissing(c) \/ LoadScript(c) PROVE HonestCount'
  BY <1>1, <1>2 DEF Start, ScriptMissing, LoadScript, keys
<1>3. ASSUME NEW c \in Callers, Answered(c) PROVE HonestCount'
  <2>1. CASE faults = 0
    BY <1>3, <2>1, HonestScript DEF Answered
  <2>2. CASE faults # 0
    BY <1>3, <2>2 DEF Answered, HonestCount
  <2> QED BY <2>1, <2>2
\* After a failure nothing is claimed.
<1>4. ASSUME faults' = faults + 1 PROVE HonestCount'
  BY <1>0, <1>4 DEF HonestCount
<1>5. ASSUME NEW c \in Callers, AnswerLost(c) PROVE HonestCount'
  BY <1>4, <1>5 DEF AnswerLost
<1>6. CASE Restart
  BY <1>4, <1>6 DEF Restart
<1>7. CASE TimePasses
  <2>1. now' = now + 1 /\ UNCHANGED <<conf, count, countEnd, hits, exceeded, faults>>
    BY <1>7 DEF TimePasses, keys
  <2>2. countEnd # Gone /\ WindowStart <= now => WindowStart <= now + 1
    BY <1>0 DEF WindowStart
  <2>3. \A i \in DOMAIN hits : hits[i] <= now => hits[i] <= now + 1
    BY <1>0, OneMore DEF Times
  <2> QED BY <2>1, <2>2, <2>3 DEF HonestCount, WindowStart, ExcessOnly
<1>8. CASE UNCHANGED vars
  BY <1>1, <1>8 DEF vars, keys
<1> QED BY <1>2, <1>3, <1>5, <1>6, <1>7, <1>8 DEF Next

\* A caller is blocked for an excess of its own only: when a hit is one too
\* many, more requests than the limit were answered within the window that
\* ends with it, unless an answer was lost or Redis restarted.
THEOREM BlockedForExcess == Spec => []ExcessOnly
<1>1. Init => HonestCount
  BY DEF Init, HonestCount, ExcessOnly
<1>2. TypeOK /\ HonestCount => ExcessOnly
  BY DEF TypeOK, HonestCount, ExcessOnly
<1> QED BY <1>1, <1>2, TypesInductive, HonestStep, PTL DEF Spec

=============================================================================
