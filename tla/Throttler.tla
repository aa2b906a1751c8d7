----------------------------- MODULE Throttler -----------------------------
(***************************************************************************)
(* The rate limit of one caller on one route: RedisThrottlerStorage, whose *)
(* script counts hits in a fixed window and blocks the key for a while     *)
(* when a hit is one too many.  Redis runs the script as one step at one   *)
(* millisecond; around it are a script that Redis may have forgotten and   *)
(* an answer that may be lost after the script has run.                    *)
(*                                                                         *)
(* A key whose time to live has come down to 0 ms is still there, as Redis *)
(* drops it one millisecond later; a key that is gone has the end Gone.    *)
(***************************************************************************)
EXTENDS Integers, Sequences

CONSTANTS
  Callers,      \* requests in progress, of one process
  Configs,      \* the settings a route may have
  MaxTime,      \* bound: milliseconds
  MaxHits,      \* bound: requests
  FaultBound    \* bound: restarts of Redis and lost answers

ASSUME ConfigsAssumption ==
  Configs \subseteq [limit : Nat \ {0}, ttl : Nat \ {0}, block : Nat \ {0}]
ASSUME BoundsAssumption == MaxTime \in Nat /\ MaxHits \in Nat /\ FaultBound \in Nat

VARIABLES
  conf,      \* limit, ttl and blockDuration of the route
  now,
  count, countEnd, blockEnd,  \* the two keys in Redis
  loaded,    \* Redis knows the script
  known,     \* scriptShaByName has the hash
  callers,   \* what each request is doing
  hits,      \* when each request so far was answered
  passed,    \* when each of them that passed did
  exceeded,  \* when a hit was last one too many
  faults     \* failures so far

keys == <<count, countEnd, blockEnd>>
vars == <<conf, now, keys, loaded, known, callers, hits, passed, exceeded, faults>>

Gone == -1

Times == 0 .. MaxTime

Init ==
  /\ conf \in Configs
  /\ now = 0
  /\ count = 0 /\ countEnd = Gone /\ blockEnd = Gone
  /\ loaded \in BOOLEAN
  /\ known = FALSE
  /\ callers = [c \in Callers |-> "idle"]
  /\ hits = <<>>
  /\ passed = <<>>
  /\ exceeded = Gone
  /\ faults = 0

-----------------------------------------------------------------------------
(* The script *)

Blocked == blockEnd - now > 0

CountAlive == countEnd >= now

\* Mutant: the key counts down.
NewCountDown == IF CountAlive THEN count - 1 ELSE 1

NewCount == IF CountAlive THEN count + 1 ELSE 1

\* Mutant: the limit itself is too many.
TooManyAtLimit == NewCount >= conf.limit

\* Mutant: the count is compared before it is raised.
TooManyLate == NewCount - 1 > conf.limit

TooMany == NewCount > conf.limit

Passes == ~Blocked /\ ~TooMany

\* Mutant: the block key is left without the time of the block.
BlockBriefly ==
  IF TooMany THEN blockEnd' = now + 1 /\ exceeded' = now
  ELSE UNCHANGED <<blockEnd, exceeded>>

CountHit ==
  /\ count' = NewCount
  /\ countEnd' = IF CountAlive THEN countEnd ELSE now + conf.ttl

BlockIfTooMany ==
  IF TooMany THEN blockEnd' = now + conf.block /\ exceeded' = now
  ELSE UNCHANGED <<blockEnd, exceeded>>

RunScript ==
  IF Blocked THEN UNCHANGED <<keys, exceeded>>
  ELSE CountHit /\ BlockIfTooMany

-----------------------------------------------------------------------------
(* increment and evalIncrementScript *)

Become(c, step) == callers' = [callers EXCEPT ![c] = step]

\* A hash that is known is tried first.
Start(c) ==
  /\ callers[c] = "idle"
  /\ Len(hits) < MaxHits
  /\ Become(c, IF known THEN "try" ELSE "load")
  /\ UNCHANGED <<conf, now, keys, loaded, known, hits, passed, exceeded, faults>>

\* evalsha: the guard lets the request through or answers 429.
Answered(c) ==
  /\ callers[c] \in {"try", "run"}
  /\ loaded
  /\ RunScript
  /\ hits' = Append(hits, now)
  /\ passed' = IF Passes THEN Append(passed, now) ELSE passed
  /\ Become(c, "idle")
  /\ UNCHANGED <<conf, now, loaded, known, faults>>

\* The script is missing: the first evalsha falls back to loading it, the
\* second throws and the request ends with an error.
ScriptMissing(c) ==
  /\ callers[c] \in {"try", "run"}
  /\ ~loaded
  /\ Become(c, IF callers[c] = "try" THEN "load" ELSE "idle")
  /\ UNCHANGED <<conf, now, keys, loaded, known, hits, passed, exceeded, faults>>

\* The catch block takes every error for a missing script, also a lost
\* answer of a script that has run.
AnswerLost(c) ==
  /\ callers[c] \in {"try", "run"}
  /\ loaded
  /\ faults < FaultBound
  /\ faults' = faults + 1
  /\ RunScript
  /\ Become(c, IF callers[c] = "try" THEN "load" ELSE "idle")
  /\ UNCHANGED <<conf, now, loaded, known, hits, passed>>

LoadScript(c) ==
  /\ callers[c] = "load"
  /\ loaded' = TRUE
  /\ known' = TRUE
  /\ Become(c, "run")
  /\ UNCHANGED <<conf, now, keys, hits, passed, exceeded, faults>>

\* Redis forgets the script, and its data if nothing persists them: then
\* the history of what passed starts again too.
Restart ==
  /\ faults < FaultBound
  /\ faults' = faults + 1
  /\ loaded' = FALSE
  /\ \/ UNCHANGED <<keys, passed, exceeded>>
     \/ /\ count' = 0 /\ countEnd' = Gone /\ blockEnd' = Gone
        /\ passed' = <<>>
        /\ exceeded' = Gone
  /\ UNCHANGED <<conf, now, known, callers, hits>>

TimePasses ==
  /\ now < MaxTime
  /\ now' = now + 1
  /\ UNCHANGED <<conf, keys, loaded, known, callers, hits, passed, exceeded, faults>>

Next ==
  \/ \E c \in Callers :
       Start(c) \/ Answered(c) \/ ScriptMissing(c) \/ AnswerLost(c) \/ LoadScript(c)
  \/ Restart
  \/ TimePasses

Spec == Init /\ [][Next]_vars

-----------------------------------------------------------------------------
(* Safety *)

\* Every variable stays within what the code can store in it.
TypeOK ==
  /\ conf \in Configs
  /\ now \in Times
  /\ count \in Nat
  /\ {countEnd, blockEnd, exceeded} \subseteq Nat \cup {Gone}
  /\ loaded \in BOOLEAN /\ known \in BOOLEAN
  /\ callers \in [Callers -> {"idle", "try", "load", "run"}]
  /\ hits \in Seq(Times)
  /\ passed \in Seq(Times)
  /\ faults \in 0 .. FaultBound

\* A fixed window lets two limits through within one ttl and never more,
\* with requests that overlap, are counted twice or find the script gone.
AtMostTwoLimits ==
  \A i, j \in DOMAIN passed : j - i >= 2 * conf.limit => passed[j] - passed[i] >= conf.ttl

\* After a hit that was one too many nothing passes until the block ends,
\* also when the count it was made from is forgotten before.
PenaltyServed ==
  exceeded # Gone =>
    \A i \in DOMAIN passed : passed[i] <= exceeded \/ passed[i] >= exceeded + conf.block

\* Nobody is blocked who kept to the limit, unless an answer was lost: a hit
\* is one too many only when more than the limit came within one window.
ExcessOnly ==
  exceeded # Gone =>
    \/ \E i, j \in DOMAIN hits :
         /\ j - i >= conf.limit
         /\ exceeded - conf.ttl <= hits[i] /\ hits[j] <= exceeded
    \/ faults > 0

=============================================================================
