---------------------------- MODULE MCThrottler ----------------------------
(***************************************************************************)
(* A small instance of Throttler: a block longer than the window, as all   *)
(* routes have by default, one as long, as register and forgot-password    *)
(* have, and one shorter, as the environment may set it.                   *)
(***************************************************************************)
EXTENDS Throttler, TLC

SmallConfigs ==
  {[limit |-> 2, ttl |-> 2, block |-> 3],
   [limit |-> 1, ttl |-> 2, block |-> 2],
   [limit |-> 2, ttl |-> 3, block |-> 1]}

Symmetry == Permutations(Callers)

=============================================================================
