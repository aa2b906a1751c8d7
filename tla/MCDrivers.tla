----------------------------- MODULE MCDrivers -----------------------------
(***************************************************************************)
(* A small instance of Drivers: three rows of one millisecond, listed as   *)
(* 2, 3, 1.  A page that ends with row 2 cuts row 3 off, and not row 1.    *)
(***************************************************************************)
EXTENDS Drivers, TLC

SmallCreations == {[d \in DriverIds |-> IF d = 2 THEN 3 ELSE 2]}

SmallLimits == {0, 2}

Symmetry == Permutations(Calls)

=============================================================================
