----------------------------- MODULE MCDispatch -----------------------------
(* Small instances of Dispatch for TLC. *)
EXTENDS Dispatch, TLC

\* Drivers, workers and call slots are interchangeable.
Symmetry ==
  Permutations(Drivers) \cup Permutations(Workers) \cup Permutations(Requests)

AllButReassign == CallNames \ {"reassign"}
=============================================================================
