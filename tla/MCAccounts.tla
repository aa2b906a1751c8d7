----------------------------- MODULE MCAccounts -----------------------------
(***************************************************************************)
(* A small instance of Accounts: calls and Google accounts are symmetric.  *)
(***************************************************************************)
EXTENDS Accounts, TLC

Symmetry == Permutations(Calls) \cup Permutations(GoogleIds)

=============================================================================
