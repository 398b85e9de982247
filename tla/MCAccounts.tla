----------------------------- MODULE MCAccounts -----------------------------
(***************************************************************************)
(* Accounts on a small instance.                                           *)
(***************************************************************************)
EXTENDS AccountsProperties, TLC

Symmetry == Permutations(Account) \cup Permutations(Device) \cup Permutations(Request)
=============================================================================
