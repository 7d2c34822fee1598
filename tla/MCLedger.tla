----------------------------- MODULE MCLedger -----------------------------
(***************************************************************************)
(* Ledger for TLC.                                                         *)
(***************************************************************************)
EXTENDS Ledger, TLC

Symmetry == Permutations(Accounts) \cup Permutations(Keys) \cup Permutations(Sessions)
=============================================================================
