---------------------------- MODULE MCCreditTab ----------------------------
(***************************************************************************)
(* CreditTab for TLC.                                                      *)
(***************************************************************************)
EXTENDS CreditTab, TLC

Symmetry == Permutations(Tabs) \cup Permutations(Keys) \cup Permutations(Sessions)
=============================================================================
