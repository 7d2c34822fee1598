----------------------------- MODULE MCPayments -----------------------------
(***************************************************************************)
(* Payments for TLC: the symmetry of the sets of model values.             *)
(***************************************************************************)
EXTENDS Payments, TLC

\* Nothing in Payments tells two keys, checkouts, bodies or sessions apart.
Symmetry ==
  Permutations(Keys) \cup Permutations(Checkouts)
    \cup Permutations(Payloads) \cup Permutations(Sessions)
=============================================================================
