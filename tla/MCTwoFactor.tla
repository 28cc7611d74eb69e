---------------------------- MODULE MCTwoFactor -----------------------------
(* Model-checking instance of TwoFactor: ids, secrets and batches are       *)
(* interchangeable, so TLC need not tell their permutations apart.          *)
EXTENDS TwoFactorRefinement, TLC

IdSymmetry ==
    Permutations(Users) \cup Permutations(RowIds) \cup Permutations(Secrets)
    \cup Permutations(Batches) \cup Permutations(Requests)
=============================================================================
