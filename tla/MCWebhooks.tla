----------------------------- MODULE MCWebhooks -----------------------------
(* Model-checking instance of Webhooks: ids are interchangeable, so TLC     *)
(* need not tell their permutations apart where no liveness is checked.     *)
EXTENDS Webhooks, TLC

IdSymmetry ==
    Permutations(Hooks) \cup Permutations(Logs) \cup Permutations(Jobs)
    \cup Permutations(Workers) \cup Permutations(Requests)
=============================================================================
