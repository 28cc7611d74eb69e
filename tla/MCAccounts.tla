----------------------------- MODULE MCAccounts -----------------------------
(* Model-checking instance of Accounts: ids are interchangeable, so TLC     *)
(* need not tell their permutations apart.                                  *)
EXTENDS Accounts, TLC

IdSymmetry ==
    Permutations(Codes) \cup Permutations(Ids) \cup Permutations(Identities)
    \cup Permutations(ConnectionIds) \cup Permutations(Passwords)
    \cup Permutations(Requests)
=============================================================================
