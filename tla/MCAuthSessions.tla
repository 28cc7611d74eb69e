--------------------------- MODULE MCAuthSessions ---------------------------
(* Model-checking instance of AuthSessions: ids and passwords are           *)
(* interchangeable, so TLC need not tell their permutations apart.          *)
EXTENDS AuthSessions, TLC

IdSymmetry ==
    Permutations(Sessions) \cup Permutations(Tokens)
    \cup Permutations(Passwords) \cup Permutations(Requests)
=============================================================================
