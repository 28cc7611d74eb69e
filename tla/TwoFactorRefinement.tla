------------------------ MODULE TwoFactorRefinement -------------------------
(* The rows of TwoFactor read as the promise of SecondFactor: every UPDATE  *)
(* or INSERT of a save is one step of the promise, every read and every     *)
(* SELECT a stutter.                                                        *)
EXTENDS TwoFactor

\* The factor of u, as its row says.
FactorOf(u) ==
    IF RowsOf(u) = {}
    THEN [stage |-> "none", secret |-> Nil, codes |-> {}]
    ELSE LET row == rows[CHOOSE k \in RowsOf(u) : TRUE]
         IN [stage |-> IF row.isEnabled THEN "on" ELSE "off",
             secret |-> row.secret, codes |-> row.backupCodes]

Promise == INSTANCE SecondFactor WITH factor <- [u \in Users |-> FactorOf(u)]

\* While requests do not overlap, the two-factor service behaves as if each
\* of its operations were one step on one record per user.
ImplementsSecondFactor == Promise!Spec
=============================================================================
