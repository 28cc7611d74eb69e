---------------------------- MODULE SecondFactor ----------------------------
(***************************************************************************)
(* What two-factor authentication promises a user, each operation in one   *)
(* step: at most one secret, a second factor that is on only after the     *)
(* secret was confirmed, and backup codes that work once and are replaced  *)
(* together.  TwoFactor implements it as long as requests do not overlap.  *)
(***************************************************************************)
EXTENDS Naturals

CONSTANTS Users, Secrets, Batches, BatchSize, Nil

VARIABLE factor

None == [stage |-> "none", secret |-> Nil, codes |-> {}]
Codes(b) == {b} \X (1 .. BatchSize)

Init == factor = [u \in Users |-> None]

\* A new secret takes the place of the old one and is not on yet.
SetUp(u, s) ==
    /\ factor[u].secret # s
    /\ factor' = [factor EXCEPT ![u].stage = "off", ![u].secret = s]

\* The authenticator is shown to have the secret; codes are handed out if
\* none are left.
Confirm(u, b) ==
    /\ factor[u].stage # "none"
    /\ factor' = [factor EXCEPT ![u].stage = "on",
                                ![u].codes = IF @ = {} THEN Codes(b) ELSE @]

UseCode(u, c) ==
    /\ factor[u].stage = "on"
    /\ c \in factor[u].codes
    /\ factor' = [factor EXCEPT ![u].codes = @ \ {c}]

TurnOff(u) ==
    /\ factor[u].stage = "on"
    /\ factor' = [factor EXCEPT ![u].stage = "off"]

Renew(u, b) ==
    /\ factor[u].stage = "on"
    /\ factor[u].codes # Codes(b)
    /\ factor' = [factor EXCEPT ![u].codes = Codes(b)]

Next ==
    \E u \in Users :
        \/ \E s \in Secrets : SetUp(u, s)
        \/ \E b \in Batches : Confirm(u, b) \/ Renew(u, b)
        \/ \E c \in factor[u].codes : UseCode(u, c)
        \/ TurnOff(u)

Spec == Init /\ [][Next]_factor
=============================================================================
