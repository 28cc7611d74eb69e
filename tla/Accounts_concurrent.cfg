SPECIFICATION Spec
CONSTANTS
    Emails = {e1}
    Passwords = {p1, p2}
    Codes = {c1, c2, c3}
    Ids = {i1, i2}
    Identities = {g1}
    ConnectionIds = {k1}
    AttemptLimit = 1
    Requests = {r1, r2}
    Nil = Nil
CHECK_DEADLOCK FALSE
SYMMETRY IdSymmetry
INVARIANT AccountsComeFromCodes
INVARIANT OneSignInPerRegistration
PROPERTY SettledStaysSettled
PROPERTY BlockedStaysBlocked
