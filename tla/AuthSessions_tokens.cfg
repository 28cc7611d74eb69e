SPECIFICATION Spec
CONSTANTS
    Users = {admin, user}
    Admins = {admin}
    SuperAdmins = {}
    TwoFactorUsers = {user}
    Sessions = {s1, s2, s3}
    Tokens = {t1, t2}
    Passwords = {p1, p2}
    Requests = {r1, r2}
    Routes = {"login", "twoFactor", "magicLink", "forgot"}
    Nil = Nil
SYMMETRY IdSymmetry
CHECK_DEADLOCK TRUE
INVARIANT TypeOK
INVARIANT SessionsComeFromUsedTokens
INVARIANT TokenExchangesBounded
PROPERTY SpentTokenStaysSpent
