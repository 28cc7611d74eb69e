SPECIFICATION Spec
CONSTANTS
    Users = {admin, user}
    Admins = {admin}
    SuperAdmins = {}
    TwoFactorUsers = {user}
    Sessions = {s1, s2}
    Tokens = {t1}
    Passwords = {p1}
    Requests = {r1, r2}
    Routes = {"me", "logout", "revoke", "revokeAll", "changePassword", "adminPassword", "status", "update", "login", "twoFactor", "magicLink", "forgot", "refresh"}
    Nil = Nil
SYMMETRY IdSymmetry
CHECK_DEADLOCK FALSE
PROPERTY DeadSessionStaysDead
PROPERTY SealedAccountStaysSealed
