SPECIFICATION Spec
CONSTANTS
    Users = {user}
    Admins = {}
    SuperAdmins = {}
    TwoFactorUsers = {}
    Sessions = {s1}
    Tokens = {}
    Passwords = {p1}
    Requests = {r1, r2}
    Routes = {"me", "logout", "login"}
    Nil = Nil
CHECK_DEADLOCK FALSE
PROPERTY RevokedStaysRevoked
