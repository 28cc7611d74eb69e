SPECIFICATION Spec
CONSTANTS
    Users = {user}
    Admins = {}
    SuperAdmins = {}
    TwoFactorUsers = {}
    Sessions = {s1}
    Tokens = {t1}
    Passwords = {p1}
    Requests = {r1}
    Routes = {"magicLink"}
    Nil = Nil
CHECK_DEADLOCK FALSE
PROPERTY MagicLinkTouchesOnlyLastLogin
