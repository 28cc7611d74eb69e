---------------------------- MODULE AuthSessions ----------------------------
(***************************************************************************)
(* Accounts, sessions and single-use tokens of the auth service            *)
(* (src/auth/auth.service.ts, src/auth/magic-link.service.ts, the JWT      *)
(* guard and the password operations of src/users/user.service.ts).        *)
(*                                                                         *)
(* Every HTTP request runs in a slot of Requests.  The code of a request   *)
(* is sequential, but each awaited database call lets the other requests   *)
(* run, so an action is the stretch of a handler from one database call to *)
(* the next, and what the handler has read stays in its slot (req[r]) as   *)
(* the copy it will use later.  repository.save(entity) writes back every  *)
(* column in which that copy differs from the table; repository.update     *)
(* writes only the columns it names.                                       *)
(*                                                                         *)
(* Left out: the audit log, mail, cookies, changes of roles and the        *)
(* columns no property tells apart (device, address, names, lastLoginAt,   *)
(* lastActiveAt).                                                          *)
(***************************************************************************)
EXTENDS Naturals, FiniteSets

CONSTANTS
    Users,           \* accounts; they exist throughout and have a password
    Admins,          \* accounts whose roles include 'admin'
    SuperAdmins,     \* accounts whose roles include 'superadmin'
    TwoFactorUsers,  \* accounts for which isTwoFactorEnabled answers true
    Sessions,        \* ids a session row can get: bounds the logins
    Tokens,          \* ids a token row can get: bounds the issued tokens
    Passwords,
    Requests,        \* slots: how many requests can be in flight at once
    Routes,          \* the routes clients call (a run may leave some out)
    Nil

RouteNames == {"me", "logout", "revoke", "revokeAll", "changePassword",
               "adminPassword", "status", "update", "login", "twoFactor",
               "magicLink", "forgot", "refresh"}

GuardedRoutes == {"me", "logout", "revoke", "revokeAll", "changePassword",
                  "adminPassword", "status", "update"}

ASSUME RolesAssumption == Admins \subseteq Users /\ SuperAdmins \subseteq Users
ASSUME RoutesAssumption == Routes \subseteq RouteNames
ASSUME NilAssumption == Nil \notin Users \cup Sessions \cup Tokens
ASSUME RequestsAssumption == IsFiniteSet(Requests)

VARIABLES
    users,     \* table users: isActive and the stored password
    sessions,  \* table sessions; "absent" until the row is inserted
    tokens,    \* table tokens; "absent" until the row is inserted
    req,       \* the requests in flight and what they have read so far
    grants     \* history: the sessions each token was exchanged for

vars == <<users, sessions, tokens, req, grants>>

-----------------------------------------------------------------------------
(* Rows and request slots.                                                 *)

\* A stored password: whose bcrypt output it is, and how often bcrypt was
\* applied (2 stands for twice or more: no attempt matches it any longer).
Hash == [of: Passwords, times: 0..2]
UserRow == [isActive: BOOLEAN, password: Hash]
SessionRow == [user: Users \cup {Nil},
               status: {"absent", "active", "revoked"},
               expired: BOOLEAN]
TokenTypes == {"magic_link", "password_reset", "two_factor_pending"}
TokenRow == [user: Users \cup {Nil}, type: TokenTypes,
             status: {"absent", "fresh", "expired", "used"}]

Hashed(pw) == [of |-> pw, times |-> 1]

\* @BeforeUpdate hashPassword: hashes whatever the password field holds.
Rehash(hash) == [hash EXCEPT !.times = IF @ = 2 THEN 2 ELSE @ + 1]

Idle == [pc |-> "idle", user |-> Nil, session |-> Nil, token |-> Nil,
         row |-> Nil]

\* Where a request waits, grouped by what its slot then holds.
SessionPcs == {"guardSave", "guarded", "passed", "revokeSave", "refreshUser",
               "refreshSave"}
TokenPcs == {"twoFactorMark", "twoFactorSession", "magicSession"}
RowPcs == {"passwordSave", "statusSave"}
TokenRowPcs == {"magicMark", "magicUser", "resetMark", "resetSave"}
UserPcs == {"loginIssue", "magicInsert", "resetInsert", "resetRevoke",
            "statusRevoke"}

IdleRequests == {Idle}
Request ==
    IdleRequests
    \cup [pc: SessionPcs, user: Users, session: Sessions, token: {Nil},
          row: {Nil}]
    \cup [pc: TokenPcs, user: Users, session: {Nil}, token: Tokens,
          row: {Nil}]
    \cup [pc: RowPcs, user: Users, session: {Nil}, token: {Nil},
          row: UserRow]
    \cup [pc: TokenRowPcs, user: Users, session: {Nil}, token: Tokens,
          row: UserRow]
    \cup [pc: UserPcs, user: Users, session: {Nil}, token: {Nil},
          row: {Nil}]

TypeOK ==
    /\ users \in [Users -> UserRow]
    /\ sessions \in [Sessions -> SessionRow]
    /\ tokens \in [Tokens -> TokenRow]
    /\ req \in [Requests -> Request]
    /\ grants \in [Tokens -> SUBSET Sessions]

Init ==
    /\ users \in [Users -> {[isActive |-> TRUE, password |-> Hashed(pw)] :
                                pw \in Passwords}]
    /\ sessions = [s \in Sessions |->
                     [user |-> Nil, status |-> "absent", expired |-> FALSE]]
    /\ tokens = [t \in Tokens |->
                   [user |-> Nil, type |-> "magic_link", status |-> "absent"]]
    /\ req = [r \in Requests |-> Idle]
    /\ grants = [t \in Tokens |-> {}]

-----------------------------------------------------------------------------
(* Mutated forms of definitions below: plausible slips in the code that    *)
(* the properties must notice.  Nothing refers to them.                    *)

\* A token marked the way sessions are.
MarkRevoked(t) == tokens' = [tokens EXCEPT ![t].status = "revoked"]

\* The find that forgets used: false.
UnexpiredToken(t, type) ==
    tokens[t].status \in {"fresh", "used"} /\ tokens[t].type = type

\* The assignment tokenRecord.used = true is lost.
ForgetUsed(t) == UNCHANGED tokens

\* The find that forgets isActive: true.
AnySession(s) == sessions[s].status # "absent"

\* refreshToken that does not look at the user's isActive.
RefreshAnyUser(r) ==
    /\ req[r].pc = "refreshUser"
    /\ req' = [req EXCEPT ![r].pc = "refreshSave"]
    /\ UNCHANGED <<users, sessions, tokens, grants>>

-----------------------------------------------------------------------------
(* Steps shared by the handlers.                                           *)

At(r, pc) == req[r].pc = pc
Goto(r, pc) == req' = [req EXCEPT ![r].pc = pc]
Finish(r) == req' = [req EXCEPT ![r] = Idle]

\* A client calls one of the routes.
Called(r, route) == At(r, "idle") /\ route \in Routes

\* What findOne has read is kept in the slot until the request needs it.
Hold(r, pc, user, session, token, row) ==
    req' = [req EXCEPT ![r] = [pc |-> pc, user |-> user, session |-> session,
                               token |-> token, row |-> row]]

\* usersRepository.save(user) when the handler changed a column: the whole
\* copy is written and the @BeforeUpdate hook hashes its password field.
SaveUser(u, row) ==
    users' = [users EXCEPT ![u] = [row EXCEPT !.password = Rehash(@)]]

\* sessionRepository.save(session), the isActive column only.
SaveSession(s, status) == sessions' = [sessions EXCEPT ![s].status = status]

\* tokenRepository.save(tokenRecord) after tokenRecord.used = true.
MarkUsed(t) == tokens' = [tokens EXCEPT ![t].status = "used"]

\* tokenRepository.save(create({userId, type, expiresAt})): a fresh id.
InsertToken(t, u, type) ==
    /\ tokens[t].status = "absent"
    /\ tokens' = [tokens EXCEPT ![t] =
                    [user |-> u, type |-> type, status |-> "fresh"]]

\* sessionRepository.save(create({userId, ...})): a fresh id.
InsertSession(s, u) ==
    /\ sessions[s].status = "absent"
    /\ sessions' = [sessions EXCEPT ![s] =
                      [user |-> u, status |-> "active", expired |-> FALSE]]

\* revokeAllSessions: one UPDATE of the active sessions of owners but `kept`.
RevokeAll(owners, kept) ==
    sessions' = [s \in Sessions |->
                   IF /\ sessions[s].user \in owners
                      /\ sessions[s].status = "active"
                      /\ s # kept
                   THEN [sessions[s] EXCEPT !.status = "revoked"]
                   ELSE sessions[s]]

\* findOne({where: {token, type, used: false}}) and the expiry test.
FreshToken(t, type) == tokens[t].status = "fresh" /\ tokens[t].type = type

\* findOne({where: {id, isActive: true}}).
ActiveSession(s) == sessions[s].status = "active"

ComparePassword(u, attempt) == users[u].password = Hashed(attempt)

\* The role test of adminChangeUserPassword and changeAccountStatus.
MayAdminister(admin, target) ==
    /\ admin \in Admins \cup SuperAdmins
    /\ target \in Admins \cup SuperAdmins => admin \in SuperAdmins

-----------------------------------------------------------------------------
(* JwtAuthGuard.canActivate: the request carries a valid JWT of session s. *)

GuardRead(r, s) ==
    /\ \E route \in GuardedRoutes : Called(r, route)
    /\ ActiveSession(s)
    /\ Hold(r, "guardSave", sessions[s].user, s, Nil, Nil)
    /\ UNCHANGED <<users, sessions, tokens, grants>>

\* session.lastActiveAt = new Date(); save(session): the copy was active.
GuardSave(r) ==
    /\ At(r, "guardSave")
    /\ SaveSession(req[r].session, "active")
    /\ Goto(r, "guarded")
    /\ UNCHANGED <<users, tokens, grants>>

\* A request with its token in the query string only: the guard leaves it to
\* the passport strategy, which looks at no session, and the user it sets has
\* no id.
GuardPass(r, s) ==
    /\ \E route \in GuardedRoutes : Called(r, route)
    /\ sessions[s].status # "absent"
    /\ Hold(r, "passed", sessions[s].user, s, Nil, Nil)
    /\ UNCHANGED <<users, sessions, tokens, grants>>

\* The guard has let the request through and the route's handler starts.
Guarded(r, route) == (At(r, "guarded") \/ At(r, "passed")) /\ route \in Routes

\* Whose rows a query by the id of the request's user finds: without an id it
\* does not filter.
Callers(r) == IF At(r, "passed") THEN Users ELSE {req[r].user}

\* AdminGuard, by the roles in the token, and the role test of the service, by
\* those of the user it finds.
Administers(r, target) ==
    /\ req[r].user \in Admins \cup SuperAdmins
    /\ \E admin \in Callers(r) : MayAdminister(admin, target)

\* getProfile, getSessions, verifyAuth ...: nothing is written.
ReadOnly(r) ==
    /\ Guarded(r, "me")
    /\ Finish(r)
    /\ UNCHANGED <<users, sessions, tokens, grants>>

\* logout: invalidateSession(req.user.sessionId).
Logout(r) ==
    /\ Guarded(r, "logout")
    /\ SaveSession(req[r].session, "revoked")
    /\ Finish(r)
    /\ UNCHANGED <<users, tokens, grants>>

\* revokeSession: findOne({where: {id, userId}}).
RevokeRead(r, s) ==
    /\ Guarded(r, "revoke")
    /\ sessions[s].user \in Callers(r)
    /\ Hold(r, "revokeSave", sessions[s].user, s, Nil, Nil)
    /\ UNCHANGED <<users, sessions, tokens, grants>>

RevokeSave(r) ==
    /\ At(r, "revokeSave")
    /\ SaveSession(req[r].session, "revoked")
    /\ Finish(r)
    /\ UNCHANGED <<users, tokens, grants>>

\* revokeAllSessions(user.id, req.user.sessionId): all but the caller's.
RevokeOthers(r) ==
    /\ Guarded(r, "revokeAll")
    /\ RevokeAll(Callers(r), req[r].session)
    /\ Finish(r)
    /\ UNCHANGED <<users, tokens, grants>>

-----------------------------------------------------------------------------
(* Password and status changes by a guarded request.                       *)

\* UsersService.changePassword: read, compare, set the new password on the
\* copy.  The plain password in the copy has not been hashed yet.
ChangePasswordRead(r, u, current, new) ==
    /\ Guarded(r, "changePassword")
    /\ u \in Callers(r)
    /\ ComparePassword(u, current)
    /\ Hold(r, "passwordSave", u, Nil, Nil,
            [users[u] EXCEPT !.password = [of |-> new, times |-> 0]])
    /\ UNCHANGED <<users, sessions, tokens, grants>>

\* adminChangeUserPassword up to the read of the target.
AdminPasswordRead(r, u, new) ==
    /\ Guarded(r, "adminPassword")
    /\ Administers(r, u)
    /\ Hold(r, "passwordSave", u, Nil, Nil,
            [users[u] EXCEPT !.password = [of |-> new, times |-> 0]])
    /\ UNCHANGED <<users, sessions, tokens, grants>>

PasswordSave(r) ==
    /\ At(r, "passwordSave")
    /\ SaveUser(req[r].user, req[r].row)
    /\ Finish(r)
    /\ UNCHANGED <<sessions, tokens, grants>>

\* changeAccountStatus up to the read of the target: user.isActive = flag.
StatusRead(r, u, flag) ==
    /\ Guarded(r, "status")
    /\ Administers(r, u)
    /\ Hold(r, "statusSave", u, Nil, Nil, [users[u] EXCEPT !.isActive = flag])
    /\ UNCHANGED <<users, sessions, tokens, grants>>

\* save(user): nothing is written, and the hook does not run, when the copy
\* differs from the table in no column.  A lock goes on to the sessions.
StatusSave(r) ==
    /\ At(r, "statusSave")
    /\ LET u == req[r].user
           row == req[r].row
       IN /\ IF row = users[u] THEN UNCHANGED users ELSE SaveUser(u, row)
          /\ IF row.isActive
             THEN Finish(r)
             ELSE Hold(r, "statusRevoke", u, Nil, Nil, Nil)
    /\ UNCHANGED <<sessions, tokens, grants>>

StatusRevoke(r) ==
    /\ At(r, "statusRevoke")
    /\ RevokeAll({req[r].user}, Nil)
    /\ Finish(r)
    /\ UNCHANGED <<users, tokens, grants>>

\* UsersService.update of oneself, or of anyone by an 'admin':
\* repository.update of the columns sent.  No entity hook runs, so a
\* password is stored as it was sent.
UpdateUser(r, u) ==
    /\ Guarded(r, "update")
    /\ (At(r, "guarded") /\ u = req[r].user) \/ req[r].user \in Admins
    /\ \E flag \in BOOLEAN,
          hash \in {users[u].password} \cup [of: Passwords, times: {0}] :
             users' = [users EXCEPT ![u] = [isActive |-> flag, password |-> hash]]
    /\ Finish(r)
    /\ UNCHANGED <<sessions, tokens, grants>>

-----------------------------------------------------------------------------
(* Password login and the second factor.                                   *)

\* validateUser.
LoginRead(r, u, attempt) ==
    /\ Called(r, "login")
    /\ users[u].isActive
    /\ ComparePassword(u, attempt)
    /\ Hold(r, "loginIssue", u, Nil, Nil, Nil)
    /\ UNCHANGED <<users, sessions, tokens, grants>>

\* createSession, when isTwoFactorEnabled answered false.
LoginSession(r, s) ==
    /\ At(r, "loginIssue")
    /\ req[r].user \notin TwoFactorUsers
    /\ InsertSession(s, req[r].user)
    /\ Finish(r)
    /\ UNCHANGED <<users, tokens, grants>>

\* createTwoFactorSession, when it answered true.
LoginPending(r, t) ==
    /\ At(r, "loginIssue")
    /\ req[r].user \in TwoFactorUsers
    /\ InsertToken(t, req[r].user, "two_factor_pending")
    /\ Finish(r)
    /\ UNCHANGED <<users, sessions, grants>>

\* completeTwoFactorLogin: the pending session is found.
TwoFactorRead(r, t) ==
    /\ Called(r, "twoFactor")
    /\ FreshToken(t, "two_factor_pending")
    /\ Hold(r, "twoFactorMark", tokens[t].user, Nil, t, Nil)
    /\ UNCHANGED <<users, sessions, tokens, grants>>

\* twoFactorService.verify refused the code: the pending session stays.
TwoFactorReject(r) ==
    /\ At(r, "twoFactorMark")
    /\ Finish(r)
    /\ UNCHANGED <<users, sessions, tokens, grants>>

\* The code was accepted: the pending session is marked used.
TwoFactorMark(r) ==
    /\ At(r, "twoFactorMark")
    /\ MarkUsed(req[r].token)
    /\ Goto(r, "twoFactorSession")
    /\ UNCHANGED <<users, sessions, grants>>

\* createSession on the strength of the token in the slot.
ExchangeToken(r, s) ==
    /\ InsertSession(s, req[r].user)
    /\ grants' = [grants EXCEPT ![req[r].token] = @ \cup {s}]
    /\ Finish(r)

TwoFactorSession(r, s) ==
    /\ At(r, "twoFactorSession")
    /\ ExchangeToken(r, s)
    /\ UNCHANGED <<users, tokens>>

-----------------------------------------------------------------------------
(* Magic links (MagicLinkService).                                         *)

\* sendMagicLink: findOne({where: {email, isActive: true}}).
MagicSendRead(r, u) ==
    /\ Called(r, "magicLink")
    /\ users[u].isActive
    /\ Hold(r, "magicInsert", u, Nil, Nil, Nil)
    /\ UNCHANGED <<users, sessions, tokens, grants>>

MagicSendInsert(r, t) ==
    /\ At(r, "magicInsert")
    /\ InsertToken(t, req[r].user, "magic_link")
    /\ Finish(r)
    /\ UNCHANGED <<users, sessions, grants>>

\* verifyMagicLink: the token and, by the same query, its user.
MagicRead(r, t) ==
    /\ Called(r, "magicLink")
    /\ FreshToken(t, "magic_link")
    /\ LET u == tokens[t].user
       IN Hold(r, "magicMark", u, Nil, t, users[u])
    /\ UNCHANGED <<users, sessions, tokens, grants>>

MagicMark(r) ==
    /\ At(r, "magicMark")
    /\ MarkUsed(req[r].token)
    /\ Goto(r, "magicUser")
    /\ UNCHANGED <<users, sessions, grants>>

\* user.lastLoginAt = new Date(); save(user).
MagicUser(r) ==
    /\ At(r, "magicUser")
    /\ SaveUser(req[r].user, req[r].row)
    /\ Hold(r, "magicSession", req[r].user, Nil, req[r].token, Nil)
    /\ UNCHANGED <<sessions, tokens, grants>>

MagicSession(r, s) ==
    /\ At(r, "magicSession")
    /\ ExchangeToken(r, s)
    /\ UNCHANGED <<users, tokens>>

-----------------------------------------------------------------------------
(* Forgotten passwords.                                                    *)

\* forgotPassword: nothing happens for a locked account.
ForgotRead(r, u) ==
    /\ Called(r, "forgot")
    /\ users[u].isActive
    /\ Hold(r, "resetInsert", u, Nil, Nil, Nil)
    /\ UNCHANGED <<users, sessions, tokens, grants>>

ForgotInsert(r, t) ==
    /\ At(r, "resetInsert")
    /\ InsertToken(t, req[r].user, "password_reset")
    /\ Finish(r)
    /\ UNCHANGED <<users, sessions, grants>>

\* resetPassword: the token and, by the same query, its user.
ResetRead(r, t) ==
    /\ Called(r, "forgot")
    /\ FreshToken(t, "password_reset")
    /\ LET u == tokens[t].user
       IN Hold(r, "resetMark", u, Nil, t, users[u])
    /\ UNCHANGED <<users, sessions, tokens, grants>>

\* The token is spent before the copy's isActive is looked at.
ResetMark(r) ==
    /\ At(r, "resetMark")
    /\ MarkUsed(req[r].token)
    /\ IF req[r].row.isActive THEN Goto(r, "resetSave") ELSE Finish(r)
    /\ UNCHANGED <<users, sessions, grants>>

ResetSave(r, new) ==
    /\ At(r, "resetSave")
    /\ SaveUser(req[r].user,
                [req[r].row EXCEPT !.password = [of |-> new, times |-> 0]])
    /\ Hold(r, "resetRevoke", req[r].user, Nil, Nil, Nil)
    /\ UNCHANGED <<sessions, tokens, grants>>

ResetRevoke(r) ==
    /\ At(r, "resetRevoke")
    /\ RevokeAll({req[r].user}, Nil)
    /\ Finish(r)
    /\ UNCHANGED <<users, tokens, grants>>

-----------------------------------------------------------------------------
(* Access-token refresh.                                                   *)

RefreshRead(r, s) ==
    /\ Called(r, "refresh")
    /\ ActiveSession(s)
    /\ ~sessions[s].expired
    /\ Hold(r, "refreshUser", sessions[s].user, s, Nil, Nil)
    /\ UNCHANGED <<users, sessions, tokens, grants>>

\* findOne({where: {id: session.userId, isActive: true}}).
RefreshUser(r) ==
    /\ At(r, "refreshUser")
    /\ IF users[req[r].user].isActive THEN Goto(r, "refreshSave") ELSE Finish(r)
    /\ UNCHANGED <<users, sessions, tokens, grants>>

\* session.lastActiveAt = new Date(); save(session): the copy was active.
RefreshSave(r) ==
    /\ At(r, "refreshSave")
    /\ SaveSession(req[r].session, "active")
    /\ Finish(r)
    /\ UNCHANGED <<users, tokens, grants>>

-----------------------------------------------------------------------------
(* The environment.                                                        *)

\* An awaited call fails, the process dies, or the guard or a handler turns
\* the request away: what it has written so far stays written.
Fail(r) ==
    /\ ~At(r, "idle")
    /\ Finish(r)
    /\ UNCHANGED <<users, sessions, tokens, grants>>

\* The clock passes a token's expiresAt.
ExpireToken(t) ==
    /\ tokens[t].status = "fresh"
    /\ tokens' = [tokens EXCEPT ![t].status = "expired"]
    /\ UNCHANGED <<users, sessions, req, grants>>

\* The clock passes a session's refreshTokenExpiresAt.
ExpireSession(s) ==
    /\ sessions[s].status # "absent"
    /\ ~sessions[s].expired
    /\ sessions' = [sessions EXCEPT ![s].expired = TRUE]
    /\ UNCHANGED <<users, tokens, req, grants>>

GuardedStep(r) ==
    \/ GuardSave(r) \/ ReadOnly(r) \/ Logout(r) \/ RevokeOthers(r)
    \/ RevokeSave(r) \/ PasswordSave(r) \/ StatusSave(r) \/ StatusRevoke(r)
    \/ \E s \in Sessions : GuardRead(r, s) \/ GuardPass(r, s) \/ RevokeRead(r, s)
    \/ \E u \in Users : UpdateUser(r, u)
    \/ \E u \in Users, flag \in BOOLEAN : StatusRead(r, u, flag)
    \/ \E u \in Users, new \in Passwords : AdminPasswordRead(r, u, new)
    \/ \E u \in Users, current, new \in Passwords :
          ChangePasswordRead(r, u, current, new)

PublicStep(r) ==
    \/ TwoFactorReject(r) \/ TwoFactorMark(r) \/ MagicMark(r) \/ MagicUser(r)
    \/ ResetMark(r) \/ ResetRevoke(r) \/ RefreshUser(r) \/ RefreshSave(r)
    \/ \E u \in Users : MagicSendRead(r, u) \/ ForgotRead(r, u)
    \/ \E u \in Users, attempt \in Passwords : LoginRead(r, u, attempt)
    \/ \E new \in Passwords : ResetSave(r, new)
    \/ \E s \in Sessions : \/ LoginSession(r, s) \/ TwoFactorSession(r, s)
                          \/ MagicSession(r, s) \/ RefreshRead(r, s)
    \/ \E t \in Tokens : \/ LoginPending(r, t) \/ TwoFactorRead(r, t)
                        \/ MagicSendInsert(r, t) \/ MagicRead(r, t)
                        \/ ForgotInsert(r, t) \/ ResetRead(r, t)

Next ==
    \/ \E r \in Requests : GuardedStep(r) \/ PublicStep(r) \/ Fail(r)
    \/ \E t \in Tokens : ExpireToken(t)
    \/ \E s \in Sessions : ExpireSession(s)

Spec == Init /\ [][Next]_vars

-----------------------------------------------------------------------------
(* The inductive invariant behind the properties below.                    *)

RowsHaveOwners ==
    /\ \A s \in Sessions :
          sessions[s].status # "absent" <=> sessions[s].user \in Users
    /\ \A t \in Tokens :
          tokens[t].status # "absent" <=> tokens[t].user \in Users

\* Where a request that holds token t waits, and what is then known of t.
TokenAt == [two_factor_pending |-> {"twoFactorMark", "twoFactorSession"},
            magic_link |-> {"magicMark", "magicUser", "magicSession"},
            password_reset |-> {"resetMark", "resetSave"}]
MarkedPcs == {"twoFactorSession", "magicUser", "magicSession", "resetSave"}

SlotMatchesTables(r) ==
    /\ req[r].session # Nil =>
          /\ sessions[req[r].session].status # "absent"
          /\ sessions[req[r].session].user = req[r].user
    /\ req[r].token # Nil =>
          /\ tokens[req[r].token].status # "absent"
          /\ tokens[req[r].token].user = req[r].user
          /\ req[r].pc \in TokenAt[tokens[req[r].token].type]
          /\ req[r].pc \in MarkedPcs => tokens[req[r].token].status = "used"

SlotsMatchTables == \A r \in Requests : SlotMatchesTables(r)

GrantedSessionsExist ==
    \A t \in Tokens : \A s \in grants[t] : sessions[s].status # "absent"

-----------------------------------------------------------------------------
(* What holds however the requests interleave.                             *)

\* Requests that will still write a copy in which session s is active.
HoldsActiveCopy(r, s) ==
    req[r].session = s /\ req[r].pc \in {"guardSave", "refreshUser", "refreshSave"}

Dead(s) ==
    /\ sessions[s].status = "revoked"
    /\ \A r \in Requests : ~HoldsActiveCopy(r, s)

\* A session that was revoked by logout, revokeSession, revokeAllSessions, a
\* password reset or a lock, and of which no guard or refresh still holds a
\* copy read before, is never active again.
DeadSessionStaysDead == [][\A s \in Sessions : Dead(s) => Dead(s)']_vars

\* Requests that found token t unused and have not finished with it.
Holders(t) == {r \in Requests : req[r].token = t}

Spent(t) == tokens[t].status = "used" /\ Holders(t) = {}

\* A magic link or a pending two-factor session that is marked used, and that
\* no request in flight found unused, is never exchanged for a session again.
SpentTokenStaysSpent ==
    [][\A t \in Tokens : Spent(t) => Spent(t)' /\ grants'[t] = grants[t]]_vars

\* A token is marked used before the session it pays for exists, so a handler
\* that dies in between leaves no token that could pay twice; the session
\* belongs to the token's user; and a password-reset token opens no session.
SessionsComeFromUsedTokens ==
    \A t \in Tokens : \A s \in grants[t] :
        /\ tokens[t].status = "used"
        /\ tokens[t].type # "password_reset"
        /\ sessions[s].user = tokens[t].user

\* All of it: what the proofs carry from step to step.
IInv == /\ TypeOK
        /\ RowsHaveOwners
        /\ SlotsMatchTables
        /\ GrantedSessionsExist
        /\ SessionsComeFromUsedTokens

\* Requests that overlap can each exchange the same token, but none can that
\* starts after the first of them marked it: with one request at a time
\* (Requests a singleton) a token opens one session at most.
TokenExchangesBounded ==
    \A t \in Tokens : Cardinality(grants[t]) <= Cardinality(Requests)

\* A request that may still open a session of u or write isActive = TRUE.
MayReopen(r, u) ==
    /\ req[r].user = u
    /\ \/ req[r].pc \in {"guardSave", "refreshSave", "loginIssue", "magicInsert",
                        "magicMark", "magicUser", "magicSession",
                        "twoFactorMark", "twoFactorSession"}
       \/ /\ req[r].pc \in {"passwordSave", "statusSave", "resetMark", "resetSave"}
          /\ req[r].row.isActive

Sealed(u) ==
    /\ ~users[u].isActive
    /\ \A s \in Sessions : ~(sessions[s].user = u /\ ActiveSession(s))
    /\ \A t \in Tokens : tokens[t].user = u =>
          ~(FreshToken(t, "magic_link") \/ FreshToken(t, "two_factor_pending"))
    /\ \A r \in Requests : ~MayReopen(r, u)

\* A lock is final, until somebody sets the account's status again, from the
\* moment it has no active session, no unused magic link or pending second
\* factor, and no request in flight that read the account before the lock.
SealedAccountStaysSealed ==
    [][\A u \in Users : Sealed(u) =>
          \/ Sealed(u)'
          \/ \E r \in Requests : StatusRead(r, u, TRUE) \/ UpdateUser(r, u)]_vars

-----------------------------------------------------------------------------
(* What the comments of the code say and overlapping requests, or the hook *)
(* of the user entity, do not keep.                                        *)

\* "Invalidate the session": one that was revoked, by logout or any of the
\* other operations, never becomes active again.
RevokedStaysRevoked ==
    [][\A s \in Sessions :
          sessions[s].status = "revoked" => sessions'[s].status = "revoked"]_vars

\* "Update last login": verifyMagicLink saves the user for lastLoginAt, a column left out here, so
\* that save should leave the modelled columns of the user alone.
MagicLinkTouchesOnlyLastLogin ==
    [][\A r \in Requests : MagicUser(r) => users' = users]_vars
=============================================================================
