------------------------- MODULE AuthSessionsProofs -------------------------
EXTENDS AuthSessions, FiniteSetTheorems, TLAPS

(* What a slot holds, by the place where its request waits. *)
LEMMA SlotShape ==
  ASSUME NEW x \in Request
  PROVE  /\ x.pc \in SessionPcs =>
              x \in [pc: SessionPcs, user: Users, session: Sessions,
                     token: {Nil}, row: {Nil}]
         /\ x.pc \in TokenPcs =>
              x \in [pc: TokenPcs, user: Users, session: {Nil},
                     token: Tokens, row: {Nil}]
         /\ x.pc \in RowPcs =>
              x \in [pc: RowPcs, user: Users, session: {Nil},
                     token: {Nil}, row: UserRow]
         /\ x.pc \in TokenRowPcs =>
              x \in [pc: TokenRowPcs, user: Users, session: {Nil},
                     token: Tokens, row: UserRow]
         /\ x.pc \in UserPcs =>
              x \in [pc: UserPcs, user: Users, session: {Nil},
                     token: {Nil}, row: {Nil}]
         /\ x.pc = "idle" => x = Idle
<1> DEFINE S == [pc: SessionPcs, user: Users, session: Sessions,
                 token: {Nil}, row: {Nil}]
           T == [pc: TokenPcs, user: Users, session: {Nil},
                 token: Tokens, row: {Nil}]
           R == [pc: RowPcs, user: Users, session: {Nil},
                 token: {Nil}, row: UserRow]
           TR == [pc: TokenRowPcs, user: Users, session: {Nil},
                  token: Tokens, row: UserRow]
           U == [pc: UserPcs, user: Users, session: {Nil},
                 token: {Nil}, row: {Nil}]
<1>1. x = Idle \/ x \in S \/ x \in T \/ x \in R \/ x \in TR \/ x \in U
  BY DEF Request, IdleRequests
<1>2. /\ x \in S => x.pc \in SessionPcs
      /\ x \in T => x.pc \in TokenPcs
      /\ x \in R => x.pc \in RowPcs
      /\ x \in TR => x.pc \in TokenRowPcs
      /\ x \in U => x.pc \in UserPcs
      /\ x = Idle => x.pc = "idle"
  BY DEF Idle
<1> HIDE DEF S, T, R, TR, U
<1>3. QED
  BY <1>1, <1>2
     DEF SessionPcs, TokenPcs, RowPcs, TokenRowPcs, UserPcs, S, T, R, TR, U

-----------------------------------------------------------------------------
(* The shared steps preserve the types.                                    *)

LEMMA RehashType ==
  ASSUME NEW h \in Hash
  PROVE  Rehash(h) \in [of: Passwords, times: 1..2]
BY DEF Hash, Rehash

LEMMA HashedType ==
  ASSUME NEW pw \in Passwords
  PROVE  Hashed(pw) \in Hash /\ [of |-> pw, times |-> 0] \in Hash
BY DEF Hash, Hashed

LEMMA SaveUserType ==
  ASSUME users \in [Users -> UserRow], NEW u \in Users, NEW row \in UserRow,
         SaveUser(u, row)
  PROVE  users' \in [Users -> UserRow]
<1>1. row.password \in Hash
  BY DEF UserRow
<1>2. Rehash(row.password) \in Hash
  BY <1>1, RehashType DEF Hash
<1>3. [row EXCEPT !.password = Rehash(@)] \in UserRow
  BY <1>2 DEF UserRow
<1>4. QED
  BY <1>3 DEF SaveUser

LEMMA SaveSessionType ==
  ASSUME sessions \in [Sessions -> SessionRow], NEW s \in Sessions,
         NEW status \in {"active", "revoked"}, SaveSession(s, status)
  PROVE  sessions' \in [Sessions -> SessionRow]
BY DEF SaveSession, SessionRow

LEMMA RevokeAllType ==
  ASSUME sessions \in [Sessions -> SessionRow], NEW u, NEW kept,
         RevokeAll(u, kept)
  PROVE  sessions' \in [Sessions -> SessionRow]
BY DEF RevokeAll, SessionRow

LEMMA InsertSessionType ==
  ASSUME sessions \in [Sessions -> SessionRow], NEW s \in Sessions,
         NEW u \in Users, InsertSession(s, u)
  PROVE  sessions' \in [Sessions -> SessionRow]
BY DEF InsertSession, SessionRow

LEMMA InsertTokenType ==
  ASSUME tokens \in [Tokens -> TokenRow], NEW t \in Tokens, NEW u \in Users,
         NEW type \in TokenTypes, InsertToken(t, u, type)
  PROVE  tokens' \in [Tokens -> TokenRow]
BY DEF InsertToken, TokenRow

LEMMA MarkUsedType ==
  ASSUME tokens \in [Tokens -> TokenRow], NEW t \in Tokens, MarkUsed(t)
  PROVE  tokens' \in [Tokens -> TokenRow]
BY DEF MarkUsed, TokenRow

LEMMA FinishType ==
  ASSUME req \in [Requests -> Request], NEW r \in Requests, Finish(r)
  PROVE  req' \in [Requests -> Request]
BY DEF Finish, Request, IdleRequests

(* Waiting at the next place of the same group keeps what the slot holds. *)
LEMMA GotoType ==
  ASSUME req \in [Requests -> Request], NEW r \in Requests, NEW pc, Goto(r, pc),
         \/ req[r].pc \in SessionPcs /\ pc \in SessionPcs
         \/ req[r].pc \in TokenPcs /\ pc \in TokenPcs
         \/ req[r].pc \in TokenRowPcs /\ pc \in TokenRowPcs
  PROVE  req' \in [Requests -> Request]
<1> DEFINE x == req[r]
           y == [x EXCEPT !.pc = pc]
<1>1. x \in Request
  OBVIOUS
<1>2. y \in Request
  <2>1. CASE x.pc \in SessionPcs /\ pc \in SessionPcs
    <3>1. x \in [pc: SessionPcs, user: Users, session: Sessions,
                 token: {Nil}, row: {Nil}]
      BY <1>1, <2>1, SlotShape
    <3>2. y \in [pc: SessionPcs, user: Users, session: Sessions,
                 token: {Nil}, row: {Nil}]
      BY <3>1, <2>1
    <3>3. QED
      BY <3>2 DEF Request
  <2>2. CASE x.pc \in TokenPcs /\ pc \in TokenPcs
    <3>1. x \in [pc: TokenPcs, user: Users, session: {Nil},
                 token: Tokens, row: {Nil}]
      BY <1>1, <2>2, SlotShape
    <3>2. y \in [pc: TokenPcs, user: Users, session: {Nil},
                 token: Tokens, row: {Nil}]
      BY <3>1, <2>2
    <3>3. QED
      BY <3>2 DEF Request
  <2>3. CASE x.pc \in TokenRowPcs /\ pc \in TokenRowPcs
    <3>1. x \in [pc: TokenRowPcs, user: Users, session: {Nil},
                 token: Tokens, row: UserRow]
      BY <1>1, <2>3, SlotShape
    <3>2. y \in [pc: TokenRowPcs, user: Users, session: {Nil},
                 token: Tokens, row: UserRow]
      BY <3>1, <2>3
    <3>3. QED
      BY <3>2 DEF Request
  <2>4. QED
    BY <2>1, <2>2, <2>3
<1>3. req' = [req EXCEPT ![r] = y]
  BY DEF Goto
<1>4. QED
  BY <1>2, <1>3

LEMMA HoldType ==
  ASSUME req \in [Requests -> Request], NEW r \in Requests,
         NEW pc, NEW user \in Users, NEW session, NEW token, NEW row,
         Hold(r, pc, user, session, token, row),
         \/ /\ pc \in SessionPcs /\ session \in Sessions
            /\ token = Nil /\ row = Nil
         \/ /\ pc \in TokenPcs /\ session = Nil
            /\ token \in Tokens /\ row = Nil
         \/ /\ pc \in RowPcs /\ session = Nil
            /\ token = Nil /\ row \in UserRow
         \/ /\ pc \in TokenRowPcs /\ session = Nil
            /\ token \in Tokens /\ row \in UserRow
         \/ /\ pc \in UserPcs /\ session = Nil
            /\ token = Nil /\ row = Nil
  PROVE  req' \in [Requests -> Request]
<1> DEFINE y == [pc |-> pc, user |-> user, session |-> session,
                 token |-> token, row |-> row]
<1>1. y \in Request
  BY DEF Request
<1>2. req' = [req EXCEPT ![r] = y]
  BY DEF Hold
<1>3. QED
  BY <1>1, <1>2

-----------------------------------------------------------------------------
(* Type correctness, one step per action.                                  *)

\* A request that is through the guard acts for users.
LEMMA CallersAreUsers ==
  ASSUME TypeOK, NEW r \in Requests, At(r, "guarded") \/ At(r, "passed")
  PROVE  Callers(r) \subseteq Users
<1>1. req[r].user \in Users
  BY SlotShape DEF TypeOK, At, SessionPcs
<1>2. QED
  BY <1>1 DEF Callers

LEMMA GuardedStepType ==
  ASSUME TypeOK, RowsHaveOwners, NEW r \in Requests, GuardedStep(r)
  PROVE  TypeOK'
<1> USE DEF TypeOK
<1> req[r] \in Request
  OBVIOUS
<1>1. CASE GuardSave(r)
  BY <1>1, SlotShape, SaveSessionType, GotoType DEF GuardSave, At, SessionPcs
<1>2. CASE ReadOnly(r)
  BY <1>2, FinishType DEF ReadOnly
<1>3. CASE Logout(r)
  BY <1>3, SlotShape, SaveSessionType, FinishType
     DEF Logout, Guarded, At, SessionPcs
<1>4. CASE RevokeOthers(r)
  BY <1>4, RevokeAllType, FinishType DEF RevokeOthers
<1>5. CASE RevokeSave(r)
  BY <1>5, SlotShape, SaveSessionType, FinishType
     DEF RevokeSave, At, SessionPcs
<1>6. CASE PasswordSave(r)
  BY <1>6, SlotShape, SaveUserType, FinishType DEF PasswordSave, At, RowPcs
<1>7. CASE StatusSave(r)
  <2>1. req[r].user \in Users /\ req[r].row \in UserRow
    BY <1>7, SlotShape DEF StatusSave, At, RowPcs
  <2>2. users' \in [Users -> UserRow]
    BY <1>7, <2>1, SaveUserType DEF StatusSave
  <2>3. req' \in [Requests -> Request]
    BY <1>7, <2>1, FinishType, HoldType DEF StatusSave, UserPcs
  <2>4. QED
    BY <1>7, <2>2, <2>3 DEF StatusSave
<1>8. CASE StatusRevoke(r)
  BY <1>8, RevokeAllType, FinishType DEF StatusRevoke
<1>9. ASSUME NEW s \in Sessions, GuardRead(r, s)
      PROVE  TypeOK'
  <2>1. sessions[s].user \in Users
    BY <1>9 DEF GuardRead, ActiveSession, RowsHaveOwners
  <2>2. req' \in [Requests -> Request]
    BY <1>9, <2>1, HoldType DEF GuardRead, SessionPcs
  <2>3. QED
    BY <1>9, <2>2 DEF GuardRead
<1>10. ASSUME NEW s \in Sessions, RevokeRead(r, s)
       PROVE  TypeOK'
  <2>1. sessions[s].user \in Users
    BY <1>10, CallersAreUsers DEF RevokeRead, Guarded
  <2>2. req' \in [Requests -> Request]
    BY <1>10, <2>1, HoldType DEF RevokeRead, SessionPcs
  <2>3. QED
    BY <1>10, <2>2 DEF RevokeRead
<1>11. ASSUME NEW u \in Users, UpdateUser(r, u)
       PROVE  TypeOK'
  <2>1. PICK flag \in BOOLEAN,
             hash \in {users[u].password} \cup [of: Passwords, times: {0}] :
                users' = [users EXCEPT ![u] = [isActive |-> flag, password |-> hash]]
    BY <1>11 DEF UpdateUser
  <2>2. hash \in Hash
    BY DEF Hash, UserRow
  <2>3. users' \in [Users -> UserRow]
    BY <2>1, <2>2 DEF UserRow
  <2>4. QED
    BY <1>11, <2>3, FinishType DEF UpdateUser
<1>12. ASSUME NEW u \in Users, NEW flag \in BOOLEAN, StatusRead(r, u, flag)
       PROVE  TypeOK'
  <2>1. [users[u] EXCEPT !.isActive = flag] \in UserRow
    BY DEF UserRow
  <2>2. req' \in [Requests -> Request]
    BY <1>12, <2>1, HoldType DEF StatusRead, RowPcs
  <2>3. QED
    BY <1>12, <2>2 DEF StatusRead
<1>13. ASSUME NEW u \in Users, NEW new \in Passwords,
              AdminPasswordRead(r, u, new)
       PROVE  TypeOK'
  <2>1. [users[u] EXCEPT !.password = [of |-> new, times |-> 0]] \in UserRow
    BY HashedType DEF UserRow
  <2>2. req' \in [Requests -> Request]
    BY <1>13, <2>1, HoldType DEF AdminPasswordRead, RowPcs
  <2>3. QED
    BY <1>13, <2>2 DEF AdminPasswordRead
<1>14. ASSUME NEW u \in Users, NEW current \in Passwords, NEW new \in Passwords,
              ChangePasswordRead(r, u, current, new)
       PROVE  TypeOK'
  <2>1. [users[u] EXCEPT !.password = [of |-> new, times |-> 0]] \in UserRow
    BY HashedType DEF UserRow
  <2>2. req' \in [Requests -> Request]
    BY <1>14, <2>1, HoldType DEF ChangePasswordRead, RowPcs
  <2>3. QED
    BY <1>14, <2>2 DEF ChangePasswordRead
<1>15. ASSUME NEW s \in Sessions, GuardPass(r, s)
       PROVE  TypeOK'
  <2>1. sessions[s].user \in Users
    BY <1>15 DEF GuardPass, RowsHaveOwners
  <2>2. req' \in [Requests -> Request]
    BY <1>15, <2>1, HoldType DEF GuardPass, SessionPcs
  <2>3. QED
    BY <1>15, <2>2 DEF GuardPass
<1>16. QED
  BY <1>1, <1>2, <1>3, <1>4, <1>5, <1>6, <1>7, <1>8, <1>9, <1>10, <1>11,
     <1>12, <1>13, <1>14, <1>15 DEF GuardedStep

LEMMA PublicStepType ==
  ASSUME TypeOK, RowsHaveOwners, NEW r \in Requests, PublicStep(r)
  PROVE  TypeOK'
<1> USE DEF TypeOK
<1> req[r] \in Request
  OBVIOUS
<1>1. CASE TwoFactorReject(r)
  BY <1>1, FinishType DEF TwoFactorReject
<1>2. CASE TwoFactorMark(r)
  BY <1>2, SlotShape, MarkUsedType, GotoType DEF TwoFactorMark, At, TokenPcs
<1>3. CASE MagicMark(r)
  BY <1>3, SlotShape, MarkUsedType, GotoType DEF MagicMark, At, TokenRowPcs
<1>4. CASE MagicUser(r)
  <2>1. /\ req[r].user \in Users /\ req[r].row \in UserRow
        /\ req[r].token \in Tokens
    BY <1>4, SlotShape DEF MagicUser, At, TokenRowPcs
  <2>2. users' \in [Users -> UserRow]
    BY <1>4, <2>1, SaveUserType DEF MagicUser
  <2>3. req' \in [Requests -> Request]
    BY <1>4, <2>1, HoldType DEF MagicUser, TokenPcs
  <2>4. QED
    BY <1>4, <2>2, <2>3 DEF MagicUser
<1>5. CASE ResetMark(r)
  <2>1. req[r].pc \in TokenRowPcs /\ req[r].token \in Tokens
    BY <1>5, SlotShape DEF ResetMark, At, TokenRowPcs
  <2>2. tokens' \in [Tokens -> TokenRow]
    BY <1>5, <2>1, MarkUsedType DEF ResetMark
  <2>3. req' \in [Requests -> Request]
    BY <1>5, <2>1, FinishType, GotoType DEF ResetMark, TokenRowPcs
  <2>4. QED
    BY <1>5, <2>2, <2>3 DEF ResetMark
<1>6. CASE ResetRevoke(r)
  BY <1>6, RevokeAllType, FinishType DEF ResetRevoke
<1>7. CASE RefreshUser(r)
  <2>1. req' \in [Requests -> Request]
    BY <1>7, FinishType, GotoType DEF RefreshUser, At, SessionPcs
  <2>2. QED
    BY <1>7, <2>1 DEF RefreshUser
<1>8. CASE RefreshSave(r)
  BY <1>8, SlotShape, SaveSessionType, FinishType
     DEF RefreshSave, At, SessionPcs
<1>9. ASSUME NEW u \in Users, MagicSendRead(r, u)
      PROVE  TypeOK'
  BY <1>9, HoldType DEF MagicSendRead, UserPcs
<1>10. ASSUME NEW u \in Users, ForgotRead(r, u)
       PROVE  TypeOK'
  BY <1>10, HoldType DEF ForgotRead, UserPcs
<1>11. ASSUME NEW u \in Users, NEW attempt \in Passwords,
              LoginRead(r, u, attempt)
       PROVE  TypeOK'
  BY <1>11, HoldType DEF LoginRead, UserPcs
<1>12. ASSUME NEW new \in Passwords, ResetSave(r, new)
       PROVE  TypeOK'
  <2>1. req[r].user \in Users /\ req[r].row \in UserRow
    BY <1>12, SlotShape DEF ResetSave, At, TokenRowPcs
  <2>2. [req[r].row EXCEPT !.password = [of |-> new, times |-> 0]] \in UserRow
    BY <2>1, HashedType DEF UserRow
  <2>3. users' \in [Users -> UserRow]
    BY <1>12, <2>1, <2>2, SaveUserType DEF ResetSave
  <2>4. req' \in [Requests -> Request]
    BY <1>12, <2>1, HoldType DEF ResetSave, UserPcs
  <2>5. QED
    BY <1>12, <2>3, <2>4 DEF ResetSave
<1>13. ASSUME NEW s \in Sessions, LoginSession(r, s)
       PROVE  TypeOK'
  <2>1. req[r].user \in Users
    BY <1>13, SlotShape DEF LoginSession, At, UserPcs
  <2>2. QED
    BY <1>13, <2>1, InsertSessionType, FinishType DEF LoginSession
<1>14. ASSUME NEW s \in Sessions, TwoFactorSession(r, s) \/ MagicSession(r, s)
       PROVE  TypeOK'
  <2>1. req[r].user \in Users /\ req[r].token \in Tokens
    BY <1>14, SlotShape DEF TwoFactorSession, MagicSession, At, TokenPcs
  <2>2. sessions' \in [Sessions -> SessionRow]
    BY <1>14, <2>1, InsertSessionType
       DEF TwoFactorSession, MagicSession, ExchangeToken
  <2>3. grants' \in [Tokens -> SUBSET Sessions]
    BY <1>14, <2>1 DEF TwoFactorSession, MagicSession, ExchangeToken
  <2>4. QED
    BY <1>14, <2>2, <2>3, FinishType
       DEF TwoFactorSession, MagicSession, ExchangeToken
<1>15. ASSUME NEW s \in Sessions, RefreshRead(r, s)
       PROVE  TypeOK'
  <2>1. sessions[s].user \in Users
    BY <1>15 DEF RefreshRead, ActiveSession, RowsHaveOwners
  <2>2. req' \in [Requests -> Request]
    BY <1>15, <2>1, HoldType DEF RefreshRead, SessionPcs
  <2>3. QED
    BY <1>15, <2>2 DEF RefreshRead
<1>16. ASSUME NEW t \in Tokens,
              LoginPending(r, t) \/ MagicSendInsert(r, t) \/ ForgotInsert(r, t)
       PROVE  TypeOK'
  <2>1. req[r].user \in Users
    BY <1>16, SlotShape
       DEF LoginPending, MagicSendInsert, ForgotInsert, At, UserPcs
  <2>2. tokens' \in [Tokens -> TokenRow]
    BY <1>16, <2>1, InsertTokenType
       DEF LoginPending, MagicSendInsert, ForgotInsert, TokenTypes
  <2>3. QED
    BY <1>16, <2>2, FinishType DEF LoginPending, MagicSendInsert, ForgotInsert
<1>17. ASSUME NEW t \in Tokens,
              TwoFactorRead(r, t) \/ MagicRead(r, t) \/ ResetRead(r, t)
       PROVE  TypeOK'
  <2>1. tokens[t].user \in Users
    BY <1>17 DEF TwoFactorRead, MagicRead, ResetRead, FreshToken,
                 RowsHaveOwners
  <2>2. users[tokens[t].user] \in UserRow
    BY <2>1
  <2>3. req' \in [Requests -> Request]
    BY <1>17, <2>1, <2>2, HoldType
       DEF TwoFactorRead, MagicRead, ResetRead, TokenPcs, TokenRowPcs
  <2>4. QED
    BY <1>17, <2>3 DEF TwoFactorRead, MagicRead, ResetRead
<1>18. QED
  BY <1>1, <1>2, <1>3, <1>4, <1>5, <1>6, <1>7, <1>8, <1>9, <1>10, <1>11,
     <1>12, <1>13, <1>14, <1>15, <1>16, <1>17 DEF PublicStep

LEMMA StepType ==
  ASSUME TypeOK, RowsHaveOwners, [Next]_vars
  PROVE  TypeOK'
<1>1. ASSUME NEW r \in Requests, Fail(r)
      PROVE  TypeOK'
  BY <1>1, FinishType DEF Fail, TypeOK
<1>2. ASSUME NEW t \in Tokens, ExpireToken(t)
      PROVE  TypeOK'
  BY <1>2 DEF ExpireToken, TypeOK, TokenRow
<1>3. ASSUME NEW s \in Sessions, ExpireSession(s)
      PROVE  TypeOK'
  BY <1>3 DEF ExpireSession, TypeOK, SessionRow
<1>4. CASE UNCHANGED vars
  BY <1>4 DEF vars, TypeOK
<1>5. QED
  BY <1>1, <1>2, <1>3, <1>4, GuardedStepType, PublicStepType DEF Next

-----------------------------------------------------------------------------
(* The tables only grow: a row, once inserted, keeps its owner, and a used *)
(* token stays used.                                                       *)

SessionsGrow ==
  \A s \in Sessions : sessions[s].status # "absent" =>
      sessions'[s].status # "absent" /\ sessions'[s].user = sessions[s].user

TokensGrow ==
  \A t \in Tokens : tokens[t].status # "absent" =>
      /\ tokens'[t].status # "absent"
      /\ tokens'[t].user = tokens[t].user
      /\ tokens'[t].type = tokens[t].type
      /\ tokens[t].status = "used" => tokens'[t].status = "used"

(* A row that a step inserts has an owner; one not inserted stays as it is. *)
NewRowsHaveOwners ==
  /\ \A s \in Sessions : sessions[s].status = "absent" =>
        \/ sessions'[s].status # "absent" /\ sessions'[s].user \in Users
        \/ sessions'[s].status = "absent" /\ sessions'[s].user = sessions[s].user
  /\ \A t \in Tokens : tokens[t].status = "absent" =>
        \/ tokens'[t].status # "absent" /\ tokens'[t].user \in Users
        \/ tokens'[t].status = "absent" /\ tokens'[t].user = tokens[t].user

SlotsKept(r) == \A q \in Requests \ {r} : req'[q] = req[q]

LEMMA SaveSessionGrows ==
  ASSUME TypeOK, NEW s \in Sessions, sessions[s].status # "absent",
         NEW status \in {"active", "revoked"}, SaveSession(s, status)
  PROVE  /\ SessionsGrow
         /\ \A x \in Sessions : sessions[x].status = "absent" =>
                                  sessions'[x] = sessions[x]
BY DEF TypeOK, SessionRow, SaveSession, SessionsGrow

LEMMA RevokeAllGrows ==
  ASSUME TypeOK, NEW u, NEW kept, RevokeAll(u, kept)
  PROVE  /\ SessionsGrow
         /\ \A x \in Sessions : sessions[x].status = "absent" =>
                                  sessions'[x] = sessions[x]
BY DEF TypeOK, SessionRow, RevokeAll, SessionsGrow

LEMMA InsertSessionGrows ==
  ASSUME TypeOK, NEW s \in Sessions, NEW u \in Users, InsertSession(s, u)
  PROVE  /\ SessionsGrow
         /\ \A x \in Sessions : x # s => sessions'[x] = sessions[x]
         /\ sessions'[s].user = u /\ sessions'[s].status = "active"
         /\ sessions[s].status = "absent"
BY DEF TypeOK, SessionRow, InsertSession, SessionsGrow

LEMMA InsertTokenGrows ==
  ASSUME TypeOK, NEW t \in Tokens, NEW u \in Users, NEW type \in TokenTypes,
         InsertToken(t, u, type)
  PROVE  /\ TokensGrow
         /\ \A x \in Tokens : x # t => tokens'[x] = tokens[x]
         /\ tokens'[t].user = u /\ tokens'[t].status = "fresh"
BY DEF TypeOK, TokenRow, InsertToken, TokensGrow

LEMMA MarkUsedGrows ==
  ASSUME TypeOK, NEW t \in Tokens, tokens[t].status # "absent", MarkUsed(t)
  PROVE  /\ TokensGrow
         /\ \A x \in Tokens : tokens[x].status = "absent" =>
                                tokens'[x] = tokens[x]
         /\ tokens'[t].status = "used"
BY DEF TypeOK, TokenRow, MarkUsed, TokensGrow

LEMMA FinishMatches ==
  ASSUME TypeOK, NEW r \in Requests, Finish(r)
  PROVE  SlotMatchesTables(r)' /\ SlotsKept(r)
BY DEF TypeOK, Finish, Idle, SlotMatchesTables, SlotsKept

LEMMA HoldSlot ==
  ASSUME TypeOK, NEW r \in Requests, NEW pc, NEW user, NEW session, NEW token,
         NEW row, Hold(r, pc, user, session, token, row)
  PROVE  /\ req'[r].pc = pc /\ req'[r].user = user
         /\ req'[r].session = session /\ req'[r].token = token
         /\ req'[r].row = row
         /\ SlotsKept(r)
BY DEF TypeOK, Hold, SlotsKept

LEMMA GotoSlot ==
  ASSUME TypeOK, NEW r \in Requests, NEW pc, Goto(r, pc)
  PROVE  /\ req'[r].pc = pc /\ req'[r].user = req[r].user
         /\ req'[r].session = req[r].session /\ req'[r].token = req[r].token
         /\ req'[r].row = req[r].row
         /\ SlotsKept(r)
<1>1. req[r] \in Request
  BY DEF TypeOK
<1>2. req'[r] = [req[r] EXCEPT !.pc = pc]
  BY DEF TypeOK, Goto
<1>3. /\ req'[r].pc = pc /\ req'[r].user = req[r].user
      /\ req'[r].session = req[r].session /\ req'[r].token = req[r].token
      /\ req'[r].row = req[r].row
  BY <1>1, <1>2 DEF Request, IdleRequests, Idle
<1>4. QED
  BY <1>3 DEF TypeOK, Goto, SlotsKept

(* The one step that adds to grants: a slot whose token is marked used, and *)
(* is no password reset, opens a session of the token's user.              *)
Exchanges(r, s) ==
  /\ s \in Sessions /\ sessions[s].status = "absent"
  /\ sessions'[s].status = "active" /\ sessions'[s].user = req[r].user
  /\ req[r].pc \in {"twoFactorSession", "magicSession"}
  /\ req[r].token \in Tokens
  /\ grants' = [grants EXCEPT ![req[r].token] = @ \cup {s}]
  /\ req'[r] = Idle

StepEffect(r) ==
  /\ SessionsGrow /\ TokensGrow /\ NewRowsHaveOwners
  /\ SlotsKept(r) /\ SlotMatchesTables(r)'
  /\ grants' = grants \/ \E s \in Sessions : Exchanges(r, s)

LEMMA UnchangedSessionsGrow ==
  ASSUME UNCHANGED sessions
  PROVE  SessionsGrow /\ \A s \in Sessions : sessions'[s] = sessions[s]
BY DEF SessionsGrow

LEMMA UnchangedTokensGrow ==
  ASSUME UNCHANGED tokens
  PROVE  TokensGrow /\ \A t \in Tokens : tokens'[t] = tokens[t]
BY DEF TokensGrow

LEMMA GuardedStepEffect ==
  ASSUME TypeOK, RowsHaveOwners, NEW r \in Requests, SlotMatchesTables(r),
         GuardedStep(r)
  PROVE  StepEffect(r)
<1> USE DEF StepEffect, NewRowsHaveOwners
<1> req[r] \in Request
  BY DEF TypeOK
<1>1. CASE GuardSave(r)
  <2>1. /\ req[r].session \in Sessions /\ req[r].session # Nil
        /\ req[r].token = Nil
    BY <1>1, SlotShape, NilAssumption DEF GuardSave, At, SessionPcs
  <2>2. /\ sessions[req[r].session].status # "absent"
        /\ sessions[req[r].session].user = req[r].user
    BY <2>1 DEF SlotMatchesTables
  <2>3. SessionsGrow /\ TokensGrow /\ NewRowsHaveOwners
    BY <1>1, <2>1, <2>2, SaveSessionGrows, UnchangedTokensGrow DEF GuardSave
  <2>4. SlotMatchesTables(r)' /\ SlotsKept(r)
    BY <1>1, <2>1, <2>2, <2>3, GotoSlot
       DEF GuardSave, SlotMatchesTables, SessionsGrow
  <2>5. QED
    BY <1>1, <2>3, <2>4 DEF GuardSave
<1>2. CASE ReadOnly(r)
  BY <1>2, UnchangedSessionsGrow, UnchangedTokensGrow, FinishMatches
     DEF ReadOnly
<1>3. CASE Logout(r)
  <2>1. req[r].session \in Sessions /\ req[r].session # Nil
    BY <1>3, SlotShape, NilAssumption DEF Logout, Guarded, At, SessionPcs
  <2>2. sessions[req[r].session].status # "absent"
    BY <2>1 DEF SlotMatchesTables
  <2>3. QED
    BY <1>3, <2>1, <2>2, SaveSessionGrows, UnchangedTokensGrow, FinishMatches
       DEF Logout
<1>4. CASE RevokeOthers(r)
  BY <1>4, RevokeAllGrows, UnchangedTokensGrow, FinishMatches DEF RevokeOthers
<1>5. CASE RevokeSave(r)
  <2>1. req[r].session \in Sessions /\ req[r].session # Nil
    BY <1>5, SlotShape, NilAssumption DEF RevokeSave, At, SessionPcs
  <2>2. sessions[req[r].session].status # "absent"
    BY <2>1 DEF SlotMatchesTables
  <2>3. QED
    BY <1>5, <2>1, <2>2, SaveSessionGrows, UnchangedTokensGrow, FinishMatches
       DEF RevokeSave
<1>6. CASE PasswordSave(r)
  BY <1>6, UnchangedSessionsGrow, UnchangedTokensGrow, FinishMatches
     DEF PasswordSave
<1>7. CASE StatusSave(r)
  <2>1. SlotMatchesTables(r)' /\ SlotsKept(r)
    BY <1>7, FinishMatches, HoldSlot DEF StatusSave, SlotMatchesTables
  <2>2. QED
    BY <1>7, <2>1, UnchangedSessionsGrow, UnchangedTokensGrow DEF StatusSave
<1>8. CASE StatusRevoke(r)
  BY <1>8, RevokeAllGrows, UnchangedTokensGrow, FinishMatches DEF StatusRevoke
<1>9. ASSUME NEW s \in Sessions, GuardRead(r, s)
      PROVE  StepEffect(r)
  <2>1. /\ req'[r].session = s /\ req'[r].token = Nil
        /\ req'[r].user = sessions[s].user /\ SlotsKept(r)
    BY <1>9, HoldSlot DEF GuardRead
  <2>2. sessions[s].status # "absent"
    BY <1>9 DEF GuardRead, ActiveSession
  <2>3. SlotMatchesTables(r)'
    BY <1>9, <2>1, <2>2 DEF GuardRead, SlotMatchesTables
  <2>4. QED
    BY <1>9, <2>1, <2>3, UnchangedSessionsGrow, UnchangedTokensGrow
       DEF GuardRead
<1>10. ASSUME NEW s \in Sessions, RevokeRead(r, s)
       PROVE  StepEffect(r)
  <2>1. /\ req'[r].session = s /\ req'[r].token = Nil
        /\ req'[r].user = sessions[s].user /\ SlotsKept(r)
    BY <1>10, HoldSlot DEF RevokeRead
  <2>2. sessions[s].user \in Users
    BY <1>10, CallersAreUsers DEF RevokeRead, Guarded
  <2>3. sessions[s].status # "absent"
    BY <2>2 DEF RowsHaveOwners
  <2>4. SlotMatchesTables(r)'
    BY <1>10, <2>1, <2>3 DEF RevokeRead, SlotMatchesTables
  <2>5. QED
    BY <1>10, <2>1, <2>4, UnchangedSessionsGrow, UnchangedTokensGrow
       DEF RevokeRead
<1>11. ASSUME NEW u \in Users, UpdateUser(r, u)
       PROVE  StepEffect(r)
  BY <1>11, UnchangedSessionsGrow, UnchangedTokensGrow, FinishMatches
     DEF UpdateUser
<1>12. ASSUME NEW u \in Users, NEW flag \in BOOLEAN,
              StatusRead(r, u, flag)
       PROVE  StepEffect(r)
  BY <1>12, HoldSlot, UnchangedSessionsGrow, UnchangedTokensGrow
     DEF StatusRead, SlotMatchesTables
<1>13. ASSUME NEW u \in Users, NEW new \in Passwords,
              AdminPasswordRead(r, u, new)
       PROVE  StepEffect(r)
  BY <1>13, HoldSlot, UnchangedSessionsGrow, UnchangedTokensGrow
     DEF AdminPasswordRead, SlotMatchesTables
<1>14. ASSUME NEW u \in Users, NEW current \in Passwords, NEW new \in Passwords,
              ChangePasswordRead(r, u, current, new)
       PROVE  StepEffect(r)
  BY <1>14, HoldSlot, UnchangedSessionsGrow, UnchangedTokensGrow
     DEF ChangePasswordRead, SlotMatchesTables
<1>15. ASSUME NEW s \in Sessions, GuardPass(r, s)
       PROVE  StepEffect(r)
  <2>1. /\ req'[r].session = s /\ req'[r].token = Nil
        /\ req'[r].user = sessions[s].user /\ SlotsKept(r)
    BY <1>15, HoldSlot DEF GuardPass
  <2>2. SlotMatchesTables(r)'
    BY <1>15, <2>1 DEF GuardPass, SlotMatchesTables
  <2>3. QED
    BY <1>15, <2>1, <2>2, UnchangedSessionsGrow, UnchangedTokensGrow
       DEF GuardPass
<1>16. QED
  BY <1>1, <1>2, <1>3, <1>4, <1>5, <1>6, <1>7, <1>8, <1>9, <1>10, <1>11,
     <1>12, <1>13, <1>14, <1>15 DEF GuardedStep

LEMMA PublicStepEffect ==
  ASSUME TypeOK, RowsHaveOwners, NEW r \in Requests, SlotMatchesTables(r),
         PublicStep(r)
  PROVE  StepEffect(r)
<1> USE DEF StepEffect, NewRowsHaveOwners
<1> req[r] \in Request
  BY DEF TypeOK
<1>1. CASE TwoFactorReject(r)
  BY <1>1, UnchangedSessionsGrow, UnchangedTokensGrow, FinishMatches
     DEF TwoFactorReject
<1>2. CASE TwoFactorMark(r)
  <2>1. /\ req[r].token \in Tokens /\ req[r].token # Nil
        /\ req[r].session = Nil
    BY <1>2, SlotShape, NilAssumption DEF TwoFactorMark, At, TokenPcs
  <2>2. /\ tokens[req[r].token].status # "absent"
        /\ tokens[req[r].token].user = req[r].user
        /\ req[r].pc \in TokenAt[tokens[req[r].token].type]
        /\ tokens[req[r].token].type \in TokenTypes
    BY <2>1 DEF SlotMatchesTables, TypeOK, TokenRow
  <2>3. tokens[req[r].token].type = "two_factor_pending"
    BY <1>2, <2>2 DEF TwoFactorMark, At, TokenAt, TokenTypes
  <2>4. TokensGrow /\ tokens'[req[r].token].status = "used"
    BY <1>2, <2>1, <2>2, MarkUsedGrows DEF TwoFactorMark
  <2>5. SlotMatchesTables(r)' /\ SlotsKept(r)
    BY <1>2, <2>1, <2>2, <2>3, <2>4, GotoSlot, FinishMatches
       DEF TwoFactorMark, SlotMatchesTables, TokensGrow, TokenAt
  <2>6. QED
    BY <1>2, <2>1, <2>2, <2>4, <2>5, MarkUsedGrows, UnchangedSessionsGrow
       DEF TwoFactorMark
<1>3. CASE MagicMark(r)
  <2>1. /\ req[r].token \in Tokens /\ req[r].token # Nil
        /\ req[r].session = Nil
    BY <1>3, SlotShape, NilAssumption DEF MagicMark, At, TokenRowPcs
  <2>2. /\ tokens[req[r].token].status # "absent"
        /\ tokens[req[r].token].user = req[r].user
        /\ req[r].pc \in TokenAt[tokens[req[r].token].type]
        /\ tokens[req[r].token].type \in TokenTypes
    BY <2>1 DEF SlotMatchesTables, TypeOK, TokenRow
  <2>3. tokens[req[r].token].type = "magic_link"
    BY <1>3, <2>2 DEF MagicMark, At, TokenAt, TokenTypes
  <2>4. TokensGrow /\ tokens'[req[r].token].status = "used"
    BY <1>3, <2>1, <2>2, MarkUsedGrows DEF MagicMark
  <2>5. SlotMatchesTables(r)' /\ SlotsKept(r)
    BY <1>3, <2>1, <2>2, <2>3, <2>4, GotoSlot, FinishMatches
       DEF MagicMark, SlotMatchesTables, TokensGrow, TokenAt
  <2>6. QED
    BY <1>3, <2>1, <2>2, <2>4, <2>5, MarkUsedGrows, UnchangedSessionsGrow
       DEF MagicMark
<1>4. CASE MagicUser(r)
  <2>1. /\ req[r].token \in Tokens /\ req[r].token # Nil
        /\ req'[r].token = req[r].token /\ req'[r].user = req[r].user
        /\ req'[r].session = Nil /\ req'[r].pc = "magicSession"
        /\ SlotsKept(r)
    BY <1>4, SlotShape, NilAssumption, HoldSlot DEF MagicUser, At, TokenRowPcs
  <2>2. /\ req[r].pc \in TokenAt[tokens[req[r].token].type]
        /\ tokens[req[r].token].type \in TokenTypes
    BY <2>1 DEF SlotMatchesTables, TypeOK, TokenRow
  <2>3. tokens[req[r].token].type = "magic_link"
    BY <1>4, <2>2 DEF MagicUser, At, TokenAt, TokenTypes
  <2>4. SlotMatchesTables(r)'
    BY <1>4, <2>1, <2>3 DEF MagicUser, At, SlotMatchesTables, TokenAt, MarkedPcs
  <2>5. QED
    BY <1>4, <2>1, <2>4, UnchangedSessionsGrow, UnchangedTokensGrow
       DEF MagicUser
<1>5. CASE ResetMark(r)
  <2>1. /\ req[r].token \in Tokens /\ req[r].token # Nil
        /\ req[r].session = Nil
    BY <1>5, SlotShape, NilAssumption DEF ResetMark, At, TokenRowPcs
  <2>2. /\ tokens[req[r].token].status # "absent"
        /\ tokens[req[r].token].user = req[r].user
        /\ req[r].pc \in TokenAt[tokens[req[r].token].type]
        /\ tokens[req[r].token].type \in TokenTypes
    BY <2>1 DEF SlotMatchesTables, TypeOK, TokenRow
  <2>3. tokens[req[r].token].type = "password_reset"
    BY <1>5, <2>2 DEF ResetMark, At, TokenAt, TokenTypes
  <2>4. TokensGrow /\ tokens'[req[r].token].status = "used"
    BY <1>5, <2>1, <2>2, MarkUsedGrows DEF ResetMark
  <2>5. SlotMatchesTables(r)' /\ SlotsKept(r)
    BY <1>5, <2>1, <2>2, <2>3, <2>4, GotoSlot, FinishMatches
       DEF ResetMark, SlotMatchesTables, TokensGrow, TokenAt
  <2>6. QED
    BY <1>5, <2>1, <2>2, <2>4, <2>5, MarkUsedGrows, UnchangedSessionsGrow
       DEF ResetMark
<1>6. CASE ResetRevoke(r)
  BY <1>6, RevokeAllGrows, UnchangedTokensGrow, FinishMatches DEF ResetRevoke
<1>7. CASE RefreshUser(r)
  <2>1. req[r].token = Nil
    BY <1>7, SlotShape DEF RefreshUser, At, SessionPcs
  <2>2. SlotMatchesTables(r)' /\ SlotsKept(r)
    BY <1>7, <2>1, GotoSlot, FinishMatches DEF RefreshUser, SlotMatchesTables
  <2>3. QED
    BY <1>7, <2>2, UnchangedSessionsGrow, UnchangedTokensGrow DEF RefreshUser
<1>8. CASE RefreshSave(r)
  <2>1. req[r].session \in Sessions /\ req[r].session # Nil
    BY <1>8, SlotShape, NilAssumption DEF RefreshSave, At, SessionPcs
  <2>2. sessions[req[r].session].status # "absent"
    BY <2>1 DEF SlotMatchesTables
  <2>3. QED
    BY <1>8, <2>1, <2>2, SaveSessionGrows, UnchangedTokensGrow, FinishMatches
       DEF RefreshSave
<1>9. ASSUME NEW u \in Users, MagicSendRead(r, u)
      PROVE  StepEffect(r)
  BY <1>9, HoldSlot, UnchangedSessionsGrow, UnchangedTokensGrow
     DEF MagicSendRead, SlotMatchesTables
<1>10. ASSUME NEW u \in Users, ForgotRead(r, u)
       PROVE  StepEffect(r)
  BY <1>10, HoldSlot, UnchangedSessionsGrow, UnchangedTokensGrow
     DEF ForgotRead, SlotMatchesTables
<1>11. ASSUME NEW u \in Users, NEW attempt \in Passwords,
              LoginRead(r, u, attempt)
       PROVE  StepEffect(r)
  BY <1>11, HoldSlot, UnchangedSessionsGrow, UnchangedTokensGrow
     DEF LoginRead, SlotMatchesTables
<1>12. ASSUME NEW new \in Passwords, ResetSave(r, new)
       PROVE  StepEffect(r)
  BY <1>12, HoldSlot, UnchangedSessionsGrow, UnchangedTokensGrow
     DEF ResetSave, SlotMatchesTables
<1>13. ASSUME NEW s \in Sessions, LoginSession(r, s)
       PROVE  StepEffect(r)
  <2>1. req[r].user \in Users
    BY <1>13, SlotShape DEF LoginSession, At, UserPcs
  <2>2. QED
    BY <1>13, <2>1, InsertSessionGrows, UnchangedTokensGrow, FinishMatches
       DEF LoginSession
<1>14. ASSUME NEW s \in Sessions, TwoFactorSession(r, s) \/ MagicSession(r, s)
       PROVE  StepEffect(r)
  <2>1. req[r].user \in Users /\ req[r].token \in Tokens
    BY <1>14, SlotShape DEF TwoFactorSession, MagicSession, At, TokenPcs
  <2>2. /\ InsertSession(s, req[r].user) /\ Finish(r) /\ UNCHANGED tokens
        /\ grants' = [grants EXCEPT ![req[r].token] = @ \cup {s}]
    BY <1>14 DEF TwoFactorSession, MagicSession, ExchangeToken
  <2>3. Exchanges(r, s)
    <3>1. req'[r] = Idle
      BY <2>2 DEF TypeOK, Finish
    <3>2. QED
      BY <1>14, <2>1, <2>2, <3>1, InsertSessionGrows
         DEF TwoFactorSession, MagicSession, At, Exchanges
  <2>4. QED
    BY <2>1, <2>2, <2>3, InsertSessionGrows, UnchangedTokensGrow, FinishMatches
<1>15. ASSUME NEW s \in Sessions, RefreshRead(r, s)
       PROVE  StepEffect(r)
  <2>1. /\ req'[r].session = s /\ req'[r].token = Nil
        /\ req'[r].user = sessions[s].user /\ SlotsKept(r)
    BY <1>15, HoldSlot DEF RefreshRead
  <2>2. SlotMatchesTables(r)'
    BY <1>15, <2>1 DEF RefreshRead, ActiveSession, SlotMatchesTables
  <2>3. QED
    BY <1>15, <2>1, <2>2, UnchangedSessionsGrow, UnchangedTokensGrow
       DEF RefreshRead
<1>16. ASSUME NEW t \in Tokens,
              LoginPending(r, t) \/ MagicSendInsert(r, t) \/ ForgotInsert(r, t)
       PROVE  StepEffect(r)
  <2>1. req[r].user \in Users
    BY <1>16, SlotShape
       DEF LoginPending, MagicSendInsert, ForgotInsert, At, UserPcs
  <2>2. PICK type \in TokenTypes : InsertToken(t, req[r].user, type)
    BY <1>16 DEF LoginPending, MagicSendInsert, ForgotInsert, TokenTypes
  <2>3. TokensGrow /\ NewRowsHaveOwners /\ SessionsGrow
    BY <1>16, <2>1, <2>2, InsertTokenGrows, UnchangedSessionsGrow
       DEF LoginPending, MagicSendInsert, ForgotInsert
  <2>4. QED
    BY <1>16, <2>3, FinishMatches DEF LoginPending, MagicSendInsert, ForgotInsert
<1>17. ASSUME NEW t \in Tokens,
              TwoFactorRead(r, t) \/ MagicRead(r, t) \/ ResetRead(r, t)
       PROVE  StepEffect(r)
  <2>1. /\ req'[r].token = t /\ req'[r].user = tokens[t].user
        /\ req'[r].session = Nil /\ SlotsKept(r)
        /\ req'[r].pc \in TokenAt[tokens[t].type] \ MarkedPcs
        /\ tokens[t].status # "absent"
    BY <1>17, HoldSlot
       DEF TwoFactorRead, MagicRead, ResetRead, FreshToken, TokenAt, MarkedPcs
  <2>2. UNCHANGED <<users, sessions, tokens, grants>>
    BY <1>17 DEF TwoFactorRead, MagicRead, ResetRead
  <2>3. SlotMatchesTables(r)'
    BY <2>1, <2>2 DEF SlotMatchesTables
  <2>4. QED
    BY <2>1, <2>2, <2>3, UnchangedSessionsGrow, UnchangedTokensGrow
<1>18. QED
  BY <1>1, <1>2, <1>3, <1>4, <1>5, <1>6, <1>7, <1>8, <1>9, <1>10, <1>11,
     <1>12, <1>13, <1>14, <1>15, <1>16, <1>17 DEF PublicStep

-----------------------------------------------------------------------------
(* The inductive invariant.                                                *)

LEMMA InitInvariant == Init => IInv
<1> SUFFICES ASSUME Init
             PROVE  IInv
  OBVIOUS
<1>1. TypeOK
  <2>1. users \in [Users -> UserRow]
    <3> DEFINE Fresh == {[isActive |-> TRUE, password |-> Hashed(pw)] :
                           pw \in Passwords}
    <3>1. Fresh \subseteq UserRow
      <4>1. ASSUME NEW pw \in Passwords
            PROVE  [isActive |-> TRUE, password |-> Hashed(pw)] \in UserRow
        <5>1. Hashed(pw) \in Hash
          BY HashedType
        <5>2. QED
          BY <5>1 DEF UserRow
      <4>2. QED
        BY <4>1
    <3>2. users \in [Users -> Fresh]
      BY DEF Init
    <3> HIDE DEF Fresh
    <3>3. QED
      BY <3>1, <3>2
  <2>2. sessions \in [Sessions -> SessionRow] /\ tokens \in [Tokens -> TokenRow]
    BY DEF Init, SessionRow, TokenRow, TokenTypes
  <2>3. req \in [Requests -> Request] /\ grants \in [Tokens -> SUBSET Sessions]
    BY DEF Init, Request, IdleRequests
  <2>4. QED
    BY <2>1, <2>2, <2>3 DEF TypeOK
<1>2. RowsHaveOwners
  BY NilAssumption DEF Init, RowsHaveOwners
<1>3. SlotsMatchTables
  BY DEF Init, SlotsMatchTables, SlotMatchesTables, Idle
<1>4. GrantedSessionsExist /\ SessionsComeFromUsedTokens
  BY DEF Init, GrantedSessionsExist, SessionsComeFromUsedTokens
<1>5. QED
  BY <1>1, <1>2, <1>3, <1>4 DEF IInv

(* The rest of the invariant follows from what a step does to the tables.  *)
LEMMA EffectKeepsInvariant ==
  ASSUME IInv, TypeOK', NEW r \in Requests, StepEffect(r)
  PROVE  IInv'
<1> USE DEF IInv, StepEffect
<1>1. RowsHaveOwners'
  BY DEF RowsHaveOwners, NewRowsHaveOwners, SessionsGrow, TokensGrow
<1>2. SlotsMatchTables'
  <2> SUFFICES ASSUME NEW q \in Requests, q # r
               PROVE  SlotMatchesTables(q)'
    BY DEF SlotsMatchTables
  <2>1. req'[q] = req[q] /\ SlotMatchesTables(q) /\ req[q] \in Request
    BY DEF SlotsKept, SlotsMatchTables, TypeOK
  <2>2. /\ req[q].session # Nil => req[q].session \in Sessions
        /\ req[q].token # Nil => req[q].token \in Tokens
    BY <2>1 DEF Request, IdleRequests, Idle
  <2>3. QED
    BY <2>1, <2>2 DEF SlotMatchesTables, SessionsGrow, TokensGrow
<1>3. GrantedSessionsExist' /\ SessionsComeFromUsedTokens'
  <2>1. CASE grants' = grants
    BY <2>1 DEF TypeOK, GrantedSessionsExist, SessionsComeFromUsedTokens,
                SessionsGrow, TokensGrow
  <2>2. CASE \E s \in Sessions : Exchanges(r, s)
    <3>1. PICK s \in Sessions : Exchanges(r, s)
      BY <2>2
    <3> DEFINE t == req[r].token
    <3>2. /\ t \in Tokens /\ t # Nil /\ req[r].pc \in MarkedPcs
          /\ tokens[t].type \in TokenTypes /\ tokens[t].status # "absent"
      BY <3>1, NilAssumption
         DEF Exchanges, MarkedPcs, TypeOK, TokenRow, SlotsMatchTables,
             SlotMatchesTables
    <3>3. /\ tokens[t].status = "used" /\ tokens[t].user = req[r].user
          /\ req[r].pc \in TokenAt[tokens[t].type]
      BY <3>2 DEF SlotsMatchTables, SlotMatchesTables
    <3>4. tokens[t].type # "password_reset"
      BY <3>1, <3>3 DEF Exchanges, TokenAt
    <3>5. /\ tokens'[t].status = "used" /\ tokens'[t].user = req[r].user
          /\ tokens'[t].type # "password_reset"
      BY <3>2, <3>3, <3>4 DEF TokensGrow
    <3>6. /\ sessions'[s].status # "absent"
          /\ sessions'[s].user = req[r].user
          /\ \A x \in Tokens : grants'[x] =
                IF x = t THEN grants[x] \cup {s} ELSE grants[x]
      BY <3>1 DEF Exchanges, TypeOK
    <3>7. \A x \in Tokens : \A y \in grants[x] :
            /\ y \in Sessions
            /\ sessions'[y].status # "absent"
            /\ sessions'[y].user = sessions[y].user
            /\ tokens'[x].status = "used" /\ tokens'[x].user = tokens[x].user
            /\ tokens'[x].type = tokens[x].type
      BY DEF TypeOK, GrantedSessionsExist, SessionsComeFromUsedTokens,
             SessionsGrow, TokensGrow
    <3>8. \A x \in Tokens : \A y \in grants[x] :
            /\ tokens[x].type # "password_reset"
            /\ sessions[y].user = tokens[x].user
      BY DEF SessionsComeFromUsedTokens
    <3>9. \A x \in Tokens : \A y \in grants'[x] :
            /\ sessions'[y].status # "absent"
            /\ tokens'[x].status = "used"
            /\ tokens'[x].type # "password_reset"
            /\ sessions'[y].user = tokens'[x].user
      <4> SUFFICES ASSUME NEW x \in Tokens, NEW y \in grants'[x]
                   PROVE  /\ sessions'[y].status # "absent"
                          /\ tokens'[x].status = "used"
                          /\ tokens'[x].type # "password_reset"
                          /\ sessions'[y].user = tokens'[x].user
        OBVIOUS
      <4>1. CASE y \in grants[x]
        BY <4>1, <3>7, <3>8
      <4>2. CASE x = t /\ y = s
        BY <4>2, <3>5, <3>6
      <4>3. QED
        BY <4>1, <4>2, <3>6
    <3>10. QED
      BY <3>9 DEF GrantedSessionsExist, SessionsComeFromUsedTokens
  <2>3. QED
    BY <2>1, <2>2
<1>4. QED
  BY <1>1, <1>2, <1>3

LEMMA StepInvariant == IInv /\ [Next]_vars => IInv'
<1> SUFFICES ASSUME IInv, [Next]_vars
             PROVE  IInv'
  OBVIOUS
<1>1. TypeOK'
  BY StepType DEF IInv
<1>2. ASSUME NEW r \in Requests, GuardedStep(r) \/ PublicStep(r)
      PROVE  IInv'
  BY <1>1, <1>2, GuardedStepEffect, PublicStepEffect, EffectKeepsInvariant
     DEF IInv, SlotsMatchTables
<1>3. ASSUME NEW r \in Requests, Fail(r)
      PROVE  IInv'
  <2>1. StepEffect(r)
    BY <1>3, FinishMatches, UnchangedSessionsGrow, UnchangedTokensGrow
       DEF Fail, IInv, StepEffect, NewRowsHaveOwners
  <2>2. QED
    BY <1>1, <2>1, EffectKeepsInvariant
<1>4. ASSUME NEW t \in Tokens, ExpireToken(t)
      PROVE  IInv'
  BY <1>1, <1>4
     DEF ExpireToken, IInv, TypeOK, TokenRow, RowsHaveOwners, SlotsMatchTables,
         SlotMatchesTables, GrantedSessionsExist, SessionsComeFromUsedTokens
<1>5. ASSUME NEW s \in Sessions, ExpireSession(s)
      PROVE  IInv'
  BY <1>1, <1>5
     DEF ExpireSession, IInv, TypeOK, SessionRow, RowsHaveOwners,
         SlotsMatchTables, SlotMatchesTables, GrantedSessionsExist,
         SessionsComeFromUsedTokens
<1>6. CASE UNCHANGED vars
  BY <1>1, <1>6
     DEF vars, IInv, RowsHaveOwners, SlotsMatchTables, SlotMatchesTables,
         GrantedSessionsExist, SessionsComeFromUsedTokens
<1>7. QED
  BY <1>2, <1>3, <1>4, <1>5, <1>6 DEF Next

LEMMA Invariance == Spec => []IInv
<1>1. Init => IInv
  BY InitInvariant
<1>2. IInv /\ [Next]_vars => IInv'
  BY StepInvariant
<1>3. QED
  BY <1>1, <1>2, PTL DEF Spec

(* Every table and every request slot keeps its type, whatever the routes,  *)
(* the number of requests in flight and the accounts (auth.service.ts,      *)
(* magic-link.service.ts, jwt-auth.guard.ts, user.service.ts).              *)
THEOREM TypeCorrectness == Spec => []TypeOK
<1>1. IInv => TypeOK
  BY DEF IInv
<1>2. QED
  BY <1>1, Invariance, PTL

(* A magic link or a pending two-factor login is marked used before the     *)
(* session it pays for exists, and that session belongs to its user.        *)
THEOREM UsedBeforeSession == Spec => []SessionsComeFromUsedTokens
<1>1. IInv => SessionsComeFromUsedTokens
  BY DEF IInv
<1>2. QED
  BY <1>1, Invariance, PTL

-----------------------------------------------------------------------------
(* What is over stays over: revoked sessions, used tokens, locked accounts. *)
(* The proofs follow one step of a request and ask what it can bring back.  *)

(* A session becomes active only from a copy that was, or by a login.       *)
SessionsReopen(r) ==
  \A s \in Sessions :
    sessions'[s].status = "active" =>
      \/ sessions[s].status = "active"
      \/ /\ req[r].session = s
         /\ req[r].pc \in {"guardSave", "refreshSave"}
      \/ /\ sessions[s].status = "absent"
         /\ sessions'[s].user = req[r].user
         /\ req[r].pc \in {"loginIssue", "magicSession", "twoFactorSession"}

(* An unused token of a type that opens sessions comes from a request.      *)
TokensReopen(r) ==
  \A t \in Tokens :
    tokens'[t].status = "fresh" =>
      \/ tokens'[t] = tokens[t]
      \/ tokens'[t].type = "password_reset"
      \/ /\ tokens'[t].user = req[r].user
         /\ req[r].pc \in {"loginIssue", "magicInsert"}

(* An account is unlocked by UsersService.update or by a copy that says so. *)
UsersReopen(r) ==
  \A u \in Users :
    users'[u].isActive =>
      \/ users[u].isActive
      \/ MayReopen(r, u)
      \/ UpdateUser(r, u)

(* A request comes to hold a token or a session only if it found it usable, *)
(* and can bring an account back only if the account was not sealed.        *)
SlotReopens(r) ==
  /\ \A t \in Tokens : req'[r].token = t =>
        req[r].token = t \/ tokens[t].status = "fresh"
  /\ \A s \in Sessions : HoldsActiveCopy(r, s)' =>
        HoldsActiveCopy(r, s) \/ ActiveSession(s)
  /\ \A u \in Users : MayReopen(r, u)' =>
        \/ ~Sealed(u)
        \/ StatusRead(r, u, TRUE)

Reopens(r) == SessionsReopen(r) /\ TokensReopen(r) /\ UsersReopen(r) /\ SlotReopens(r)

LEMMA FinishReopens ==
  ASSUME TypeOK, NEW r \in Requests, Finish(r)
  PROVE  SlotReopens(r)
<1>1. req'[r] = Idle
  BY DEF TypeOK, Finish
<1>2. QED
  BY <1>1, NilAssumption DEF Idle, SlotReopens, HoldsActiveCopy, MayReopen

(* A request that goes on without a session, a token or a copy of the row.  *)
LEMMA HoldUserReopens ==
  ASSUME TypeOK, NEW r \in Requests, NEW pc \in UserPcs, NEW user,
         Hold(r, pc, user, Nil, Nil, Nil),
         pc \in {"loginIssue", "magicInsert"} => ~Sealed(user)
  PROVE  SlotReopens(r)
<1>1. /\ req'[r].pc = pc /\ req'[r].user = user /\ req'[r].session = Nil
      /\ req'[r].token = Nil
  BY HoldSlot
<1>2. QED
  BY <1>1, NilAssumption
     DEF SlotReopens, HoldsActiveCopy, MayReopen, UserPcs

(* A copy of the row of a user, to be saved: it brings the account back only *)
(* if its isActive says so.                                                 *)
LEMMA HoldRowReopens ==
  ASSUME TypeOK, NEW r \in Requests, NEW pc \in RowPcs, NEW u \in Users,
         NEW row \in UserRow, Hold(r, pc, u, Nil, Nil, row),
         row.isActive = TRUE => ~Sealed(u) \/ StatusRead(r, u, TRUE)
  PROVE  SlotReopens(r)
<1>1. /\ req'[r].pc = pc /\ req'[r].user = u /\ req'[r].session = Nil
      /\ req'[r].token = Nil /\ req'[r].row = row
  BY HoldSlot
<1>2. row.isActive \in BOOLEAN
  BY DEF UserRow
<1>3. \A x \in Users : MayReopen(r, x)' => x = u /\ row.isActive = TRUE
  BY <1>1, <1>2 DEF MayReopen, RowPcs
<1>4. \A s \in Sessions : ~HoldsActiveCopy(r, s)'
  BY <1>1, NilAssumption DEF HoldsActiveCopy
<1>5. QED
  BY <1>1, <1>3, <1>4, NilAssumption DEF SlotReopens

LEMMA KeepReopens ==
  ASSUME NEW r \in Requests
  PROVE  /\ UNCHANGED sessions => SessionsReopen(r)
         /\ UNCHANGED tokens => TokensReopen(r)
         /\ UNCHANGED users => UsersReopen(r)
BY DEF SessionsReopen, TokensReopen, UsersReopen

LEMMA SaveSessionReopens ==
  ASSUME TypeOK, NEW r \in Requests, NEW status, SaveSession(req[r].session, status),
         status = "revoked" \/ req[r].pc \in {"guardSave", "refreshSave"}
  PROVE  SessionsReopen(r)
BY DEF TypeOK, SessionRow, SaveSession, SessionsReopen

LEMMA RevokeAllReopens ==
  ASSUME TypeOK, NEW r \in Requests, NEW u, NEW kept, RevokeAll(u, kept)
  PROVE  SessionsReopen(r)
BY DEF TypeOK, SessionRow, RevokeAll, SessionsReopen

LEMMA InsertSessionReopens ==
  ASSUME TypeOK, NEW r \in Requests, NEW s \in Sessions,
         InsertSession(s, req[r].user),
         req[r].pc \in {"loginIssue", "magicSession", "twoFactorSession"}
  PROVE  SessionsReopen(r)
BY DEF TypeOK, SessionRow, InsertSession, SessionsReopen

LEMMA InsertTokenReopens ==
  ASSUME TypeOK, NEW r \in Requests, NEW t \in Tokens, NEW type,
         InsertToken(t, req[r].user, type),
         type = "password_reset" \/ req[r].pc \in {"loginIssue", "magicInsert"}
  PROVE  TokensReopen(r)
BY DEF TypeOK, TokenRow, InsertToken, TokensReopen

LEMMA MarkUsedReopens ==
  ASSUME TypeOK, NEW r \in Requests, NEW t \in Tokens, MarkUsed(t)
  PROVE  TokensReopen(r)
BY DEF TypeOK, TokenRow, MarkUsed, TokensReopen

LEMMA SaveUserReopens ==
  ASSUME TypeOK, NEW r \in Requests, NEW u \in Users, NEW row \in UserRow,
         SaveUser(u, row), row.isActive => MayReopen(r, u)
  PROVE  UsersReopen(r)
BY DEF TypeOK, UserRow, SaveUser, UsersReopen

LEMMA GuardedStepReopens ==
  ASSUME IInv, NEW r \in Requests, GuardedStep(r)
  PROVE  Reopens(r)
<1> USE DEF Reopens
<1> TypeOK /\ RowsHaveOwners /\ req[r] \in Request
  BY DEF IInv, TypeOK
<1>1. CASE GuardSave(r)
  <2>1. req'[r].pc = "guarded" /\ req'[r].token = req[r].token
    BY <1>1, GotoSlot DEF GuardSave
  <2>2. SlotReopens(r)
    BY <2>1 DEF SlotReopens, HoldsActiveCopy, MayReopen
  <2>3. QED
    BY <1>1, <2>2, KeepReopens, SaveSessionReopens DEF GuardSave, At
<1>2. CASE ReadOnly(r)
  BY <1>2, KeepReopens, FinishReopens DEF ReadOnly
<1>3. CASE Logout(r)
  BY <1>3, KeepReopens, FinishReopens, SaveSessionReopens DEF Logout
<1>4. CASE RevokeOthers(r)
  BY <1>4, KeepReopens, FinishReopens, RevokeAllReopens DEF RevokeOthers
<1>5. CASE RevokeSave(r)
  BY <1>5, KeepReopens, FinishReopens, SaveSessionReopens DEF RevokeSave
<1>6. CASE PasswordSave(r)
  <2>1. req[r].user \in Users /\ req[r].row \in UserRow
    BY <1>6, SlotShape DEF PasswordSave, At, RowPcs
  <2>2. UsersReopen(r)
    BY <1>6, <2>1, SaveUserReopens DEF PasswordSave, At, MayReopen
  <2>3. QED
    BY <1>6, <2>2, KeepReopens, FinishReopens DEF PasswordSave
<1>7. CASE StatusSave(r)
  <2>1. req[r].user \in Users /\ req[r].row \in UserRow
    BY <1>7, SlotShape DEF StatusSave, At, RowPcs
  <2>2. UsersReopen(r)
    BY <1>7, <2>1, SaveUserReopens, KeepReopens DEF StatusSave, At, MayReopen
  <2>3. SlotReopens(r)
    BY <1>7, FinishReopens, HoldUserReopens DEF StatusSave, UserPcs
  <2>4. QED
    BY <1>7, <2>2, <2>3, KeepReopens DEF StatusSave
<1>8. CASE StatusRevoke(r)
  BY <1>8, KeepReopens, FinishReopens, RevokeAllReopens DEF StatusRevoke
<1>9. ASSUME NEW s \in Sessions, GuardRead(r, s)
      PROVE  Reopens(r)
  <2>1. /\ req'[r].session = s /\ req'[r].token = Nil
        /\ req'[r].user = sessions[s].user
    BY <1>9, HoldSlot DEF GuardRead
  <2>2. /\ \A u \in Users : MayReopen(r, u)' => ~Sealed(u)
        /\ \A x \in Sessions : HoldsActiveCopy(r, x)' => ActiveSession(x)
    BY <1>9, <2>1 DEF GuardRead, MayReopen, HoldsActiveCopy, Sealed
  <2>3. SlotReopens(r)
    BY <2>1, <2>2, NilAssumption DEF SlotReopens
  <2>4. QED
    BY <1>9, <2>3, KeepReopens DEF GuardRead
<1>10. ASSUME NEW s \in Sessions, RevokeRead(r, s)
       PROVE  Reopens(r)
  <2>1. req'[r].pc = "revokeSave" /\ req'[r].token = Nil
    BY <1>10, HoldSlot DEF RevokeRead
  <2>2. SlotReopens(r)
    BY <2>1, NilAssumption DEF SlotReopens, HoldsActiveCopy, MayReopen
  <2>3. QED
    BY <1>10, <2>2, KeepReopens DEF RevokeRead
<1>11. ASSUME NEW u \in Users, UpdateUser(r, u)
       PROVE  Reopens(r)
  <2>1. \A x \in Users : x # u => users'[x] = users[x]
    BY <1>11 DEF UpdateUser, TypeOK
  <2>2. UsersReopen(r)
    BY <1>11, <2>1 DEF UsersReopen
  <2>3. QED
    BY <1>11, <2>2, KeepReopens, FinishReopens DEF UpdateUser
<1>12. ASSUME NEW u \in Users, NEW flag \in BOOLEAN, StatusRead(r, u, flag)
       PROVE  Reopens(r)
  <2> DEFINE row == [users[u] EXCEPT !.isActive = flag]
  <2>1. row \in UserRow /\ row.isActive = flag
    BY DEF TypeOK, UserRow
  <2>2. SlotReopens(r)
    BY <1>12, <2>1, HoldRowReopens DEF StatusRead, RowPcs
  <2>3. QED
    BY <1>12, <2>2, KeepReopens DEF StatusRead
<1>13. ASSUME NEW u \in Users, NEW new \in Passwords,
              AdminPasswordRead(r, u, new)
       PROVE  Reopens(r)
  <2> DEFINE row == [users[u] EXCEPT !.password = [of |-> new, times |-> 0]]
  <2>1. row \in UserRow /\ row.isActive = users[u].isActive
    BY DEF TypeOK, UserRow, Hash
  <2>2. Hold(r, "passwordSave", u, Nil, Nil, row)
    BY <1>13 DEF AdminPasswordRead
  <2>3. row.isActive = TRUE => ~Sealed(u)
    BY <2>1 DEF Sealed
  <2> HIDE DEF row
  <2>4. SlotReopens(r)
    BY <2>1, <2>2, <2>3, HoldRowReopens DEF RowPcs
  <2>5. QED
    BY <1>13, <2>4, KeepReopens DEF AdminPasswordRead
<1>14. ASSUME NEW u \in Users, NEW current \in Passwords, NEW new \in Passwords,
              ChangePasswordRead(r, u, current, new)
       PROVE  Reopens(r)
  <2> DEFINE row == [users[u] EXCEPT !.password = [of |-> new, times |-> 0]]
  <2>1. row \in UserRow /\ row.isActive = users[u].isActive
    BY DEF TypeOK, UserRow, Hash
  <2>2. Hold(r, "passwordSave", u, Nil, Nil, row)
    BY <1>14 DEF ChangePasswordRead
  <2>3. row.isActive = TRUE => ~Sealed(u)
    BY <2>1 DEF Sealed
  <2> HIDE DEF row
  <2>4. SlotReopens(r)
    BY <2>1, <2>2, <2>3, HoldRowReopens DEF RowPcs
  <2>5. QED
    BY <1>14, <2>4, KeepReopens DEF ChangePasswordRead
<1>15. ASSUME NEW s \in Sessions, GuardPass(r, s)
       PROVE  Reopens(r)
  <2>1. req'[r].pc = "passed" /\ req'[r].token = Nil
    BY <1>15, HoldSlot DEF GuardPass
  <2>2. SlotReopens(r)
    BY <2>1, NilAssumption DEF SlotReopens, HoldsActiveCopy, MayReopen
  <2>3. QED
    BY <1>15, <2>2, KeepReopens DEF GuardPass
<1>16. QED
  BY <1>1, <1>2, <1>3, <1>4, <1>5, <1>6, <1>7, <1>8, <1>9, <1>10, <1>11,
     <1>12, <1>13, <1>14, <1>15 DEF GuardedStep

LEMMA PublicStepReopens ==
  ASSUME IInv, NEW r \in Requests, PublicStep(r)
  PROVE  Reopens(r)
<1> USE DEF Reopens
<1> TypeOK /\ RowsHaveOwners /\ req[r] \in Request
  BY DEF IInv, TypeOK
<1>1. CASE TwoFactorReject(r)
  BY <1>1, KeepReopens, FinishReopens DEF TwoFactorReject
<1>2. CASE TwoFactorMark(r)
  <2>1. req[r].token \in Tokens
    BY <1>2, SlotShape DEF TwoFactorMark, At, TokenPcs
  <2>2. /\ req'[r].pc = "twoFactorSession" /\ req'[r].token = req[r].token
        /\ req'[r].user = req[r].user
    BY <1>2, GotoSlot DEF TwoFactorMark
  <2>3. \A u \in Users : MayReopen(r, u)' => ~Sealed(u)
    BY <1>2, <2>2 DEF TwoFactorMark, At, MayReopen, Sealed
  <2>4. SlotReopens(r)
    BY <2>2, <2>3 DEF SlotReopens, HoldsActiveCopy
  <2>5. QED
    BY <1>2, <2>1, <2>4, KeepReopens, MarkUsedReopens DEF TwoFactorMark
<1>3. CASE MagicMark(r)
  <2>1. req[r].token \in Tokens
    BY <1>3, SlotShape DEF MagicMark, At, TokenRowPcs
  <2>2. /\ req'[r].pc = "magicUser" /\ req'[r].token = req[r].token
        /\ req'[r].user = req[r].user
    BY <1>3, GotoSlot DEF MagicMark
  <2>3. \A u \in Users : MayReopen(r, u)' => ~Sealed(u)
    BY <1>3, <2>2 DEF MagicMark, At, MayReopen, Sealed
  <2>4. SlotReopens(r)
    BY <2>2, <2>3 DEF SlotReopens, HoldsActiveCopy
  <2>5. QED
    BY <1>3, <2>1, <2>4, KeepReopens, MarkUsedReopens DEF MagicMark
<1>4. CASE MagicUser(r)
  <2>1. req[r].user \in Users /\ req[r].row \in UserRow
    BY <1>4, SlotShape DEF MagicUser, At, TokenRowPcs
  <2>2. /\ req'[r].pc = "magicSession" /\ req'[r].token = req[r].token
        /\ req'[r].user = req[r].user
    BY <1>4, HoldSlot DEF MagicUser
  <2>3. \A u \in Users : MayReopen(r, u)' => ~Sealed(u)
    BY <1>4, <2>2 DEF MagicUser, At, MayReopen, Sealed
  <2>4. SlotReopens(r)
    BY <2>2, <2>3 DEF SlotReopens, HoldsActiveCopy
  <2>5. UsersReopen(r)
    BY <1>4, <2>1, SaveUserReopens DEF MagicUser, At, MayReopen
  <2>6. QED
    BY <1>4, <2>4, <2>5, KeepReopens DEF MagicUser
<1>5. CASE ResetMark(r)
  <2>1. req[r].token \in Tokens
    BY <1>5, SlotShape DEF ResetMark, At, TokenRowPcs
  <2>2. CASE Finish(r)
    BY <1>5, <2>1, <2>2, FinishReopens, KeepReopens, MarkUsedReopens
       DEF ResetMark
  <2>3. CASE Goto(r, "resetSave")
    <3>1. /\ req'[r].pc = "resetSave" /\ req'[r].token = req[r].token
          /\ req'[r].user = req[r].user /\ req'[r].row = req[r].row
      BY <2>3, GotoSlot
    <3>2. \A u \in Users : MayReopen(r, u)' => MayReopen(r, u)
      BY <1>5, <3>1 DEF ResetMark, At, MayReopen
    <3>3. SlotReopens(r)
      BY <3>1, <3>2 DEF SlotReopens, HoldsActiveCopy, Sealed
    <3>4. QED
      BY <1>5, <2>1, <3>3, KeepReopens, MarkUsedReopens DEF ResetMark
  <2>4. QED
    BY <1>5, <2>2, <2>3 DEF ResetMark
<1>6. CASE ResetRevoke(r)
  BY <1>6, KeepReopens, FinishReopens, RevokeAllReopens DEF ResetRevoke
<1>7. CASE RefreshUser(r)
  <2>1. req[r].user \in Users
    BY <1>7, SlotShape DEF RefreshUser, At, SessionPcs
  <2>2. CASE Finish(r)
    BY <1>7, <2>2, FinishReopens, KeepReopens DEF RefreshUser
  <2>3. CASE users[req[r].user].isActive /\ Goto(r, "refreshSave")
    <3>1. /\ req'[r].pc = "refreshSave" /\ req'[r].token = req[r].token
          /\ req'[r].user = req[r].user /\ req'[r].session = req[r].session
      BY <2>3, GotoSlot
    <3>2. \A u \in Users : MayReopen(r, u)' => ~Sealed(u)
      BY <2>3, <3>1 DEF MayReopen, Sealed
    <3>3. \A s \in Sessions : HoldsActiveCopy(r, s)' => HoldsActiveCopy(r, s)
      BY <1>7, <3>1 DEF RefreshUser, At, HoldsActiveCopy
    <3>4. SlotReopens(r)
      BY <3>1, <3>2, <3>3 DEF SlotReopens
    <3>5. QED
      BY <1>7, <3>4, KeepReopens DEF RefreshUser
  <2>4. QED
    BY <1>7, <2>2, <2>3 DEF RefreshUser
<1>8. CASE RefreshSave(r)
  BY <1>8, KeepReopens, FinishReopens, SaveSessionReopens DEF RefreshSave, At
<1>9. ASSUME NEW u \in Users, MagicSendRead(r, u)
      PROVE  Reopens(r)
  BY <1>9, KeepReopens, HoldUserReopens DEF MagicSendRead, Sealed, UserPcs
<1>10. ASSUME NEW u \in Users, ForgotRead(r, u)
       PROVE  Reopens(r)
  BY <1>10, KeepReopens, HoldUserReopens DEF ForgotRead, UserPcs
<1>11. ASSUME NEW u \in Users, NEW attempt \in Passwords,
              LoginRead(r, u, attempt)
       PROVE  Reopens(r)
  BY <1>11, KeepReopens, HoldUserReopens DEF LoginRead, Sealed, UserPcs
<1>12. ASSUME NEW new \in Passwords, ResetSave(r, new)
       PROVE  Reopens(r)
  <2> DEFINE row == [req[r].row EXCEPT !.password = [of |-> new, times |-> 0]]
  <2>1. req[r].user \in Users /\ req[r].row \in UserRow
    BY <1>12, SlotShape DEF ResetSave, At, TokenRowPcs
  <2>2. row \in UserRow /\ row.isActive = req[r].row.isActive
    BY <2>1 DEF UserRow, Hash
  <2>3. SaveUser(req[r].user, row)
    BY <1>12 DEF ResetSave
  <2>4. row.isActive => MayReopen(r, req[r].user)
    BY <1>12, <2>2 DEF ResetSave, At, MayReopen
  <2> HIDE DEF row
  <2>5. UsersReopen(r)
    BY <2>1, <2>2, <2>3, <2>4, SaveUserReopens
  <2>6. QED
    BY <1>12, <2>5, KeepReopens, HoldUserReopens DEF ResetSave, UserPcs
<1>13. ASSUME NEW s \in Sessions, LoginSession(r, s)
       PROVE  Reopens(r)
  BY <1>13, KeepReopens, FinishReopens, InsertSessionReopens
     DEF LoginSession, At
<1>14. ASSUME NEW s \in Sessions, TwoFactorSession(r, s) \/ MagicSession(r, s)
       PROVE  Reopens(r)
  BY <1>14, KeepReopens, FinishReopens, InsertSessionReopens
     DEF TwoFactorSession, MagicSession, ExchangeToken, At
<1>15. ASSUME NEW s \in Sessions, RefreshRead(r, s)
       PROVE  Reopens(r)
  <2>1. /\ req'[r].pc = "refreshUser" /\ req'[r].session = s
        /\ req'[r].token = Nil
    BY <1>15, HoldSlot DEF RefreshRead
  <2>2. SlotReopens(r)
    BY <1>15, <2>1, NilAssumption
       DEF RefreshRead, SlotReopens, HoldsActiveCopy, MayReopen
  <2>3. QED
    BY <1>15, <2>2, KeepReopens DEF RefreshRead
<1>16. ASSUME NEW t \in Tokens,
              LoginPending(r, t) \/ MagicSendInsert(r, t) \/ ForgotInsert(r, t)
       PROVE  Reopens(r)
  BY <1>16, KeepReopens, FinishReopens, InsertTokenReopens
     DEF LoginPending, MagicSendInsert, ForgotInsert, At
<1>17. ASSUME NEW t \in Tokens, TwoFactorRead(r, t) \/ MagicRead(r, t)
       PROVE  Reopens(r)
  <2>1. /\ req'[r].token = t /\ req'[r].session = Nil
        /\ req'[r].user = tokens[t].user
    BY <1>17, HoldSlot DEF TwoFactorRead, MagicRead
  <2>2. \A u \in Users : MayReopen(r, u)' => ~Sealed(u)
    BY <1>17, <2>1 DEF TwoFactorRead, MagicRead, MayReopen, Sealed
  <2>3. SlotReopens(r)
    BY <1>17, <2>1, <2>2, NilAssumption
       DEF TwoFactorRead, MagicRead, FreshToken, SlotReopens, HoldsActiveCopy
  <2>4. QED
    BY <1>17, <2>3, KeepReopens DEF TwoFactorRead, MagicRead
<1>18. ASSUME NEW t \in Tokens, ResetRead(r, t)
       PROVE  Reopens(r)
  <2>1. tokens[t].user \in Users
    BY <1>18 DEF ResetRead, FreshToken, RowsHaveOwners
  <2>2. /\ req'[r].pc = "resetMark" /\ req'[r].token = t
        /\ req'[r].session = Nil /\ req'[r].user = tokens[t].user
        /\ req'[r].row = users[tokens[t].user]
    BY <1>18, HoldSlot DEF ResetRead
  <2>3. \A u \in Users : MayReopen(r, u)' => ~Sealed(u)
    BY <2>2 DEF MayReopen, Sealed
  <2>4. SlotReopens(r)
    BY <1>18, <2>2, <2>3, NilAssumption
       DEF ResetRead, FreshToken, SlotReopens, HoldsActiveCopy
  <2>5. QED
    BY <1>18, <2>4, KeepReopens DEF ResetRead
<1>19. QED
  BY <1>1, <1>2, <1>3, <1>4, <1>5, <1>6, <1>7, <1>8, <1>9, <1>10, <1>11,
     <1>12, <1>13, <1>14, <1>15, <1>16, <1>17, <1>18 DEF PublicStep

-----------------------------------------------------------------------------
(* What a step of Next can bring back: nothing that is over.                *)

LEMMA HandlerStep ==
  ASSUME IInv, [Next]_vars
  PROVE  \/ \E r \in Requests : Reopens(r) /\ StepEffect(r)
         \/ \E t \in Tokens : ExpireToken(t)
         \/ \E s \in Sessions : ExpireSession(s)
         \/ UNCHANGED vars
<1>1. ASSUME NEW r \in Requests, GuardedStep(r) \/ PublicStep(r)
      PROVE  Reopens(r) /\ StepEffect(r)
  BY <1>1, GuardedStepReopens, PublicStepReopens, GuardedStepEffect,
     PublicStepEffect DEF IInv, SlotsMatchTables
<1>2. ASSUME NEW r \in Requests, Fail(r)
      PROVE  Reopens(r) /\ StepEffect(r)
  BY <1>2, KeepReopens, FinishReopens, FinishMatches, UnchangedSessionsGrow,
     UnchangedTokensGrow
     DEF Fail, Reopens, StepEffect, NewRowsHaveOwners, IInv
<1>3. QED
  BY <1>1, <1>2 DEF Next

LEMMA DeadStep ==
  ASSUME IInv, IInv', [Next]_vars, NEW s \in Sessions, Dead(s)
  PROVE  Dead(s)'
<1> USE DEF Dead
<1> TypeOK /\ TypeOK'
  BY DEF IInv
<1>1. ASSUME NEW r \in Requests, Reopens(r), StepEffect(r)
      PROVE  Dead(s)'
  <2>1. sessions'[s].status # "active"
    BY <1>1 DEF Reopens, SessionsReopen, HoldsActiveCopy
  <2>2. sessions'[s].status # "absent"
    BY <1>1 DEF StepEffect, SessionsGrow
  <2>3. sessions'[s].status = "revoked"
    BY <2>1, <2>2 DEF TypeOK, SessionRow
  <2>4. ~HoldsActiveCopy(r, s)'
    BY <1>1 DEF Reopens, SlotReopens, ActiveSession
  <2>5. \A q \in Requests : q # r => ~HoldsActiveCopy(q, s)'
    BY <1>1 DEF StepEffect, SlotsKept, HoldsActiveCopy
  <2>6. QED
    BY <2>3, <2>4, <2>5
<1>2. ASSUME NEW t \in Tokens, ExpireToken(t)
      PROVE  Dead(s)'
  BY <1>2 DEF ExpireToken, HoldsActiveCopy
<1>3. ASSUME NEW x \in Sessions, ExpireSession(x)
      PROVE  Dead(s)'
  BY <1>3 DEF ExpireSession, HoldsActiveCopy, TypeOK, SessionRow
<1>4. CASE UNCHANGED vars
  BY <1>4 DEF vars, HoldsActiveCopy
<1>5. QED
  BY <1>1, <1>2, <1>3, <1>4, HandlerStep

LEMMA SpentStep ==
  ASSUME IInv, [Next]_vars, NEW t \in Tokens, Spent(t)
  PROVE  Spent(t)' /\ grants'[t] = grants[t]
<1> USE DEF Spent, Holders
<1> TypeOK
  BY DEF IInv
<1>1. ASSUME NEW r \in Requests, Reopens(r), StepEffect(r)
      PROVE  Spent(t)' /\ grants'[t] = grants[t]
  <2>1. tokens'[t].status = "used"
    BY <1>1 DEF StepEffect, TokensGrow
  <2>2. req[r].token # t /\ req'[r].token # t
    BY <1>1 DEF Reopens, SlotReopens
  <2>3. \A q \in Requests : req'[q].token # t
    BY <1>1, <2>2 DEF StepEffect, SlotsKept
  <2>4. grants'[t] = grants[t]
    BY <1>1, <2>2 DEF StepEffect, Exchanges, TypeOK
  <2>5. QED
    BY <2>1, <2>3, <2>4
<1>2. ASSUME NEW x \in Tokens, ExpireToken(x)
      PROVE  Spent(t)' /\ grants'[t] = grants[t]
  BY <1>2 DEF ExpireToken, TypeOK, TokenRow
<1>3. ASSUME NEW s \in Sessions, ExpireSession(s)
      PROVE  Spent(t)' /\ grants'[t] = grants[t]
  BY <1>3 DEF ExpireSession
<1>4. CASE UNCHANGED vars
  BY <1>4 DEF vars
<1>5. QED
  BY <1>1, <1>2, <1>3, <1>4, HandlerStep

LEMMA SealedStep ==
  ASSUME IInv, [Next]_vars, NEW u \in Users, Sealed(u),
         \A r \in Requests : ~(StatusRead(r, u, TRUE) \/ UpdateUser(r, u))
  PROVE  Sealed(u)'
<1> USE DEF ActiveSession, FreshToken
<1> TypeOK
  BY DEF IInv
<1>1. ASSUME NEW r \in Requests, Reopens(r), StepEffect(r)
      PROVE  Sealed(u)'
  <2>1. ~MayReopen(r, u)
    BY DEF Sealed
  <2>2. ~users'[u].isActive
    BY <1>1, <2>1 DEF Reopens, UsersReopen, Sealed
  <2>3. ASSUME NEW s \in Sessions, sessions'[s].user = u,
               sessions'[s].status = "active"
        PROVE  FALSE
    <3>1. CASE sessions[s].status = "active"
      BY <1>1, <2>3, <3>1 DEF StepEffect, SessionsGrow, Sealed
    <3>2. CASE req[r].session = s /\ req[r].pc \in {"guardSave", "refreshSave"}
      <4>1. sessions[s].status # "absent" /\ sessions[s].user = req[r].user
        BY <3>2, NilAssumption DEF IInv, SlotsMatchTables, SlotMatchesTables
      <4>2. req[r].user = u
        BY <1>1, <2>3, <4>1 DEF StepEffect, SessionsGrow
      <4>3. QED
        BY <2>1, <3>2, <4>2 DEF MayReopen
    <3>3. CASE /\ sessions'[s].user = req[r].user
               /\ req[r].pc \in {"loginIssue", "magicSession", "twoFactorSession"}
      BY <2>1, <2>3, <3>3 DEF MayReopen
    <3>4. QED
      BY <1>1, <2>3, <3>1, <3>2, <3>3 DEF Reopens, SessionsReopen
  <2>4. ASSUME NEW t \in Tokens, tokens'[t].user = u,
               tokens'[t].status = "fresh",
               tokens'[t].type \in {"magic_link", "two_factor_pending"}
        PROVE  FALSE
    <3>1. CASE tokens'[t] = tokens[t]
      BY <2>4, <3>1 DEF Sealed
    <3>2. CASE /\ tokens'[t].user = req[r].user
               /\ req[r].pc \in {"loginIssue", "magicInsert"}
      BY <2>1, <2>4, <3>2 DEF MayReopen
    <3>3. QED
      BY <1>1, <2>4, <3>1, <3>2 DEF Reopens, TokensReopen
  <2>5. ~MayReopen(r, u)'
    BY <1>1 DEF Reopens, SlotReopens
  <2>6. \A q \in Requests : q # r => ~MayReopen(q, u)'
    BY <1>1 DEF StepEffect, SlotsKept, MayReopen, Sealed
  <2>7. QED
    BY <2>2, <2>3, <2>4, <2>5, <2>6 DEF Sealed
<1>2. ASSUME NEW t \in Tokens, ExpireToken(t)
      PROVE  Sealed(u)'
  BY <1>2 DEF ExpireToken, Sealed, MayReopen, TypeOK, TokenRow
<1>3. ASSUME NEW s \in Sessions, ExpireSession(s)
      PROVE  Sealed(u)'
  BY <1>3 DEF ExpireSession, Sealed, MayReopen, TypeOK, SessionRow
<1>4. CASE UNCHANGED vars
  BY <1>4 DEF vars, Sealed, MayReopen
<1>5. QED
  BY <1>1, <1>2, <1>3, <1>4, HandlerStep

(* A revoked session of which no guard or refresh holds an older copy is    *)
(* never active again (auth.service.ts: invalidateSession, revokeSession,   *)
(* revokeAllSessions, refreshToken; jwt-auth.guard.ts: canActivate).        *)
THEOREM RevocationIsFinal == Spec => DeadSessionStaysDead
<1>1. IInv /\ IInv' /\ [Next]_vars =>
        [\A s \in Sessions : Dead(s) => Dead(s)']_vars
  BY DeadStep
<1>2. QED
  BY <1>1, Invariance, PTL DEF Spec, DeadSessionStaysDead

(* A used token that no request in flight found unused pays for no further  *)
(* session (magic-link.service.ts: verifyMagicLink; auth.service.ts:        *)
(* completeTwoFactorLogin).                                                 *)
THEOREM SpendingIsFinal == Spec => SpentTokenStaysSpent
<1>1. IInv /\ [Next]_vars =>
        [\A t \in Tokens : Spent(t) => Spent(t)' /\ grants'[t] = grants[t]]_vars
  BY SpentStep
<1>2. QED
  BY <1>1, Invariance, PTL DEF Spec, SpentTokenStaysSpent

(* A locked account with no active session, unused sign-in token or request *)
(* in flight that read it earlier stays so until its status is set again    *)
(* (auth.service.ts: changeAccountStatus; user.service.ts: update).         *)
THEOREM LockIsFinal == Spec => SealedAccountStaysSealed
<1>1. IInv /\ [Next]_vars =>
        [\A u \in Users : Sealed(u) =>
           \/ Sealed(u)'
           \/ \E r \in Requests : StatusRead(r, u, TRUE) \/ UpdateUser(r, u)]_vars
  BY SealedStep
<1>2. QED
  BY <1>1, Invariance, PTL DEF Spec, SealedAccountStaysSealed

-----------------------------------------------------------------------------
(* How often a token pays.                                                  *)

(* Every session a token paid for used up a request that held it, and a     *)
(* request comes to hold it only while it is unused, when it has paid for   *)
(* nothing: payments and holders together never outnumber the slots.        *)
PaymentsCovered ==
  \A t \in Tokens :
      /\ IsFiniteSet(grants[t])
      /\ Cardinality(grants[t]) + Cardinality(Holders(t)) <= Cardinality(Requests)

LEMMA HoldersFinite ==
  ASSUME NEW t \in Tokens
  PROVE  /\ Holders(t) \subseteq Requests
         /\ IsFiniteSet(Holders(t)) /\ Cardinality(Holders(t)) \in Nat
         /\ Cardinality(Holders(t)) <= Cardinality(Requests)
         /\ Cardinality(Requests) \in Nat
<1>1. Holders(t) \subseteq Requests
  BY DEF Holders
<1>2. QED
  BY <1>1, FS_Subset, FS_CardinalityType, RequestsAssumption

LEMMA FewerHolders ==
  ASSUME PaymentsCovered, NEW t \in Tokens,
         Holders(t)' \subseteq Holders(t), grants'[t] = grants[t]
  PROVE  /\ IsFiniteSet(grants'[t])
         /\ Cardinality(grants'[t]) + Cardinality(Holders(t)')
               <= Cardinality(Requests)
<1>1. /\ IsFiniteSet(grants[t])
      /\ Cardinality(grants[t]) + Cardinality(Holders(t)) <= Cardinality(Requests)
  BY DEF PaymentsCovered
<1>2. /\ Cardinality(Holders(t)') \in Nat
      /\ Cardinality(Holders(t)') <= Cardinality(Holders(t))
  BY HoldersFinite, FS_Subset, FS_CardinalityType
<1>3. Cardinality(grants[t]) \in Nat
  BY <1>1, FS_CardinalityType
<1>4. QED
  BY <1>1, <1>2, <1>3, HoldersFinite

(* A slot that exchanges the token gives it up.                             *)
LEMMA ExchangeCovered ==
  ASSUME PaymentsCovered, NEW t \in Tokens, NEW r \in Holders(t), NEW s,
         Holders(t)' \subseteq Holders(t) \ {r}, grants'[t] = grants[t] \cup {s}
  PROVE  /\ IsFiniteSet(grants'[t])
         /\ Cardinality(grants'[t]) + Cardinality(Holders(t)')
               <= Cardinality(Requests)
<1>1. /\ IsFiniteSet(grants[t])
      /\ Cardinality(grants[t]) + Cardinality(Holders(t)) <= Cardinality(Requests)
  BY DEF PaymentsCovered
<1>2. /\ IsFiniteSet(Holders(t) \ {r})
      /\ Cardinality(Holders(t) \ {r}) = Cardinality(Holders(t)) - 1
  BY HoldersFinite, FS_RemoveElement
<1>3. /\ Cardinality(Holders(t)') \in Nat
      /\ Cardinality(Holders(t)') <= Cardinality(Holders(t)) - 1
  BY <1>2, FS_Subset, FS_CardinalityType
<1>4. Cardinality(grants[t]) \in Nat
  BY <1>1, FS_CardinalityType
<1>5. /\ IsFiniteSet(grants'[t])
      /\ Cardinality(grants'[t]) <= Cardinality(grants[t]) + 1
  <2> DEFINE paid == grants[t]
             more == paid \cup {s}
  <2>1. IsFiniteSet(paid) /\ Cardinality(paid) \in Nat /\ grants'[t] = more
    BY <1>1, <1>4
  <2>2. /\ IsFiniteSet(more)
        /\ Cardinality(more) = IF s \in paid THEN Cardinality(paid)
                                              ELSE Cardinality(paid) + 1
    <3> HIDE DEF paid
    <3>1. QED BY <2>1, FS_AddElement
  <2>3. QED
    <3> HIDE DEF paid, more
    <3>1. IsFiniteSet(more) /\ Cardinality(more) <= Cardinality(paid) + 1
      BY <2>1, <2>2
    <3>2. QED BY <2>1, <3>1 DEF paid
<1>6. Cardinality(grants'[t]) \in Nat
  BY <1>5, FS_CardinalityType
<1>7. QED
  BY <1>1, <1>3, <1>4, <1>5, <1>6, HoldersFinite

LEMMA CoverKept ==
  ASSUME IInv, PaymentsCovered, [Next]_vars
  PROVE  PaymentsCovered'
<1> TypeOK
  BY DEF IInv
<1> SUFFICES ASSUME NEW t \in Tokens
             PROVE  /\ IsFiniteSet(grants'[t])
                    /\ Cardinality(grants'[t]) + Cardinality(Holders(t)')
                          <= Cardinality(Requests)
  BY DEF PaymentsCovered
<1>1. ASSUME NEW r \in Requests, Reopens(r), StepEffect(r), grants' = grants
      PROVE  /\ IsFiniteSet(grants'[t])
             /\ Cardinality(grants'[t]) + Cardinality(Holders(t)')
                   <= Cardinality(Requests)
  <2>1. CASE tokens[t].status = "fresh"
    <3>1. grants'[t] = {}
      BY <1>1, <2>1 DEF IInv, SessionsComeFromUsedTokens
    <3>2. Cardinality(Holders(t)') \in Nat
      BY HoldersFinite, FS_Subset, FS_CardinalityType, RequestsAssumption
         DEF Holders
    <3>3. Cardinality(Holders(t)') <= Cardinality(Requests)
      BY FS_Subset, RequestsAssumption DEF Holders
    <3>4. QED
      BY <3>1, <3>2, <3>3, FS_EmptySet, HoldersFinite
  <2>2. CASE tokens[t].status # "fresh"
    <3>1. Holders(t)' \subseteq Holders(t)
      BY <1>1, <2>2 DEF Holders, Reopens, SlotReopens, StepEffect, SlotsKept
    <3>2. QED
      BY <1>1, <3>1, FewerHolders
  <2>3. QED
    BY <2>1, <2>2
<1>2. ASSUME NEW r \in Requests, StepEffect(r), NEW s \in Sessions, Exchanges(r, s)
      PROVE  /\ IsFiniteSet(grants'[t])
             /\ Cardinality(grants'[t]) + Cardinality(Holders(t)')
                   <= Cardinality(Requests)
  <2>1. Holders(t)' \subseteq Holders(t) \ {r}
    BY <1>2, NilAssumption DEF Holders, Exchanges, Idle, StepEffect, SlotsKept
  <2>2. CASE req[r].token = t
    <3>1. r \in Holders(t)
      BY <2>2 DEF Holders
    <3>2. grants'[t] = grants[t] \cup {s}
      BY <1>2, <2>2 DEF Exchanges, TypeOK
    <3>3. QED
      BY <2>1, <3>1, <3>2, ExchangeCovered
  <2>3. CASE req[r].token # t
    <3>1. grants'[t] = grants[t]
      BY <1>2, <2>3 DEF Exchanges, TypeOK
    <3>2. QED
      BY <2>1, <3>1, FewerHolders
  <2>4. QED
    BY <2>2, <2>3
<1>3. CASE UNCHANGED <<req, grants>>
  BY <1>3, FewerHolders DEF Holders
<1>4. QED
  <2>1. \/ \E r \in Requests : Reopens(r) /\ StepEffect(r)
        \/ UNCHANGED <<req, grants>>
    BY HandlerStep DEF ExpireToken, ExpireSession, vars
  <2>2. QED
    BY <1>1, <1>2, <1>3, <2>1 DEF StepEffect

LEMMA InitiallyCovered == Init => PaymentsCovered
<1> SUFFICES ASSUME Init, NEW t \in Tokens
             PROVE  /\ IsFiniteSet(grants[t])
                    /\ Cardinality(grants[t]) + Cardinality(Holders(t))
                          <= Cardinality(Requests)
  BY DEF PaymentsCovered
<1>1. grants[t] = {}
  BY DEF Init
<1>2. QED
  BY <1>1, FS_EmptySet, HoldersFinite

(* Requests that overlap can each exchange the same magic link or pending   *)
(* second factor, and no more of them than were in flight: with one request *)
(* at a time a token opens one session at most (verifyMagicLink,            *)
(* completeTwoFactorLogin read the token, then mark it, without a lock).    *)
THEOREM ExchangesAreBounded == Spec => []TokenExchangesBounded
<1>1. PaymentsCovered => TokenExchangesBounded
  <2> SUFFICES ASSUME PaymentsCovered, NEW t \in Tokens
               PROVE  Cardinality(grants[t]) <= Cardinality(Requests)
    BY DEF TokenExchangesBounded
  <2>1. /\ IsFiniteSet(grants[t])
        /\ Cardinality(grants[t]) + Cardinality(Holders(t)) <= Cardinality(Requests)
    BY DEF PaymentsCovered
  <2>2. Cardinality(grants[t]) \in Nat
    BY <2>1, FS_CardinalityType
  <2>3. QED
    BY <2>1, <2>2, HoldersFinite
<1>2. QED
  BY <1>1, Invariance, InitiallyCovered, CoverKept, PTL DEF Spec

=============================================================================
