------------------------------ MODULE Accounts ------------------------------
(***************************************************************************)
(* How accounts come to be (src/auth/auth.service.ts): registration with a *)
(* mailed verification code (register, verifyRegistration,                 *)
(* resendVerificationCode) and sign-up through an OAuth provider           *)
(* (findOrCreateOAuthUser).                                                *)
(*                                                                         *)
(* As in AuthSessions a request waits in its slot at every database call   *)
(* with the copies it has read, here at each of the two statements of a    *)
(* save as well: the SELECT by id and the UPDATE of the columns that differ *)
(* from it.  users.email and pending_registrations.email are unique        *)
(* columns; user_oauth has none.                                           *)
(***************************************************************************)
EXTENDS Naturals, FiniteSets

CONSTANTS
    Emails,
    Passwords,      \* bcrypt hashes, a new one by each registration: bounds
                    \* the registrations
    Codes,          \* verification codes, each issued once: bounds the issues
    Ids,            \* primary keys of pending registrations
    Identities,     \* (provider, providerId) pairs of OAuth users
    ConnectionIds,  \* primary keys of user_oauth: bounds the connections
    AttemptLimit,   \* 5 in the code
    Requests,       \* slots: how many requests can be in flight at once
    Nil

ASSUME LimitAssumption == AttemptLimit \in Nat

\* An account made by an OAuth sign-up has no password.
Account == [password: Passwords \cup {Nil}]

\* Comparisons only ask whether a counter is above AttemptLimit.
Counter == 0 .. AttemptLimit + 1
Bump(n) == IF n > AttemptLimit THEN n ELSE n + 1

PendingRow == [id: Ids, code: Codes, password: Passwords, attempts: Counter]

ASSUME NilAssumption ==
    /\ Nil \notin Emails \cup Passwords \cup Codes \cup Ids \cup Identities
    /\ Nil \notin Account \cup PendingRow

VARIABLES
    accounts,     \* table users, by its unique email
    pending,      \* table pending_registrations, by its unique email
    connections,  \* table user_oauth
    codes,        \* what each code was issued for, whether its 30 minutes are
                  \* over, and (history) whether it was compared with a guess
    latest,       \* history: the code last issued for an email
    mixed,        \* history: the emails whose row a save updated that another
                  \* one had changed since its SELECT
    signIns,      \* history: the sessions opened by verifyRegistration
    req           \* the requests in flight and what they have read so far

vars == <<accounts, pending, connections, codes, latest, mixed,
          signIns, req>>
tables == <<accounts, pending, connections, codes, latest, mixed, signIns>>

-----------------------------------------------------------------------------
Connection == [identity: Identities, email: Emails]
Code == [email: Emails \cup {Nil}, password: Passwords \cup {Nil},
         expired: BOOLEAN, tried: BOOLEAN]

\* A request's copy of the pending row (row) and, between the two statements
\* of a save, what the SELECT has found (base).
Idle == [pc |-> "idle", email |-> Nil, row |-> Nil, base |-> Nil, identity |-> Nil]
RowPcs == {"registerSave", "verifySave", "resendSave", "verifyUser", "verifyDelete"}
WritePcs == {"registerWrite", "verifyWrite", "resendWrite"}
OAuthPcs == {"oauthUser", "oauthCreate", "oauthConnect"}
Request ==
    {Idle}
    \cup [pc: {"registerFind", "registerInsert", "verifySession"}, email: Emails,
          row: {Nil}, base: {Nil}, identity: {Nil}]
    \cup [pc: RowPcs, email: Emails, row: PendingRow, base: {Nil}, identity: {Nil}]
    \cup [pc: WritePcs, email: Emails, row: PendingRow,
          base: PendingRow \cup {Nil}, identity: {Nil}]
    \cup [pc: OAuthPcs, email: Emails, row: {Nil}, base: {Nil},
          identity: Identities]

TypeOK ==
    /\ accounts \in [Emails -> Account \cup {Nil}]
    /\ pending \in [Emails -> PendingRow \cup {Nil}]
    /\ connections \in [ConnectionIds -> Connection \cup {Nil}]
    /\ codes \in [Codes -> Code]
    /\ latest \in [Emails -> Codes \cup {Nil}]
    /\ mixed \subseteq Emails
    /\ signIns \in [Emails -> 0..2]
    /\ req \in [Requests -> Request]

Init ==
    /\ accounts = [e \in Emails |-> Nil]
    /\ pending = [e \in Emails |-> Nil]
    /\ connections = [k \in ConnectionIds |-> Nil]
    /\ codes = [c \in Codes |-> [email |-> Nil, password |-> Nil,
                                 expired |-> FALSE, tried |-> FALSE]]
    /\ latest = [e \in Emails |-> Nil]
    /\ mixed = {}
    /\ signIns = [e \in Emails |-> 0]
    /\ req = [r \in Requests |-> Idle]

-----------------------------------------------------------------------------
(* Mutated forms of definitions below: plausible slips in the code that    *)
(* the properties must notice.  Nothing refers to them.                    *)

\* save(user) as an upsert by email: the unique column gone.
AccountReplaced(e, account) ==
    accounts' = [accounts EXCEPT ![e] = account]

\* register that does not look for an existing user.
RegisterAnybody(r, e) ==
    /\ req[r].pc = "idle"
    /\ req' = [req EXCEPT ![r] = [pc |-> "registerFind", email |-> e, row |-> Nil,
                                  base |-> Nil, identity |-> Nil]]
    /\ UNCHANGED tables

\* The copy of the pending row with the old password.
OldPassword(row, c, pw) == [row EXCEPT !.code = c, !.attempts = 0]

-----------------------------------------------------------------------------
(* Steps shared by the handlers.                                           *)

At(r, pc) == req[r].pc = pc
Goto(r, pc) == req' = [req EXCEPT ![r].pc = pc]
Finish(r) == req' = [req EXCEPT ![r] = Idle]
Hold(r, pc, e, row, identity) ==
    req' = [req EXCEPT ![r] = [pc |-> pc, email |-> e, row |-> row,
                               base |-> Nil, identity |-> identity]]

\* usersRepository.save(create({email, ...})): unique email.
InsertAccount(e, account) ==
    /\ accounts[e] = Nil
    /\ accounts' = [accounts EXCEPT ![e] = account]

\* pendingRegistrationRepository.save(copy) of a row read before.  First the
\* SELECT by id.
Found(e, id) == IF pending[e] # Nil /\ pending[e].id = id THEN pending[e] ELSE Nil

SelectPending(r, pc) ==
    /\ req' = [req EXCEPT ![r] =
           [pc |-> pc, email |-> req[r].email, row |-> req[r].row,
            base |-> Found(req[r].email, req[r].row.id), identity |-> Nil]]
    /\ UNCHANGED tables

\* The columns in which the copy differs from what the SELECT found.
Changed(row, base, copy) ==
    [id |-> row.id,
     code |-> IF copy.code # base.code THEN copy.code ELSE row.code,
     password |-> IF copy.password # base.password
                  THEN copy.password ELSE row.password,
     attempts |-> IF copy.attempts # base.attempts
                  THEN copy.attempts ELSE row.attempts]

\* Then an INSERT, if the SELECT found nothing and the email is free, or an
\* UPDATE by id, which does nothing if the row is gone by now.
SavePending(r, copy) ==
    LET e == req[r].email
        base == req[r].base
    IN \/ /\ base = Nil
          /\ pending[e] = Nil
          /\ pending' = [pending EXCEPT ![e] = copy]
          /\ UNCHANGED mixed
       \/ /\ base # Nil
          /\ Found(e, base.id) = Nil
          /\ UNCHANGED <<pending, mixed>>
       \/ /\ base # Nil
          /\ Found(e, base.id) # Nil
          /\ pending' = [pending EXCEPT ![e] = Changed(pending[e], base, copy)]
          /\ mixed' = IF pending[e] = base THEN mixed ELSE mixed \cup {e}

\* A new uuid: nobody has a row with it.
NewId(i) ==
    /\ \A e \in Emails : pending[e] # Nil => pending[e].id # i
    /\ \A r \in Requests : req[r].row # Nil => req[r].row.id # i

\* A random code, saved in the pending row of e and then mailed.
Issue(c, e, pw) ==
    /\ codes[c].email = Nil
    /\ codes' = [codes EXCEPT ![c].email = e, ![c].password = pw]
    /\ latest' = [latest EXCEPT ![e] = c]

-----------------------------------------------------------------------------
(* register.                                                               *)

\* findOne user by email: a registered address is refused.
RegisterRead(r, e) ==
    /\ At(r, "idle")
    /\ accounts[e] = Nil
    /\ Hold(r, "registerFind", e, Nil, Nil)
    /\ UNCHANGED tables

\* findOne pending registration by email.
RegisterFind(r) ==
    /\ At(r, "registerFind")
    /\ LET found == pending[req[r].email]
       IN Hold(r, IF found = Nil THEN "registerInsert" ELSE "registerSave",
               req[r].email, found, Nil)
    /\ UNCHANGED tables

NewHash(pw) == \A c \in Codes : codes[c].password # pw

\* A row of its own, without an id: save only inserts it.
RegisterInsert(r, c, pw) ==
    /\ At(r, "registerInsert")
    /\ NewHash(pw)
    /\ pending[req[r].email] = Nil
    /\ \E i \in Ids :
          /\ NewId(i)
          /\ pending' = [pending EXCEPT ![req[r].email] =
                 [id |-> i, code |-> c, password |-> pw, attempts |-> 0]]
    /\ Issue(c, req[r].email, pw)
    /\ Finish(r)
    /\ UNCHANGED <<accounts, connections, mixed, signIns>>

RegisterSave(r) == At(r, "registerSave") /\ SelectPending(r, "registerWrite")

\* The row found, with a new code and password and no attempts.
Registered(row, c, pw) ==
    [row EXCEPT !.code = c, !.password = pw, !.attempts = 0]

RegisterWrite(r, c, pw) ==
    /\ At(r, "registerWrite")
    /\ NewHash(pw)
    /\ SavePending(r, Registered(req[r].row, c, pw))
    /\ Issue(c, req[r].email, pw)
    /\ Finish(r)
    /\ UNCHANGED <<accounts, connections, signIns>>

-----------------------------------------------------------------------------
(* verifyRegistration.                                                     *)

Counted(row) == [row EXCEPT !.attempts = Bump(@)]

\* findOne pending registration, expiry test, attempts += 1 on the copy.
VerifyRead(r, e) ==
    /\ At(r, "idle")
    /\ pending[e] # Nil
    /\ ~codes[pending[e].code].expired
    /\ Hold(r, "verifySave", e, Counted(pending[e]), Nil)
    /\ UNCHANGED tables

TooManyAttempts(row) == row.attempts > AttemptLimit

VerifySave(r) == At(r, "verifySave") /\ SelectPending(r, "verifyWrite")

Compared(c) == codes' = [codes EXCEPT ![c].tried = TRUE]

\* (mutated form of VerifyWrite) The code compared before the limit test.
CompareFirst(r, matches) ==
    /\ At(r, "verifyWrite")
    /\ SavePending(r, req[r].row)
    /\ Compared(req[r].row.code)
    /\ IF matches
       THEN Hold(r, "verifyUser", req[r].email, req[r].row, Nil) ELSE Finish(r)
    /\ UNCHANGED <<accounts, connections, latest, signIns>>

\* After the save the limit test, then the comparison: `matches` says whether
\* the code sent in is the one in the copy.
VerifyWrite(r, matches) ==
    /\ At(r, "verifyWrite")
    /\ LET row == req[r].row
       IN /\ SavePending(r, row)
          /\ \/ /\ TooManyAttempts(row)
                /\ Finish(r)
                /\ UNCHANGED codes
             \/ /\ ~TooManyAttempts(row)
                /\ Compared(row.code)
                /\ IF matches
                   THEN Hold(r, "verifyUser", req[r].email, row, Nil)
                   ELSE Finish(r)
    /\ UNCHANGED <<accounts, connections, latest, signIns>>

\* save(create({email, password: copy's, ...})) without hashing it again.
VerifyUser(r) ==
    /\ At(r, "verifyUser")
    /\ InsertAccount(req[r].email, [password |-> req[r].row.password])
    /\ Goto(r, "verifyDelete")
    /\ UNCHANGED <<pending, connections, codes, latest, mixed, signIns>>

\* delete(pendingRegistration.id).
VerifyDelete(r) ==
    /\ At(r, "verifyDelete")
    /\ LET e == req[r].email
       IN /\ pending' = IF pending[e] # Nil /\ pending[e].id = req[r].row.id
                        THEN [pending EXCEPT ![e] = Nil]
                        ELSE pending
          /\ Hold(r, "verifySession", e, Nil, Nil)
    /\ UNCHANGED <<accounts, connections, codes, latest, mixed, signIns>>

\* createSession.
VerifySession(r) ==
    /\ At(r, "verifySession")
    /\ signIns' = [signIns EXCEPT ![req[r].email] = IF @ = 2 THEN 2 ELSE @ + 1]
    /\ Finish(r)
    /\ UNCHANGED <<accounts, pending, connections, codes, latest, mixed>>

-----------------------------------------------------------------------------
(* resendVerificationCode.                                                 *)

ResendRead(r, e) ==
    /\ At(r, "idle")
    /\ pending[e] # Nil
    /\ Hold(r, "resendSave", e, pending[e], Nil)
    /\ UNCHANGED tables

Reissued(row, c) == [row EXCEPT !.code = c, !.attempts = 0]

ResendSave(r) == At(r, "resendSave") /\ SelectPending(r, "resendWrite")

ResendWrite(r, c) ==
    /\ At(r, "resendWrite")
    /\ SavePending(r, Reissued(req[r].row, c))
    /\ Issue(c, req[r].email, req[r].row.password)
    /\ Finish(r)
    /\ UNCHANGED <<accounts, connections, signIns>>

-----------------------------------------------------------------------------
(* findOrCreateOAuthUser, called by the strategies without a request: each *)
(* of its three paths ends in a TypeError when it reads the headers for    *)
(* the audit log, after the path's own save.                               *)

Unconnected(i) ==
    \A k \in ConnectionIds : connections[k] # Nil => connections[k].identity # i

\* findOne connection by provider and providerId: none.  (For a connection
\* found, only its provider tokens are saved.)
OAuthFind(r, i, e) ==
    /\ At(r, "idle")
    /\ Unconnected(i)
    /\ Hold(r, "oauthUser", e, Nil, i)
    /\ UNCHANGED tables

\* findOne user by email.
OAuthUser(r) ==
    /\ At(r, "oauthUser")
    /\ Goto(r, IF accounts[req[r].email] = Nil THEN "oauthCreate"
                                               ELSE "oauthConnect")
    /\ UNCHANGED tables

OAuthCreate(r) ==
    /\ At(r, "oauthCreate")
    /\ InsertAccount(req[r].email, [password |-> Nil])
    /\ Finish(r)
    /\ UNCHANGED <<pending, connections, codes, latest, mixed, signIns>>

OAuthConnect(r, k) ==
    /\ At(r, "oauthConnect")
    /\ connections[k] = Nil
    /\ connections' = [connections EXCEPT ![k] =
                         [identity |-> req[r].identity, email |-> req[r].email]]
    /\ Finish(r)
    /\ UNCHANGED <<accounts, pending, codes, latest, mixed, signIns>>

-----------------------------------------------------------------------------
(* The environment.                                                        *)

\* An awaited call fails (a unique column among others) or the process dies.
Fail(r) ==
    /\ ~At(r, "idle")
    /\ Finish(r)
    /\ UNCHANGED tables

\* The clock passes the expiresAt that was set with code c.
ExpireCode(c) ==
    /\ codes[c].email # Nil
    /\ ~codes[c].expired
    /\ codes' = [codes EXCEPT ![c].expired = TRUE]
    /\ UNCHANGED <<accounts, pending, connections, latest, mixed, signIns, req>>

Step(r) ==
    \/ RegisterFind(r) \/ RegisterSave(r) \/ VerifySave(r) \/ ResendSave(r)
    \/ VerifyUser(r) \/ VerifyDelete(r) \/ VerifySession(r)
    \/ OAuthUser(r) \/ OAuthCreate(r) \/ Fail(r)
    \/ \E e \in Emails : RegisterRead(r, e) \/ VerifyRead(r, e) \/ ResendRead(r, e)
    \/ \E c \in Codes, pw \in Passwords :
          RegisterInsert(r, c, pw) \/ RegisterWrite(r, c, pw)
    \/ \E c \in Codes : ResendWrite(r, c)
    \/ \E matches \in BOOLEAN : VerifyWrite(r, matches)
    \/ \E i \in Identities, e \in Emails : OAuthFind(r, i, e)
    \/ \E k \in ConnectionIds : OAuthConnect(r, k)

Next ==
    \/ \E r \in Requests : Step(r)
    \/ \E c \in Codes : ExpireCode(c)

Spec == Init /\ [][Next]_vars

-----------------------------------------------------------------------------
(* Properties: what holds however the requests interleave.                 *)

\* The password of a registered account is one that was registered for that
\* address, and a code of that address was compared with a guess; the two
\* belong together unless the statements of two saves overlapped, which may
\* leave the code of a resend with the password of a re-registration
\* (register, verifyRegistration, resendVerificationCode).
AccountsComeFromCodes ==
    \A e \in Emails :
        accounts[e] # Nil /\ accounts[e].password # Nil =>
            \E c, d \in Codes :
               /\ codes[c].email = e /\ codes[c].password = accounts[e].password
               /\ codes[d].email = e /\ codes[d].tried
               /\ c = d \/ e \in mixed

\* A registration opens one session at most, also when two requests pass the
\* code check of the same pending row.
OneSignInPerRegistration == \A e \in Emails : signIns[e] <= 1

\* Requests that may still insert a pending row of e: those that hold a copy
\* and have not found it by id.
HoldsPending(r, e) ==
    /\ req[r].email = e
    /\ \/ req[r].pc \in {"registerFind", "registerInsert", "registerSave",
                         "verifySave", "resendSave"}
       \/ req[r].pc \in WritePcs /\ req[r].base = Nil

Settled(e) ==
    /\ accounts[e] # Nil
    /\ pending[e] = Nil
    /\ \A r \in Requests : ~HoldsPending(r, e)

\* Once an address is registered, its pending row removed and no request in
\* flight may insert it again, no code is accepted for it ever again.
SettledStaysSettled == [][\A e \in Emails : Settled(e) => Settled(e)']_vars

\* The code in force has used up its attempts, no request has passed its
\* comparison, and no request holds a copy of the row with attempts left.
Blocked(e) ==
    /\ pending[e] # Nil
    /\ TooManyAttempts(pending[e])
    /\ \A r \in Requests :
          /\ req[r].email = e
          /\ req[r].pc \in {"verifySave", "verifyWrite", "verifyUser", "verifyDelete"}
          => /\ req[r].pc \in {"verifySave", "verifyWrite"}
             /\ TooManyAttempts(req[r].row)

\* After too many attempts no request gets past the code check until
\* another code is issued.
BlockedStaysBlocked ==
    [][\A e \in Emails : Blocked(e) => Blocked(e)' \/ latest'[e] # latest[e]]_vars
=============================================================================
