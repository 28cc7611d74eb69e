--------------------------- MODULE AccountsProofs ---------------------------
(***************************************************************************)
(* What holds however many registrations, verifications, resends and OAuth *)
(* sign-ups of however many addresses overlap.                             *)
(*                                                                         *)
(* A request goes on with a copy of a pending row, so the argument is      *)
(* about rows and copies alike: each carries a code that was issued for    *)
(* its address, a password that was registered for it, and the two belong  *)
(* together unless the address has a row two saves have written.           *)
(***************************************************************************)
EXTENDS Accounts, TLAPS

\* Code c was issued for address e, together with password pw.
IssuedFor(c, e, pw) == codes[c].email = e /\ codes[c].password = pw

\* What a row of e, or a copy of one, carries.
Issued(e, row) ==
    /\ codes[row.code].email = e
    /\ \E c \in Codes : IssuedFor(c, e, row.password)
    /\ codes[row.code].password = row.password \/ e \in mixed

RowsHaveCodes == \A e \in Emails : pending[e] # Nil => Issued(e, pending[e])

\* Past the comparison the code of the copy was compared.
SlotHasCode(q) ==
    /\ q.row # Nil => Issued(q.email, q.row)
    /\ q.pc = "verifyUser" => codes[q.row.code].tried

SlotsHaveCodes == \A r \in Requests : SlotHasCode(req[r])

\* A request that has made the account of e and has not opened its session.
Past(r, e) == req[r].email = e /\ req[r].pc \in {"verifyDelete", "verifySession"}

OnePasses ==
    \A e \in Emails :
        /\ \A r, s \in Requests : Past(r, e) /\ Past(s, e) => r = s
        /\ \A r \in Requests : Past(r, e) => accounts[e] # Nil /\ signIns[e] = 0
        /\ accounts[e] = Nil => signIns[e] = 0
        /\ signIns[e] <= 1

LatestIssued == \A e \in Emails : latest[e] # Nil => codes[latest[e]].email # Nil

IInv ==
    /\ TypeOK
    /\ RowsHaveCodes /\ SlotsHaveCodes /\ AccountsComeFromCodes
    /\ OnePasses
    /\ LatestIssued

-----------------------------------------------------------------------------
(* Types.                                                                  *)

\* What a slot holds, by the place where its request waits.
LEMMA SlotTyped ==
    ASSUME TypeOK, NEW r \in Requests
    PROVE  /\ req[r] = [pc |-> req[r].pc, email |-> req[r].email, row |-> req[r].row,
                        base |-> req[r].base, identity |-> req[r].identity]
           /\ req[r].pc # "idle" => req[r].email \in Emails
           /\ req[r].row # Nil => req[r].email \in Emails
           /\ req[r].row \in PendingRow \cup {Nil}
           /\ req[r].base \in PendingRow \cup {Nil}
           /\ req[r].pc \in RowPcs \cup WritePcs => req[r].row \in PendingRow
           /\ req[r].pc \in OAuthPcs =>
                 /\ req[r].identity \in Identities
                 /\ req[r].row = Nil /\ req[r].base = Nil
           /\ req[r].pc \in RowPcs => req[r].identity = Nil /\ req[r].base = Nil
BY DEF TypeOK, Request, Idle, RowPcs, WritePcs, OAuthPcs

LEMMA HoldTyped ==
    ASSUME TypeOK, NEW r \in Requests, NEW pc, NEW e, NEW row, NEW i,
           Hold(r, pc, e, row, i),
           [pc |-> pc, email |-> e, row |-> row, base |-> Nil, identity |-> i]
               \in Request
    PROVE  req' \in [Requests -> Request]
BY DEF TypeOK, Hold

LEMMA FinishTyped ==
    ASSUME TypeOK, NEW r \in Requests, Finish(r)
    PROVE  req' \in [Requests -> Request]
BY DEF TypeOK, Finish, Request

LEMMA BumpTyped == \A n \in Counter : Bump(n) \in Counter /\ Bump(n) > 0
BY LimitAssumption DEF Counter, Bump

LEMMA IssueTyped ==
    ASSUME TypeOK, NEW c \in Codes, NEW e \in Emails, NEW pw \in Passwords,
           Issue(c, e, pw)
    PROVE  /\ codes' \in [Codes -> Code]
           /\ latest' \in [Emails -> Codes \cup {Nil}]
           /\ codes[c].email = Nil
           /\ IssuedFor(c, e, pw)'
           /\ \A d \in Codes \ {c} : codes'[d] = codes[d]
<1> DEFINE new == [codes[c] EXCEPT !.email = e, !.password = pw]
<1>1. codes[c] \in Code
    BY DEF TypeOK
<1>2. new \in Code /\ new.email = e /\ new.password = pw
    BY <1>1 DEF Code
<1>3. codes' = [codes EXCEPT ![c] = new]
    BY DEF Issue, TypeOK, Code
<1> HIDE DEF new
<1>4. QED BY <1>2, <1>3 DEF Issue, TypeOK, IssuedFor

\* The two changes of a pending row that issue a code, and the count.
LEMMA RowTyped ==
    ASSUME NEW row \in PendingRow, NEW c \in Codes, NEW pw \in Passwords
    PROVE  /\ Registered(row, c, pw) \in PendingRow
           /\ Registered(row, c, pw).code = c
           /\ Registered(row, c, pw).password = pw
           /\ Reissued(row, c) \in PendingRow
           /\ Reissued(row, c).code = c
           /\ Reissued(row, c).password = row.password
           /\ Counted(row) \in PendingRow
           /\ Counted(row).code = row.code
           /\ Counted(row).password = row.password
           /\ TooManyAttempts(row) => TooManyAttempts(Counted(row))
<1>1. 0 \in Counter /\ Bump(row.attempts) \in Counter
    BY LimitAssumption, BumpTyped DEF Counter, PendingRow
<1>2. TooManyAttempts(row) => Bump(row.attempts) > AttemptLimit
    BY DEF TooManyAttempts, Bump
<1>3. QED BY <1>1, <1>2 DEF Registered, Reissued, Counted, PendingRow, TooManyAttempts

\* An update of a row takes every column from it or from the copy, and all from
\* the copy when the row is the one the SELECT has found.
LEMMA ChangedRow ==
    ASSUME NEW row \in PendingRow, NEW base \in PendingRow, NEW copy \in PendingRow,
           NEW new, new = Changed(row, base, copy)
    PROVE  /\ new \in PendingRow
           /\ new.code \in {row.code, copy.code}
           /\ new.password \in {row.password, copy.password}
           /\ new.attempts \in {row.attempts, copy.attempts}
           /\ row = base => new.code = copy.code /\ new.password = copy.password
BY DEF Changed, PendingRow

LEMMA FoundTyped ==
    ASSUME TypeOK, NEW e \in Emails, NEW id
    PROVE  /\ Found(e, id) \in PendingRow \cup {Nil}
           /\ Found(e, id) # Nil => Found(e, id) = pending[e]
BY DEF TypeOK, Found

\* What a save does to the tables.
LEMMA SaveEffect ==
    ASSUME TypeOK, NEW r \in Requests, NEW copy \in PendingRow, SavePending(r, copy),
           req[r].email \in Emails
    PROVE  /\ pending' \in [Emails -> PendingRow \cup {Nil}]
           /\ mixed \subseteq mixed' /\ mixed' \subseteq Emails
           /\ \A d \in Emails \ {req[r].email} : pending'[d] = pending[d]
           /\ LET e == req[r].email
                  new == pending'[e]
              IN \/ new = pending[e]
                 \/ new = copy /\ pending[e] = Nil /\ req[r].base = Nil
                 \/ /\ pending[e] # Nil /\ new \in PendingRow
                    /\ new.code \in {pending[e].code, copy.code}
                    /\ new.password \in {pending[e].password, copy.password}
                    /\ new.attempts \in {pending[e].attempts, copy.attempts}
                    /\ \/ new.code = copy.code /\ new.password = copy.password
                       \/ e \in mixed'
<1> DEFINE e == req[r].email  base == req[r].base
<1>0. e \in Emails /\ base \in PendingRow \cup {Nil}
    BY SlotTyped
<1>1. CASE base = Nil /\ pending[e] = Nil /\ pending' = [pending EXCEPT ![e] = copy]
           /\ UNCHANGED mixed
    BY <1>0, <1>1 DEF TypeOK
<1>2. CASE UNCHANGED <<pending, mixed>>
    BY <1>2 DEF TypeOK
<1>3. CASE /\ base # Nil /\ Found(e, base.id) # Nil
           /\ pending' = [pending EXCEPT ![e] = Changed(pending[e], base, copy)]
           /\ mixed' = IF pending[e] = base THEN mixed ELSE mixed \cup {e}
    <2>1. PICK new : new = Changed(pending[e], base, copy)
        OBVIOUS
    <2>2. pending[e] \in PendingRow /\ pending[e] # Nil
        BY <1>0, <1>3, FoundTyped DEF TypeOK, Found
    <2>3. /\ new \in PendingRow
          /\ new.code \in {pending[e].code, copy.code}
          /\ new.password \in {pending[e].password, copy.password}
          /\ new.attempts \in {pending[e].attempts, copy.attempts}
          /\ pending[e] = base => new.code = copy.code /\ new.password = copy.password
        BY <1>0, <1>3, <2>1, <2>2, ChangedRow
    <2>4. pending' = [pending EXCEPT ![e] = new]
        BY <1>3, <2>1
    <2>5. /\ pending' \in [Emails -> PendingRow \cup {Nil}] /\ pending'[e] = new
          /\ \A d \in Emails \ {e} : pending'[d] = pending[d]
        BY <1>0, <2>3, <2>4 DEF TypeOK
    <2>6. /\ mixed \subseteq mixed' /\ mixed' \subseteq Emails
          /\ pending[e] = base \/ e \in mixed'
        BY <1>0, <1>3 DEF TypeOK
    <2>7. QED BY <2>2, <2>3, <2>5, <2>6
<1>4. QED BY <1>1, <1>2, <1>3 DEF SavePending

LEMMA SelectTyped ==
    ASSUME TypeOK, NEW r \in Requests,
           \/ RegisterSave(r) \/ VerifySave(r) \/ ResendSave(r)
    PROVE  /\ TypeOK'
           /\ UNCHANGED tables
           /\ \A x \in Requests \ {r} : req'[x] = req[x]
           /\ req'[r].email = req[r].email /\ req'[r].row = req[r].row
           /\ req'[r].base = Found(req[r].email, req[r].row.id)
           /\ \/ At(r, "registerSave") /\ req'[r].pc = "registerWrite"
              \/ At(r, "verifySave") /\ req'[r].pc = "verifyWrite"
              \/ At(r, "resendSave") /\ req'[r].pc = "resendWrite"
<1>1. PICK pc : /\ SelectPending(r, pc)
                /\ \/ At(r, "registerSave") /\ pc = "registerWrite"
                   \/ At(r, "verifySave") /\ pc = "verifyWrite"
                   \/ At(r, "resendSave") /\ pc = "resendWrite"
    BY DEF RegisterSave, VerifySave, ResendSave
<1>2. req[r].email \in Emails /\ req[r].row \in PendingRow
    BY <1>1, SlotTyped DEF At, RowPcs
<1>3. PICK base \in PendingRow \cup {Nil} : base = Found(req[r].email, req[r].row.id)
    BY <1>2, FoundTyped
<1>4. PICK new : new = [pc |-> pc, email |-> req[r].email, row |-> req[r].row,
                        base |-> base, identity |-> Nil]
    OBVIOUS
<1>5. new \in Request /\ new.pc = pc /\ new.email = req[r].email
      /\ new.row = req[r].row /\ new.base = base
    BY <1>1, <1>2, <1>4 DEF Request, WritePcs
<1>6. req' = [req EXCEPT ![r] = new] /\ UNCHANGED tables
    BY <1>1, <1>3, <1>4 DEF SelectPending
<1>7. req' \in [Requests -> Request] /\ req'[r] = new
      /\ \A x \in Requests \ {r} : req'[x] = req[x]
    BY <1>5, <1>6 DEF TypeOK
<1>8. TypeOK'
    BY <1>6, <1>7 DEF tables, TypeOK
<1>9. QED BY <1>1, <1>3, <1>5, <1>6, <1>7, <1>8

\* The row a registration makes.
LEMMA InsertRow ==
    ASSUME TypeOK, NEW r \in Requests, NEW c \in Codes, NEW pw \in Passwords,
           RegisterInsert(r, c, pw)
    PROVE  \E row \in PendingRow :
              /\ row.code = c /\ row.password = pw
              /\ pending' = [pending EXCEPT ![req[r].email] = row]
<1>1. PICK i \in Ids : pending' = [pending EXCEPT ![req[r].email] =
             [id |-> i, code |-> c, password |-> pw, attempts |-> 0]]
    BY DEF RegisterInsert
<1>2. PICK row : row = [id |-> i, code |-> c, password |-> pw, attempts |-> 0]
    OBVIOUS
<1>3. row \in PendingRow /\ row.code = c /\ row.password = pw
    BY <1>2, LimitAssumption DEF PendingRow, Counter
<1>4. QED BY <1>1, <1>2, <1>3

LEMMA RegisterTyped ==
    ASSUME TypeOK, NEW r \in Requests, NEW c \in Codes, NEW pw \in Passwords,
           RegisterInsert(r, c, pw) \/ RegisterWrite(r, c, pw)
    PROVE  TypeOK'
<1>1. req[r].email \in Emails
    BY SlotTyped DEF RegisterInsert, RegisterWrite, At
<1>2. pending' \in [Emails -> PendingRow \cup {Nil}] /\ mixed' \subseteq Emails
    <2>1. CASE RegisterInsert(r, c, pw)
        <3>1. PICK row \in PendingRow : pending' = [pending EXCEPT ![req[r].email] = row]
            BY <2>1, InsertRow
        <3>2. mixed' = mixed
            BY <2>1 DEF RegisterInsert
        <3>3. QED BY <1>1, <3>1, <3>2 DEF TypeOK
    <2>2. CASE RegisterWrite(r, c, pw)
        <3>1. req[r].row \in PendingRow
            BY <2>2, SlotTyped DEF RegisterWrite, At, WritePcs
        <3>2. Registered(req[r].row, c, pw) \in PendingRow
            BY <3>1, RowTyped
        <3>3. SavePending(r, Registered(req[r].row, c, pw))
            BY <2>2 DEF RegisterWrite
        <3>4. QED BY <1>1, <3>2, <3>3, SaveEffect
    <2>3. QED BY <2>1, <2>2
<1>3. QED BY <1>1, <1>2, IssueTyped, FinishTyped DEF RegisterInsert, RegisterWrite, TypeOK

\* The comparison only marks its code.
LEMMA ComparedTyped ==
    ASSUME TypeOK, NEW c \in Codes, Compared(c)
    PROVE  /\ codes' \in [Codes -> Code]
           /\ codes'[c].tried
           /\ codes'[c].email = codes[c].email /\ codes'[c].password = codes[c].password
           /\ \A d \in Codes \ {c} : codes'[d] = codes[d]
<1> DEFINE new == [codes[c] EXCEPT !.tried = TRUE]
<1>1. new \in Code /\ new.tried /\ new.email = codes[c].email
      /\ new.password = codes[c].password
    BY DEF TypeOK, Code
<1>2. codes' = [codes EXCEPT ![c] = new]
    BY DEF Compared
<1> HIDE DEF new
<1>3. QED BY <1>1, <1>2 DEF TypeOK

LEMMA VerifyWriteTyped ==
    ASSUME TypeOK, NEW r \in Requests, NEW matches \in BOOLEAN,
           VerifyWrite(r, matches)
    PROVE  TypeOK'
<1> DEFINE row == req[r].row
<1>1. req[r].email \in Emails /\ row \in PendingRow
    BY SlotTyped DEF VerifyWrite, At, WritePcs
<1>2. pending' \in [Emails -> PendingRow \cup {Nil}] /\ mixed' \subseteq Emails
    BY <1>1, SaveEffect DEF VerifyWrite
<1>3. codes' \in [Codes -> Code]
    <2>1. CASE codes' = codes
        BY <2>1 DEF TypeOK
    <2>2. CASE Compared(row.code)
        BY <1>1, <2>2, ComparedTyped DEF PendingRow
    <2>3. QED BY <2>1, <2>2 DEF VerifyWrite
<1>4. req' \in [Requests -> Request]
    <2>1. CASE Hold(r, "verifyUser", req[r].email, row, Nil)
        <3>1. [pc |-> "verifyUser", email |-> req[r].email, row |-> row,
               base |-> Nil, identity |-> Nil] \in Request
            BY <1>1 DEF Request, RowPcs
        <3>2. QED BY <2>1, <3>1, HoldTyped
    <2>2. CASE Finish(r)
        BY <2>2, FinishTyped
    <2>3. QED BY <2>1, <2>2 DEF VerifyWrite
<1>5. QED BY <1>2, <1>3, <1>4 DEF VerifyWrite, TypeOK

\* A step that only moves the request to its next call.
LEMMA GotoTyped ==
    ASSUME TypeOK, NEW r \in Requests, NEW pc, Goto(r, pc),
           \/ At(r, "verifyUser") /\ pc = "verifyDelete"
           \/ At(r, "oauthUser") /\ pc \in {"oauthCreate", "oauthConnect"}
    PROVE  req' \in [Requests -> Request]
<1>1. [req[r] EXCEPT !.pc = pc] \in Request
    <2>1. [req[r] EXCEPT !.pc = pc]
          = [pc |-> pc, email |-> req[r].email, row |-> req[r].row,
             base |-> req[r].base, identity |-> req[r].identity]
        <3>1. req[r] = [pc |-> req[r].pc, email |-> req[r].email, row |-> req[r].row,
                        base |-> req[r].base, identity |-> req[r].identity]
            BY SlotTyped
        <3>2. QED BY <3>1
    <2>2. CASE At(r, "verifyUser") /\ pc = "verifyDelete"
        BY <2>1, <2>2, SlotTyped DEF At, Request, RowPcs
    <2>3. CASE At(r, "oauthUser") /\ pc \in {"oauthCreate", "oauthConnect"}
        BY <2>1, <2>3, SlotTyped DEF At, Request, OAuthPcs
    <2>4. QED BY <2>2, <2>3
<1>2. QED BY <1>1 DEF Goto, TypeOK

LEMMA ResendTyped ==
    ASSUME TypeOK, NEW r \in Requests, NEW c \in Codes, ResendWrite(r, c)
    PROVE  TypeOK'
<1>1. req[r].email \in Emails /\ req[r].row \in PendingRow
    BY SlotTyped DEF ResendWrite, At, WritePcs
<1>2. Reissued(req[r].row, c) \in PendingRow /\ req[r].row.password \in Passwords
    <2>1. req[r].row.password \in Passwords
        BY <1>1 DEF PendingRow
    <2>2. QED BY <1>1, <2>1, RowTyped
<1>3. SavePending(r, Reissued(req[r].row, c))
    BY DEF ResendWrite
<1>4. pending' \in [Emails -> PendingRow \cup {Nil}] /\ mixed' \subseteq Emails
    BY <1>1, <1>2, <1>3, SaveEffect
<1>5. QED BY <1>1, <1>2, <1>4, IssueTyped, FinishTyped DEF ResendWrite, TypeOK

\* A request that reads.
LEMMA ReadTyped ==
    ASSUME TypeOK, NEW r \in Requests, NEW e \in Emails,
           \/ RegisterRead(r, e) \/ VerifyRead(r, e) \/ ResendRead(r, e)
           \/ RegisterFind(r)
           \/ \E i \in Identities : OAuthFind(r, i, e)
    PROVE  TypeOK'
<1>1. CASE RegisterRead(r, e)
    <2>1. [pc |-> "registerFind", email |-> e, row |-> Nil, base |-> Nil,
           identity |-> Nil] \in Request
        BY DEF Request
    <2>2. QED BY <1>1, <2>1, HoldTyped DEF RegisterRead, tables, TypeOK
<1>2. CASE VerifyRead(r, e)
    <2>1. pending[e] \in PendingRow /\ Counted(pending[e]) \in PendingRow
        BY <1>2, BumpTyped DEF VerifyRead, TypeOK, Counted, PendingRow
    <2>2. [pc |-> "verifySave", email |-> e, row |-> Counted(pending[e]),
           base |-> Nil, identity |-> Nil] \in Request
        BY <2>1 DEF Request, RowPcs
    <2>3. QED BY <1>2, <2>2, HoldTyped DEF VerifyRead, tables, TypeOK
<1>3. CASE ResendRead(r, e)
    <2>1. pending[e] \in PendingRow
        BY <1>3 DEF ResendRead, TypeOK
    <2>2. [pc |-> "resendSave", email |-> e, row |-> pending[e],
           base |-> Nil, identity |-> Nil] \in Request
        BY <2>1 DEF Request, RowPcs
    <2>3. QED BY <1>3, <2>2, HoldTyped DEF ResendRead, tables, TypeOK
<1>4. CASE RegisterFind(r)
    <2>1. req[r].email \in Emails
        BY <1>4, SlotTyped DEF RegisterFind, At
    <2>2. [pc |-> IF pending[req[r].email] = Nil THEN "registerInsert" ELSE "registerSave",
           email |-> req[r].email, row |-> pending[req[r].email],
           base |-> Nil, identity |-> Nil] \in Request
        BY <2>1 DEF Request, TypeOK, RowPcs
    <2>3. QED BY <1>4, <2>2, HoldTyped DEF RegisterFind, tables, TypeOK
<1>5. ASSUME NEW i \in Identities, OAuthFind(r, i, e)
      PROVE  TypeOK'
    <2>1. [pc |-> "oauthUser", email |-> e, row |-> Nil, base |-> Nil,
           identity |-> i] \in Request
        BY DEF Request, OAuthPcs
    <2>2. QED BY <1>5, <2>1, HoldTyped DEF OAuthFind, tables, TypeOK
<1>6. QED BY <1>1, <1>2, <1>3, <1>4, <1>5

\* The other steps.
LEMMA OtherTyped ==
    ASSUME TypeOK, NEW r \in Requests,
           \/ VerifyUser(r) \/ VerifyDelete(r) \/ VerifySession(r)
           \/ OAuthUser(r) \/ OAuthCreate(r) \/ Fail(r)
           \/ \E k \in ConnectionIds : OAuthConnect(r, k)
    PROVE  TypeOK'
<1>1. CASE VerifyUser(r)
    <2>1. req[r].email \in Emails /\ req[r].row \in PendingRow
        BY <1>1, SlotTyped DEF VerifyUser, At, RowPcs
    <2>2. accounts' \in [Emails -> Account \cup {Nil}]
        BY <1>1, <2>1 DEF VerifyUser, InsertAccount, TypeOK, Account, PendingRow
    <2>3. QED BY <1>1, <2>2, GotoTyped DEF VerifyUser, TypeOK
<1>2. CASE VerifyDelete(r)
    <2>1. req[r].email \in Emails
        BY <1>2, SlotTyped DEF VerifyDelete, At
    <2>2. [pc |-> "verifySession", email |-> req[r].email, row |-> Nil,
           base |-> Nil, identity |-> Nil] \in Request
        BY <2>1 DEF Request
    <2>3. req' \in [Requests -> Request]
        BY <1>2, <2>2, HoldTyped DEF VerifyDelete
    <2>4. QED BY <1>2, <2>1, <2>3 DEF VerifyDelete, TypeOK
<1>3. CASE VerifySession(r)
    <2>1. signIns' \in [Emails -> 0..2]
        BY <1>3, SlotTyped DEF VerifySession, At, TypeOK
    <2>2. QED BY <1>3, <2>1, FinishTyped DEF VerifySession, TypeOK
<1>4. CASE OAuthUser(r)
    BY <1>4, GotoTyped DEF OAuthUser, tables, TypeOK
<1>5. CASE OAuthCreate(r)
    <2>1. req[r].email \in Emails
        BY <1>5, SlotTyped DEF OAuthCreate, At
    <2>2. accounts' \in [Emails -> Account \cup {Nil}]
        BY <1>5, <2>1 DEF OAuthCreate, InsertAccount, TypeOK, Account
    <2>3. QED BY <1>5, <2>2, FinishTyped DEF OAuthCreate, TypeOK
<1>6. CASE Fail(r)
    BY <1>6, FinishTyped DEF Fail, tables, TypeOK
<1>7. ASSUME NEW k \in ConnectionIds, OAuthConnect(r, k)
      PROVE  TypeOK'
    <2>1. [identity |-> req[r].identity, email |-> req[r].email] \in Connection
        BY <1>7, SlotTyped DEF OAuthConnect, At, Connection, OAuthPcs
    <2>2. QED BY <1>7, <2>1, FinishTyped DEF OAuthConnect, TypeOK
<1>8. QED BY <1>1, <1>2, <1>3, <1>4, <1>5, <1>6, <1>7

-----------------------------------------------------------------------------
(* Copies, rows and accounts come from codes.                              *)

\* A code keeps what it was issued for, and that it was compared, and a mixed
\* row is remembered.
CodesKept ==
    /\ \A c \in Codes :
          /\ codes[c].email # Nil =>
                codes'[c].email = codes[c].email /\ codes'[c].password = codes[c].password
          /\ codes[c].tried => codes'[c].tried
    /\ mixed \subseteq mixed'

\* The password of an account of e comes from codes.
AccountFrom(e, pw) ==
    \E c, d \in Codes : /\ codes[c].email = e /\ codes[c].password = pw
                        /\ codes[d].email = e /\ codes[d].tried
                        /\ c = d \/ e \in mixed

\* It is enough that what a step has changed comes from a code.
FromCodes ==
    /\ \A e \in Emails :
          \/ pending'[e] = pending[e] \/ pending'[e] = Nil
          \/ \E row \in PendingRow : pending'[e] = row /\ Issued(e, row)'
    /\ \A r \in Requests :
          req'[r] = req[r] \/ \E q \in Request : req'[r] = q /\ SlotHasCode(q)'
    /\ \A e \in Emails :
          \/ accounts'[e] = accounts[e] \/ accounts'[e].password = Nil
          \/ \E pw : accounts'[e].password = pw /\ AccountFrom(e, pw)'
    /\ \A e \in Emails :
          \/ latest'[e] = latest[e]
          \/ latest'[e] \in Codes /\ codes'[latest'[e]].email # Nil

CodeInv == RowsHaveCodes /\ SlotsHaveCodes /\ AccountsComeFromCodes /\ LatestIssued

LEMMA IssuedKept ==
    ASSUME CodesKept, NEW e \in Emails, NEW row \in PendingRow, Issued(e, row)
    PROVE  Issued(e, row)'
<1>1. row.code \in Codes /\ e # Nil
    BY NilAssumption DEF PendingRow
<1>2. QED BY <1>1 DEF CodesKept, Issued, IssuedFor

LEMMA SlotKept ==
    ASSUME TypeOK, CodesKept, NEW q \in Request, SlotHasCode(q)
    PROVE  SlotHasCode(q)'
<1>1. q.row # Nil => q.row \in PendingRow /\ q.email \in Emails
    BY DEF Request, Idle, RowPcs, WritePcs, OAuthPcs
<1>2. q.pc = "verifyUser" => q.row \in PendingRow
    BY DEF Request, Idle, RowPcs, WritePcs, OAuthPcs
<1>3. q.row # Nil => Issued(q.email, q.row)'
    BY <1>1, IssuedKept DEF SlotHasCode
<1>4. q.pc = "verifyUser" => codes'[q.row.code].tried
    BY <1>2 DEF SlotHasCode, CodesKept, PendingRow
<1>5. QED BY <1>3, <1>4 DEF SlotHasCode

LEMMA CodesStep ==
    ASSUME TypeOK, CodeInv, TypeOK', CodesKept, FromCodes
    PROVE  CodeInv'
<1>1. ASSUME NEW e \in Emails, pending'[e] # Nil
      PROVE  Issued(e, pending[e])'
    <2>1. CASE pending'[e] = pending[e]
        <3>1. PICK row \in PendingRow : row = pending[e]
            BY <1>1, <2>1 DEF TypeOK
        <3>2. Issued(e, row)
            BY <1>1, <2>1, <3>1 DEF CodeInv, RowsHaveCodes
        <3>3. Issued(e, row)'
            BY <3>2, IssuedKept
        <3>4. QED BY <2>1, <3>1, <3>3 DEF Issued
    <2>2. CASE \E row \in PendingRow : pending'[e] = row /\ Issued(e, row)'
        BY <2>2 DEF Issued
    <2>3. QED BY <1>1, <2>1, <2>2 DEF FromCodes
<1>2. ASSUME NEW r \in Requests
      PROVE  SlotHasCode(req[r])'
    <2>1. PICK q \in Request : req'[r] = q /\ SlotHasCode(q)'
        <3>1. CASE req'[r] = req[r]
            <4>1. PICK q \in Request : q = req[r]
                BY DEF TypeOK
            <4>2. SlotHasCode(q)
                BY <4>1 DEF CodeInv, SlotsHaveCodes
            <4>3. QED BY <3>1, <4>1, <4>2, SlotKept
        <3>2. QED BY <3>1 DEF FromCodes
    <2>2. QED BY <2>1 DEF SlotHasCode, Issued, IssuedFor
<1>3. ASSUME NEW e \in Emails, accounts'[e] # Nil, accounts'[e].password # Nil
      PROVE  \E pw : accounts'[e].password = pw /\ AccountFrom(e, pw)'
    <2>1. CASE accounts'[e] = accounts[e]
        <3>1. PICK pw : pw = accounts[e].password
            OBVIOUS
        <3>2. AccountFrom(e, pw)
            BY <1>3, <2>1, <3>1 DEF CodeInv, AccountsComeFromCodes, AccountFrom
        <3>3. AccountFrom(e, pw)'
            BY <3>2, NilAssumption DEF AccountFrom, CodesKept
        <3>4. QED BY <2>1, <3>1, <3>3
    <2>2. QED BY <1>3, <2>1 DEF FromCodes
<1>4. ASSUME NEW e \in Emails, latest'[e] # Nil
      PROVE  codes'[latest'[e]].email # Nil
    <2>1. CASE latest'[e] = latest[e]
        BY <1>4, <2>1 DEF CodeInv, LatestIssued, CodesKept, TypeOK
    <2>2. QED BY <1>4, <2>1 DEF FromCodes
<1>5. AccountsComeFromCodes'
    BY <1>3 DEF AccountsComeFromCodes, AccountFrom
<1>6. QED BY <1>1, <1>2, <1>4, <1>5
          DEF CodeInv, RowsHaveCodes, SlotsHaveCodes, LatestIssued

\* A step that leaves the codes alone keeps them.
LEMMA CodesSame == codes' = codes /\ mixed' = mixed => CodesKept
BY DEF CodesKept

LEMMA IdleHasCode == SlotHasCode(Idle) /\ Idle \in Request
BY DEF SlotHasCode, Idle, Request

LEMMA FinishCodes ==
    ASSUME TypeOK, NEW r \in Requests, Finish(r)
    PROVE  \A x \in Requests :
              req'[x] = req[x] \/ \E q \in Request : req'[x] = q /\ SlotHasCode(q)'
<1>1. Idle \in Request /\ SlotHasCode(Idle)'
    BY DEF SlotHasCode, Idle, Request
<1>2. \A x \in Requests : req'[x] = req[x] \/ req'[x] = Idle
    BY DEF Finish, TypeOK
<1>3. QED BY <1>1, <1>2

\* A saved copy leaves a row that comes from codes, if the copy does.
LEMMA SavedCodes ==
    ASSUME TypeOK, CodeInv, CodesKept, NEW r \in Requests, NEW copy \in PendingRow,
           SavePending(r, copy), NEW e \in Emails, e = req[r].email, Issued(e, copy)'
    PROVE  \A d \in Emails :
              \/ pending'[d] = pending[d]
              \/ \E row \in PendingRow : pending'[d] = row /\ Issued(d, row)'
<1>1. \A d \in Emails \ {e} : pending'[d] = pending[d]
    BY SaveEffect
<1>2. PICK new : new = pending'[e]
    OBVIOUS
<1>3. \/ new = pending[e] \/ new = copy
      \/ /\ pending[e] # Nil /\ new \in PendingRow
         /\ new.code \in {pending[e].code, copy.code}
         /\ new.password \in {pending[e].password, copy.password}
         /\ \/ new.code = copy.code /\ new.password = copy.password
            \/ e \in mixed'
    BY <1>2, SaveEffect
<1>4. CASE new = copy
    BY <1>1, <1>2, <1>4
<1>5. CASE /\ pending[e] # Nil /\ new \in PendingRow
           /\ new.code \in {pending[e].code, copy.code}
           /\ new.password \in {pending[e].password, copy.password}
           /\ \/ new.code = copy.code /\ new.password = copy.password
              \/ e \in mixed'
    <2>1. PICK old \in PendingRow : old = pending[e]
        BY <1>5 DEF TypeOK
    <2>2. Issued(e, old)'
        BY <1>5, <2>1, IssuedKept DEF CodeInv, RowsHaveCodes
    <2>3. codes'[new.code].email = e
        BY <1>5, <2>1, <2>2 DEF Issued
    <2>4. \E c \in Codes : IssuedFor(c, e, new.password)'
        BY <1>5, <2>1, <2>2 DEF Issued
    <2>5. codes'[new.code].password = new.password \/ e \in mixed'
        BY <1>5 DEF Issued
    <2>6. Issued(e, new)'
        BY <2>3, <2>4, <2>5 DEF Issued
    <2>7. QED BY <1>1, <1>2, <1>5, <2>6
<1>6. QED BY <1>1, <1>2, <1>3, <1>4, <1>5

\* A code that is issued.
LEMMA IssueCodes ==
    ASSUME TypeOK, NEW c \in Codes, NEW e \in Emails, NEW pw \in Passwords,
           Issue(c, e, pw), mixed \subseteq mixed'
    PROVE  /\ CodesKept
           /\ \A row \in PendingRow :
                 row.code = c /\ row.password = pw => Issued(e, row)'
           /\ \A d \in Emails :
                 \/ latest'[d] = latest[d]
                 \/ latest'[d] \in Codes /\ codes'[latest'[d]].email # Nil
<1>1. /\ codes[c].email = Nil
      /\ codes'[c].email = e /\ codes'[c].password = pw
      /\ \A d \in Codes \ {c} : codes'[d] = codes[d]
    BY IssueTyped DEF IssuedFor
<1>2. codes'[c].tried = codes[c].tried
    BY DEF Issue, TypeOK, Code
<1>3. CodesKept
    BY <1>1, <1>2 DEF CodesKept
<1>4. \A row \in PendingRow : row.code = c /\ row.password = pw => Issued(e, row)'
    BY <1>1 DEF Issued, IssuedFor
<1>5. \A d \in Emails :
          \/ latest'[d] = latest[d]
          \/ latest'[d] \in Codes /\ codes'[latest'[d]].email # Nil
    <2>1. latest' = [latest EXCEPT ![e] = c]
        BY DEF Issue
    <2>2. codes'[c].email # Nil
        BY <1>1, NilAssumption
    <2>3. QED BY <2>1, <2>2 DEF TypeOK
<1>6. QED BY <1>3, <1>4, <1>5

LEMMA RegisterCodes ==
    ASSUME TypeOK, CodeInv, NEW r \in Requests, NEW c \in Codes, NEW pw \in Passwords,
           RegisterInsert(r, c, pw) \/ RegisterWrite(r, c, pw)
    PROVE  CodesKept /\ FromCodes
<1>1. PICK e \in Emails : e = req[r].email
    BY SlotTyped DEF RegisterInsert, RegisterWrite, At
<1>2. Issue(c, e, pw) /\ Finish(r) /\ accounts' = accounts
    BY <1>1 DEF RegisterInsert, RegisterWrite
<1>3. mixed \subseteq mixed' /\
      \A d \in Emails :
          \/ pending'[d] = pending[d]
          \/ \E row \in PendingRow : pending'[d] = row /\ Issued(d, row)'
    <2>1. CASE RegisterInsert(r, c, pw)
        <3>1. mixed' = mixed
            BY <2>1 DEF RegisterInsert
        <3>2. PICK row \in PendingRow : /\ row.code = c /\ row.password = pw
                                        /\ pending' = [pending EXCEPT ![e] = row]
            BY <1>1, <2>1, InsertRow
        <3>3. Issued(e, row)'
            BY <1>2, <3>1, <3>2, IssueCodes
        <3>4. \A d \in Emails : pending'[d] = pending[d] \/ (d = e /\ pending'[d] = row)
            BY <3>2 DEF TypeOK
        <3>5. QED BY <3>1, <3>3, <3>4
    <2>2. CASE RegisterWrite(r, c, pw)
        <3>1. req[r].row \in PendingRow
            BY <2>2, SlotTyped DEF RegisterWrite, At, WritePcs
        <3>2. PICK copy \in PendingRow : /\ copy = Registered(req[r].row, c, pw)
                                         /\ copy.code = c /\ copy.password = pw
            BY <3>1, RowTyped
        <3>3. SavePending(r, copy)
            BY <2>2, <3>2 DEF RegisterWrite
        <3>4. mixed \subseteq mixed'
            BY <1>1, <3>3, SaveEffect
        <3>5. CodesKept /\ Issued(e, copy)'
            BY <1>2, <3>2, <3>4, IssueCodes
        <3>6. QED BY <1>1, <3>3, <3>4, <3>5, SavedCodes
    <2>3. QED BY <2>1, <2>2
<1>4. /\ CodesKept
      /\ \A d \in Emails :
          \/ latest'[d] = latest[d]
          \/ latest'[d] \in Codes /\ codes'[latest'[d]].email # Nil
    BY <1>2, <1>3, IssueCodes
<1>5. QED BY <1>2, <1>3, <1>4, FinishCodes DEF FromCodes

LEMMA ResendCodes ==
    ASSUME TypeOK, CodeInv, NEW r \in Requests, NEW c \in Codes, ResendWrite(r, c)
    PROVE  CodesKept /\ FromCodes
<1>1. PICK e \in Emails : e = req[r].email
    BY SlotTyped DEF ResendWrite, At
<1>2. PICK pw \in Passwords : pw = req[r].row.password
    BY SlotTyped DEF ResendWrite, At, WritePcs, PendingRow
<1>3. Issue(c, e, pw) /\ Finish(r) /\ accounts' = accounts
    BY <1>1, <1>2 DEF ResendWrite
<1>4. PICK copy \in PendingRow : /\ copy = Reissued(req[r].row, c)
                                 /\ copy.code = c /\ copy.password = pw
    <2>1. req[r].row \in PendingRow
        BY SlotTyped DEF ResendWrite, At, WritePcs
    <2>2. QED BY <1>2, <2>1, RowTyped
<1>5. SavePending(r, copy)
    BY <1>4 DEF ResendWrite
<1>6. mixed \subseteq mixed'
    BY <1>1, <1>5, SaveEffect
<1>7. /\ CodesKept /\ Issued(e, copy)'
      /\ \A d \in Emails :
          \/ latest'[d] = latest[d]
          \/ latest'[d] \in Codes /\ codes'[latest'[d]].email # Nil
    BY <1>3, <1>4, <1>6, IssueCodes
<1>8. \A d \in Emails :
          \/ pending'[d] = pending[d]
          \/ \E row \in PendingRow : pending'[d] = row /\ Issued(d, row)'
    BY <1>1, <1>5, <1>7, SavedCodes
<1>9. QED BY <1>3, <1>7, <1>8, FinishCodes DEF FromCodes

\* The copy is saved, and the comparison counts.
LEMMA VerifyCodes ==
    ASSUME TypeOK, CodeInv, NEW r \in Requests, NEW matches \in BOOLEAN,
           VerifyWrite(r, matches)
    PROVE  CodesKept /\ FromCodes
<1>1. PICK e \in Emails, row \in PendingRow : e = req[r].email /\ row = req[r].row
    BY SlotTyped DEF VerifyWrite, At, WritePcs
<1>2. row.code \in Codes /\ SavePending(r, row)
    BY <1>1 DEF VerifyWrite, PendingRow
<1>3. codes' = codes \/ Compared(row.code)
    BY <1>1 DEF VerifyWrite
<1>4. CodesKept
    <2>1. mixed \subseteq mixed'
        BY <1>1, <1>2, SaveEffect
    <2>2. QED BY <1>2, <1>3, <2>1, ComparedTyped DEF CodesKept
<1>5. Issued(e, row)'
    <2>1. Issued(e, row)
        BY <1>1, NilAssumption DEF CodeInv, SlotsHaveCodes, SlotHasCode
    <2>2. QED BY <1>4, <2>1, IssuedKept
<1>6. \A d \in Emails :
          \/ pending'[d] = pending[d]
          \/ \E new \in PendingRow : pending'[d] = new /\ Issued(d, new)'
    BY <1>1, <1>2, <1>4, <1>5, SavedCodes
<1>7. \A x \in Requests :
          req'[x] = req[x] \/ \E q \in Request : req'[x] = q /\ SlotHasCode(q)'
    <2>1. CASE Finish(r)
        BY <2>1, FinishCodes
    <2>2. CASE Compared(row.code) /\ Hold(r, "verifyUser", e, row, Nil)
        <3>1. PICK q : q = [pc |-> "verifyUser", email |-> e, row |-> row,
                            base |-> Nil, identity |-> Nil]
            OBVIOUS
        <3>2. q \in Request /\ q.pc = "verifyUser" /\ q.email = e /\ q.row = row
            BY <3>1 DEF Request, RowPcs
        <3>3. codes'[row.code].tried
            BY <1>2, <2>2, ComparedTyped
        <3>4. SlotHasCode(q)'
            BY <1>5, <3>2, <3>3 DEF SlotHasCode
        <3>5. req' = [req EXCEPT ![r] = q]
            BY <2>2, <3>1 DEF Hold
        <3>6. \A x \in Requests : req'[x] = req[x] \/ req'[x] = q
            BY <3>5 DEF TypeOK
        <3>7. QED BY <3>2, <3>4, <3>6
    <2>3. QED BY <1>1, <2>1, <2>2 DEF VerifyWrite
<1>8. accounts' = accounts /\ latest' = latest
    BY DEF VerifyWrite
<1>9. QED BY <1>4, <1>6, <1>7, <1>8 DEF FromCodes

\* A request that reads takes the code of the row with it.
LEMMA ReadCodes ==
    ASSUME TypeOK, CodeInv, TypeOK', NEW r \in Requests, NEW e \in Emails,
           \/ RegisterRead(r, e) \/ VerifyRead(r, e) \/ ResendRead(r, e)
           \/ RegisterFind(r)
           \/ \E i \in Identities : OAuthFind(r, i, e)
    PROVE  CodesKept /\ FromCodes
<1>1. PICK pc, d, row, i :
          /\ Hold(r, pc, d, row, i) /\ UNCHANGED tables /\ pc # "verifyUser"
          /\ \/ row = Nil
             \/ d \in Emails /\ pending[d] # Nil
                /\ (row = pending[d] \/ row = Counted(pending[d]))
    <2>1. CASE RegisterRead(r, e)
        BY <2>1 DEF RegisterRead
    <2>2. CASE VerifyRead(r, e)
        BY <2>2 DEF VerifyRead
    <2>3. CASE ResendRead(r, e)
        BY <2>3 DEF ResendRead
    <2>4. CASE RegisterFind(r)
        <3>1. PICK pc : /\ pc \in {"registerInsert", "registerSave"}
                        /\ Hold(r, pc, req[r].email, pending[req[r].email], Nil)
            BY <2>4 DEF RegisterFind
        <3>2. req[r].email \in Emails /\ UNCHANGED tables
            BY <2>4, SlotTyped DEF RegisterFind, At
        <3>3. PICK d, row :
                  d = req[r].email /\ d \in Emails /\ row = pending[d]
            BY <3>2
        <3>4. Hold(r, pc, d, row, Nil) /\ pc # "verifyUser"
            BY <3>1, <3>3
        <3>5. row = Nil \/ (d \in Emails /\ pending[d] # Nil /\ row = pending[d])
            BY <3>3
        <3>6. QED BY <3>2, <3>4, <3>5
    <2>5. CASE \E i \in Identities : OAuthFind(r, i, e)
        BY <2>5 DEF OAuthFind
    <2>6. QED BY <2>1, <2>2, <2>3, <2>4, <2>5
<1>2. row # Nil => Issued(d, row)
    <2>1. ASSUME row # Nil PROVE Issued(d, row)
        <3>1. PICK old \in PendingRow : old = pending[d]
            BY <1>1, <2>1 DEF TypeOK
        <3>2. Issued(d, old)
            BY <1>1, <2>1, <3>1 DEF CodeInv, RowsHaveCodes
        <3>3. row.code = old.code /\ row.password = old.password
            BY <1>1, <2>1, <3>1, RowTyped DEF PendingRow
        <3>4. QED BY <3>2, <3>3 DEF Issued
    <2>2. QED BY <2>1
<1>3. PICK q : q = [pc |-> pc, email |-> d, row |-> row, base |-> Nil, identity |-> i]
    OBVIOUS
<1>4. req'[r] = q /\ \A x \in Requests \ {r} : req'[x] = req[x]
    BY <1>1, <1>3 DEF Hold, TypeOK
<1>5. q \in Request /\ q.pc = pc /\ q.email = d /\ q.row = row
    BY <1>3, <1>4 DEF TypeOK
<1>6. UNCHANGED <<codes, mixed>>
    BY <1>1 DEF tables
<1>7. SlotHasCode(q)'
    BY <1>1, <1>2, <1>5, <1>6 DEF SlotHasCode, Issued, IssuedFor
<1>8. QED BY <1>1, <1>4, <1>5, <1>7 DEF CodesKept, FromCodes, tables

\* So does one that selects the row it will save.
LEMMA SelectCodes ==
    ASSUME TypeOK, CodeInv, NEW r \in Requests,
           \/ RegisterSave(r) \/ VerifySave(r) \/ ResendSave(r)
    PROVE  CodesKept /\ FromCodes
<1>1. /\ TypeOK' /\ UNCHANGED tables
      /\ \A x \in Requests \ {r} : req'[x] = req[x]
      /\ req'[r].email = req[r].email /\ req'[r].row = req[r].row
      /\ req'[r].pc # "verifyUser"
    BY SelectTyped
<1>2. PICK q \in Request : q = req'[r]
    BY <1>1 DEF TypeOK
<1>3. SlotHasCode(req[r])
    BY DEF CodeInv, SlotsHaveCodes
<1>4. SlotHasCode(q)'
    BY <1>1, <1>2, <1>3 DEF SlotHasCode, Issued, IssuedFor, tables
<1>5. QED BY <1>1, <1>2, <1>4 DEF CodesKept, FromCodes, tables

\* The account gets the password of the copy whose code was compared.
LEMMA UserCodes ==
    ASSUME TypeOK, CodeInv, TypeOK', NEW r \in Requests, VerifyUser(r)
    PROVE  CodesKept /\ FromCodes
<1>1. PICK e \in Emails, row \in PendingRow : e = req[r].email /\ row = req[r].row
    BY SlotTyped DEF VerifyUser, At, RowPcs
<1>2. /\ Issued(e, row) /\ codes[row.code].tried /\ row.code \in Codes
      /\ req[r].pc = "verifyUser"
    BY <1>1, NilAssumption
       DEF CodeInv, SlotsHaveCodes, SlotHasCode, PendingRow, VerifyUser, At
<1>3. UNCHANGED <<codes, pending, latest, mixed>>
    BY DEF VerifyUser
<1>4. /\ accounts'[e].password = row.password
      /\ \A d \in Emails \ {e} : accounts'[d] = accounts[d]
    BY <1>1 DEF VerifyUser, InsertAccount, TypeOK
<1>5. /\ req'[r].row = row /\ req'[r].email = e /\ req'[r].pc # "verifyUser"
      /\ \A x \in Requests \ {r} : req'[x] = req[x]
    <2>1. req[r] = [pc |-> req[r].pc, email |-> e, row |-> row,
                    base |-> req[r].base, identity |-> req[r].identity]
        BY <1>1, SlotTyped
    <2>2. req' = [req EXCEPT ![r] = [req[r] EXCEPT !.pc = "verifyDelete"]]
        BY DEF VerifyUser, Goto
    <2>3. [req[r] EXCEPT !.pc = "verifyDelete"]
          = [pc |-> "verifyDelete", email |-> e, row |-> row,
             base |-> req[r].base, identity |-> req[r].identity]
        BY <2>1
    <2>4. QED BY <2>2, <2>3 DEF TypeOK
<1>6. PICK q \in Request : q = req'[r]
    BY DEF TypeOK
<1>7. SlotHasCode(q)'
    BY <1>2, <1>3, <1>5, <1>6 DEF SlotHasCode, Issued, IssuedFor
<1>8. PICK pw : pw = row.password
    OBVIOUS
<1>9. AccountFrom(e, pw)'
    <2>1. PICK c \in Codes : IssuedFor(c, e, pw)
        BY <1>2, <1>8 DEF Issued
    <2>2. codes[row.code].password = pw \/ e \in mixed
        BY <1>2, <1>8 DEF Issued
    <2>3. codes[row.code].email = e
        BY <1>2 DEF Issued
    <2>4. AccountFrom(e, pw)
        BY <1>2, <2>1, <2>2, <2>3 DEF AccountFrom, IssuedFor
    <2>5. QED BY <1>3, <2>4 DEF AccountFrom
<1>10. \A x \in Requests :
          req'[x] = req[x] \/ \E p \in Request : req'[x] = p /\ SlotHasCode(p)'
    BY <1>5, <1>6, <1>7
<1>11. \A d \in Emails :
          \/ accounts'[d] = accounts[d]
          \/ \E p : accounts'[d].password = p /\ AccountFrom(d, p)'
    BY <1>4, <1>8, <1>9
<1>12. QED BY <1>3, <1>10, <1>11 DEF CodesKept, FromCodes

LEMMA OtherCodes ==
    ASSUME TypeOK, CodeInv, TypeOK', NEW r \in Requests,
           \/ VerifyDelete(r) \/ VerifySession(r)
           \/ OAuthUser(r) \/ OAuthCreate(r) \/ Fail(r)
           \/ \E k \in ConnectionIds : OAuthConnect(r, k)
    PROVE  CodesKept /\ FromCodes
<1>1. UNCHANGED <<codes, latest, mixed>>
    BY DEF VerifyDelete, VerifySession, OAuthUser, OAuthCreate, OAuthConnect, Fail,
           tables
<1>2. \A e \in Emails : pending'[e] = pending[e] \/ pending'[e] = Nil
    BY DEF VerifyDelete, VerifySession, OAuthUser, OAuthCreate, OAuthConnect, Fail,
           tables, TypeOK
<1>3. \A e \in Emails : accounts'[e] = accounts[e] \/ accounts'[e].password = Nil
    BY DEF VerifyDelete, VerifySession, OAuthUser, OAuthCreate, OAuthConnect, Fail,
           tables, TypeOK, InsertAccount
<1>4. /\ \A x \in Requests \ {r} : req'[x] = req[x]
      /\ req'[r].row = Nil /\ req'[r].pc # "verifyUser"
    <2>1. CASE VerifyDelete(r)
        BY <2>1 DEF VerifyDelete, Hold, TypeOK
    <2>2. CASE OAuthUser(r)
        <3>1. req[r].row = Nil /\ req[r].base = Nil
            BY <2>2, SlotTyped DEF OAuthUser, At, OAuthPcs
        <3>2. req[r] = [pc |-> req[r].pc, email |-> req[r].email, row |-> req[r].row,
                        base |-> req[r].base, identity |-> req[r].identity]
            BY SlotTyped
        <3>3. PICK pc \in {"oauthCreate", "oauthConnect"} :
                  req' = [req EXCEPT ![r] = [req[r] EXCEPT !.pc = pc]]
            BY <2>2 DEF OAuthUser, Goto
        <3>4. [req[r] EXCEPT !.pc = pc] = [pc |-> pc, email |-> req[r].email,
                  row |-> req[r].row, base |-> req[r].base,
                  identity |-> req[r].identity]
            BY <3>2
        <3>5. QED BY <3>1, <3>3, <3>4 DEF TypeOK
    <2>3. CASE Finish(r)
        BY <2>3 DEF Finish, TypeOK, Idle
    <2>4. QED BY <2>1, <2>2, <2>3 DEF VerifySession, OAuthCreate, OAuthConnect, Fail
<1>5. PICK q \in Request : q = req'[r]
    BY DEF TypeOK
<1>6. SlotHasCode(q)'
    BY <1>4, <1>5 DEF SlotHasCode
<1>7. \A x \in Requests :
          req'[x] = req[x] \/ \E p \in Request : req'[x] = p /\ SlotHasCode(p)'
    BY <1>4, <1>5, <1>6
<1>8. QED BY <1>1, <1>2, <1>3, <1>7 DEF CodesKept, FromCodes

LEMMA ExpireStep ==
    ASSUME TypeOK, CodeInv, NEW c \in Codes, ExpireCode(c)
    PROVE  TypeOK' /\ CodesKept /\ FromCodes
<1>1. \A d \in Codes : /\ codes'[d].email = codes[d].email
                       /\ codes'[d].password = codes[d].password
                       /\ codes'[d].tried = codes[d].tried
    BY DEF ExpireCode, TypeOK, Code
<1>2. codes' \in [Codes -> Code]
    BY DEF ExpireCode, TypeOK, Code
<1>3. QED BY <1>1, <1>2 DEF ExpireCode, TypeOK, CodesKept, FromCodes

\* Every step keeps types and codes.
LEMMA StepCodes ==
    ASSUME TypeOK, CodeInv, [Next]_vars
    PROVE  TypeOK' /\ CodeInv'
<1>1. CASE UNCHANGED vars
    <2>1. TypeOK' /\ CodesKept /\ FromCodes
        BY <1>1 DEF vars, TypeOK, CodesKept, FromCodes
    <2>2. QED BY <2>1, CodesStep
<1>2. ASSUME NEW c \in Codes, ExpireCode(c)
      PROVE  TypeOK' /\ CodeInv'
    BY <1>2, ExpireStep, CodesStep
<1>3. ASSUME NEW r \in Requests, Step(r)
      PROVE  TypeOK' /\ CodeInv'
    <2>1. ASSUME NEW c \in Codes, NEW pw \in Passwords,
                 RegisterInsert(r, c, pw) \/ RegisterWrite(r, c, pw)
          PROVE  TypeOK' /\ CodeInv'
        BY <2>1, RegisterTyped, RegisterCodes, CodesStep
    <2>2. ASSUME NEW c \in Codes, ResendWrite(r, c)
          PROVE  TypeOK' /\ CodeInv'
        BY <2>2, ResendTyped, ResendCodes, CodesStep
    <2>3. ASSUME NEW matches \in BOOLEAN, VerifyWrite(r, matches)
          PROVE  TypeOK' /\ CodeInv'
        BY <2>3, VerifyWriteTyped, VerifyCodes, CodesStep
    <2>4. CASE VerifyUser(r)
        BY <2>4, OtherTyped, UserCodes, CodesStep
    <2>5. CASE \/ VerifyDelete(r) \/ VerifySession(r)
               \/ OAuthUser(r) \/ OAuthCreate(r) \/ Fail(r)
               \/ \E k \in ConnectionIds : OAuthConnect(r, k)
        BY <2>5, OtherTyped, OtherCodes, CodesStep
    <2>6. CASE RegisterFind(r)
        <3>1. req[r].email \in Emails
            BY <2>6, SlotTyped DEF RegisterFind, At
        <3>2. QED BY <2>6, <3>1, ReadTyped, ReadCodes, CodesStep
    <2>7. ASSUME NEW e \in Emails,
                 \/ RegisterRead(r, e) \/ VerifyRead(r, e) \/ ResendRead(r, e)
                 \/ \E i \in Identities : OAuthFind(r, i, e)
          PROVE  TypeOK' /\ CodeInv'
        BY <2>7, ReadTyped, ReadCodes, CodesStep
    <2>8. CASE RegisterSave(r) \/ VerifySave(r) \/ ResendSave(r)
        BY <2>8, SelectTyped, SelectCodes, CodesStep
    <2>9. QED BY <1>3, <2>1, <2>2, <2>3, <2>4, <2>5, <2>6, <2>7, <2>8 DEF Step
<1>4. QED BY <1>1, <1>2, <1>3 DEF Next

-----------------------------------------------------------------------------
(* Of the requests that pass a code check, one makes the account.          *)

\* Where a request is after its own step.
LEMMA SlotAfter ==
    ASSUME TypeOK, NEW r \in Requests, NEW pc,
           \/ Finish(r) /\ pc = "idle"
           \/ Goto(r, pc) /\ req[r].pc # "idle"
           \/ \E e, row, i : Hold(r, pc, e, row, i)
    PROVE  /\ \A x \in Requests \ {r} : req'[x] = req[x]
           /\ req'[r].pc = pc
           /\ Goto(r, pc) => req'[r].email = req[r].email
<1>1. \A x \in Requests \ {r} : req'[x] = req[x]
    BY DEF Finish, Goto, Hold, TypeOK
<1>2. CASE Finish(r) /\ pc = "idle"
    <2>1. req'[r] = Idle
        BY <1>2 DEF Finish, TypeOK
    <2>2. ASSUME Goto(r, pc) PROVE req'[r].email = req[r].email
        <3>1. req'[r] = [req[r] EXCEPT !.pc = pc]
            BY <2>2 DEF Goto, TypeOK
        <3>2. QED BY <3>1
    <2>3. QED BY <1>1, <1>2, <2>1, <2>2 DEF Idle
<1>3. CASE Goto(r, pc) /\ req[r].pc # "idle"
    <2>1. req'[r] = [req[r] EXCEPT !.pc = pc]
        BY <1>3 DEF Goto, TypeOK
    <2>2. req[r] = [pc |-> req[r].pc, email |-> req[r].email, row |-> req[r].row,
                    base |-> req[r].base, identity |-> req[r].identity]
        BY SlotTyped
    <2>3. [req[r] EXCEPT !.pc = pc] = [pc |-> pc, email |-> req[r].email,
              row |-> req[r].row, base |-> req[r].base,
              identity |-> req[r].identity]
        BY <2>2
    <2>4. QED BY <1>1, <2>1, <2>3
<1>4. CASE \E e, row, i : Hold(r, pc, e, row, i)
    <2>1. req'[r].pc = pc
        BY <1>4 DEF Hold, TypeOK
    <2>2. ASSUME Goto(r, pc) PROVE req'[r].email = req[r].email
        <3>1. req'[r] = [req[r] EXCEPT !.pc = pc]
            BY <2>2 DEF Goto, TypeOK
        <3>2. QED BY <3>1
    <2>3. QED BY <1>1, <2>1, <2>2
<1>5. QED BY <1>2, <1>3, <1>4

\* Steps after which nobody new has passed.
LEMMA NobodyNew ==
    ASSUME OnePasses, UNCHANGED signIns,
           \A e \in Emails : accounts'[e] = Nil => accounts[e] = Nil,
           \A e \in Emails, r \in Requests : Past(r, e)' => Past(r, e)
    PROVE  OnePasses'
BY DEF OnePasses

LEMMA PassQuietly ==
    ASSUME TypeOK, OnePasses, NEW r \in Requests, UNCHANGED signIns,
           \A e \in Emails : accounts'[e] = Nil => accounts[e] = Nil,
           NEW pc, pc \notin {"verifyDelete", "verifySession"},
           \/ Finish(r) /\ pc = "idle"
           \/ Goto(r, pc) /\ req[r].pc # "idle"
           \/ \E e, row, i : Hold(r, pc, e, row, i)
    PROVE  OnePasses'
<1>1. \A e \in Emails, x \in Requests : Past(x, e)' => Past(x, e)
    BY SlotAfter DEF Past
<1>2. QED BY <1>1, NobodyNew

LEMMA PassUser ==
    ASSUME TypeOK, OnePasses, NEW r \in Requests, VerifyUser(r)
    PROVE  OnePasses'
<1> DEFINE d == req[r].email
<1>1. d \in Emails /\ accounts[d] = Nil
    BY SlotTyped DEF VerifyUser, At, InsertAccount
<1>2. /\ \A x \in Requests \ {r} : req'[x] = req[x]
      /\ req'[r].email = d /\ req'[r].pc = "verifyDelete"
    BY SlotAfter DEF VerifyUser, At
<1>3. /\ accounts'[d] # Nil
      /\ \A e \in Emails \ {d} : accounts'[e] = accounts[e]
    BY <1>1, SlotTyped, NilAssumption
       DEF VerifyUser, At, InsertAccount, TypeOK, Account, RowPcs, PendingRow
<1>4. signIns' = signIns
    BY DEF VerifyUser
<1>5. \A x \in Requests : ~Past(x, d)
    BY <1>1 DEF OnePasses
<1>6. \A e \in Emails \ {d}, x \in Requests : Past(x, e)' => Past(x, e)
    BY <1>2 DEF Past
<1>7. \A e \in Emails, x \in Requests : e = d /\ Past(x, e)' => x = r
    BY <1>2, <1>5 DEF Past
<1> HIDE DEF d
<1>8. QED BY <1>1, <1>3, <1>4, <1>6, <1>7 DEF OnePasses

LEMMA PassDelete ==
    ASSUME TypeOK, OnePasses, NEW r \in Requests, VerifyDelete(r)
    PROVE  OnePasses'
<1>1. Hold(r, "verifySession", req[r].email, Nil, Nil) /\ req[r].pc = "verifyDelete"
    BY DEF VerifyDelete, At
<1>2. \A e \in Emails, x \in Requests : Past(x, e)' => Past(x, e)
    BY <1>1 DEF Past, Hold, TypeOK
<1>3. QED BY <1>2, NobodyNew DEF VerifyDelete

LEMMA PassSession ==
    ASSUME TypeOK, OnePasses, NEW r \in Requests, VerifySession(r)
    PROVE  OnePasses'
<1> DEFINE d == req[r].email
<1>1. d \in Emails /\ Past(r, d)
    BY SlotTyped DEF VerifySession, At, Past
<1>2. signIns[d] = 0 /\ accounts[d] # Nil
    BY <1>1 DEF OnePasses
<1>3. /\ signIns'[d] = 1
      /\ \A e \in Emails \ {d} : signIns'[e] = signIns[e]
      /\ accounts' = accounts
    BY <1>1, <1>2 DEF VerifySession, TypeOK
<1>4. /\ \A x \in Requests \ {r} : req'[x] = req[x]
      /\ req'[r].pc = "idle"
    BY SlotAfter DEF VerifySession
<1>5. \A e \in Emails, x \in Requests : Past(x, e)' => x # r /\ Past(x, e)
    BY <1>4 DEF Past
<1>6. \A e \in Emails, x \in Requests : e = d => ~Past(x, e)'
    BY <1>1, <1>5 DEF OnePasses
<1> HIDE DEF d
<1>7. QED BY <1>1, <1>2, <1>3, <1>5, <1>6 DEF OnePasses

LEMMA StepPasses ==
    ASSUME TypeOK, OnePasses, [Next]_vars
    PROVE  OnePasses'
<1>1. CASE UNCHANGED vars
    BY <1>1, NobodyNew DEF vars, Past
<1>2. ASSUME NEW c \in Codes, ExpireCode(c)
      PROVE  OnePasses'
    BY <1>2, NobodyNew DEF ExpireCode, Past
<1>3. ASSUME NEW r \in Requests, Step(r)
      PROVE  OnePasses'
    <2>1. CASE VerifyUser(r)
        BY <2>1, PassUser
    <2>2. CASE VerifyDelete(r)
        BY <2>2, PassDelete
    <2>3. CASE VerifySession(r)
        BY <2>3, PassSession
    <2>4. CASE OAuthCreate(r)
        <3>1. \A e \in Emails : accounts'[e] = Nil => accounts[e] = Nil
            BY <2>4, SlotTyped DEF OAuthCreate, At, InsertAccount, TypeOK
        <3>2. QED BY <2>4, <3>1, PassQuietly DEF OAuthCreate
    <2>5. CASE \/ RegisterFind(r) \/ OAuthUser(r) \/ Fail(r)
               \/ \E e \in Emails : RegisterRead(r, e) \/ VerifyRead(r, e) \/ ResendRead(r, e)
               \/ \E i \in Identities, e \in Emails : OAuthFind(r, i, e)
        <3>1. UNCHANGED <<accounts, signIns>>
            BY <2>5 DEF RegisterFind, OAuthUser, Fail, RegisterRead, VerifyRead,
                        ResendRead, OAuthFind, tables
        <3>2. PICK pc : /\ pc \notin {"verifyDelete", "verifySession"}
                        /\ \/ Finish(r) /\ pc = "idle"
                           \/ Goto(r, pc) /\ req[r].pc # "idle"
                           \/ \E e, row, i : Hold(r, pc, e, row, i)
            <4>1. CASE RegisterFind(r)
                BY <4>1 DEF RegisterFind
            <4>2. CASE OAuthUser(r)
                BY <4>2 DEF OAuthUser, At
            <4>3. CASE Fail(r)
                BY <4>3 DEF Fail
            <4>4. CASE \E e \in Emails : RegisterRead(r, e) \/ VerifyRead(r, e)
                                         \/ ResendRead(r, e)
                BY <4>4 DEF RegisterRead, VerifyRead, ResendRead
            <4>5. CASE \E i \in Identities, e \in Emails : OAuthFind(r, i, e)
                BY <4>5 DEF OAuthFind
            <4>6. QED BY <2>5, <4>1, <4>2, <4>3, <4>4, <4>5
        <3>3. QED BY <3>1, <3>2, PassQuietly
    <2>6. CASE \/ \E c \in Codes, pw \in Passwords :
                     RegisterInsert(r, c, pw) \/ RegisterWrite(r, c, pw)
               \/ \E c \in Codes : ResendWrite(r, c)
               \/ \E matches \in BOOLEAN : VerifyWrite(r, matches)
               \/ \E k \in ConnectionIds : OAuthConnect(r, k)
        <3>1. UNCHANGED <<accounts, signIns>>
            BY <2>6 DEF RegisterInsert, RegisterWrite, ResendWrite, VerifyWrite,
                        OAuthConnect
        <3>2. Finish(r) \/ \E e, row, i : Hold(r, "verifyUser", e, row, i)
            BY <2>6 DEF RegisterInsert, RegisterWrite, ResendWrite, VerifyWrite,
                        OAuthConnect
        <3>3. QED BY <3>1, <3>2, PassQuietly
    <2>7. CASE RegisterSave(r) \/ VerifySave(r) \/ ResendSave(r)
        <3>1. /\ UNCHANGED <<accounts, signIns>>
              /\ \A x \in Requests \ {r} : req'[x] = req[x]
              /\ req'[r].pc \notin {"verifyDelete", "verifySession"}
            BY <2>7, SelectTyped DEF tables
        <3>2. \A e \in Emails, x \in Requests : Past(x, e)' => Past(x, e)
            BY <3>1 DEF Past
        <3>3. QED BY <3>1, <3>2, NobodyNew
    <2>8. QED BY <1>3, <2>1, <2>2, <2>3, <2>4, <2>5, <2>6, <2>7 DEF Step
<1>4. QED BY <1>1, <1>2, <1>3 DEF Next

-----------------------------------------------------------------------------
LEMMA InitOK == Init => IInv
<1> SUFFICES ASSUME Init PROVE IInv
    OBVIOUS
<1>1. TypeOK
    BY LimitAssumption DEF Init, TypeOK, Code, Counter, Request
<1>2. RowsHaveCodes /\ AccountsComeFromCodes /\ OnePasses /\ LatestIssued
    BY DEF Init, RowsHaveCodes, AccountsComeFromCodes, OnePasses, LatestIssued, Past,
           Idle
<1>3. SlotsHaveCodes
    BY IdleHasCode DEF Init, SlotsHaveCodes
<1>4. QED BY <1>1, <1>2, <1>3 DEF IInv

\* The invariant of the proofs below.
THEOREM InvariantHolds == Spec => []IInv
<1>1. Init => IInv
    BY InitOK
<1>2. IInv /\ [Next]_vars => IInv'
    BY StepCodes, StepPasses DEF IInv, CodeInv
<1>3. QED BY <1>1, <1>2, PTL DEF Spec

\* Every table and every copy keeps its type.
THEOREM TypeCorrectness == Spec => []TypeOK
BY InvariantHolds, PTL DEF IInv

\* The password of an account was registered for its address, a code of that
\* address was compared, and the two belong together unless the statements of
\* two saves of its pending row overlapped (register, verifyRegistration,
\* resendVerificationCode).
THEOREM NoMixedAccount == Spec => []AccountsComeFromCodes
BY InvariantHolds, PTL DEF IInv

\* verifyRegistration opens one session for an address, however many requests
\* pass the code check of its pending row: users.email is unique.
THEOREM OneSignIn == Spec => []OneSignInPerRegistration
<1>1. IInv => OneSignInPerRegistration
    BY DEF IInv, OnePasses, OneSignInPerRegistration
<1>2. QED BY <1>1, InvariantHolds, PTL

-----------------------------------------------------------------------------
(* What stays as it is.                                                    *)

\* A step of a request that writes a pending row writes that of its email: it
\* inserts one where there is none, changes one, or deletes it.
LEMMA WritesOwnRow ==
    ASSUME TypeOK, NEW r \in Requests, Step(r), NEW e \in Emails,
           pending'[e] # pending[e]
    PROVE  /\ req[r].email = e
           /\ \/ At(r, "registerInsert") /\ pending[e] = Nil
              \/ /\ \/ At(r, "registerWrite") \/ At(r, "resendWrite")
                    \/ At(r, "verifyWrite")
                 /\ pending[e] = Nil => req[r].base = Nil
              \/ VerifyDelete(r)
<1>1. \/ \E c \in Codes, pw \in Passwords :
            RegisterInsert(r, c, pw) \/ RegisterWrite(r, c, pw)
      \/ \E c \in Codes : ResendWrite(r, c)
      \/ \E matches \in BOOLEAN : VerifyWrite(r, matches)
      \/ VerifyDelete(r)
    <2>1. RegisterSave(r) \/ VerifySave(r) \/ ResendSave(r) => pending' = pending
        BY DEF RegisterSave, VerifySave, ResendSave, SelectPending, tables
    <2>2. QED
        BY <2>1 DEF Step, RegisterFind, VerifyUser, VerifySession, OAuthUser, OAuthCreate,
           Fail, RegisterRead, VerifyRead, ResendRead, OAuthFind, OAuthConnect, tables
<1>2. CASE \E c \in Codes, pw \in Passwords : RegisterInsert(r, c, pw)
    BY <1>2 DEF RegisterInsert, TypeOK
<1>3. ASSUME NEW copy, SavePending(r, copy)
      PROVE  req[r].email = e /\ (pending[e] = Nil => req[r].base = Nil)
    BY <1>3 DEF SavePending, Found, TypeOK
<1>4. CASE VerifyDelete(r)
    BY <1>4 DEF VerifyDelete, TypeOK
<1>5. CASE \E c \in Codes, pw \in Passwords : RegisterWrite(r, c, pw)
    BY <1>3, <1>5 DEF RegisterWrite
<1>6. CASE \E c \in Codes : ResendWrite(r, c)
    BY <1>3, <1>6 DEF ResendWrite
<1>7. CASE \E matches \in BOOLEAN : VerifyWrite(r, matches)
    BY <1>3, <1>7 DEF VerifyWrite
<1>8. QED BY <1>1, <1>2, <1>4, <1>5, <1>6, <1>7

\* Where a request's step takes it, as far as pending rows go.
LEMMA OwnSlot ==
    ASSUME TypeOK, NEW r \in Requests, Step(r)
    PROVE  /\ \A x \in Requests \ {r} : req'[x] = req[x]
           /\ \/ req'[r].pc \in {"idle", "verifySession"} \cup OAuthPcs
              \/ \E e \in Emails :
                    /\ req'[r].email = e
                    /\ \/ req'[r].pc = "registerFind" /\ accounts[e] = Nil
                       \/ req'[r].pc = "resendSave" /\ pending[e] # Nil
                       \/ /\ req'[r].pc = "verifySave" /\ pending[e] # Nil
                          /\ req'[r].row = Counted(pending[e])
              \/ /\ req'[r].email = req[r].email
                 /\ \/ /\ At(r, "registerFind")
                       /\ req'[r].pc \in {"registerInsert", "registerSave"}
                    \/ /\ At(r, "registerSave") /\ req'[r].pc = "registerWrite"
                    \/ /\ At(r, "resendSave") /\ req'[r].pc = "resendWrite"
                    \/ /\ At(r, "verifySave") /\ req'[r].pc = "verifyWrite"
                       /\ req'[r].row = req[r].row
                    \/ /\ At(r, "verifyWrite") /\ req'[r].pc = "verifyUser"
                       /\ ~TooManyAttempts(req[r].row)
                    \/ At(r, "verifyUser") /\ req'[r].pc = "verifyDelete"
<1>1. CASE Finish(r)
    BY <1>1, SlotAfter
<1>2. CASE VerifyDelete(r)
    <2>1. Hold(r, "verifySession", req[r].email, Nil, Nil)
        BY <1>2 DEF VerifyDelete
    <2>2. QED BY <2>1 DEF Hold, TypeOK
<1>3. CASE OAuthUser(r)
    <2>1. PICK pc \in OAuthPcs : Goto(r, pc) /\ req[r].pc # "idle"
        BY <1>3 DEF OAuthUser, OAuthPcs, At
    <2>2. QED BY <2>1, SlotAfter
<1>4. CASE \E i \in Identities, e \in Emails : OAuthFind(r, i, e)
    <2>1. PICK i \in Identities, e \in Emails : OAuthFind(r, i, e)
        BY <1>4
    <2>2. Hold(r, "oauthUser", e, Nil, i)
        BY <2>1 DEF OAuthFind
    <2>3. QED BY <2>2 DEF Hold, TypeOK, OAuthPcs
<1>5. ASSUME NEW e \in Emails, RegisterRead(r, e) \/ VerifyRead(r, e) \/ ResendRead(r, e)
      PROVE  /\ \A x \in Requests \ {r} : req'[x] = req[x]
             /\ req'[r].email = e
             /\ \/ req'[r].pc = "registerFind" /\ accounts[e] = Nil
                \/ req'[r].pc = "resendSave" /\ pending[e] # Nil
                \/ /\ req'[r].pc = "verifySave" /\ pending[e] # Nil
                   /\ req'[r].row = Counted(pending[e])
    BY <1>5 DEF RegisterRead, VerifyRead, ResendRead, Hold, TypeOK
<1>6. CASE RegisterFind(r)
    <2>1. PICK pc, row :
              /\ pc \in {"registerInsert", "registerSave"}
              /\ Hold(r, pc, req[r].email, row, Nil)
        BY <1>6 DEF RegisterFind
    <2>2. QED BY <1>6, <2>1 DEF RegisterFind, Hold, TypeOK, At
<1>7. CASE \E matches \in BOOLEAN : VerifyWrite(r, matches)
    <2>1. At(r, "verifyWrite")
        BY <1>7 DEF VerifyWrite
    <2>2. \/ Finish(r)
          \/ /\ ~TooManyAttempts(req[r].row)
             /\ Hold(r, "verifyUser", req[r].email, req[r].row, Nil)
        BY <1>7 DEF VerifyWrite
    <2>3. QED BY <1>1, <2>1, <2>2 DEF Hold, TypeOK
<1>8. CASE VerifyUser(r)
    <2>1. At(r, "verifyUser") /\ req[r].pc # "idle" /\ Goto(r, "verifyDelete")
        BY <1>8 DEF VerifyUser, At
    <2>2. QED BY <2>1, SlotAfter
<1>9. CASE RegisterSave(r) \/ VerifySave(r) \/ ResendSave(r)
    BY <1>9, SelectTyped
<1>10. \/ Finish(r) \/ VerifyDelete(r) \/ OAuthUser(r) \/ RegisterFind(r)
       \/ \E i \in Identities, e \in Emails : OAuthFind(r, i, e)
       \/ \E e \in Emails : RegisterRead(r, e) \/ VerifyRead(r, e) \/ ResendRead(r, e)
       \/ \E matches \in BOOLEAN : VerifyWrite(r, matches)
       \/ VerifyUser(r)
       \/ RegisterSave(r) \/ VerifySave(r) \/ ResendSave(r)
    BY DEF Step, VerifySession, OAuthCreate, Fail, RegisterInsert, RegisterWrite,
           ResendWrite, OAuthConnect
<1>11. QED
    BY <1>1, <1>2, <1>3, <1>4, <1>5, <1>6, <1>7, <1>8, <1>9, <1>10

\* A request that still had the row to save finds no row where there is none.
LEMMA SettledSlot ==
    ASSUME TypeOK, NEW r \in Requests, Step(r), NEW e \in Emails, Settled(e)
    PROVE  ~HoldsPending(r, e)'
<1>1. accounts[e] # Nil /\ pending[e] = Nil /\ ~HoldsPending(r, e)
    BY DEF Settled
<1>2. QED
    BY <1>1, OwnSlot DEF HoldsPending, At, OAuthPcs, WritePcs

LEMMA SettledStep ==
    ASSUME TypeOK, NEW r \in Requests, Step(r), NEW e \in Emails, Settled(e)
    PROVE  Settled(e)'
<1>1. accounts'[e] # Nil
    <2>1. accounts' = accounts \/ VerifyUser(r) \/ OAuthCreate(r)
        <3>1. RegisterSave(r) \/ VerifySave(r) \/ ResendSave(r) => accounts' = accounts
            BY DEF RegisterSave, VerifySave, ResendSave, SelectPending, tables
        <3>2. QED
            BY <3>1 DEF Step, RegisterFind, VerifyDelete, VerifySession, OAuthUser, Fail,
               tables, RegisterRead, VerifyRead, ResendRead, RegisterInsert,
               RegisterWrite, ResendWrite, VerifyWrite, OAuthFind, OAuthConnect
    <2>2. CASE VerifyUser(r) \/ OAuthCreate(r)
        BY <2>2 DEF VerifyUser, OAuthCreate, InsertAccount, Settled, TypeOK
    <2>3. QED BY <2>1, <2>2 DEF Settled
<1>2. pending'[e] = Nil
    <2>1. CASE pending'[e] # pending[e]
        <3>1. VerifyDelete(r)
            BY <2>1, WritesOwnRow DEF Settled, HoldsPending, At, WritePcs
        <3>2. QED BY <2>1, <3>1 DEF VerifyDelete, TypeOK
    <2>2. QED BY <2>1 DEF Settled
<1>3. ASSUME NEW x \in Requests
      PROVE  ~HoldsPending(x, e)'
    <2>1. x # r => req'[x] = req[x]
        BY OwnSlot
    <2>2. CASE x = r
        BY <2>2, SettledSlot
    <2>3. CASE x # r
        BY <2>1, <2>3 DEF Settled, HoldsPending
    <2>4. QED BY <2>2, <2>3
<1>4. QED BY <1>1, <1>2, <1>3 DEF Settled

\* No step issues a code that is the last one of an address already.
LEMMA NothingIssued ==
    ASSUME IInv, NEW e \in Emails, latest'[e] = latest[e], NEW c \in Codes, NEW pw
    PROVE  ~Issue(c, e, pw)
<1> SUFFICES ASSUME Issue(c, e, pw) PROVE FALSE
    OBVIOUS
<1>1. latest[e] = c /\ codes[c].email = Nil
    BY DEF Issue, IInv, TypeOK
<1>2. c # Nil
    BY NilAssumption
<1>3. QED BY <1>1, <1>2 DEF IInv, LatestIssued

LEMMA BlockedStep ==
    ASSUME IInv, NEW r \in Requests, Step(r), NEW e \in Emails, Blocked(e),
           latest'[e] = latest[e]
    PROVE  Blocked(e)'
<1>1. TypeOK /\ pending[e] \in PendingRow /\ TooManyAttempts(pending[e])
    BY DEF IInv, Blocked, TypeOK
<1>2. pending'[e] # Nil /\ TooManyAttempts(pending[e])'
    <2>1. CASE pending'[e] # pending[e]
        <3>1. req[r].email = e /\ pending[e] # Nil
            BY <1>1, <2>1, WritesOwnRow DEF Blocked
        <3>2. ~VerifyDelete(r)
            BY <3>1 DEF Blocked, VerifyDelete, At
        <3>3. At(r, "registerWrite") \/ At(r, "resendWrite") \/ At(r, "verifyWrite")
            BY <1>1, <2>1, <3>1, <3>2, WritesOwnRow
        <3>4. \/ \E c \in Codes : \E pw : Issue(c, e, pw)
              \/ \E matches \in BOOLEAN : VerifyWrite(r, matches)
            <4>1. ~(RegisterSave(r) \/ VerifySave(r) \/ ResendSave(r))
                BY <3>3 DEF At, RegisterSave, VerifySave, ResendSave
            <4>2. pending' # pending
                BY <2>1
            <4>3. \/ \E c \in Codes, pw \in Passwords : RegisterWrite(r, c, pw)
                  \/ \E c \in Codes : ResendWrite(r, c)
                  \/ \E matches \in BOOLEAN : VerifyWrite(r, matches)
                BY <3>3, <4>1, <4>2
                   DEF At, Step, RegisterFind, VerifyUser, VerifyDelete, VerifySession,
                       OAuthUser, OAuthCreate, Fail, RegisterRead, VerifyRead,
                       ResendRead, RegisterInsert, OAuthFind, OAuthConnect, tables
            <4>4. ASSUME NEW c \in Codes, NEW pw \in Passwords, RegisterWrite(r, c, pw)
                  PROVE  Issue(c, e, pw)
                BY <3>1, <4>4 DEF RegisterWrite
            <4>5. ASSUME NEW c \in Codes, ResendWrite(r, c)
                  PROVE  Issue(c, e, req[r].row.password)
                BY <3>1, <4>5 DEF ResendWrite
            <4>6. QED BY <4>3, <4>4, <4>5
        <3>5. PICK matches \in BOOLEAN : VerifyWrite(r, matches)
            BY <3>4, NothingIssued
        <3>6. TooManyAttempts(req[r].row) /\ req[r].row \in PendingRow
            BY <1>1, <3>1, <3>5, SlotTyped DEF VerifyWrite, At, Blocked, WritePcs
        <3>7. SavePending(r, req[r].row)
            BY <3>5 DEF VerifyWrite
        <3>8. PICK new : new = pending'[e]
            OBVIOUS
        <3>9. new # Nil /\ new.attempts \in {pending[e].attempts, req[r].row.attempts}
            <4>1. PICK copy \in PendingRow : copy = req[r].row
                BY <3>6
            <4>2. \/ new = copy
                  \/ new \in PendingRow /\ new.attempts \in {pending[e].attempts, copy.attempts}
                BY <1>1, <2>1, <3>1, <3>7, <3>8, <4>1, SaveEffect
            <4>3. QED BY <4>1, <4>2, NilAssumption
        <3>10. QED BY <1>1, <3>6, <3>8, <3>9 DEF TooManyAttempts
    <2>2. QED BY <2>1 DEF Blocked, TooManyAttempts
<1>3. ASSUME NEW x \in Requests, req'[x].email = e,
             req'[x].pc \in {"verifySave", "verifyWrite", "verifyUser", "verifyDelete"}
      PROVE  /\ req'[x].pc \in {"verifySave", "verifyWrite"}
             /\ TooManyAttempts(req[x].row)'
    <2>1. CASE req'[x] = req[x]
        BY <1>3, <2>1 DEF Blocked, TooManyAttempts
    <2>2. CASE x = r /\ req'[r].pc = "verifySave" /\ req'[r].row = Counted(pending[e])
        <3>1. TooManyAttempts(Counted(pending[e]))
            BY <1>1, RowTyped DEF PendingRow
        <3>2. QED BY <2>2, <3>1 DEF TooManyAttempts
    <2>3. CASE x = r /\ req[r].email = e /\ At(r, "verifySave")
               /\ req'[r].pc = "verifyWrite" /\ req'[r].row = req[r].row
        <3>1. TooManyAttempts(req[r].row)
            BY <2>3 DEF Blocked, At
        <3>2. QED BY <2>3, <3>1 DEF TooManyAttempts
    <2>4. CASE x = r /\ req[r].email = e
               /\ \/ At(r, "verifyWrite") /\ ~TooManyAttempts(req[r].row)
                  \/ At(r, "verifyUser")
        BY <2>4 DEF Blocked, At
    <2>5. x # r => req'[x] = req[x]
        BY <1>1, OwnSlot
    <2>6. x = r =>
             \/ req'[r].pc = "verifySave" /\ req'[r].row = Counted(pending[e])
             \/ /\ req[r].email = e /\ At(r, "verifySave")
                /\ req'[r].pc = "verifyWrite" /\ req'[r].row = req[r].row
             \/ /\ req[r].email = e
                /\ \/ At(r, "verifyWrite") /\ ~TooManyAttempts(req[r].row)
                   \/ At(r, "verifyUser")
        BY <1>1, <1>3, OwnSlot DEF OAuthPcs
    <2>7. QED BY <2>1, <2>2, <2>3, <2>4, <2>5, <2>6
<1>4. QED BY <1>2, <1>3 DEF Blocked

-----------------------------------------------------------------------------
\* Registered, removed and read by nobody, a pending row never comes back: no
\* code is accepted for the address again (register, verifyRegistration).
THEOREM RegistrationIsFinal == Spec => SettledStaysSettled
<1>1. IInv /\ [Next]_vars => [\A e \in Emails : Settled(e) => Settled(e)']_vars
    <2> SUFFICES ASSUME IInv, Next, NEW e \in Emails, Settled(e)
                 PROVE  Settled(e)'
        OBVIOUS
    <2>1. ASSUME NEW c \in Codes, ExpireCode(c) PROVE Settled(e)'
        BY <2>1 DEF ExpireCode, Settled, HoldsPending
    <2>2. QED BY <2>1, SettledStep DEF IInv, Next
<1>2. QED BY <1>1, InvariantHolds, PTL DEF Spec, SettledStaysSettled

\* Used-up attempts stay used up: only the issue of another code lets a request
\* pass the code check again (verifyRegistration, resendVerificationCode).
THEOREM BlockIsFinal == Spec => BlockedStaysBlocked
<1>1. IInv /\ [Next]_vars
      => [\A e \in Emails : Blocked(e) => Blocked(e)' \/ latest'[e] # latest[e]]_vars
    <2> SUFFICES ASSUME IInv, Next, NEW e \in Emails, Blocked(e), latest'[e] = latest[e]
                 PROVE  Blocked(e)'
        OBVIOUS
    <2>1. ASSUME NEW c \in Codes, ExpireCode(c) PROVE Blocked(e)'
        BY <2>1 DEF ExpireCode, Blocked, TooManyAttempts
    <2>2. QED BY <2>1, BlockedStep DEF Next
<1>2. QED BY <1>1, InvariantHolds, PTL DEF Spec, BlockedStaysBlocked
=============================================================================
