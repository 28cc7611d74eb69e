----------------------------- MODULE TwoFactor ------------------------------
(***************************************************************************)
(* Two-factor authentication (src/two-factor/two-factor.service.ts):       *)
(* setting up a secret, confirming it, checking a code at login, backup    *)
(* codes, disabling.                                                       *)
(*                                                                         *)
(* Every operation finds the user's row, changes its copy and saves it in  *)
(* two statements: a SELECT by id and an UPDATE of the columns in which    *)
(* the copy differs from what the SELECT found.  The table has no unique   *)
(* column but its id, and findOne has no order: with several rows for a    *)
(* user it returns any of them.                                            *)
(***************************************************************************)
EXTENDS Naturals, FiniteSets

CONSTANTS
    Users,
    RowIds,     \* primary keys of two_factor_auth: bounds the rows
    Secrets,    \* TOTP secrets, each generated once: bounds the set-ups
    Batches,    \* batches of backup codes: bounds the generations
    BatchSize,  \* 10 in the code
    Requests,   \* slots: how many requests can be in flight at once
    Nil

ASSUME BatchAssumption == BatchSize \in Nat \ {0}
\* A backup code, by its batch and place in it.
BackupCodes == Batches \X (1 .. BatchSize)

Row == [user: Users, secret: Secrets, isEnabled: BOOLEAN,
        backupCodes: SUBSET BackupCodes]

ASSUME NilAssumption ==
    Nil \notin Users \cup RowIds \cup Secrets \cup Batches /\ Nil \notin Row

VARIABLES
    rows,       \* table two_factor_auth
    secrets,    \* history: for whom a secret was generated
    batches,    \* history: for which row a batch of backup codes was generated
    newest,     \* history: the batch generated last for a user
    confirmed,  \* history: the secrets a valid TOTP was shown for
    accepted,   \* history: how often a backup code was accepted (3: or more)
    overlaps,   \* history: how often a row was saved although it, or what the
                \* SELECT of the save found, was not the copy read (2: or more)
    mixed,      \* history: the rows a save updated that another one had
                \* changed since its SELECT
    req         \* the requests in flight and what they have read so far

vars == <<rows, secrets, batches, newest, confirmed, accepted, overlaps, mixed, req>>
history == <<secrets, batches, newest, confirmed, accepted, overlaps, mixed>>

\* A request holds the row it has read (row) and, between the two statements
\* of its save, what the SELECT has found (base).
Idle == [pc |-> "idle", user |-> Nil, id |-> Nil, row |-> Nil, base |-> Nil,
         code |-> Nil]
Request ==
    {Idle}
    \cup [pc: {"insert"}, user: Users, id: {Nil}, row: {Nil}, base: {Nil},
          code: {Nil}]
    \cup [pc: {"generate", "enable", "disable", "regenerate"}, user: Users,
          id: RowIds, row: Row, base: Row \cup {Nil}, code: {Nil}]
    \cup [pc: {"use"}, user: Users, id: RowIds, row: Row,
          base: Row \cup {Nil}, code: BackupCodes]

TypeOK ==
    /\ rows \in [RowIds -> Row \cup {Nil}]
    /\ secrets \in [Secrets -> Users \cup {Nil}]
    /\ batches \in [Batches -> RowIds \cup {Nil}]
    /\ newest \in [Users -> Batches \cup {Nil}]
    /\ confirmed \subseteq Secrets
    /\ accepted \in [BackupCodes -> 0..3]
    /\ overlaps \in [RowIds -> 0..2]
    /\ mixed \subseteq RowIds
    /\ req \in [Requests -> Request]

Init ==
    /\ rows = [k \in RowIds |-> Nil]
    /\ secrets = [s \in Secrets |-> Nil]
    /\ batches = [b \in Batches |-> Nil]
    /\ newest = [u \in Users |-> Nil]
    /\ confirmed = {}
    /\ accepted = [c \in BackupCodes |-> 0]
    /\ overlaps = [k \in RowIds |-> 0]
    /\ mixed = {}
    /\ req = [r \in Requests |-> Idle]

-----------------------------------------------------------------------------
(* Mutated forms of definitions below: plausible slips in the code that    *)
(* the properties must notice.  Nothing refers to them.                    *)

\* Set-up that leaves isEnabled as it was.
KeptEnabled(row, s) == [row EXCEPT !.secret = s]

\* slice instead of splice: the list of the copy stays as it is.
NotUsedUp(row, c) == row

\* Set-up that enables at once.
EnabledAtOnce(row, s) == [row EXCEPT !.secret = s, !.isEnabled = TRUE]

-----------------------------------------------------------------------------
(* Steps shared by the operations.                                         *)

At(r, pc) == req[r].pc = pc
Finish(r) == req' = [req EXCEPT ![r] = Idle]
Hold(r, pc, u, k, c) ==
    req' = [req EXCEPT ![r] = [pc |-> pc, user |-> u, id |-> k,
                               row |-> rows[k], base |-> Nil, code |-> c]]

RowsOf(u) == {k \in RowIds : rows[k] # Nil /\ rows[k].user = u}

\* save(copy) of a row read before.  First the SELECT by id.
Select(r) ==
    /\ req[r].row # Nil
    /\ req[r].base = Nil
    /\ req' = [req EXCEPT ![r] =
           [pc |-> req[r].pc, user |-> req[r].user, id |-> req[r].id,
            row |-> req[r].row, base |-> rows[req[r].id], code |-> req[r].code]]
    /\ UNCHANGED <<rows, history>>

\* The columns in which the copy differs from what the SELECT found.
Changed(row, base, copy) ==
    [user |-> row.user,
     secret |-> IF copy.secret # base.secret THEN copy.secret ELSE row.secret,
     isEnabled |-> IF copy.isEnabled # base.isEnabled
                   THEN copy.isEnabled ELSE row.isEnabled,
     backupCodes |-> IF copy.backupCodes # base.backupCodes
                     THEN copy.backupCodes ELSE row.backupCodes]

\* Then the UPDATE of the row, which is never deleted.
Save(r, copy) ==
    LET k == req[r].id
        base == req[r].base
    IN /\ base # Nil
       /\ rows' = [rows EXCEPT ![k] = Changed(rows[k], base, copy)]
       /\ mixed' = IF rows[k] = base THEN mixed ELSE mixed \cup {k}
       /\ overlaps' =
              IF rows[k] = req[r].row /\ base = req[r].row THEN overlaps
              ELSE [overlaps EXCEPT ![k] = IF @ = 2 THEN 2 ELSE @ + 1]

\* generateBackupCodesInternal.
Generated(b) == {b} \X (1 .. BatchSize)
Generate(r, b) ==
    /\ batches[b] = Nil
    /\ batches' = [batches EXCEPT ![b] = req[r].id]
    /\ newest' = [newest EXCEPT ![req[r].user] = b]

-----------------------------------------------------------------------------
(* generateSecret.                                                         *)

GenerateRead(r, u) ==
    /\ At(r, "idle")
    /\ \/ \E k \in RowsOf(u) : Hold(r, "generate", u, k, Nil)
       \/ /\ RowsOf(u) = {}
          /\ req' = [req EXCEPT ![r] = [Idle EXCEPT !.pc = "insert", !.user = u]]
    /\ UNCHANGED <<rows, history>>

SetUp(row, s) == [row EXCEPT !.secret = s, !.isEnabled = FALSE]

GenerateSave(r, s) ==
    /\ At(r, "generate")
    /\ secrets[s] = Nil
    /\ secrets' = [secrets EXCEPT ![s] = req[r].user]
    /\ Save(r, SetUp(req[r].row, s))
    /\ Finish(r)
    /\ UNCHANGED <<batches, newest, confirmed, accepted>>

\* save of a row of its own, without an id: an INSERT only.
GenerateInsert(r, s, k) ==
    /\ At(r, "insert")
    /\ secrets[s] = Nil
    /\ secrets' = [secrets EXCEPT ![s] = req[r].user]
    /\ rows[k] = Nil
    /\ rows' = [rows EXCEPT ![k] = [user |-> req[r].user, secret |-> s,
                                    isEnabled |-> FALSE, backupCodes |-> {}]]
    /\ Finish(r)
    /\ UNCHANGED <<batches, newest, confirmed, accepted, overlaps, mixed>>

-----------------------------------------------------------------------------
(* verifyAndEnable.                                                        *)

\* findOne and a TOTP that is valid for the secret found.
EnableRead(r, u) ==
    /\ At(r, "idle")
    /\ \E k \in RowsOf(u) :
          /\ confirmed' = confirmed \cup {rows[k].secret}
          /\ Hold(r, "enable", u, k, Nil)
    /\ UNCHANGED <<rows, secrets, batches, newest, accepted, overlaps, mixed>>

Enabled(row, b) ==
    [row EXCEPT !.isEnabled = TRUE,
                !.backupCodes = IF @ = {} THEN Generated(b) ELSE @]

EnableSave(r) ==
    /\ At(r, "enable")
    /\ \/ /\ req[r].row.backupCodes = {}
          /\ \E b \in Batches : /\ Generate(r, b)
                                /\ Save(r, Enabled(req[r].row, b))
       \/ /\ req[r].row.backupCodes # {}
          /\ \E b \in Batches : Save(r, Enabled(req[r].row, b))
          /\ UNCHANGED <<batches, newest>>
    /\ Finish(r)
    /\ UNCHANGED <<secrets, confirmed, accepted>>

-----------------------------------------------------------------------------
(* verify.  A row that is not enabled and a valid TOTP answer true and     *)
(* change nothing; so does false.                                          *)

UseRead(r, u) ==
    /\ At(r, "idle")
    /\ \E k \in RowsOf(u) :
          /\ rows[k].isEnabled
          /\ \E c \in rows[k].backupCodes : Hold(r, "use", u, k, c)
    /\ UNCHANGED <<rows, history>>

UsedUp(row, c) == [row EXCEPT !.backupCodes = @ \ {c}]

UseSave(r) ==
    /\ At(r, "use")
    /\ Save(r, UsedUp(req[r].row, req[r].code))
    /\ accepted' = [accepted EXCEPT ![req[r].code] = IF @ = 3 THEN 3 ELSE @ + 1]
    /\ Finish(r)
    /\ UNCHANGED <<secrets, batches, newest, confirmed>>

-----------------------------------------------------------------------------
(* disable and regenerateBackupCodes want an enabled row.                  *)

DisableRead(r, u) ==
    /\ At(r, "idle")
    /\ \E k \in RowsOf(u) : /\ rows[k].isEnabled
                            /\ Hold(r, "disable", u, k, Nil)
    /\ UNCHANGED <<rows, history>>

Disabled(row) == [row EXCEPT !.isEnabled = FALSE]

DisableSave(r) ==
    /\ At(r, "disable")
    /\ Save(r, Disabled(req[r].row))
    /\ Finish(r)
    /\ UNCHANGED <<secrets, batches, newest, confirmed, accepted>>

RegenerateRead(r, u) ==
    /\ At(r, "idle")
    /\ \E k \in RowsOf(u) : /\ rows[k].isEnabled
                            /\ Hold(r, "regenerate", u, k, Nil)
    /\ UNCHANGED <<rows, history>>

Regenerated(row, b) == [row EXCEPT !.backupCodes = Generated(b)]

RegenerateSave(r, b) ==
    /\ At(r, "regenerate")
    /\ Generate(r, b)
    /\ Save(r, Regenerated(req[r].row, b))
    /\ Finish(r)
    /\ UNCHANGED <<secrets, confirmed, accepted>>

-----------------------------------------------------------------------------
\* An awaited call fails or the process dies.
Fail(r) ==
    /\ ~At(r, "idle")
    /\ Finish(r)
    /\ UNCHANGED <<rows, history>>

\* The routes of the controller, each under JwtAuthGuard, and the code a login
\* has verified; the status and the codes that are left are only read.
TwoFactorRequest(r, u) ==
    \/ GenerateRead(r, u) \/ EnableRead(r, u) \/ UseRead(r, u)
    \/ DisableRead(r, u) \/ RegenerateRead(r, u)

Next ==
    \E r \in Requests :
        \/ \E u \in Users : TwoFactorRequest(r, u)
        \/ \E s \in Secrets : GenerateSave(r, s)
        \/ \E s \in Secrets, k \in RowIds : GenerateInsert(r, s, k)
        \/ \E b \in Batches : RegenerateSave(r, b)
        \/ Select(r) \/ EnableSave(r) \/ UseSave(r) \/ DisableSave(r) \/ Fail(r)

Spec == Init /\ [][Next]_vars

-----------------------------------------------------------------------------
(* What holds however the requests interleave.                             *)

Table == {rows[k] : k \in RowIds}

\* A row is on only if its owner has shown a valid TOTP for the secret in it,
\* unless the statements of two saves overlapped, which may leave the secret
\* of a new set-up with the confirmation of another one; and then the owner
\* has confirmed some secret (generateSecret, verifyAndEnable).
EnabledSecretsConfirmed ==
    \A k \in RowIds : rows[k] # Nil /\ rows[k].isEnabled =>
        \E s \in confirmed :
            /\ secrets[s] = rows[k].user
            /\ rows[k].secret = s \/ k \in mixed

\* A backup code is accepted once, and once more at most for every save that
\* overlapped another one of its row: an overlap may accept it twice or bring
\* it back, but only once each, and nothing else does (verify).
ReuseNeedsOverlap ==
    \A c \in BackupCodes : batches[c[1]] # Nil =>
        accepted[c] <= 1 + overlaps[batches[c[1]]]

\* All rows of u are off and no request in flight will save one that is on.
Off(u) ==
    /\ \A row \in Table : row # Nil /\ row.user = u => ~row.isEnabled
    /\ \A r \in Requests : req[r].user = u =>
          /\ ~At(r, "enable")
          /\ req[r].row # Nil => ~req[r].row.isEnabled

\* Once off, the second factor goes on only by a confirmation that starts
\* later.
OffStaysOff ==
    [][\A u \in Users :
          Off(u) => Off(u)' \/ \E r \in Requests : ~At(r, "enable") /\ At(r, "enable")']_vars

-----------------------------------------------------------------------------
(* What holds when the requests are served one at a time.                  *)

\* A backup code is accepted once.
BackupCodeUsedOnce == \A c \in BackupCodes : accepted[c] <= 1

\* A user has one row.
OneRowPerUser == \A u \in Users : Cardinality(RowsOf(u)) <= 1

\* The codes in force are those of the batch the user was sent last.
NewestCodesInForce ==
    \A row \in Table : row # Nil =>
        \A c \in row.backupCodes : c[1] = newest[row.user]

\* All three, however the requests of the users follow each other.
ServedOneByOne == BackupCodeUsedOnce /\ OneRowPerUser /\ NewestCodesInForce
=============================================================================
