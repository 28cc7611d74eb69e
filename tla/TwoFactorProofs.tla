-------------------------- MODULE TwoFactorProofs ---------------------------
(***************************************************************************)
(* What survives any interleaving of any number of requests, for any       *)
(* users, rows, secrets and codes.                                         *)
(*                                                                         *)
(* A request reads a row, selects it again and updates the columns in      *)
(* which its copy differs: Reads, Selects, Inserts and Writes say what any *)
(* of the operations can do to the tables in one step, and each theorem    *)
(* asks only that.                                                         *)
(***************************************************************************)
EXTENDS TwoFactor, TLAPS

\* What is true of every row k, in the table or in a copy, for good: its
\* secret was generated for its user, its codes were generated for it, and it
\* is on after a confirmation.
ShownFor(k, row) ==
    \E s \in confirmed : secrets[s] = row.user /\ (row.secret = s \/ k \in mixed)

Proper(k, row) ==
    /\ secrets[row.secret] = row.user
    /\ \A c \in row.backupCodes : batches[c[1]] = k
    /\ row.isEnabled => ShownFor(k, row)

RowsProper == \A k \in RowIds : rows[k] # Nil => Proper(k, rows[k])

\* A request in flight holds a row of its user that is still in the table; it
\* uses a code that is in its copy, and enables a secret that was confirmed.
HoldsProper(q) == q.row # Nil =>
    /\ rows[q.id] # Nil /\ rows[q.id].user = q.user
    /\ q.row.user = q.user /\ Proper(q.id, q.row)
    /\ q.base # Nil => q.base.user = q.user /\ Proper(q.id, q.base)
    /\ q.pc = "enable" => q.row.secret \in confirmed
    /\ q.pc = "use" => q.code \in q.row.backupCodes

SlotsProper == \A r \in Requests : HoldsProper(req[r])

\* A code in force may be accepted once more without another overlap.
InForce(k, c) == rows[k] # Nil /\ c \in rows[k].backupCodes
Bounded(c, k) ==
    \/ overlaps[k] = 2
    \/ accepted[c] <= overlaps[k]
    \/ accepted[c] = 1 + overlaps[k] /\ ~InForce(k, c)

CodeBounded(c) ==
    \/ batches[c[1]] = Nil /\ accepted[c] = 0
    \/ \E k \in RowIds : k = batches[c[1]] /\ Bounded(c, k)
CodesBounded == \A c \in BackupCodes : CodeBounded(c)

IInv == TypeOK /\ RowsProper /\ SlotsProper /\ CodesBounded

-----------------------------------------------------------------------------
(* The four kinds of steps.                                                *)

Fresh(q) == q.row = Nil /\ q.pc \in {"idle", "insert"}

ReadOf(r, q) ==
    \E k \in RowIds :
        /\ rows[k] \in Row /\ q.id = k /\ q.row = rows[k] /\ q.base = Nil
        /\ q.user = rows[k].user
        /\ q.pc = "use" => q.code \in rows[k].backupCodes
        /\ q.pc = "enable" => rows[k].secret \in confirmed' /\ ~At(r, "enable")

\* The request reads a row, or ends.
Reads(r) ==
    /\ UNCHANGED <<rows, secrets, batches, accepted, overlaps, mixed>>
    /\ confirmed \subseteq confirmed'
    /\ \E q \in Request :
          req' = [req EXCEPT ![r] = q] /\ (Fresh(q) \/ ReadOf(r, q))

\* The request selects what it will update.
SelectOf(r, q) ==
    /\ req[r].row # Nil
    /\ q.row = req[r].row /\ q.id = req[r].id /\ q.user = req[r].user
    /\ q.pc = req[r].pc /\ q.code = req[r].code /\ q.base = rows[req[r].id]

Selects(r) ==
    /\ UNCHANGED <<rows, history>>
    /\ \E q \in Request : req' = [req EXCEPT ![r] = q] /\ SelectOf(r, q)

OthersKept ==
    /\ \A s \in Secrets : secrets[s] # Nil => secrets'[s] = secrets[s]
    /\ \A b \in Batches : batches[b] # Nil => batches'[b] = batches[b]

\* The request inserts a row that is off, without codes.
Inserts(r) ==
    /\ OthersKept
    /\ UNCHANGED <<batches, confirmed, accepted, overlaps, mixed>>
    /\ req' = [req EXCEPT ![r] = Idle]
    /\ \E k \in RowIds, row \in Row :
          /\ rows[k] = Nil /\ rows' = [rows EXCEPT ![k] = row]
          /\ secrets'[row.secret] = row.user
          /\ ~row.isEnabled /\ row.backupCodes = {}

\* The copy saved: it is on only by the row read or a confirmation, and has
\* codes of the row read and fresh ones.
CopyOf(r, copy) ==
    /\ copy.user = req[r].row.user
    /\ copy.isEnabled => /\ At(r, "enable") \/ req[r].row.isEnabled
                         /\ copy.secret = req[r].row.secret
    /\ copy.secret = req[r].row.secret \/ secrets'[copy.secret] = req[r].user
    /\ \A c \in copy.backupCodes :
          \/ c \in req[r].row.backupCodes
          \/ batches[c[1]] = Nil /\ batches'[c[1]] = req[r].id

CountOf(r, copy, c) ==
    \/ accepted'[c] = accepted[c]
    \/ /\ At(r, "use") /\ c = req[r].code /\ c \notin copy.backupCodes
       /\ accepted'[c] = IF accepted[c] = 3 THEN 3 ELSE accepted[c] + 1

\* The request updates its row and ends.
Writes(r) ==
    /\ req[r].pc \notin {"idle", "insert"}
    /\ OthersKept
    /\ confirmed' = confirmed
    /\ req' = [req EXCEPT ![r] = Idle]
    /\ \A b \in Batches : batches[b] = Nil => batches'[b] \in {Nil, req[r].id}
    /\ \E copy \in Row :
          /\ Save(r, copy) /\ CopyOf(r, copy)
          /\ \A c \in BackupCodes : CountOf(r, copy, c)

-----------------------------------------------------------------------------
LEMMA CodesTyped ==
    ASSUME NEW b \in Batches
    PROVE  /\ Generated(b) \subseteq BackupCodes
           /\ \A c \in Generated(b) : c[1] = b
BY DEF Generated, BackupCodes

LEMMA CodeHasBatch ==
    ASSUME NEW c \in BackupCodes
    PROVE  c[1] \in Batches
BY DEF BackupCodes

\* What a slot holds at each place a request can wait.
LEMMA SlotTyped ==
    ASSUME TypeOK, NEW r \in Requests
    PROVE  /\ req[r] \in Request
           /\ req[r].pc # "idle" => req[r].user \in Users
           /\ req[r].pc \notin {"idle", "insert"} =>
                 /\ req[r].row \in Row /\ req[r].row # Nil
                 /\ req[r].id \in RowIds /\ req[r].id # Nil
                 /\ req[r].base \in Row \cup {Nil}
           /\ req[r].row # Nil => req[r].pc \notin {"idle", "insert"}
           /\ req[r].pc = "use" => req[r].code \in BackupCodes
<1>1. req[r] \in Request
    BY DEF TypeOK
<1>2. QED BY <1>1, NilAssumption DEF Request, Idle

LEMMA IdleTyped == Idle \in Request /\ Fresh(Idle)
BY DEF Idle, Request, Fresh

\* Every row that is found is a row of the user.
LEMMA FoundTyped ==
    ASSUME TypeOK, NEW u \in Users, NEW k \in RowsOf(u)
    PROVE  k \in RowIds /\ rows[k] \in Row /\ rows[k].user = u
BY DEF TypeOK, RowsOf

\* Only slot r changes, to q.
LEMMA OtherSlots ==
    ASSUME TypeOK, NEW r \in Requests, NEW q, req' = [req EXCEPT ![r] = q]
    PROVE  req'[r] = q /\ \A x \in Requests : x # r => req'[x] = req[x]
BY DEF TypeOK

-----------------------------------------------------------------------------
(* Every operation is of one of the kinds.                                 *)

LEMMA ReadTyped ==
    ASSUME TypeOK, NEW r \in Requests, NEW u \in Users, NEW k \in RowsOf(u),
           NEW pc, NEW c, Hold(r, pc, u, k, c),
           \/ pc \in {"generate", "enable", "disable", "regenerate"} /\ c = Nil
           \/ pc = "use" /\ c \in rows[k].backupCodes,
           UNCHANGED <<rows, secrets, batches, newest, accepted, overlaps, mixed>>,
           confirmed \subseteq confirmed', confirmed' \subseteq Secrets,
           pc = "enable" => rows[k].secret \in confirmed' /\ ~At(r, "enable")
    PROVE  Reads(r) /\ TypeOK'
<1>1. k \in RowIds /\ rows[k] \in Row /\ rows[k].user = u
    BY FoundTyped
<1>2. PICK q : q = [pc |-> pc, user |-> u, id |-> k, row |-> rows[k],
                    base |-> Nil, code |-> c]
    OBVIOUS
<1>3. q \in Request
    BY <1>1, <1>2 DEF Request, Row
<1>4. req' = [req EXCEPT ![r] = q]
    BY <1>2 DEF Hold
<1>5. ReadOf(r, q)
    BY <1>1, <1>2 DEF ReadOf
<1>6. Reads(r)
    BY <1>3, <1>4, <1>5 DEF Reads
<1>7. TypeOK'
    BY <1>3, <1>4 DEF TypeOK
<1>8. QED BY <1>6, <1>7

LEMMA ReadStep ==
    ASSUME TypeOK, NEW r \in Requests, NEW u \in Users,
           TwoFactorRequest(r, u)
    PROVE  TypeOK' /\ Reads(r)
<1>1. CASE GenerateRead(r, u)
    <2>1. CASE \E k \in RowsOf(u) : Hold(r, "generate", u, k, Nil)
        BY <1>1, <2>1, ReadTyped DEF GenerateRead, TypeOK, history
    <2>2. CASE req' = [req EXCEPT ![r] = [Idle EXCEPT !.pc = "insert", !.user = u]]
        <3>1. PICK q : q = [Idle EXCEPT !.pc = "insert", !.user = u]
            OBVIOUS
        <3>2. q \in Request /\ Fresh(q)
            BY <3>1 DEF Idle, Request, Fresh
        <3>3. Reads(r)
            BY <1>1, <2>2, <3>1, <3>2 DEF Reads, GenerateRead, history
        <3>4. TypeOK'
            BY <1>1, <2>2, <3>1, <3>2 DEF TypeOK, GenerateRead, history
        <3>5. QED BY <3>3, <3>4
    <2>3. QED BY <1>1, <2>1, <2>2 DEF GenerateRead
<1>2. CASE EnableRead(r, u)
    <2>1. PICK k \in RowsOf(u) :
              /\ confirmed' = confirmed \cup {rows[k].secret}
              /\ Hold(r, "enable", u, k, Nil)
        BY <1>2 DEF EnableRead
    <2>2. rows[k] \in Row
        BY FoundTyped
    <2>3. confirmed \subseteq confirmed' /\ confirmed' \subseteq Secrets
        BY <2>1, <2>2 DEF TypeOK, Row
    <2>4. QED BY <1>2, <2>1, <2>3, ReadTyped DEF EnableRead, At
<1>3. CASE UseRead(r, u)
    BY <1>3, ReadTyped DEF UseRead, TypeOK, history
<1>4. CASE DisableRead(r, u)
    BY <1>4, ReadTyped DEF DisableRead, TypeOK, history
<1>5. CASE RegenerateRead(r, u)
    BY <1>5, ReadTyped DEF RegenerateRead, TypeOK, history
<1>6. QED BY <1>1, <1>2, <1>3, <1>4, <1>5 DEF TwoFactorRequest

LEMMA EndStep ==
    ASSUME TypeOK, NEW r \in Requests, Fail(r)
    PROVE  TypeOK' /\ Reads(r)
<1>1. Reads(r)
    BY IdleTyped DEF Fail, Finish, Reads, history
<1>2. TypeOK'
    BY IdleTyped DEF Fail, Finish, TypeOK, history
<1>3. QED BY <1>1, <1>2

LEMMA SelectStep ==
    ASSUME TypeOK, NEW r \in Requests, Select(r)
    PROVE  TypeOK' /\ Selects(r)
<1>1. PICK q : q = [pc |-> req[r].pc, user |-> req[r].user, id |-> req[r].id,
                    row |-> req[r].row, base |-> rows[req[r].id],
                    code |-> req[r].code]
    OBVIOUS
<1>2. req' = [req EXCEPT ![r] = q]
    BY <1>1 DEF Select
<1>3. req[r] \in Request /\ req[r].row # Nil
    BY SlotTyped DEF Select
<1>4. rows[req[r].id] \in Row \cup {Nil}
    BY <1>3, SlotTyped DEF TypeOK
<1>5. q \in Request
    BY <1>1, <1>3, <1>4 DEF Request, Idle
<1>6. SelectOf(r, q)
    BY <1>1, <1>3 DEF SelectOf
<1>7. Selects(r)
    BY <1>2, <1>5, <1>6 DEF Selects, Select
<1>8. TypeOK'
    BY <1>2, <1>5 DEF TypeOK, Select, history
<1>9. QED BY <1>7, <1>8

LEMMA InsertStep ==
    ASSUME TypeOK, NEW r \in Requests, NEW s \in Secrets, NEW k \in RowIds,
           GenerateInsert(r, s, k)
    PROVE  TypeOK' /\ Inserts(r)
<1>1. PICK row : row = [user |-> req[r].user, secret |-> s,
                        isEnabled |-> FALSE, backupCodes |-> {}]
    OBVIOUS
<1>2. req[r].user \in Users
    BY SlotTyped DEF GenerateInsert, At
<1>3. row \in Row /\ ~row.isEnabled /\ row.backupCodes = {} /\ row.secret = s
      /\ row.user = req[r].user
    BY <1>1, <1>2 DEF Row
<1>4. rows[k] = Nil /\ rows' = [rows EXCEPT ![k] = row]
    BY <1>1 DEF GenerateInsert
<1>5. /\ secrets[s] = Nil /\ secrets' = [secrets EXCEPT ![s] = req[r].user]
      /\ UNCHANGED <<batches, newest, confirmed, accepted, overlaps, mixed>>
      /\ req' = [req EXCEPT ![r] = Idle]
    BY DEF GenerateInsert, Finish
<1>6. OthersKept /\ secrets'[row.secret] = row.user
    BY <1>3, <1>5 DEF OthersKept, TypeOK
<1>7. Inserts(r)
    BY <1>3, <1>4, <1>5, <1>6 DEF Inserts
<1>8. TypeOK'
    BY <1>2, <1>3, <1>4, <1>5, IdleTyped DEF TypeOK
<1>9. QED BY <1>7, <1>8

\* The columns of the updated row.
LEMMA ChangedTyped ==
    ASSUME NEW row \in Row, NEW base \in Row, NEW copy \in Row,
           copy.user = row.user
    PROVE  /\ Changed(row, base, copy) \in Row
           /\ Changed(row, base, copy).user = row.user
           /\ Changed(row, base, copy).secret \in {row.secret, copy.secret}
           /\ Changed(row, base, copy).isEnabled
              => row.isEnabled \/ copy.isEnabled
           /\ Changed(row, base, copy).backupCodes
              \in {row.backupCodes, copy.backupCodes}
           /\ row = base => Changed(row, base, copy) = copy
BY DEF Changed, Row

\* A save keeps the types.
LEMMA SaveTyped ==
    ASSUME TypeOK, SlotsProper, NEW r \in Requests, NEW copy \in Row,
           req[r].pc \notin {"idle", "insert"}, Save(r, copy),
           copy.user = req[r].row.user
    PROVE  /\ req[r].base \in Row /\ rows[req[r].id] \in Row
           /\ rows[req[r].id].user = copy.user
           /\ rows' = [rows EXCEPT ![req[r].id] =
                          Changed(rows[req[r].id], req[r].base, copy)]
           /\ rows' \in [RowIds -> Row \cup {Nil}]
           /\ mixed' \subseteq RowIds
           /\ overlaps' \in [RowIds -> 0..2]
<1>1. /\ req[r].row # Nil /\ req[r].id \in RowIds
      /\ req[r].base \in Row \cup {Nil}
    BY SlotTyped
<1>2. /\ rows[req[r].id] # Nil /\ rows[req[r].id].user = req[r].user
      /\ req[r].row.user = req[r].user
    BY <1>1 DEF SlotsProper, HoldsProper
<1>3. req[r].base \in Row /\ rows[req[r].id] \in Row
    BY <1>1, <1>2 DEF Save, TypeOK
<1>4. PICK k, old, base, new :
          /\ k = req[r].id /\ old = rows[k] /\ base = req[r].base
          /\ new = Changed(old, base, copy)
    OBVIOUS
<1>5. /\ rows' = [rows EXCEPT ![k] = new]
      /\ mixed' = IF old = base THEN mixed ELSE mixed \cup {k}
      /\ \/ overlaps' = overlaps
         \/ overlaps' = [overlaps EXCEPT ![k] = IF @ = 2 THEN 2 ELSE @ + 1]
    BY <1>4 DEF Save
<1>6. new \in Row
    BY <1>2, <1>3, <1>4, ChangedTyped
<1>7. /\ rows' \in [RowIds -> Row \cup {Nil}]
      /\ mixed' \subseteq RowIds
    BY <1>1, <1>4, <1>5, <1>6 DEF TypeOK
<1>8. overlaps' \in [RowIds -> 0..2]
    BY <1>1, <1>4, <1>5 DEF TypeOK
<1>9. QED BY <1>2, <1>3, <1>4, <1>5, <1>7, <1>8

LEMMA GenerateTyped ==
    ASSUME TypeOK, NEW r \in Requests, NEW b \in Batches, Generate(r, b),
           req[r].pc \notin {"idle", "insert"}
    PROVE  /\ batches' \in [Batches -> RowIds \cup {Nil}]
           /\ newest' \in [Users -> Batches \cup {Nil}]
           /\ \A d \in Batches : batches[d] # Nil => batches'[d] = batches[d]
           /\ \A d \in Batches : batches[d] = Nil => batches'[d] \in {Nil, req[r].id}
           /\ \A c \in Generated(b) :
                 batches[c[1]] = Nil /\ batches'[c[1]] = req[r].id
<1>1. req[r].id \in RowIds /\ req[r].user \in Users
    BY SlotTyped
<1>2. /\ batches[b] = Nil
      /\ batches' = [batches EXCEPT ![b] = req[r].id]
      /\ newest' = [newest EXCEPT ![req[r].user] = b]
    BY DEF Generate
<1>3. QED BY <1>1, <1>2, CodesTyped DEF TypeOK

\* A saved copy with what the operation changed in it.
LEMMA WriteStep ==
    ASSUME TypeOK, SlotsProper, NEW r \in Requests, NEW copy \in Row,
           req[r].pc \notin {"idle", "insert"},
           Save(r, copy), Finish(r), confirmed' = confirmed,
           copy.user = req[r].row.user,
           copy.isEnabled => /\ At(r, "enable") \/ req[r].row.isEnabled
                             /\ copy.secret = req[r].row.secret,
           copy.secret = req[r].row.secret \/ secrets'[copy.secret] = req[r].user,
           \A c \in copy.backupCodes :
               \/ c \in req[r].row.backupCodes
               \/ batches[c[1]] = Nil /\ batches'[c[1]] = req[r].id,
           secrets' \in [Secrets -> Users \cup {Nil}],
           \A s \in Secrets : secrets[s] # Nil => secrets'[s] = secrets[s],
           batches' \in [Batches -> RowIds \cup {Nil}],
           newest' \in [Users -> Batches \cup {Nil}],
           \A b \in Batches : batches[b] # Nil => batches'[b] = batches[b],
           \A b \in Batches : batches[b] = Nil => batches'[b] \in {Nil, req[r].id},
           accepted' \in [BackupCodes -> 0..3],
           \A c \in BackupCodes : CountOf(r, copy, c)
    PROVE  TypeOK' /\ Writes(r)
<1>1. req' = [req EXCEPT ![r] = Idle]
    BY DEF Finish
<1>2. CopyOf(r, copy) /\ OthersKept
    BY DEF CopyOf, OthersKept
<1>3. Writes(r)
    BY <1>1, <1>2 DEF Writes
<1>4. /\ rows' \in [RowIds -> Row \cup {Nil}] /\ mixed' \subseteq RowIds
      /\ overlaps' \in [RowIds -> 0..2]
    BY SaveTyped
<1>5. TypeOK'
    BY <1>1, <1>4, IdleTyped DEF TypeOK
<1>6. QED BY <1>3, <1>5

LEMMA GenerateStep ==
    ASSUME TypeOK, SlotsProper, NEW r \in Requests, NEW s \in Secrets,
           GenerateSave(r, s)
    PROVE  TypeOK' /\ Writes(r)
<1>1. /\ req[r].pc = "generate" /\ req[r].row \in Row /\ req[r].user \in Users
    BY SlotTyped DEF GenerateSave, At
<1>2. PICK copy : copy = SetUp(req[r].row, s)
    OBVIOUS
<1>3. /\ copy \in Row /\ copy.user = req[r].row.user /\ ~copy.isEnabled
      /\ copy.secret = s /\ copy.backupCodes = req[r].row.backupCodes
    BY <1>1, <1>2 DEF SetUp, Row
<1>4. /\ secrets[s] = Nil /\ secrets' = [secrets EXCEPT ![s] = req[r].user]
      /\ Save(r, copy) /\ Finish(r)
      /\ UNCHANGED <<batches, newest, confirmed, accepted>>
    BY <1>2 DEF GenerateSave
<1>5. /\ secrets' \in [Secrets -> Users \cup {Nil}]
      /\ \A t \in Secrets : secrets[t] # Nil => secrets'[t] = secrets[t]
      /\ secrets'[copy.secret] = req[r].user
    BY <1>1, <1>3, <1>4 DEF TypeOK
<1>6. /\ batches' \in [Batches -> RowIds \cup {Nil}]
      /\ newest' \in [Users -> Batches \cup {Nil}]
      /\ accepted' \in [BackupCodes -> 0..3]
      /\ \A b \in Batches : batches[b] # Nil => batches'[b] = batches[b]
      /\ \A b \in Batches : batches[b] = Nil => batches'[b] \in {Nil, req[r].id}
      /\ \A c \in BackupCodes : CountOf(r, copy, c)
    BY <1>4 DEF TypeOK, CountOf
<1>7. QED BY <1>1, <1>3, <1>4, <1>5, <1>6, WriteStep

LEMMA EnableStep ==
    ASSUME TypeOK, SlotsProper, NEW r \in Requests, EnableSave(r)
    PROVE  TypeOK' /\ Writes(r)
<1>1. /\ req[r].pc = "enable" /\ req[r].row \in Row /\ req[r].user \in Users
    BY SlotTyped DEF EnableSave, At
<1>2. PICK b \in Batches :
          /\ Save(r, Enabled(req[r].row, b))
          /\ \/ req[r].row.backupCodes = {} /\ Generate(r, b)
             \/ req[r].row.backupCodes # {} /\ UNCHANGED <<batches, newest>>
    BY DEF EnableSave
<1>3. PICK copy : copy = Enabled(req[r].row, b)
    OBVIOUS
<1>4. /\ copy \in Row /\ copy.user = req[r].row.user
      /\ copy.secret = req[r].row.secret
      /\ copy.backupCodes = IF req[r].row.backupCodes = {} THEN Generated(b)
                            ELSE req[r].row.backupCodes
    BY <1>1, <1>3, CodesTyped DEF Enabled, Row
<1>5. /\ batches' \in [Batches -> RowIds \cup {Nil}]
      /\ newest' \in [Users -> Batches \cup {Nil}]
      /\ \A d \in Batches : batches[d] # Nil => batches'[d] = batches[d]
      /\ \A d \in Batches : batches[d] = Nil => batches'[d] \in {Nil, req[r].id}
      /\ \A c \in copy.backupCodes :
            \/ c \in req[r].row.backupCodes
            \/ batches[c[1]] = Nil /\ batches'[c[1]] = req[r].id
    <2>1. CASE req[r].row.backupCodes = {} /\ Generate(r, b)
        BY <1>1, <1>4, <2>1, GenerateTyped
    <2>2. CASE req[r].row.backupCodes # {} /\ UNCHANGED <<batches, newest>>
        BY <1>4, <2>2 DEF TypeOK
    <2>3. QED BY <1>2, <2>1, <2>2
<1>6. Finish(r) /\ UNCHANGED <<secrets, confirmed, accepted>>
    BY DEF EnableSave
<1>7. /\ secrets' \in [Secrets -> Users \cup {Nil}]
      /\ accepted' \in [BackupCodes -> 0..3]
      /\ \A t \in Secrets : secrets[t] # Nil => secrets'[t] = secrets[t]
      /\ \A c \in BackupCodes : CountOf(r, copy, c)
    BY <1>6 DEF TypeOK, CountOf
<1>8. QED BY <1>1, <1>2, <1>3, <1>4, <1>5, <1>6, <1>7, WriteStep DEF At

LEMMA UseStep ==
    ASSUME TypeOK, SlotsProper, NEW r \in Requests, UseSave(r)
    PROVE  TypeOK' /\ Writes(r)
<1>1. /\ req[r].pc = "use" /\ req[r].row \in Row /\ req[r].code \in BackupCodes
    BY SlotTyped DEF UseSave, At
<1>2. PICK copy, code : copy = UsedUp(req[r].row, code) /\ code = req[r].code
    OBVIOUS
<1>3. /\ copy \in Row /\ copy.user = req[r].row.user
      /\ copy.secret = req[r].row.secret /\ copy.isEnabled = req[r].row.isEnabled
      /\ copy.backupCodes = req[r].row.backupCodes \ {code}
    BY <1>1, <1>2 DEF UsedUp, Row
<1>4. /\ Save(r, copy) /\ Finish(r)
      /\ accepted' = [accepted EXCEPT ![code] = IF @ = 3 THEN 3 ELSE @ + 1]
      /\ UNCHANGED <<secrets, batches, newest, confirmed>>
    BY <1>2 DEF UseSave
<1>5. /\ secrets' \in [Secrets -> Users \cup {Nil}]
      /\ batches' \in [Batches -> RowIds \cup {Nil}]
      /\ newest' \in [Users -> Batches \cup {Nil}]
      /\ \A t \in Secrets : secrets[t] # Nil => secrets'[t] = secrets[t]
      /\ \A b \in Batches : batches[b] # Nil => batches'[b] = batches[b]
      /\ \A b \in Batches : batches[b] = Nil => batches'[b] \in {Nil, req[r].id}
    BY <1>4 DEF TypeOK
<1>6. accepted' \in [BackupCodes -> 0..3]
    <2>1. PICK n : n = IF accepted[code] = 3 THEN 3 ELSE accepted[code] + 1
        OBVIOUS
    <2>2. accepted[code] \in 0..3
        BY <1>1, <1>2 DEF TypeOK
    <2>3. n \in 0..3
        BY <2>1, <2>2
    <2>4. accepted' = [accepted EXCEPT ![code] = n]
        BY <1>4, <2>1, Zenon
    <2>5. QED BY <2>3, <2>4, Zenon DEF TypeOK
<1>7. ASSUME NEW c \in BackupCodes
      PROVE  CountOf(r, copy, c)
    <2>1. CASE c = code
        BY <1>1, <1>2, <1>3, <1>4, <2>1 DEF TypeOK, CountOf, At
    <2>2. CASE c # code
        BY <1>4, <2>2 DEF TypeOK, CountOf
    <2>3. QED BY <2>1, <2>2
<1>8. QED BY <1>1, <1>3, <1>4, <1>5, <1>6, <1>7, WriteStep

LEMMA DisableStep ==
    ASSUME TypeOK, SlotsProper, NEW r \in Requests, DisableSave(r)
    PROVE  TypeOK' /\ Writes(r)
<1>1. req[r].pc = "disable" /\ req[r].row \in Row
    BY SlotTyped DEF DisableSave, At
<1>2. PICK copy : copy = Disabled(req[r].row)
    OBVIOUS
<1>3. /\ copy \in Row /\ copy.user = req[r].row.user /\ ~copy.isEnabled
      /\ copy.secret = req[r].row.secret
      /\ copy.backupCodes = req[r].row.backupCodes
    BY <1>1, <1>2 DEF Disabled, Row
<1>4. /\ Save(r, copy) /\ Finish(r)
      /\ UNCHANGED <<secrets, batches, newest, confirmed, accepted>>
    BY <1>2 DEF DisableSave
<1>5. /\ secrets' \in [Secrets -> Users \cup {Nil}]
      /\ batches' \in [Batches -> RowIds \cup {Nil}]
      /\ newest' \in [Users -> Batches \cup {Nil}]
      /\ accepted' \in [BackupCodes -> 0..3]
      /\ \A t \in Secrets : secrets[t] # Nil => secrets'[t] = secrets[t]
      /\ \A b \in Batches : batches[b] # Nil => batches'[b] = batches[b]
      /\ \A b \in Batches : batches[b] = Nil => batches'[b] \in {Nil, req[r].id}
      /\ \A c \in BackupCodes : CountOf(r, copy, c)
    BY <1>4 DEF TypeOK, CountOf
<1>6. QED BY <1>1, <1>3, <1>4, <1>5, WriteStep DEF At

LEMMA RegenerateStep ==
    ASSUME TypeOK, SlotsProper, NEW r \in Requests, NEW b \in Batches,
           RegenerateSave(r, b)
    PROVE  TypeOK' /\ Writes(r)
<1>1. /\ req[r].pc = "regenerate" /\ req[r].row \in Row
    BY SlotTyped DEF RegenerateSave, At
<1>2. PICK copy : copy = Regenerated(req[r].row, b)
    OBVIOUS
<1>3. /\ copy \in Row /\ copy.user = req[r].row.user
      /\ copy.secret = req[r].row.secret /\ copy.isEnabled = req[r].row.isEnabled
      /\ copy.backupCodes = Generated(b)
    BY <1>1, <1>2, CodesTyped DEF Regenerated, Row
<1>4. /\ Save(r, copy) /\ Finish(r) /\ Generate(r, b)
      /\ UNCHANGED <<secrets, confirmed, accepted>>
    BY <1>2 DEF RegenerateSave
<1>5. /\ batches' \in [Batches -> RowIds \cup {Nil}]
      /\ newest' \in [Users -> Batches \cup {Nil}]
      /\ \A d \in Batches : batches[d] # Nil => batches'[d] = batches[d]
      /\ \A d \in Batches : batches[d] = Nil => batches'[d] \in {Nil, req[r].id}
      /\ \A c \in copy.backupCodes :
            batches[c[1]] = Nil /\ batches'[c[1]] = req[r].id
    BY <1>1, <1>3, <1>4, GenerateTyped
<1>6. /\ secrets' \in [Secrets -> Users \cup {Nil}]
      /\ accepted' \in [BackupCodes -> 0..3]
      /\ \A t \in Secrets : secrets[t] # Nil => secrets'[t] = secrets[t]
      /\ \A c \in BackupCodes : CountOf(r, copy, c)
    BY <1>4 DEF TypeOK, CountOf
<1>7. QED BY <1>1, <1>3, <1>4, <1>5, <1>6, WriteStep

LEMMA StepEffect ==
    ASSUME TypeOK, SlotsProper, [Next]_vars
    PROVE  /\ TypeOK'
           /\ \/ UNCHANGED vars
              \/ \E r \in Requests : Reads(r) \/ Selects(r) \/ Inserts(r) \/ Writes(r)
<1>1. CASE Next
    <2>1. PICK r \in Requests :
              \/ \E u \in Users : TwoFactorRequest(r, u)
              \/ \E s \in Secrets : GenerateSave(r, s)
              \/ \E s \in Secrets, k \in RowIds : GenerateInsert(r, s, k)
              \/ \E b \in Batches : RegenerateSave(r, b)
              \/ Select(r) \/ EnableSave(r) \/ UseSave(r) \/ DisableSave(r) \/ Fail(r)
        BY <1>1 DEF Next
    <2>2. TypeOK' /\ (Reads(r) \/ Selects(r) \/ Inserts(r) \/ Writes(r))
        BY <2>1, ReadStep, SelectStep, InsertStep, GenerateStep, RegenerateStep,
           EnableStep, UseStep, DisableStep, EndStep
    <2>3. QED BY <2>2
<1>2. CASE UNCHANGED vars
    BY <1>2 DEF TypeOK, vars
<1>3. QED BY <1>1, <1>2

-----------------------------------------------------------------------------
(* The invariant.                                                          *)

\* What is recorded of a row stays true: secrets and batches keep their
\* owners, confirmations and mixtures are never taken back.
Grows ==
    /\ OthersKept
    /\ confirmed \subseteq confirmed' /\ mixed \subseteq mixed'

LEMMA ProperStays ==
    ASSUME TypeOK, Grows, NEW k \in RowIds, NEW row \in Row, Proper(k, row)
    PROVE  Proper(k, row)'
<1>1. /\ row.secret \in Secrets /\ row.user \in Users
      /\ row.backupCodes \subseteq BackupCodes
    BY DEF Row
<1>2. secrets'[row.secret] = row.user
    BY <1>1, NilAssumption DEF Proper, Grows, OthersKept
<1>3. \A c \in row.backupCodes : batches'[c[1]] = k
    BY <1>1, CodeHasBatch, NilAssumption DEF Proper, Grows, OthersKept
<1>4. ASSUME ShownFor(k, row)
      PROVE  ShownFor(k, row)'
    <2>1. PICK s \in confirmed :
              secrets[s] = row.user /\ (row.secret = s \/ k \in mixed)
        BY <1>4 DEF ShownFor
    <2>2. s \in Secrets /\ s \in confirmed'
        BY <2>1 DEF TypeOK, Grows
    <2>3. secrets'[s] = row.user
        BY <1>1, <2>1, <2>2, NilAssumption DEF Grows, OthersKept
    <2>4. row.secret = s \/ k \in mixed'
        BY <2>1 DEF Grows
    <2>5. QED BY <2>2, <2>3, <2>4 DEF ShownFor
<1>5. QED BY <1>2, <1>3, <1>4 DEF Proper

\* Rows stay rows of their users.
RowsStay == \A k \in RowIds : rows[k] # Nil =>
               rows'[k] # Nil /\ rows'[k].user = rows[k].user

\* What a slot holds stays proper.
LEMMA HoldsStays ==
    ASSUME TypeOK, Grows, RowsStay, NEW r \in Requests, HoldsProper(req[r]),
           req'[r] = req[r]
    PROVE  HoldsProper(req[r])'
<1>1. SUFFICES ASSUME req[r].row # Nil PROVE HoldsProper(req[r])'
    BY DEF HoldsProper
<1>2. /\ req[r].row \in Row /\ req[r].id \in RowIds
      /\ req[r].base \in Row \cup {Nil}
    BY <1>1, SlotTyped
<1>3. PICK q : q = req[r]
    OBVIOUS
<1>4. rows'[q.id] # Nil /\ rows'[q.id].user = q.user
    BY <1>1, <1>2, <1>3 DEF HoldsProper, RowsStay
<1>5. Proper(q.id, q.row)'
    BY <1>1, <1>2, <1>3, ProperStays DEF HoldsProper
<1>6. q.base # Nil => Proper(q.id, q.base)'
    BY <1>1, <1>2, <1>3, ProperStays DEF HoldsProper
<1>7. q.pc = "enable" => q.row.secret \in confirmed'
    BY <1>1, <1>3 DEF HoldsProper, Grows
<1>8. HoldsProper(q)'
    BY <1>1, <1>3, <1>4, <1>5, <1>6, <1>7 DEF HoldsProper
<1>9. QED BY <1>3, <1>8

\* Steps that leave the table alone keep every code's bound.
LEMMA QuietBounds ==
    ASSUME CodesBounded, UNCHANGED <<rows, batches, accepted, overlaps>>
    PROVE  CodesBounded'
BY DEF CodesBounded, CodeBounded, Bounded, InForce

LEMMA ReadsKeepInvariant ==
    ASSUME IInv, TypeOK', NEW r \in Requests, Reads(r)
    PROVE  IInv'
<1>1. PICK q \in Request :
          req' = [req EXCEPT ![r] = q] /\ (Fresh(q) \/ ReadOf(r, q))
    BY DEF Reads
<1>2. req'[r] = q /\ \A x \in Requests : x # r => req'[x] = req[x]
    BY <1>1, OtherSlots DEF IInv
<1>3. Grows /\ RowsStay
    BY DEF Reads, Grows, OthersKept, RowsStay
<1>4. \A k \in RowIds : rows[k] # Nil => Proper(k, rows[k])'
    BY <1>3, ProperStays DEF IInv, RowsProper, TypeOK, Reads
<1>5. RowsProper'
    BY <1>4 DEF RowsProper, Reads
<1>6. HoldsProper(q)'
    <2>1. CASE Fresh(q)
        BY <2>1 DEF Fresh, HoldsProper
    <2>2. CASE ReadOf(r, q)
        <3>1. PICK k \in RowIds :
                  /\ rows[k] \in Row /\ q.id = k /\ q.row = rows[k] /\ q.base = Nil
                  /\ q.user = rows[k].user
                  /\ q.pc = "use" => q.code \in rows[k].backupCodes
                  /\ q.pc = "enable" => rows[k].secret \in confirmed'
            BY <2>2 DEF ReadOf
        <3>2. rows[k] # Nil /\ rows' = rows
            BY <3>1, NilAssumption DEF Reads
        <3>3. PICK row \in Row : row = rows[k]
            BY <3>1
        <3>4. Proper(k, row)'
            BY <1>3, <3>2, <3>3, ProperStays DEF IInv, RowsProper
        <3>5. QED BY <3>1, <3>2, <3>3, <3>4 DEF HoldsProper
    <2>3. QED BY <1>1, <2>1, <2>2
<1>7. \A x \in Requests : HoldsProper(req[x])'
    BY <1>2, <1>3, <1>6, HoldsStays DEF IInv, SlotsProper
<1>8. CodesBounded'
    BY QuietBounds DEF IInv, Reads
<1>9. QED BY <1>5, <1>7, <1>8 DEF IInv, SlotsProper

LEMMA SelectsKeepInvariant ==
    ASSUME IInv, TypeOK', NEW r \in Requests, Selects(r)
    PROVE  IInv'
<1>1. PICK q \in Request : req' = [req EXCEPT ![r] = q] /\ SelectOf(r, q)
    BY DEF Selects
<1>2. req'[r] = q /\ \A x \in Requests : x # r => req'[x] = req[x]
    BY <1>1, OtherSlots DEF IInv
<1>3. Grows /\ RowsStay /\ UNCHANGED <<rows, history>>
    BY DEF Selects, Grows, OthersKept, RowsStay, history
<1>4. RowsProper'
    BY <1>3 DEF IInv, RowsProper, Proper, ShownFor, history
<1>5. HoldsProper(q)'
    <2>1. HoldsProper(req[r]) /\ req[r].row # Nil /\ req[r].id \in RowIds
        BY <1>1, SlotTyped DEF IInv, SlotsProper, SelectOf
    <2>2. /\ rows[q.id] # Nil /\ rows[q.id].user = q.user /\ q.id \in RowIds
          /\ q.row.user = q.user /\ Proper(q.id, q.row)
          /\ q.pc = "enable" => q.row.secret \in confirmed
          /\ q.pc = "use" => q.code \in q.row.backupCodes
          /\ q.base = rows[q.id]
        BY <1>1, <2>1 DEF HoldsProper, SelectOf
    <2>3. Proper(q.id, q.base) /\ q.base.user = q.user
        BY <2>2 DEF IInv, RowsProper
    <2>4. QED BY <1>3, <2>2, <2>3 DEF HoldsProper, Proper, ShownFor, history
<1>6. \A x \in Requests : HoldsProper(req[x])'
    BY <1>2, <1>3, <1>5, HoldsStays DEF IInv, SlotsProper
<1>7. CodesBounded'
    BY <1>3, QuietBounds DEF IInv, history
<1>8. QED BY <1>4, <1>6, <1>7 DEF IInv, SlotsProper

\* The slots after a request has ended.
LEMMA EndedSlots ==
    ASSUME IInv, Grows, RowsStay, NEW r \in Requests,
           req' = [req EXCEPT ![r] = Idle]
    PROVE  SlotsProper'
<1>1. req'[r] = Idle /\ \A x \in Requests : x # r => req'[x] = req[x]
    BY OtherSlots DEF IInv
<1>2. HoldsProper(Idle)'
    BY DEF HoldsProper, Idle
<1>3. \A x \in Requests : HoldsProper(req[x])'
    BY <1>1, <1>2, HoldsStays DEF IInv, SlotsProper
<1>4. QED BY <1>3 DEF SlotsProper

LEMMA InsertsKeepInvariant ==
    ASSUME IInv, TypeOK', NEW r \in Requests, Inserts(r)
    PROVE  IInv'
<1>1. PICK k \in RowIds, row \in Row :
          /\ rows[k] = Nil /\ rows' = [rows EXCEPT ![k] = row]
          /\ secrets'[row.secret] = row.user
          /\ ~row.isEnabled /\ row.backupCodes = {}
    BY DEF Inserts
<1>2. \A j \in RowIds : rows'[j] = IF j = k THEN row ELSE rows[j]
    BY <1>1 DEF IInv, TypeOK
<1>3. Grows
    BY DEF Inserts, Grows
<1>4. RowsStay
    BY <1>1, <1>2 DEF RowsStay
<1>5. Proper(k, row)'
    BY <1>1 DEF Proper
<1>6. \A j \in RowIds : rows[j] # Nil => Proper(j, rows[j])'
    <2>1. SUFFICES ASSUME NEW j \in RowIds, rows[j] # Nil PROVE Proper(j, rows[j])'
        OBVIOUS
    <2>2. j # k /\ rows'[j] = rows[j] /\ rows[j] \in Row
        BY <1>1, <1>2, <2>1 DEF IInv, TypeOK
    <2>3. PICK old \in Row : old = rows[j]
        BY <2>2
    <2>4. Proper(j, old)'
        BY <1>3, <2>1, <2>3, ProperStays DEF IInv, RowsProper
    <2>5. QED BY <2>2, <2>3, <2>4
<1>7. RowsProper'
    <2>1. SUFFICES ASSUME NEW j \in RowIds, rows'[j] # Nil PROVE Proper(j, rows[j])'
        BY DEF RowsProper
    <2>2. CASE j = k
        BY <1>2, <1>5, <2>2
    <2>3. CASE j # k
        BY <1>2, <1>6, <2>1, <2>3
    <2>4. QED BY <2>2, <2>3
<1>8. SlotsProper'
    BY <1>3, <1>4, EndedSlots DEF Inserts
<1>9. CodesBounded'
    <2>1. UNCHANGED <<batches, accepted, overlaps>>
        BY DEF Inserts
    <2>2. \A j \in RowIds, c \in BackupCodes : InForce(j, c)' => InForce(j, c)
        BY <1>1, <1>2 DEF InForce
    <2>3. \A c \in BackupCodes : batches[c[1]] \in RowIds \cup {Nil}
        BY CodeHasBatch DEF IInv, TypeOK
    <2>4. QED BY <2>1, <2>2, <2>3 DEF IInv, CodesBounded, CodeBounded, Bounded
<1>10. QED BY <1>7, <1>8, <1>9 DEF IInv

\* The row a request writes is proper: it is the copy, or the columns of the
\* copy and of the row come from two saves that overlapped.
LEMMA WrittenProper ==
    ASSUME IInv, TypeOK', NEW r \in Requests, NEW copy \in Row, NEW k, NEW new,
           req[r].pc \notin {"idle", "insert"}, OthersKept, confirmed' = confirmed,
           Save(r, copy), CopyOf(r, copy), k = req[r].id,
           new = Changed(rows[k], req[r].base, copy)
    PROVE  new \in Row /\ new.user = rows[k].user /\ Proper(k, new)'
<1>1. /\ req[r].row \in Row /\ req[r].row # Nil /\ k \in RowIds
      /\ HoldsProper(req[r])
    BY SlotTyped DEF IInv, SlotsProper
<1>2. PICK held, user : held = req[r].row /\ user = req[r].user
    OBVIOUS
<1>3. /\ held \in Row /\ held.user = user /\ Proper(k, held)
      /\ rows[k] # Nil /\ rows[k].user = user
      /\ At(r, "enable") => held.secret \in confirmed
    BY <1>1, <1>2 DEF HoldsProper, At
<1>4. req[r].base \in Row /\ rows[k] \in Row /\ copy.user = user
    BY <1>2, <1>3, SaveTyped DEF IInv, CopyOf
<1>5. PICK base, old : base = req[r].base /\ old = rows[k]
    OBVIOUS
<1>6. /\ base \in Row /\ old \in Row /\ old.user = user /\ Proper(k, old)
      /\ new = Changed(old, base, copy)
    BY <1>1, <1>3, <1>4, <1>5 DEF IInv, RowsProper
<1>7. /\ new \in Row /\ new.user = user
      /\ new.secret \in {old.secret, copy.secret}
      /\ new.isEnabled => old.isEnabled \/ copy.isEnabled
      /\ new.backupCodes \in {old.backupCodes, copy.backupCodes}
      /\ old = base => new = copy
    BY <1>4, <1>6, ChangedTyped
<1>8. Grows /\ (old # base => k \in mixed')
    BY <1>5, <1>1 DEF Grows, Save
<1>9. Proper(k, held)' /\ Proper(k, old)'
    BY <1>1, <1>3, <1>6, <1>8, ProperStays DEF IInv
<1>10. secrets'[copy.secret] = user
    BY <1>2, <1>3, <1>9 DEF CopyOf, Proper
<1>11. \A c \in copy.backupCodes : batches'[c[1]] = k
    BY <1>2, <1>9 DEF CopyOf, Proper
<1>12. copy.isEnabled => ShownFor(k, copy)'
    <2>1. SUFFICES ASSUME copy.isEnabled PROVE ShownFor(k, copy)'
        OBVIOUS
    <2>2. copy.secret = held.secret /\ (At(r, "enable") \/ held.isEnabled)
        BY <1>2, <2>1 DEF CopyOf
    <2>3. CASE At(r, "enable")
        <3>1. held.secret \in confirmed' /\ secrets'[held.secret] = user
            BY <1>3, <1>9, <2>3 DEF Proper
        <3>2. QED BY <1>4, <2>2, <3>1 DEF ShownFor
    <2>4. CASE held.isEnabled
        <3>1. ShownFor(k, held)'
            BY <1>9, <2>4 DEF Proper
        <3>2. QED BY <1>3, <1>4, <2>2, <3>1 DEF ShownFor
    <2>5. QED BY <2>2, <2>3, <2>4
<1>13. CASE old = base
    <2>1. Proper(k, copy)'
        BY <1>4, <1>10, <1>11, <1>12 DEF Proper
    <2>2. QED BY <1>3, <1>7, <1>13, <2>1
<1>14. CASE old # base
    <2>1. secrets'[new.secret] = user
        BY <1>6, <1>7, <1>9, <1>10 DEF Proper
    <2>2. \A c \in new.backupCodes : batches'[c[1]] = k
        BY <1>7, <1>9, <1>11 DEF Proper
    <2>3. ASSUME new.isEnabled
          PROVE  ShownFor(k, new)'
        <3>1. PICK s \in confirmed' : secrets'[s] = user
            BY <1>4, <1>6, <1>7, <1>9, <1>12, <2>3 DEF Proper, ShownFor
        <3>2. QED BY <1>7, <1>8, <1>14, <3>1 DEF ShownFor
    <2>4. Proper(k, new)'
        BY <1>7, <2>1, <2>2, <2>3 DEF Proper
    <2>5. QED BY <1>3, <1>7, <2>4
<1>15. QED BY <1>13, <1>14

\* A write of another row leaves the bound of a code alone; one of its own
\* row accepts it once and takes it out, or counts as an overlap.
LEMMA WrittenBounds ==
    ASSUME IInv, TypeOK', NEW r \in Requests, Writes(r), NEW c \in BackupCodes
    PROVE  CodeBounded(c)'
<1>1. PICK copy \in Row :
          Save(r, copy) /\ CopyOf(r, copy) /\ CountOf(r, copy, c)
    BY DEF Writes
<1>2. PICK k, b, held, code :
          k = req[r].id /\ b = c[1] /\ held = req[r].row /\ code = req[r].code
    OBVIOUS
<1>3. /\ b \in Batches /\ k \in RowIds /\ held \in Row /\ held # Nil /\ k # Nil
      /\ HoldsProper(req[r]) /\ req[r].pc \notin {"idle", "insert"}
    BY <1>2, SlotTyped, CodeHasBatch DEF IInv, SlotsProper, Writes
<1>4. PICK old, base, new :
          old = rows[k] /\ base = req[r].base /\ new = Changed(old, base, copy)
    OBVIOUS
<1>5. /\ rows' = [rows EXCEPT ![k] = new]
      /\ overlaps' = IF old = held /\ base = held THEN overlaps
                     ELSE [overlaps EXCEPT ![k] = IF @ = 2 THEN 2 ELSE @ + 1]
    BY <1>1, <1>2, <1>4 DEF Save
<1>6. /\ base \in Row /\ old \in Row /\ old.user = copy.user
      /\ new \in Row
      /\ old = base => new = copy
      /\ new.backupCodes \in {old.backupCodes, copy.backupCodes}
    <2>1. base \in Row /\ old \in Row /\ old.user = copy.user
        BY <1>1, <1>2, <1>3, <1>4, SaveTyped DEF IInv, CopyOf
    <2>2. QED BY <1>4, <2>1, ChangedTyped
<1>7. /\ accepted[c] \in 0..3 /\ overlaps[k] \in 0..2
      /\ \A j \in RowIds : rows'[j] = IF j = k THEN new ELSE rows[j]
      /\ \A j \in RowIds : j # k => overlaps'[j] = overlaps[j]
      /\ overlaps'[k] = IF (old = held /\ base = held) \/ overlaps[k] = 2
                        THEN overlaps[k] ELSE overlaps[k] + 1
    BY <1>3, <1>5 DEF IInv, TypeOK
<1>8. /\ batches[b] = Nil => accepted[c] = 0
      /\ batches[b] # Nil => Bounded(c, batches[b]) /\ batches[b] \in RowIds
    BY <1>2, <1>3, NilAssumption DEF IInv, CodesBounded, CodeBounded, TypeOK
<1>9. /\ batches[b] # Nil => batches'[b] = batches[b]
      /\ batches[b] = Nil => batches'[b] \in {Nil, k}
    BY <1>2, <1>3 DEF Writes, OthersKept
<1>10. At(r, "use") /\ c = code => batches[b] = k /\ c \in held.backupCodes
    BY <1>2, <1>3 DEF HoldsProper, Proper, At
<1>11. \/ accepted'[c] = accepted[c]
       \/ /\ batches[b] = k /\ c \in held.backupCodes /\ c \notin copy.backupCodes
          /\ accepted'[c] = IF accepted[c] = 3 THEN 3 ELSE accepted[c] + 1
    BY <1>1, <1>2, <1>10 DEF CountOf
<1>12. c \in copy.backupCodes => c \in held.backupCodes \/ batches[b] = Nil
    BY <1>1, <1>2 DEF CopyOf
<1>13. CASE batches[b] = Nil
    <2>1. accepted'[c] = 0
        BY <1>3, <1>8, <1>11, <1>13
    <2>2. Bounded(c, k)'
        BY <1>7, <2>1 DEF Bounded
    <2>3. QED BY <1>2, <1>3, <1>9, <1>13, <2>1, <2>2 DEF CodeBounded
<1>14. CASE batches[b] # Nil /\ batches[b] # k
    <2>1. PICK j \in RowIds : j = batches[b] /\ j # k
        BY <1>8, <1>14
    <2>2. /\ accepted'[c] = accepted[c] /\ overlaps'[j] = overlaps[j]
          /\ rows'[j] = rows[j] /\ Bounded(c, j)
        BY <1>7, <1>8, <1>11, <1>14, <2>1
    <2>3. Bounded(c, j)'
        BY <2>2 DEF Bounded, InForce
    <2>4. QED BY <1>2, <1>9, <1>14, <2>1, <2>3 DEF CodeBounded
<1>15. CASE batches[b] = k
    <2>1. Bounded(c, k) /\ batches'[b] = k
        BY <1>3, <1>8, <1>9, <1>15
    <2>2. /\ InForce(k, c) <=> c \in old.backupCodes
          /\ InForce(k, c)' <=> c \in new.backupCodes
        <3>1. /\ rows[k] = old /\ rows'[k] = new
              /\ old # Nil /\ new # Nil
            BY <1>3, <1>4, <1>6, <1>7, NilAssumption
        <3>2. QED BY <3>1 DEF InForce
    <2>3. PICK n, m, o, p : /\ n = accepted[c] /\ m = accepted'[c]
                            /\ o = overlaps[k] /\ p = overlaps'[k]
        OBVIOUS
    <2>4. n \in 0..3 /\ o \in 0..2
        BY <1>7, <2>3
    <2>5. \/ o = 2 \/ n <= o \/ (n = 1 + o /\ c \notin old.backupCodes)
        BY <2>1, <2>2, <2>3 DEF Bounded
    <2>6. \/ m = n
          \/ /\ c \in held.backupCodes /\ c \notin copy.backupCodes
             /\ m = IF n = 3 THEN 3 ELSE n + 1
        BY <1>11, <2>3
    <2>7. c \in copy.backupCodes => c \in held.backupCodes
        BY <1>3, <1>12, <1>15
    <2>8. p = 2 \/ m <= p \/ (m = 1 + p /\ c \notin new.backupCodes)
        <3>1. CASE old = held /\ base = held
            <4>1. new = copy /\ p = o
                BY <1>6, <1>7, <2>3, <3>1
            <4>2. CASE m = n
                BY <2>4, <2>5, <2>7, <3>1, <4>1, <4>2
            <4>3. CASE /\ c \in held.backupCodes /\ c \notin copy.backupCodes
                       /\ m = IF n = 3 THEN 3 ELSE n + 1
                BY <2>4, <2>5, <3>1, <4>1, <4>3
            <4>4. QED BY <2>6, <4>2, <4>3
        <3>2. CASE ~(old = held /\ base = held)
            <4>1. p = IF o = 2 THEN 2 ELSE o + 1
                BY <1>7, <2>3, <3>2
            <4>2. c \notin old.backupCodes /\ c \notin copy.backupCodes
                  => c \notin new.backupCodes
                BY <1>6
            <4>3. CASE m = n
                BY <2>4, <2>5, <4>1, <4>3
            <4>4. CASE /\ c \notin copy.backupCodes
                       /\ m = IF n = 3 THEN 3 ELSE n + 1
                BY <2>4, <2>5, <4>1, <4>2, <4>4
            <4>5. QED BY <2>6, <4>3, <4>4
        <3>3. QED BY <3>1, <3>2
    <2>9. Bounded(c, k)'
        BY <2>2, <2>3, <2>8 DEF Bounded
    <2>10. QED BY <1>2, <1>3, <2>1, <2>9 DEF CodeBounded
<1>16. QED BY <1>13, <1>14, <1>15

LEMMA WritesKeepInvariant ==
    ASSUME IInv, TypeOK', NEW r \in Requests, Writes(r)
    PROVE  IInv'
<1>1. PICK copy \in Row : Save(r, copy) /\ CopyOf(r, copy)
    BY DEF Writes
<1>2. PICK k, new : k = req[r].id /\ new = Changed(rows[k], req[r].base, copy)
    OBVIOUS
<1>3. new \in Row /\ new.user = rows[k].user /\ Proper(k, new)'
    BY <1>1, <1>2, WrittenProper DEF Writes
<1>4. k \in RowIds /\ rows' = [rows EXCEPT ![k] = new]
    BY <1>1, <1>2, SlotTyped DEF IInv, Writes, Save
<1>5. \A j \in RowIds : rows'[j] = IF j = k THEN new ELSE rows[j]
    BY <1>4 DEF IInv, TypeOK
<1>6. Grows
    BY <1>1 DEF Writes, Grows, Save
<1>7. RowsStay
    BY <1>3, <1>5, NilAssumption DEF RowsStay
<1>8. RowsProper'
    <2>1. SUFFICES ASSUME NEW j \in RowIds, rows'[j] # Nil PROVE Proper(j, rows[j])'
        BY DEF RowsProper
    <2>2. CASE j = k
        BY <1>3, <1>5, <2>2
    <2>3. CASE j # k
        <3>1. rows'[j] = rows[j] /\ rows[j] \in Row
            BY <1>5, <2>1, <2>3 DEF IInv, TypeOK
        <3>2. PICK old \in Row : old = rows[j]
            BY <3>1
        <3>3. Proper(j, old)'
            BY <1>6, <2>1, <3>1, <3>2, ProperStays DEF IInv, RowsProper
        <3>4. QED BY <3>1, <3>2, <3>3
    <2>4. QED BY <2>2, <2>3
<1>9. SlotsProper'
    BY <1>6, <1>7, EndedSlots DEF Writes
<1>10. CodesBounded'
    BY WrittenBounds DEF CodesBounded
<1>11. QED BY <1>8, <1>9, <1>10 DEF IInv

LEMMA InitInvariant == Init => IInv
<1> SUFFICES ASSUME Init PROVE IInv
    OBVIOUS
<1>1. TypeOK
    BY IdleTyped DEF Init, TypeOK
<1>2. RowsProper /\ SlotsProper
    BY DEF Init, RowsProper, SlotsProper, HoldsProper, Idle
<1>3. CodesBounded
    BY CodeHasBatch DEF Init, CodesBounded, CodeBounded
<1>4. QED BY <1>1, <1>2, <1>3 DEF IInv

LEMMA StepKeepsInvariant ==
    ASSUME IInv, [Next]_vars
    PROVE  IInv'
<1>1. TypeOK /\ SlotsProper
    BY DEF IInv
<1>2. /\ TypeOK'
      /\ \/ UNCHANGED vars
         \/ \E r \in Requests : Reads(r) \/ Selects(r) \/ Inserts(r) \/ Writes(r)
    BY <1>1, StepEffect
<1>3. CASE UNCHANGED vars
    <2>1. RowsProper' /\ SlotsProper'
        BY <1>3 DEF IInv, RowsProper, SlotsProper, HoldsProper, Proper, ShownFor, vars
    <2>2. CodesBounded'
        BY <1>3, QuietBounds DEF IInv, vars
    <2>3. QED BY <1>2, <2>1, <2>2 DEF IInv
<1>4. CASE \E r \in Requests : Reads(r) \/ Selects(r) \/ Inserts(r) \/ Writes(r)
    BY <1>2, <1>4, ReadsKeepInvariant, SelectsKeepInvariant, InsertsKeepInvariant,
       WritesKeepInvariant
<1>5. QED BY <1>2, <1>3, <1>4

\* The table, the slots and the histories keep their types (two-factor.service.ts
\* saves only copies of rows it found and rows it makes).
THEOREM TypeCorrectness == Spec => []TypeOK
<1>1. IInv => TypeOK
    BY DEF IInv
<1>2. QED BY <1>1, InitInvariant, StepKeepsInvariant, PTL DEF Spec

\* However the statements of set-ups, confirmations and other saves
\* interleave, a row is on only after its user has confirmed a secret: the
\* one in the row, unless two saves of the row overlapped.
THEOREM ConfirmationFirst == Spec => []EnabledSecretsConfirmed
<1>1. IInv => EnabledSecretsConfirmed
    BY DEF IInv, RowsProper, Proper, ShownFor, EnabledSecretsConfirmed
<1>2. QED BY <1>1, InitInvariant, StepKeepsInvariant, PTL DEF Spec

\* A backup code is accepted once, and once more at most for each save of its
\* row that overlapped another one, for any number of requests.
THEOREM ReuseIsOverlap == Spec => []ReuseNeedsOverlap
<1>1. ASSUME IInv, NEW c \in BackupCodes, batches[c[1]] # Nil
      PROVE  accepted[c] <= 1 + overlaps[batches[c[1]]]
    <2>1. PICK k \in RowIds : k = batches[c[1]]
        BY <1>1, CodeHasBatch DEF IInv, TypeOK
    <2>2. accepted[c] \in 0..3 /\ overlaps[k] \in 0..2
        BY <1>1 DEF IInv, TypeOK
    <2>3. Bounded(c, k)
        BY <1>1, <2>1 DEF IInv, CodesBounded, CodeBounded
    <2>4. QED BY <2>1, <2>2, <2>3 DEF Bounded
<1>2. IInv => ReuseNeedsOverlap
    BY <1>1 DEF ReuseNeedsOverlap
<1>3. QED BY <1>2, InitInvariant, StepKeepsInvariant, PTL DEF Spec

-----------------------------------------------------------------------------
(* What a step can bring back.                                             *)

Starts == \E r \in Requests : ~At(r, "enable") /\ At(r, "enable")'

\* The slots a step leaves alone hold what they held.
LEMMA SlotsOff ==
    ASSUME TypeOK, NEW u \in Users, Off(u), NEW r \in Requests, NEW q,
           req' = [req EXCEPT ![r] = q],
           q.user = u => /\ q.pc # "enable"
                         /\ q.row # Nil => ~q.row.isEnabled
    PROVE  \A x \in Requests : req'[x].user = u =>
              /\ req'[x].pc # "enable"
              /\ req'[x].row # Nil => ~req'[x].row.isEnabled
BY OtherSlots DEF Off, At

LEMMA OffStep ==
    ASSUME IInv, TypeOK', [Next]_vars, NEW u \in Users, Off(u), ~Starts
    PROVE  Off(u)'
<1>1. /\ \A k \in RowIds : rows[k] # Nil /\ rows[k].user = u => ~rows[k].isEnabled
      /\ \A r \in Requests : req[r].user = u =>
            /\ req[r].pc # "enable"
            /\ req[r].row # Nil => ~req[r].row.isEnabled
    BY DEF Off, Table, At
<1>2. SUFFICES
          /\ \A k \in RowIds : rows'[k] # Nil /\ rows'[k].user = u => ~rows'[k].isEnabled
          /\ \A r \in Requests : req'[r].user = u =>
                /\ req'[r].pc # "enable"
                /\ req'[r].row # Nil => ~req'[r].row.isEnabled
    BY DEF Off, Table, At
<1>3. CASE UNCHANGED vars
    BY <1>1, <1>3 DEF vars
<1>4. CASE \E r \in Requests : Reads(r)
    <2>1. PICK r \in Requests, q \in Request :
              /\ Reads(r) /\ req' = [req EXCEPT ![r] = q]
              /\ Fresh(q) \/ ReadOf(r, q)
        BY <1>4 DEF Reads
    <2>2. req'[r] = q
        BY <2>1, OtherSlots DEF IInv
    <2>3. q.pc # "enable" /\ (q.row # Nil /\ q.user = u => ~q.row.isEnabled)
        <3>1. CASE Fresh(q)
            BY <3>1 DEF Fresh
        <3>2. CASE ReadOf(r, q)
            BY <1>1, <2>2, <3>2, NilAssumption DEF ReadOf, Starts, At
        <3>3. QED BY <2>1, <3>1, <3>2
    <2>4. rows' = rows
        BY <2>1 DEF Reads
    <2>5. QED BY <1>1, <2>1, <2>3, <2>4, SlotsOff DEF IInv
<1>5. CASE \E r \in Requests : Selects(r)
    <2>1. PICK r \in Requests, q \in Request :
              Selects(r) /\ req' = [req EXCEPT ![r] = q] /\ SelectOf(r, q)
        BY <1>5 DEF Selects
    <2>2. rows' = rows
        BY <2>1 DEF Selects
    <2>3. q.user = u => /\ q.pc # "enable"
                        /\ q.row # Nil => ~q.row.isEnabled
        BY <1>1, <2>1 DEF SelectOf
    <2>4. QED BY <1>1, <2>1, <2>2, <2>3, SlotsOff DEF IInv
<1>6. CASE \E r \in Requests : Inserts(r)
    <2>1. PICK r \in Requests : Inserts(r)
        BY <1>6
    <2>2. PICK k \in RowIds, row \in Row :
              rows' = [rows EXCEPT ![k] = row] /\ ~row.isEnabled
        BY <2>1 DEF Inserts
    <2>3. \A j \in RowIds : rows'[j] = IF j = k THEN row ELSE rows[j]
        BY <2>2 DEF IInv, TypeOK
    <2>4. QED BY <1>1, <2>1, <2>2, <2>3, SlotsOff DEF IInv, Inserts, Idle
<1>7. CASE \E r \in Requests : Writes(r)
    <2>1. PICK r \in Requests : Writes(r)
        BY <1>7
    <2>2. PICK copy \in Row : Save(r, copy) /\ CopyOf(r, copy)
        BY <2>1 DEF Writes
    <2>3. PICK k, old, base, new : /\ k = req[r].id /\ old = rows[k]
                                   /\ base = req[r].base
                                   /\ new = Changed(old, base, copy)
        OBVIOUS
    <2>4. /\ k \in RowIds /\ rows' = [rows EXCEPT ![k] = new]
          /\ base \in Row /\ old \in Row /\ old.user = copy.user
          /\ req[r].row # Nil /\ req[r].row.user = req[r].user
        BY <2>1, <2>2, <2>3, SlotTyped, SaveTyped
           DEF IInv, SlotsProper, HoldsProper, Writes, CopyOf, Save
    <2>5. \A j \in RowIds : rows'[j] = IF j = k THEN new ELSE rows[j]
        BY <2>4 DEF IInv, TypeOK
    <2>6. new.user = old.user /\ (new.isEnabled => old.isEnabled \/ copy.isEnabled)
        BY <2>3, <2>4, ChangedTyped
    <2>7. copy.user = u => ~copy.isEnabled
        BY <1>1, <2>2, <2>4 DEF CopyOf, At
    <2>8. old.user = u => ~old.isEnabled
        BY <1>1, <2>3, <2>4, NilAssumption
    <2>9. \A j \in RowIds : rows'[j] # Nil /\ rows'[j].user = u => ~rows'[j].isEnabled
        BY <1>1, <2>4, <2>5, <2>6, <2>7, <2>8
    <2>10. QED BY <2>1, <2>9, SlotsOff DEF IInv, Writes, Idle
<1>8. QED BY <1>3, <1>4, <1>5, <1>6, <1>7, StepEffect DEF IInv

\* While no confirmation starts, no stale save turns the second factor of a
\* user on again once all rows and copies of it are off.
THEOREM OffIsFinal == Spec => OffStaysOff
<1>1. IInv /\ IInv' /\ [Next]_vars
      => [\A u \in Users :
             Off(u) => Off(u)' \/ \E r \in Requests : ~At(r, "enable") /\ At(r, "enable")']_vars
    BY OffStep DEF IInv, Starts
<1>2. QED BY <1>1, InitInvariant, StepKeepsInvariant, PTL DEF Spec, OffStaysOff
=============================================================================
