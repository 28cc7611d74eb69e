--------------------------- MODULE ServicesProofs ---------------------------
(***************************************************************************)
(* The services that share no state with each other, each for itself: for  *)
(* any mails, grants, templates and any number of overlapping calls; the   *)
(* two-factor service when its requests do not overlap.  At the end, all   *)
(* of them in one instance.                                                *)
(***************************************************************************)
EXTENDS MCServices, MailTemplatesProofs, SequenceTheorems, FiniteSetTheorems, TLAPS

-----------------------------------------------------------------------------
(* Gmail credentials.                                                      *)

\* A call that saves or revokes holds a row there is.
GmailTyped ==
    /\ Gmail!TypeOK
    /\ \A c \in Slots :
          calls[c].pc \in {"save", "revoke"} => calls[c].row \in DOMAIN credentials

\* The rows that are active, or that a refresh will make active again.
HeldRows == {i \in DOMAIN credentials : Gmail!HeldActive(i)}
Live == Gmail!Active \cup HeldRows
Inserting == {c \in Slots : calls[c].pc = "insert"}

\* Every live row, and every row that is about to be inserted, has a call of
\* its own: of those that overlapped when all others were deactivated.
LiveCovered == Cardinality(Live) + Cardinality(Inserting) <= Cardinality(Slots)
GmailInv == GmailTyped /\ IsFiniteSet(Live) /\ LiveCovered

-----------------------------------------------------------------------------
(* The second mail processor.                                              *)

ProcessorWorker ==
    [pc: Processor!Pcs, mail: QueuedMails \cup {Nil}, left: 0 .. Recipients]
TasksOK ==
    starting \subseteq Processor!Tasks /\ ready \subseteq Processor!Tasks \ starting
    /\ compiled \subseteq StoredTemplates

\* A job is at its last try, or gone.
AtLastTry(job) == job = Nil \/ job.made = job.attempts - 1

\* The row, the job and the events of a mail: it has no job and no event before
\* it has a row, and what is failed is at its last try.
MailOK(log, job, said) ==
    /\ log \in Processor!Statuses \cup {Nil} /\ said \subseteq {"sent", "failed"}
    /\ job = Nil \/ (job \in Processor!Job /\ job.made < job.attempts)
    /\ log = Nil => job = Nil /\ said = {}
    /\ log = "failed" \/ "failed" \in said => AtLastTry(job)

\* The worker has the job it works on, and marks as failed what is at its last
\* try; a recipient it adds has a row.
WorkerFits(w, log, job) ==
    /\ w.pc = "add" => w.mail \in QueuedMails /\ log[w.mail] # Nil /\ w.left > 0
    /\ w.pc \notin {"idle", "log", "add"} =>
          w.mail \in QueuedMails /\ job[w.mail] # Nil
    /\ w.pc = "mark failed" => AtLastTry(job[w.mail])

ProcessorInv ==
    /\ logs \in [QueuedMails -> Processor!Statuses \cup {Nil}]
    /\ jobs \in [QueuedMails -> Processor!Job \cup {Nil}]
    /\ told \in [QueuedMails -> SUBSET {"sent", "failed"}]
    /\ \A m \in QueuedMails : MailOK(logs[m], jobs[m], told[m])
    /\ worker \in ProcessorWorker /\ WorkerFits(worker, logs, jobs)
    /\ batch \in BOOLEAN /\ forwarded \subseteq QueuedMails /\ TasksOK

-----------------------------------------------------------------------------
(* Tracking.                                                               *)

Handler == [pc: Tracking!Pcs, mail: Mails \cup {Nil},
            kind: Tracking!EmailEventType \cup {Nil}, copy: Tracking!Row \cup {Nil}]
Copying == {"save", "save open", "save click"}

\* What a handler holds, by where it waits: an open that will be counted has a
\* copy with room for it.
HandlerOK(h) ==
    /\ h \in Handler
    /\ h.pc # "idle" => h.mail \in Mails
    /\ h.pc \in {"event", "find", "save"} => h.kind \in Emitted
    /\ h.pc \in {"update", "store"} => h.kind \in Tracking!EmailEventType
    /\ h.copy # Nil <=> h.pc \in Copying
    /\ h.pc = "save open" => h.copy.openCount < Opens

TrackingTyped ==
    /\ mailRows \in [Mails -> Tracking!Row]
    /\ events \in [Mails -> SUBSET Tracking!EmailEventType]
    /\ missed \in [Mails -> SUBSET Emitted]
    /\ handlers \in [Slots -> Handler]
    /\ \A h \in Slots : HandlerOK(handlers[h])

\* The events of each mail that are in the table, or could not be stored.
Known == [m \in Mails |-> events[m] \cup missed[m]]

\* Past its first statement a handler has tried to store its event; so had
\* whatever wrote the status in the copy that a handler holds.
Recorded(known, m, s) == s \in {"delivered", "bounced"} => s \in known[m]
HandlerRecorded(known, h) ==
    /\ h.pc \in {"find", "save"} => Recorded(known, h.mail, h.kind)
    /\ h.copy # Nil => Recorded(known, h.mail, h.copy.status)
TrackingInv ==
    /\ TrackingTyped
    /\ \A m \in Mails : Recorded(Known, m, mailRows[m].status)
    /\ \A h \in Slots : HandlerRecorded(Known, handlers[h])

-----------------------------------------------------------------------------
(* Statistics.                                                             *)

Cap == Cardinality(Mails) * Cardinality(Statistics!Counted)
Report == [kind: Statistics!ReportKinds, todo: SUBSET Statistics!Queries,
           total: 0 .. Cardinality(Mails), counted: 0 .. Cap, changes: 0 .. Cap]

Summed(report) == Statistics!Counted \ report.todo
PartsOf(report, now) == {m \in Mails : now[m] \in Summed(report)}
InLog(now) == {m \in Mails : now[m] # Nil}

\* What an overview has counted exceeds what it would count now by no more
\* than the changes since it began; once it has the total, the mails that
\* have come since then are not in it.
Matched(report, now) ==
    LET parts == Cardinality(PartsOf(report, now)) + report.changes
    IN  IF "total" \in report.todo THEN report.counted <= parts
        ELSE report.counted + Cardinality(InLog(now)) <= report.total + parts

ReportOK(report, now) ==
    /\ report \in Report
    /\ report.counted <= Cardinality(Mails) * Cardinality(Summed(report))
    /\ report.kind = "overview" => Matched(report, now) \/ report.changes = Cap

CronRuns == {r \in Slots : reports[r].kind = "cron"}

\* What the count of a status, and what a change of a mail, do to a report.
CountSeen(report, q, n) == [report EXCEPT !.todo = @ \ {q}, !.counted = @ + n]
ChangeSeen(report) ==
    IF report.kind # "none" /\ report.changes < Cap
    THEN [report EXCEPT !.changes = @ + 1] ELSE report

StatisticsInv ==
    /\ status \in [Mails -> MailStatuses \cup {Nil}]
    /\ sentAt \subseteq Mails /\ stats \in Nat
    /\ reports \in [Slots -> Report]
    /\ \A r \in Slots : ReportOK(reports[r], status)
    /\ stats + Cardinality(CronRuns) <= Cardinality(Slots)

-----------------------------------------------------------------------------
(* The second mail service.                                                *)

NodeCall == [pc: Nodemailer!Pcs, name: NodeNames \cup {Nil},
             content: Contents \cup {Nil}, isNew: BOOLEAN, left: 0 .. Recipients,
             mail: MailIds \cup {Nil}, sent: SUBSET MailIds, queued: 0 .. Recipients]

\* What a call holds, against the contents the rows have had, the mails the
\* process knows and those in the queue: what it will compile has been in the
\* row, and a mail it is about to add is one of its own and not in the queue.
NodeCallOK(call, had, known, queue) ==
    /\ call \in NodeCall
    /\ call.pc \in {"save", "set"} =>
          call.name \in NodeNames /\ call.content \in Contents
    /\ call.pc = "set" => call.content \in had[call.name]
    /\ call.pc = "add" => call.left > 0 /\ call.mail \in call.sent \ queue
    /\ call.queued + call.left <= Recipients
    /\ IsFiniteSet(call.sent) /\ call.sent \subseteq known
    /\ call.queued <= Cardinality(call.sent \cap queue)

\* Each mail belongs to the one call that queues it.
OwnMails ==
    \A c, d \in Slots : c # d => nodeCalls[c].sent \cap nodeCalls[d].sent = {}

NodeTables ==
    /\ files \in [NodeNames -> Contents \cup {Nil}] \cup {Nil}
    /\ nodeRows \in [NodeNames -> Contents \cup {Nil}]
    /\ templates \in [NodeNames -> Contents \cup {Nil}]
    /\ stored \in [NodeNames -> SUBSET Contents]
    /\ emailJobs \subseteq MailIds /\ emailQueue \subseteq MailIds
    /\ up \in BOOLEAN

NodemailerInv ==
    /\ NodeTables /\ RenderedWasStored /\ OwnMails
    /\ nodeCalls \in [Slots -> NodeCall]
    /\ \A c \in Slots : NodeCallOK(nodeCalls[c], stored, emailJobs, emailQueue)

-----------------------------------------------------------------------------
(* Two-factor authentication, its requests served one at a time.           *)

OneAtATime == \A q, r \in FactorRequests : q = r

\* Whoever saves holds a row there is, however the requests overlap.
FactorTyped ==
    /\ Factor!TypeOK
    /\ \A r \in FactorRequests :
          factorReq[r].row # Nil => factors[factorReq[r].id] # Nil

\* What a request has read, and what it has selected to save it, is still what
\* the table holds.
Held(held) ==
    /\ held.row # Nil => factors[held.id] = held.row /\ held.row.user = held.user
    /\ held.base # Nil => held.base = held.row
    /\ held.pc = "insert" => Factor!RowsOf(held.user) = {}
    /\ held.pc = "use" => held.code \in held.row.backupCodes
    /\ held.pc \in {"use", "disable", "regenerate"} => held.row.isEnabled

OwnRow ==
    \A k, l \in RowIds :
        factors[k] # Nil /\ factors[l] # Nil /\ factors[k].user = factors[l].user
        => k = l

\* A secret in the table has been generated; a code in it is of its user's
\* newest batch and was never accepted; no two users have a batch in common.
RowsHold ==
    \A k \in RowIds : factors[k] # Nil =>
        /\ secrets[factors[k].secret] # Nil
        /\ \A c \in factors[k].backupCodes :
              c[1] = newest[factors[k].user] /\ accepted[c] = 0

BatchesHold ==
    /\ \A u \in Users : newest[u] # Nil => batches[newest[u]] # Nil
    /\ \A u, v \in Users : newest[u] = newest[v] /\ newest[u] # Nil => u = v
    /\ \A c \in Factor!BackupCodes :
          accepted[c] <= 1 /\ (batches[c[1]] = Nil => accepted[c] = 0)

FactorInv ==
    /\ FactorTyped /\ OwnRow /\ RowsHold /\ BatchesHold
    /\ \A r \in FactorRequests : Held(factorReq[r])

-----------------------------------------------------------------------------
(* Gmail credentials: proofs.                                              *)

\* What a step does to the table: it leaves it, turns one row on or off, turns
\* all off, or adds an active one.
TurnedTo(i, active) == credentials' = [credentials EXCEPT ![i].isActive = active]

LEMMA CredentialsStay ==
  ASSUME credentials \in Seq(Gmail!OAuthCredential)
  PROVE  /\ \A i \in DOMAIN credentials, active \in BOOLEAN :
               /\ [credentials EXCEPT ![i].isActive = active] \in Seq(Gmail!OAuthCredential)
               /\ Len([credentials EXCEPT ![i].isActive = active]) = Len(credentials)
         /\ /\ Gmail!Deactivated \in Seq(Gmail!OAuthCredential)
            /\ Len(Gmail!Deactivated) = Len(credentials)
         /\ \A g \in Gmail!AllGrants \cup {Nil} :
               /\ Gmail!Inserted(g) \in Seq(Gmail!OAuthCredential)
               /\ Len(Gmail!Inserted(g)) = Len(credentials) + 1
<1>. DEFINE Rows == Gmail!OAuthCredential
<1>1. \A i \in DOMAIN credentials : credentials[i] \in Rows
  BY ElementOfSeq, LenProperties
<1>2. ASSUME NEW i \in DOMAIN credentials, NEW active \in BOOLEAN
      PROVE  /\ [credentials EXCEPT ![i].isActive = active] \in Seq(Rows)
             /\ Len([credentials EXCEPT ![i].isActive = active]) = Len(credentials)
  <2>1. [credentials[i] EXCEPT !.isActive = active] \in Rows
    BY <1>1 DEF Gmail!OAuthCredential
  <2>. QED  BY <2>1, ExceptSeq, LenProperties
<1>3. /\ Gmail!Deactivated \in Seq(Rows)
      /\ Len(Gmail!Deactivated) = Len(credentials)
  <2>1. \A i \in DOMAIN credentials : [credentials[i] EXCEPT !.isActive = FALSE] \in Rows
    BY <1>1 DEF Gmail!OAuthCredential
  <2>2. DOMAIN credentials = 1 .. Len(credentials) /\ Len(credentials) \in Nat
    BY LenProperties
  <2>. QED  BY <2>1, <2>2, IsASeq, LenProperties DEF Gmail!Deactivated
<1>4. ASSUME NEW g \in Gmail!AllGrants \cup {Nil}
      PROVE  /\ Gmail!Inserted(g) \in Seq(Rows)
             /\ Len(Gmail!Inserted(g)) = Len(credentials) + 1
  <2>1. [grant |-> g, isActive |-> TRUE] \in Rows
    BY DEF Gmail!OAuthCredential
  <2>. QED  BY <2>1, AppendProperties DEF Gmail!Inserted
<1>. QED  BY <1>2, <1>3, <1>4

\* The operators of FiniteSets under the name of the instance.
LEMMA GmailCardinality == \A S : Gmail!Cardinality(S) = Cardinality(S)
  BY DEF Gmail!Cardinality, Cardinality

LEMMA GmailInitial == Gmail!Init => GmailInv
<1>. SUFFICES ASSUME Gmail!Init PROVE GmailInv
  OBVIOUS
<1>. USE DEF Gmail!Init
<1>1. GmailTyped
  <2>1. credentials \in Seq(Gmail!OAuthCredential) /\ Len(credentials) = 0
    BY EmptySeq
  <2>2. \A c \in Slots : calls[c] = Gmail!Resting
    OBVIOUS
  <2>3. Gmail!Resting \in [pc: Gmail!Pcs, grant: Gmail!AllGrants \cup {Nil},
                           row: DOMAIN credentials \cup {Nil}]
    BY DEF Gmail!Resting, Gmail!Pcs
  <2>4. Gmail!TypeOK
    <3>1. calls \in [Slots -> [pc: Gmail!Pcs, grant: Gmail!AllGrants \cup {Nil},
                              row: DOMAIN credentials \cup {Nil}]]
      BY <2>3
    <3>2. Len(credentials) <= MaxRows
      BY <2>1, BoundsAssumption
    <3>. QED  BY <2>1, <3>1, <3>2 DEF Gmail!TypeOK
  <2>. QED  BY <2>2, <2>4 DEF GmailTyped, Gmail!Resting
<1>2. Live = {} /\ Inserting = {}
  BY DEF Live, HeldRows, Inserting, Gmail!Active, Gmail!Resting
<1>3. Cardinality(Slots) \in Nat
  BY SlotsAssumption, FS_CardinalityType
<1>4. IsFiniteSet(Live) /\ Cardinality(Live) = 0 /\ Cardinality(Inserting) = 0
  BY <1>2, FS_EmptySet
<1>. QED  BY <1>1, <1>3, <1>4 DEF GmailInv, LiveCovered

\* A slot: what a call of the service may wait for and hold.
GmailCall(n) ==
    [pc: Gmail!Pcs, grant: Gmail!AllGrants \cup {Nil}, row: 1 .. n \cup {Nil}]
GmailRow(call, n) == call.pc \in {"save", "revoke"} => call.row \in 1 .. n

LEMMA GmailTypedIs ==
  GmailTyped <=>
    /\ credentials \in Seq(Gmail!OAuthCredential) /\ Len(credentials) <= MaxRows
    /\ cached \in BOOLEAN /\ booted \in BOOLEAN
    /\ calls \in [Slots -> GmailCall(Len(credentials))]
    /\ \A c \in Slots : GmailRow(calls[c], Len(credentials))
<1>1. credentials \in Seq(Gmail!OAuthCredential)
      => DOMAIN credentials = 1 .. Len(credentials)
  BY LenProperties
<1>. QED  BY <1>1 DEF GmailTyped, Gmail!TypeOK, GmailCall, GmailRow

\* A call goes on, and the table does not shrink.
LEMMA GmailThen ==
  ASSUME GmailTyped, NEW c \in Slots, NEW next,
         calls' = [calls EXCEPT ![c] = next],
         credentials' \in Seq(Gmail!OAuthCredential),
         Len(credentials) <= Len(credentials'), Len(credentials') <= MaxRows,
         cached' \in BOOLEAN, booted' \in BOOLEAN,
         next \in GmailCall(Len(credentials')), GmailRow(next, Len(credentials'))
  PROVE  GmailTyped'
<1>. DEFINE n == Len(credentials)  m == Len(credentials')
<1>1. n \in Nat /\ m \in Nat
  BY GmailTypedIs, LenProperties
<1>2. 1 .. n \subseteq 1 .. m
  BY <1>1
<1>3. \A d \in Slots : calls[d] \in GmailCall(m) /\ GmailRow(calls[d], m)
  BY <1>2, GmailTypedIs DEF GmailCall, GmailRow
<1>4. calls' \in [Slots -> GmailCall(m)]
  BY <1>3, GmailTypedIs
<1>5. \A d \in Slots : GmailRow(calls'[d], m)
  BY <1>3, GmailTypedIs
<1>6. DOMAIN credentials' = 1 .. m
  BY LenProperties
<1>. QED  BY <1>4, <1>5, <1>6 DEF GmailTyped, Gmail!TypeOK, GmailCall, GmailRow

\* A call that only waits for something else, in a table that stays.
LEMMA GmailWait ==
  ASSUME GmailTyped, NEW c \in Slots, NEW next,
         calls' = [calls EXCEPT ![c] = next], credentials' = credentials,
         cached' \in BOOLEAN, booted' \in BOOLEAN,
         next \in GmailCall(Len(credentials)), GmailRow(next, Len(credentials)),
         next.pc # "insert",
         next.pc = "save" => credentials[next.row].isActive
  PROVE  GmailTyped' /\ Live' \subseteq Live /\ Inserting' \subseteq Inserting
<1>1. GmailTyped'
  <2>1. Len(credentials) <= Len(credentials')
    BY GmailTypedIs, LenProperties
  <2>2. /\ credentials' \in Seq(Gmail!OAuthCredential) /\ Len(credentials') <= MaxRows
        /\ next \in GmailCall(Len(credentials')) /\ GmailRow(next, Len(credentials'))
    BY GmailTypedIs, Zenon
  <2>. QED  BY <2>1, <2>2, GmailThen
<1>2. Live' \subseteq Live
  BY GmailTypedIs, LenProperties
  DEF Live, HeldRows, Gmail!Active, Gmail!HeldActive, Gmail!Waits, GmailRow, GmailCall
<1>3. Inserting' \subseteq Inserting
  BY GmailTypedIs DEF Inserting, GmailCall
<1>. QED  BY <1>1, <1>2, <1>3

\* A call that saves its copy of a row and ends: the row it held.
LEMMA GmailSave ==
  ASSUME GmailTyped, NEW c \in Slots, NEW active \in BOOLEAN,
         calls[c].pc \in {"save", "revoke"}, active => calls[c].pc = "save",
         Gmail!SaveCopy(calls[c].row, active), Gmail!Done(c),
         cached' \in BOOLEAN, booted' \in BOOLEAN
  PROVE  GmailTyped' /\ Live' \subseteq Live /\ Inserting' \subseteq Inserting
<1>. PICK i \in DOMAIN credentials : i = calls[c].row
  BY DEF GmailTyped
<1>1. credentials' = [credentials EXCEPT ![i].isActive = active]
  BY DEF Gmail!SaveCopy
<1>2. credentials' \in Seq(Gmail!OAuthCredential) /\ Len(credentials') = Len(credentials)
  BY <1>1, CredentialsStay, GmailTypedIs
<1>3. Gmail!Resting \in GmailCall(Len(credentials)) /\ GmailRow(Gmail!Resting, Len(credentials))
  BY DEF Gmail!Resting, GmailCall, GmailRow, Gmail!Pcs
<1>4. Len(credentials) \in Nat
  BY GmailTypedIs, LenProperties
<1>5. calls' = [calls EXCEPT ![c] = Gmail!Resting]
  BY DEF Gmail!Done, Gmail!Then
<1>6. GmailTyped'
  <2>1. Len(credentials) <= Len(credentials') /\ Len(credentials') <= MaxRows
    BY <1>2, <1>4, GmailTypedIs
  <2>2. /\ Gmail!Resting \in GmailCall(Len(credentials'))
        /\ GmailRow(Gmail!Resting, Len(credentials'))
    BY <1>2, <1>3, Zenon
  <2>. QED  BY <1>2, <1>5, <2>1, <2>2, GmailThen, Zenon
<1>7. DOMAIN credentials' = DOMAIN credentials
  BY <1>1
<1>8. \A d \in Slots : calls'[d].pc = "save" => calls[d] = calls'[d]
  BY <1>5, GmailTypedIs DEF Gmail!Resting
<1>9. \A d \in Slots : calls'[d].pc = "insert" => calls[d] = calls'[d]
  BY <1>5, GmailTypedIs DEF Gmail!Resting
<1>10. ASSUME NEW j \in DOMAIN credentials', credentials'[j].isActive
       PROVE  credentials[j].isActive \/ (j = i /\ calls[c].pc = "save")
  <2>1. CASE j = i
    <3>1. credentials[i] \in Gmail!OAuthCredential
      BY GmailTypedIs, ElementOfSeq, LenProperties
    <3>2. credentials'[i].isActive = active
      BY <1>1, <3>1 DEF Gmail!OAuthCredential
    <3>. QED  BY <2>1, <3>2, <1>10
  <2>2. CASE j # i
    BY <1>1, <1>10, <2>2
  <2>. QED  BY <2>1, <2>2
<1>11. Live' \subseteq Live
  BY <1>7, <1>8, <1>10
  DEF Live, HeldRows, Gmail!Active, Gmail!HeldActive, Gmail!Waits
<1>12. Inserting' \subseteq Inserting
  BY <1>9 DEF Inserting
<1>. QED  BY <1>6, <1>11, <1>12

Narrowed == Live' \subseteq Live /\ Inserting' \subseteq Inserting

\* A set of natural numbers that is not empty has a least one.
LEMMA LeastExists ==
  ASSUME NEW S \in SUBSET Nat, S # {}
  PROVE  \E a \in S : \A b \in S : a <= b
<1>. DEFINE Less == {p \in Nat \X Nat : p[1] < p[2]}
<1>1. IsWellFoundedOn(Less, Nat)
  BY NatLessThanWellFounded DEF OpToRel
<1>2. PICK a \in S : \A b \in S : <<b, a>> \notin Less
  <2>. HIDE DEF Less
  <2>. QED  BY <1>1, WFMin
<1>3. \A b \in S : a <= b
  <2>. TAKE b \in S
  <2>1. b \in Nat /\ a \in Nat /\ <<b, a>> \in Nat \X Nat
    OBVIOUS
  <2>2. ~(<<b, a>>[1] < <<b, a>>[2])
    BY <1>2, <2>1
  <2>. QED  BY <2>1, <2>2
<1>. QED  BY <1>3

LEMMA NewestIsARow ==
  ASSUME credentials \in Seq(Gmail!OAuthCredential), Gmail!Active # {}
  PROVE  Gmail!Newest \in DOMAIN credentials
<1>. DEFINE n == Len(credentials)  Age == {n - i : i \in Gmail!Active}
<1>1. n \in Nat /\ DOMAIN credentials = 1 .. n
  BY LenProperties
<1>2. Age \in SUBSET Nat /\ Age # {}
  BY <1>1 DEF Gmail!Active
<1>3. PICK a \in Age : \A b \in Age : a <= b
  BY <1>2, LeastExists
<1>4. PICK i \in Gmail!Active : a = n - i
  BY <1>3
<1>5. \A j \in Gmail!Active : j <= i
  <2>. TAKE j \in Gmail!Active
  <2>1. n - i <= n - j
    BY <1>3, <1>4
  <2>. QED  BY <1>1, <2>1 DEF Gmail!Active
<1>6. Gmail!Newest \in Gmail!Active
  BY <1>5 DEF Gmail!Newest
<1>. QED  BY <1>6 DEF Gmail!Active

\* The calls before they write: what they wait for is theirs to wait for.
LEMMA GmailReads ==
  ASSUME GmailTyped, NEW c \in Slots,
         \/ Gmail!Boot(c) \/ Gmail!GetToken(c) \/ Gmail!Refreshed(c)
         \/ Gmail!FindStored(c) \/ Gmail!Exchange(c) \/ Gmail!Revoke(c)
         \/ Gmail!Fails(c)
  PROVE  GmailTyped' /\ Narrowed
<1>. DEFINE n == Len(credentials)
            Fits(call) == /\ call \in GmailCall(n) /\ GmailRow(call, n)
                          /\ call.pc # "insert"
                          /\ call.pc = "save" => credentials[call.row].isActive
<1>. USE DEF Gmail!Then, Gmail!Waits
<1>1. /\ n \in Nat /\ DOMAIN credentials = 1 .. n
      /\ calls[c] \in GmailCall(n) /\ cached \in BOOLEAN /\ booted \in BOOLEAN
      /\ \A i \in DOMAIN credentials : credentials[i] \in Gmail!OAuthCredential
  BY GmailTypedIs, ElementOfSeq, LenProperties
<1>2. \A i \in DOMAIN credentials :
         Gmail!GrantOr(credentials[i].grant) \in Gmail!AllGrants \cup {Nil}
  BY <1>1 DEF Gmail!GrantOr, Gmail!OAuthCredential, Gmail!AllGrants
<1>3. \A g \in Gmail!AllGrants \cup {Nil}, pc \in {"refresh", "find", "deactivate"} :
         Fits([Gmail!Resting EXCEPT !.pc = pc, !.grant = g])
  BY DEF GmailCall, GmailRow, Gmail!Resting, Gmail!Pcs
<1>4. \A i \in Gmail!Active, pc \in {"save", "revoke"} :
         Fits([Gmail!Resting EXCEPT !.pc = pc, !.row = i])
  BY <1>1 DEF GmailCall, GmailRow, Gmail!Resting, Gmail!Pcs, Gmail!Active
<1>5. \A pc \in {"find", "deactivate"} : Fits([calls[c] EXCEPT !.pc = pc])
  BY <1>1 DEF GmailCall, GmailRow, Gmail!Pcs
<1>6. Fits(Gmail!Resting)
  BY DEF GmailCall, GmailRow, Gmail!Resting, Gmail!Pcs
<1>7. ASSUME UNCHANGED <<credentials, calls>>,
             cached' \in BOOLEAN, booted' \in BOOLEAN
      PROVE  GmailTyped' /\ Narrowed
  BY <1>7
  DEF GmailTyped, Gmail!TypeOK, Narrowed, Live, HeldRows, Inserting, Gmail!Active,
      Gmail!HeldActive
<1>8. ASSUME UNCHANGED credentials, cached' \in BOOLEAN, booted' \in BOOLEAN,
             NEW next, Fits(next), calls' = [calls EXCEPT ![c] = next]
      PROVE  GmailTyped' /\ Narrowed
  BY <1>8, GmailWait DEF Narrowed
<1>. HIDE DEF Fits, n
<1>9. CASE Gmail!Boot(c)
  <2>1. \/ UNCHANGED <<credentials, calls>>
        \/ /\ Gmail!Active # {}
           /\ \E g \in Gmail!AllGrants \cup {Nil} :
                 calls' = [calls EXCEPT ![c] = Gmail!Refreshing(g)]
    BY <1>2, <1>9, NewestIsARow, GmailTypedIs DEF Gmail!Boot
  <2>2. UNCHANGED credentials /\ cached' \in BOOLEAN /\ booted' \in BOOLEAN
    BY <1>1, <1>9 DEF Gmail!Boot
  <2>. QED  BY <1>3, <1>7, <1>8, <2>1, <2>2 DEF Gmail!Refreshing
<1>10. CASE Gmail!GetToken(c)
  <2>1. \E g \in Gmail!AllGrants \cup {Nil} :
           calls' = [calls EXCEPT ![c] = Gmail!Refreshing(g)]
    BY <1>2, <1>10, NewestIsARow, GmailTypedIs DEF Gmail!GetToken, Gmail!AllGrants
  <2>2. UNCHANGED credentials /\ cached' \in BOOLEAN /\ booted' \in BOOLEAN
    BY <1>1, <1>10 DEF Gmail!GetToken
  <2>. QED  BY <1>3, <1>8, <2>1, <2>2 DEF Gmail!Refreshing
<1>11. CASE Gmail!Refreshed(c)
  BY <1>1, <1>5, <1>8, <1>11 DEF Gmail!Refreshed
<1>12. CASE Gmail!FindStored(c)
  BY <1>1, <1>4, <1>5, <1>8, <1>12 DEF Gmail!FindStored, Gmail!Stored
<1>13. CASE Gmail!Exchange(c)
  BY <1>1, <1>3, <1>8, <1>13 DEF Gmail!Exchange, Gmail!AllGrants
<1>14. CASE Gmail!Revoke(c)
  BY <1>1, <1>4, <1>8, <1>14 DEF Gmail!Revoke, Gmail!Stored
<1>15. CASE Gmail!Fails(c)
  BY <1>1, <1>6, <1>8, <1>15 DEF Gmail!Fails, Gmail!Done
<1>. QED  BY <1>9, <1>10, <1>11, <1>12, <1>13, <1>14, <1>15

LEMMA GmailDeactivates ==
  ASSUME GmailTyped, NEW c \in Slots, Gmail!DeactivateOthers(c)
  PROVE  GmailTyped' /\ Live' \subseteq Live /\ Live' \subseteq HeldRows'
<1>. USE DEF Gmail!DeactivateOthers, Gmail!Then, Gmail!Waits
<1>. DEFINE next == [calls[c] EXCEPT !.pc = "insert"]
<1>1. /\ credentials' \in Seq(Gmail!OAuthCredential)
      /\ Len(credentials') = Len(credentials) /\ Len(credentials) \in Nat
  BY CredentialsStay, GmailTypedIs, LenProperties
<1>2. /\ DOMAIN credentials' = DOMAIN credentials
      /\ \A i \in DOMAIN credentials : ~credentials'[i].isActive
  <2>1. \A i \in DOMAIN credentials : credentials[i] \in Gmail!OAuthCredential
    BY GmailTypedIs, ElementOfSeq, LenProperties
  <2>. QED  BY <2>1 DEF Gmail!Deactivated, Gmail!OAuthCredential
<1>3. next \in GmailCall(Len(credentials)) /\ GmailRow(next, Len(credentials))
  BY GmailTypedIs DEF GmailCall, GmailRow, Gmail!Pcs
<1>4. GmailTyped'
  <2>1. Len(credentials) <= Len(credentials') /\ Len(credentials') <= MaxRows
    BY <1>1, GmailTypedIs
  <2>2. next \in GmailCall(Len(credentials')) /\ GmailRow(next, Len(credentials'))
    BY <1>1, <1>3, Zenon
  <2>3. cached' \in BOOLEAN /\ booted' \in BOOLEAN
    BY GmailTypedIs
  <2>4. calls' = [calls EXCEPT ![c] = next]
    OBVIOUS
  <2>. HIDE DEF next
  <2>. QED  BY <1>1, <2>1, <2>2, <2>3, <2>4, GmailThen, Zenon
<1>5. \A d \in Slots : calls'[d].pc = "save" => calls'[d] = calls[d]
  BY GmailTypedIs DEF GmailCall
<1>. QED  BY <1>2, <1>4, <1>5
     DEF Live, HeldRows, Gmail!Active, Gmail!HeldActive, Gmail!Waits

LEMMA GmailInserts ==
  ASSUME GmailTyped, NEW c \in Slots, Gmail!InsertNew(c)
  PROVE  /\ GmailTyped' /\ DOMAIN credentials \subseteq DOMAIN credentials'
         /\ c \in Inserting /\ Inserting' \subseteq Inserting \ {c}
         /\ Live' \subseteq Live \cup {Len(credentials) + 1}
<1>. USE DEF Gmail!InsertNew, Gmail!Done, Gmail!Then, Gmail!Waits
<1>. DEFINE n == Len(credentials)
<1>1. calls[c].grant \in Gmail!AllGrants \cup {Nil}
  BY GmailTypedIs DEF GmailCall
<1>2. /\ credentials' \in Seq(Gmail!OAuthCredential)
      /\ Len(credentials') = n + 1 /\ n \in Nat
  BY <1>1, CredentialsStay, GmailTypedIs, LenProperties
<1>3. /\ DOMAIN credentials = 1 .. n /\ DOMAIN credentials' = 1 .. (n + 1)
  BY <1>2, GmailTypedIs, LenProperties
<1>4. \A i \in 1 .. n : credentials'[i] = credentials[i]
  <2>1. [grant |-> calls[c].grant, isActive |-> TRUE] \in Gmail!OAuthCredential
    BY <1>1 DEF Gmail!OAuthCredential
  <2>. QED  BY <2>1, AppendProperties, GmailTypedIs DEF Gmail!Inserted
<1>5. GmailTyped'
  <2>1. Len(credentials) <= Len(credentials') /\ Len(credentials') <= MaxRows
    BY <1>2, BoundsAssumption
  <2>2. /\ Gmail!Resting \in GmailCall(Len(credentials'))
        /\ GmailRow(Gmail!Resting, Len(credentials'))
    BY DEF Gmail!Resting, GmailCall, GmailRow, Gmail!Pcs
  <2>3. cached' \in BOOLEAN /\ booted' \in BOOLEAN
    BY GmailTypedIs
  <2>4. calls' = [calls EXCEPT ![c] = Gmail!Resting]
    OBVIOUS
  <2>. QED  BY <1>2, <2>1, <2>2, <2>3, <2>4, GmailThen, Zenon
<1>6. \A d \in Slots : calls'[d].pc \in {"save", "insert"} => d # c /\ calls'[d] = calls[d]
  BY GmailTypedIs DEF Gmail!Resting
<1>7. \A d \in Slots : calls[d].pc = "save" => calls[d].row \in 1 .. n
  BY GmailTypedIs DEF GmailRow
<1>8. Live' \subseteq Live \cup {n + 1}
  <2>1. \A i \in 1 .. (n + 1) : i \in 1 .. n \/ i = n + 1
    BY <1>2
  <2>2. \A i \in Live' : i \in 1 .. n => i \in Live
    BY <1>3, <1>4, <1>6
    DEF Live, HeldRows, Gmail!Active, Gmail!HeldActive, Gmail!Waits
  <2>3. Live' \subseteq 1 .. (n + 1)
    BY <1>3 DEF Live, HeldRows, Gmail!Active
  <2>. QED  BY <2>1, <2>2, <2>3
<1>9. c \in Inserting /\ Inserting' \subseteq Inserting \ {c}
  BY <1>6 DEF Inserting
<1>10. DOMAIN credentials \subseteq DOMAIN credentials'
  BY <1>2, <1>3
<1>. QED  BY <1>5, <1>8, <1>9, <1>10

LEMMA GmailStep ==
  ASSUME GmailTyped, [Gmail!Next]_(Gmail!vars)
  PROVE  /\ GmailTyped' /\ DOMAIN credentials \subseteq DOMAIN credentials'
         /\ \/ Narrowed
            \/ Live' \subseteq Live /\ Live' \subseteq HeldRows'
            \/ \E c \in Inserting :
                  /\ Inserting' \subseteq Inserting \ {c}
                  /\ Live' \subseteq Live \cup {Len(credentials) + 1}
<1>1. CASE UNCHANGED Gmail!vars
  BY <1>1
  DEF Gmail!vars, GmailTyped, Gmail!TypeOK, Narrowed, Live, HeldRows, Inserting,
      Gmail!Active, Gmail!HeldActive, Gmail!Waits
<1>2. CASE Gmail!Expire
  BY <1>2
  DEF Gmail!Expire, GmailTyped, Gmail!TypeOK, Narrowed, Live, HeldRows, Inserting,
      Gmail!Active, Gmail!HeldActive, Gmail!Waits
<1>3. CASE Gmail!Restart
  <2>1. Gmail!Resting \in [pc: Gmail!Pcs, grant: Gmail!AllGrants \cup {Nil},
                           row: DOMAIN credentials \cup {Nil}]
    BY DEF Gmail!Resting, Gmail!Pcs
  <2>2. GmailTyped'
    BY <1>3, <2>1 DEF Gmail!Restart, GmailTyped, Gmail!TypeOK, Gmail!Resting
  <2>3. Narrowed
    BY <1>3
    DEF Gmail!Restart, Gmail!Resting, Narrowed, Live, HeldRows, Inserting,
        Gmail!Active, Gmail!HeldActive, Gmail!Waits
  <2>. QED  BY <1>3, <2>2, <2>3 DEF Gmail!Restart
<1>4. ASSUME NEW c \in Slots,
             \/ Gmail!Boot(c) \/ Gmail!GetToken(c) \/ Gmail!Refreshed(c)
             \/ Gmail!FindStored(c) \/ Gmail!Exchange(c) \/ Gmail!Revoke(c)
             \/ Gmail!Fails(c)
      PROVE  GmailTyped' /\ Narrowed /\ UNCHANGED credentials
  <2>1. UNCHANGED credentials
    BY <1>4
    DEF Gmail!Boot, Gmail!GetToken, Gmail!Refreshed, Gmail!FindStored,
        Gmail!Exchange, Gmail!Revoke, Gmail!Fails
  <2>. QED  BY <1>4, <2>1, GmailReads
<1>5. ASSUME NEW c \in Slots, Gmail!SaveRefreshed(c) \/ Gmail!SaveRevoked(c)
      PROVE  GmailTyped' /\ Narrowed /\ DOMAIN credentials' = DOMAIN credentials
  <2>1. cached' \in BOOLEAN /\ booted' \in BOOLEAN
    BY <1>5, GmailTypedIs DEF Gmail!SaveRefreshed, Gmail!SaveRevoked
  <2>2. DOMAIN credentials' = DOMAIN credentials
    BY <1>5 DEF Gmail!SaveRefreshed, Gmail!SaveRevoked, Gmail!SaveCopy
  <2>3. CASE Gmail!SaveRefreshed(c)
    BY <2>1, <2>2, <2>3, GmailSave DEF Gmail!SaveRefreshed, Gmail!Waits, Narrowed
  <2>4. CASE Gmail!SaveRevoked(c)
    BY <2>1, <2>2, <2>4, GmailSave DEF Gmail!SaveRevoked, Gmail!Waits, Narrowed
  <2>. QED  BY <1>5, <2>3, <2>4
<1>6. ASSUME NEW c \in Slots, Gmail!DeactivateOthers(c)
      PROVE  DOMAIN credentials' = DOMAIN credentials
  BY <1>6 DEF Gmail!DeactivateOthers, Gmail!Deactivated
<1>7. ASSUME NEW c \in Slots, Gmail!InsertNew(c)
      PROVE  c \in Inserting
  BY <1>7, GmailInserts
<1>. QED
  BY <1>1, <1>2, <1>3, <1>4, <1>5, <1>6, <1>7, GmailDeactivates, GmailInserts
  DEF Gmail!Next, Gmail!GetGmailAccessToken, Gmail!SaveOAuthTokens, Gmail!RevokeToken

\* Things that calls hold, and other calls, are together no more than the calls.
LEMMA HoldersBound ==
  ASSUME NEW S, IsFiniteSet(S), NEW Holders \in SUBSET S, NEW Waiters \in SUBSET S,
         Holders \cap Waiters = {}, NEW f, NEW T, T \subseteq {f[c] : c \in Holders}
  PROVE  IsFiniteSet(T) /\ Cardinality(T) + Cardinality(Waiters) <= Cardinality(S)
<1>. DEFINE Image == {f[c] : c \in Holders}  g == [c \in Holders |-> f[c]]
<1>1. IsFiniteSet(Holders) /\ IsFiniteSet(Waiters) /\ IsFiniteSet(Holders \cup Waiters)
  BY FS_Subset
<1>2. g \in Surjection(Holders, Image)
  BY DEF Surjection
<1>3. IsFiniteSet(Image) /\ Cardinality(Image) <= Cardinality(Holders)
  <2>. HIDE DEF Image, g
  <2>. QED  BY <1>1, <1>2, FS_Surjection
<1>4. IsFiniteSet(T) /\ Cardinality(T) <= Cardinality(Image)
  BY <1>3, FS_Subset
<1>5. Cardinality(Holders \cap Waiters) = 0
  BY FS_EmptySet
<1>6. Cardinality(Holders \cup Waiters) = Cardinality(Holders) + Cardinality(Waiters) - 0
  BY <1>1, <1>5, FS_Union
<1>7. Cardinality(Holders \cup Waiters) <= Cardinality(S)
  BY FS_Subset
<1>8. /\ Cardinality(T) \in Nat /\ Cardinality(Image) \in Nat /\ Cardinality(S) \in Nat
      /\ Cardinality(Holders) \in Nat /\ Cardinality(Waiters) \in Nat
      /\ Cardinality(Holders \cup Waiters) \in Nat
  BY <1>1, <1>3, <1>4, FS_CardinalityType
<1>. HIDE DEF Image
<1>. QED  BY <1>3, <1>4, <1>6, <1>7, <1>8

LEMMA GmailKeepsInvariant ==
  ASSUME GmailInv, [Gmail!Next]_(Gmail!vars)
  PROVE  GmailInv'
<1>1. GmailTyped' /\ GmailTyped
  BY GmailStep DEF GmailInv
<1>2. /\ Inserting \subseteq Slots /\ Inserting' \subseteq Slots
      /\ IsFiniteSet(Inserting) /\ Cardinality(Inserting) \in Nat
      /\ IsFiniteSet(Inserting') /\ Cardinality(Inserting') \in Nat
  <2>1. Inserting \subseteq Slots /\ Inserting' \subseteq Slots
    BY DEF Inserting
  <2>2. IsFiniteSet(Inserting) /\ IsFiniteSet(Inserting')
    BY <2>1, SlotsAssumption, FS_Subset
  <2>. QED  BY <2>1, <2>2, FS_CardinalityType
<1>3. IsFiniteSet(Live) /\ Cardinality(Live) \in Nat /\ Cardinality(Slots) \in Nat
  BY SlotsAssumption, FS_CardinalityType DEF GmailInv
<1>4. CASE Narrowed
  <2>1. IsFiniteSet(Live') /\ Cardinality(Live') <= Cardinality(Live)
    BY <1>3, <1>4, FS_Subset DEF Narrowed
  <2>2. Cardinality(Inserting') <= Cardinality(Inserting)
    BY <1>2, <1>4, FS_Subset DEF Narrowed
  <2>3. Cardinality(Live') \in Nat
    BY <2>1, FS_CardinalityType
  <2>4. Cardinality(Live') + Cardinality(Inserting') <= Cardinality(Slots)
    BY <1>2, <1>3, <2>1, <2>2, <2>3 DEF GmailInv, LiveCovered
  <2>. QED  BY <1>1, <2>1, <2>4 DEF GmailInv, LiveCovered
<1>5. CASE Live' \subseteq HeldRows'
  <2>1. PICK saving : saving = {c \in Slots : calls'[c].pc = "save"}
    OBVIOUS
  <2>2. PICK held : held = [c \in Slots |-> calls'[c].row]
    OBVIOUS
  <2>3. Live' \subseteq {held[c] : c \in saving}
    BY <1>5, <2>1, <2>2 DEF HeldRows, Gmail!HeldActive, Gmail!Waits
  <2>4. saving \cap Inserting' = {} /\ saving \subseteq Slots
    BY <2>1 DEF Inserting
  <2>5. PICK live, inserting : live = Live' /\ inserting = Inserting'
    OBVIOUS
  <2>6. IsFiniteSet(live) /\ Cardinality(live) + Cardinality(inserting) <= Cardinality(Slots)
    BY <1>2, <2>3, <2>4, <2>5, SlotsAssumption, HoldersBound
  <2>. QED  BY <1>1, <2>5, <2>6 DEF GmailInv, LiveCovered
<1>6. ASSUME NEW c \in Inserting, Inserting' \subseteq Inserting \ {c},
             Live' \subseteq Live \cup {Len(credentials) + 1}
      PROVE  GmailInv'
  <2>1. PICK new : new = Len(credentials) + 1
    OBVIOUS
  <2>2. PICK live : live = Live
    OBVIOUS
  <2>3. /\ IsFiniteSet(live \cup {new})
        /\ Cardinality(live \cup {new}) <= Cardinality(live) + 1
    <3>1. IsFiniteSet(live)
      BY <1>3, <2>2
    <3>2. /\ IsFiniteSet(live \cup {new})
          /\ Cardinality(live \cup {new})
                = IF new \in live THEN Cardinality(live) ELSE Cardinality(live) + 1
      BY <3>1, FS_AddElement
    <3>. QED  BY <1>3, <2>2, <3>2
  <2>4. IsFiniteSet(Live') /\ Cardinality(Live') <= Cardinality(live \cup {new})
    BY <1>6, <2>1, <2>2, <2>3, FS_Subset
  <2>5. PICK waiting : waiting = Inserting
    OBVIOUS
  <2>6. IsFiniteSet(waiting \ {c}) /\ Cardinality(waiting \ {c}) = Cardinality(waiting) - 1
    BY <1>2, <2>5, FS_RemoveElement
  <2>7. Cardinality(Inserting') <= Cardinality(waiting \ {c})
    BY <1>6, <2>5, <2>6, FS_Subset
  <2>8. Cardinality(Live') \in Nat /\ Cardinality(live \cup {new}) \in Nat
    BY <2>3, <2>4, FS_CardinalityType
  <2>9. Cardinality(Live') + Cardinality(Inserting') <= Cardinality(Slots)
    BY <1>2, <1>3, <2>2, <2>3, <2>4, <2>5, <2>6, <2>7, <2>8 DEF GmailInv, LiveCovered
  <2>. QED  BY <1>1, <2>4, <2>9 DEF GmailInv, LiveCovered
<1>. QED  BY <1>1, <1>4, <1>5, <1>6, GmailStep

\* However exchanges, refreshes and revocations overlap, no more credentials
\* are active at once than calls can overlap (saveOAuthTokens,
\* updateStoredCredentials): Live and Inserting count them against the calls.
THEOREM ActiveCredentialsAreBounded == Gmail!Spec => []ActiveBounded
<1>1. GmailInv => ActiveBounded
  <2>. SUFFICES ASSUME GmailInv PROVE ActiveBounded
    OBVIOUS
  <2>1. /\ IsFiniteSet(Gmail!Active) /\ Cardinality(Gmail!Active) <= Cardinality(Live)
        /\ IsFiniteSet(Inserting) /\ IsFiniteSet(Live)
    BY SlotsAssumption, FS_Subset DEF GmailInv, Live, Inserting
  <2>2. /\ Cardinality(Gmail!Active) \in Nat /\ Cardinality(Inserting) \in Nat
        /\ Cardinality(Live) \in Nat /\ Cardinality(Slots) \in Nat
    BY <2>1, SlotsAssumption, FS_CardinalityType
  <2>. QED  BY <2>1, <2>2, GmailCardinality
       DEF GmailInv, LiveCovered, ActiveBounded, Gmail!ActiveBounded
<1>. QED  BY <1>1, GmailInitial, GmailKeepsInvariant, PTL DEF Gmail!Spec

\* A credential that was revoked or replaced stays off once no refresh holds an
\* active copy of it (updateStoredCredentials, revokeToken).
THEOREM DeactivationLasts == Gmail!Spec => DeactivatedStaysOff
<1>1. ASSUME GmailTyped, [Gmail!Next]_(Gmail!vars)
      PROVE  GmailTyped' /\
             [\A i \in DOMAIN credentials :
                 ~credentials[i].isActive /\ ~Gmail!HeldActive(i)
                 => ~credentials'[i].isActive]_(Gmail!vars)
  <2>1. GmailTyped' /\ DOMAIN credentials \subseteq DOMAIN credentials'
    BY <1>1, GmailStep
  <2>2. \A i \in Live' : i \in Live \/ i = Len(credentials) + 1
    BY <1>1, GmailStep DEF Narrowed
  <2>3. ASSUME NEW i \in DOMAIN credentials,
               ~credentials[i].isActive, ~Gmail!HeldActive(i)
        PROVE  ~credentials'[i].isActive
    <3>1. i \notin Live /\ i # Len(credentials) + 1
      BY <1>1, <2>3, GmailTypedIs, LenProperties
      DEF Live, HeldRows, Gmail!Active
    <3>2. i \notin Live'
      BY <2>2, <3>1
    <3>. QED  BY <2>1, <2>3, <3>2 DEF Live, Gmail!Active
  <2>. QED  BY <2>1, <2>3
<1>2. Gmail!Init => GmailTyped
  BY GmailInitial DEF GmailInv
<1>. QED  BY <1>1, <1>2, PTL DEF Gmail!Spec, DeactivatedStaysOff, Gmail!DeactivatedStaysOff

-----------------------------------------------------------------------------
(* The second mail processor: proofs.                                      *)

LEMMA ProcessorInitial == Processor!Init => ProcessorInv
<1>. SUFFICES ASSUME Processor!Init PROVE ProcessorInv
  OBVIOUS
<1>. USE DEF Processor!Init, Processor!Resting
<1>1. worker \in ProcessorWorker
  BY BoundsAssumption DEF ProcessorWorker, Processor!Pcs
<1>2. WorkerFits(worker, logs, jobs)
  BY DEF WorkerFits
<1>3. \A m \in QueuedMails : MailOK(logs[m], jobs[m], told[m])
  BY AbsentAssumption DEF MailOK, Processor!Statuses
<1>. QED  BY <1>1, <1>2, <1>3 DEF ProcessorInv, TasksOK

\* A step that writes about one mail, and moves the worker.
LEMMA ProcessorWrites ==
  ASSUME ProcessorInv, NEW m \in QueuedMails, NEW log, NEW job, NEW said, NEW w,
         logs' = [logs EXCEPT ![m] = log], jobs' = [jobs EXCEPT ![m] = job],
         told' = [told EXCEPT ![m] = said], MailOK(log, job, said),
         worker' = w, w \in ProcessorWorker, WorkerFits(w, logs', jobs'),
         batch' \in BOOLEAN, forwarded' \subseteq QueuedMails, TasksOK'
  PROVE  ProcessorInv'
<1>1. log \in Processor!Statuses \cup {Nil} /\ said \subseteq {"sent", "failed"}
      /\ job \in Processor!Job \cup {Nil}
  BY DEF MailOK
<1>2. /\ logs' \in [QueuedMails -> Processor!Statuses \cup {Nil}]
      /\ jobs' \in [QueuedMails -> Processor!Job \cup {Nil}]
      /\ told' \in [QueuedMails -> SUBSET {"sent", "failed"}]
  BY <1>1 DEF ProcessorInv
<1>3. ASSUME NEW k \in QueuedMails
      PROVE  MailOK(logs'[k], jobs'[k], told'[k])
  <2>1. CASE k = m
    BY <2>1 DEF ProcessorInv
  <2>2. CASE k # m
    BY <2>2 DEF ProcessorInv
  <2>. QED  BY <2>1, <2>2
<1>. QED  BY <1>2, <1>3 DEF ProcessorInv

\* A step that writes about none.
LEMMA ProcessorMoves ==
  ASSUME ProcessorInv, UNCHANGED <<logs, jobs, told>>, NEW w,
         worker' = w, w \in ProcessorWorker, WorkerFits(w, logs, jobs),
         batch' \in BOOLEAN, forwarded' \subseteq QueuedMails, TasksOK'
  PROVE  ProcessorInv'
BY DEF ProcessorInv

\* Where the worker may go from a mail it works on.
LEMMA ProcessorGoes ==
  ASSUME ProcessorInv, worker.pc \notin {"idle", "log", "add"},
         NEW next \in Processor!Pcs \ {"idle", "log", "add"},
         next = "mark failed" => AtLastTry(jobs[worker.mail])
  PROVE  /\ worker.mail \in QueuedMails /\ jobs[worker.mail] # Nil
         /\ [worker EXCEPT !.pc = next] \in ProcessorWorker
         /\ [worker EXCEPT !.pc = next].pc = next
         /\ [worker EXCEPT !.pc = next].mail = worker.mail
         /\ WorkerFits([worker EXCEPT !.pc = next], logs, jobs)
BY DEF ProcessorInv, ProcessorWorker, WorkerFits

\* An error takes it to one of two.
LEMMA ProcessorCaught ==
  ASSUME ProcessorInv, worker.pc \notin {"idle", "log", "add"}, Processor!Caught
  PROVE  \E next \in {"mark failed", "throw"} :
            /\ worker' = [worker EXCEPT !.pc = next]
            /\ next = "mark failed" => AtLastTry(jobs[worker.mail])
<1>1. worker.mail \in QueuedMails /\ jobs[worker.mail] # Nil
  BY DEF ProcessorInv, WorkerFits
<1>2. /\ jobs[worker.mail] \in Processor!Job
      /\ jobs[worker.mail].made < jobs[worker.mail].attempts
  BY <1>1 DEF ProcessorInv, MailOK
<1>3. Processor!LastTry(worker.mail) => AtLastTry(jobs[worker.mail])
  BY <1>2 DEF Processor!LastTry, AtLastTry, Processor!Job
<1>. QED  BY <1>3 DEF Processor!Caught, Processor!Then, Processor!Mail

LEMMA ProcessorTypes ==
  ASSUME ProcessorInv
  PROVE  /\ batch \in BOOLEAN /\ forwarded \subseteq QueuedMails /\ TasksOK
         /\ Processor!Resting \in ProcessorWorker
         /\ WorkerFits(Processor!Resting, logs, jobs)
         /\ \A m \in QueuedMails : MailOK(logs[m], jobs[m], told[m])
         /\ \A m \in QueuedMails : /\ logs = [logs EXCEPT ![m] = logs[m]]
                                   /\ jobs = [jobs EXCEPT ![m] = jobs[m]]
                                   /\ told = [told EXCEPT ![m] = told[m]]
<1>1. Processor!Resting \in ProcessorWorker
  BY BoundsAssumption DEF ProcessorWorker, Processor!Resting, Processor!Pcs
<1>2. WorkerFits(Processor!Resting, logs, jobs)
  BY DEF WorkerFits, Processor!Resting
<1>. QED  BY <1>1, <1>2 DEF ProcessorInv

LEMMA BulkWorker ==
  ASSUME NEW left \in 0 .. Recipients
  PROVE  LET w == [Processor!Resting EXCEPT !.pc = "log", !.left = left]
         IN  w \in ProcessorWorker /\ WorkerFits(w, logs, jobs) /\ WorkerFits(w, logs', jobs')
BY DEF ProcessorWorker, WorkerFits, Processor!Resting, Processor!Pcs

\* The constructor's tasks, the queue and the bulk job.
LEMMA QueueStep ==
  ASSUME ProcessorInv,
         \/ \E t \in Processor!Tasks : Processor!TaskDone(t) \/ Processor!TaskFails(t)
         \/ Processor!Queue
  PROVE  ProcessorInv'
<1>. USE ProcessorTypes
<1>1. ASSUME NEW t \in Processor!Tasks, Processor!TaskDone(t) \/ Processor!TaskFails(t)
      PROVE  ProcessorInv'
  <2>1. TasksOK'
    BY <1>1 DEF Processor!TaskDone, Processor!TaskFails, Processor!Tasks, TasksOK
  <2>2. UNCHANGED <<logs, jobs, batch, forwarded, worker, told>>
    BY <1>1 DEF Processor!TaskDone, Processor!TaskFails
  <2>. QED  BY <2>1, <2>2 DEF ProcessorInv
<1>2. ASSUME NEW m \in QueuedMails, Processor!QueueMail(m)
      PROVE  ProcessorInv'
  <2>. USE <1>2 DEF Processor!QueueMail, Processor!SetStatus, Processor!Process
  <2>. DEFINE job == [made |-> 0, attempts |-> Attempts]
  <2>1. MailOK("pending", job, told[m])
    <3>1. told[m] = {}
      BY ProcessorTypes DEF MailOK
    <3>2. job \in Processor!Job /\ job.made < job.attempts
      BY BoundsAssumption DEF Processor!Job
    <3>. QED  BY <3>1, <3>2, AbsentAssumption DEF MailOK, Processor!Statuses
  <2>2. WorkerFits(worker, logs', jobs')
    <3>1. m # worker.mail \/ worker.pc \in {"idle", "log"}
      BY DEF ProcessorInv, WorkerFits, MailOK
    <3>. QED  BY <3>1 DEF ProcessorInv, WorkerFits
  <2>3. TasksOK' /\ batch' \in BOOLEAN /\ worker \in ProcessorWorker
        /\ forwarded' \subseteq QueuedMails
    BY DEF TasksOK, ProcessorInv
  <2>4. worker' = worker /\ told' = [told EXCEPT ![m] = told[m]]
    OBVIOUS
  <2>. QED  BY <2>1, <2>2, <2>3, <2>4, ProcessorWrites
<1>3. CASE Processor!QueueBatch
  BY <1>3 DEF Processor!QueueBatch, Processor!Process, ProcessorInv, TasksOK
<1>4. ASSUME NEW m \in QueuedMails, Processor!Take(m)
      PROVE  ProcessorInv'
  <2>. DEFINE w == [Processor!Resting EXCEPT !.pc = "mark", !.mail = m]
  <2>1. w \in ProcessorWorker /\ WorkerFits(w, logs, jobs)
    BY <1>4, BoundsAssumption
    DEF ProcessorWorker, WorkerFits, Processor!Resting, Processor!Pcs, Processor!Take
  <2>. QED  BY <1>4, <2>1, ProcessorMoves
       DEF Processor!Take, Processor!Process, TasksOK
<1>5. CASE Processor!TakeBatch
  <2>. DEFINE w == [Processor!Resting EXCEPT !.pc = "log", !.left = Recipients]
  <2>1. w \in ProcessorWorker /\ WorkerFits(w, logs, jobs)
    <3>1. Recipients \in 0 .. Recipients
      BY BoundsAssumption
    <3>. QED  BY <3>1, BulkWorker
  <2>. QED  BY <1>5, <2>1, ProcessorMoves
       DEF Processor!TakeBatch, Processor!Process, TasksOK
<1>6. CASE Processor!Leave
  <2>. PICK m : m = worker.mail
    OBVIOUS
  <2>1. m \in QueuedMails /\ jobs[m] # Nil
    BY <1>6 DEF Processor!Leave, Processor!Doing, ProcessorInv, WorkerFits
  <2>2. PICK job \in {Nil, Processor!Retried(jobs[m])} : jobs' = [jobs EXCEPT ![m] = job]
    BY <1>6 DEF Processor!Leave, Processor!Mail
  <2>3. MailOK(logs[m], job, told[m])
    <3>1. MailOK(logs[m], jobs[m], told[m])
      BY <2>1
    <3>2. CASE job = Nil
      BY <3>1, <3>2 DEF MailOK, AtLastTry
    <3>3. CASE job # Nil
      <4>1. jobs[m] \in Processor!Job /\ ~AtLastTry(jobs[m])
        BY <2>1, <2>2, <3>1, <3>3 DEF MailOK, AtLastTry, Processor!Job, Processor!Retried
      <4>2. job \in Processor!Job /\ job.made < job.attempts
        BY <2>2, <3>3, <4>1 DEF Processor!Job, Processor!Retried
      <4>. QED  BY <2>1, <3>1, <4>1, <4>2 DEF MailOK
    <3>. QED  BY <3>2, <3>3
  <2>4. UNCHANGED <<logs, told>> /\ worker' = Processor!Resting
    BY <1>6 DEF Processor!Leave
  <2>5. WorkerFits(Processor!Resting, logs', jobs')
    BY DEF WorkerFits, Processor!Resting
  <2>6. batch' \in BOOLEAN /\ forwarded' \subseteq QueuedMails /\ TasksOK'
    BY <1>6 DEF Processor!Leave, Processor!Process, TasksOK
  <2>. QED  BY <2>1, <2>2, <2>3, <2>4, <2>5, <2>6, ProcessorWrites
<1>. QED  BY <1>1, <1>2, <1>3, <1>4, <1>5, <1>6 DEF Processor!Queue

LEMMA ProcessStep ==
  ASSUME ProcessorInv, Processor!ProcessJob
  PROVE  ProcessorInv'
<1>. USE ProcessorTypes DEF Processor!Doing, Processor!Then, Processor!Mail
<1>. PICK m : m = worker.mail
  OBVIOUS
<1>. DEFINE To(next) == [worker EXCEPT !.pc = next]
<1>1. worker.pc \notin {"idle", "log", "add"}
  BY DEF Processor!ProcessJob, Processor!MarkProcessing, Processor!ReloadTemplate,
         Processor!Send, Processor!MarkSent, Processor!MarkFailed,
         Processor!StatementFails
<1>2. m \in QueuedMails /\ jobs[m] # Nil /\ MailOK(logs[m], jobs[m], told[m])
  BY <1>1 DEF ProcessorInv, WorkerFits
<1>3. ASSUME NEW next \in Processor!Pcs \ {"idle", "log", "add"},
             next = "mark failed" => AtLastTry(jobs[m]),
             worker' = To(next), UNCHANGED <<logs, jobs, told, batch, forwarded>>, TasksOK'
      PROVE  ProcessorInv'
  BY <1>1, <1>3, ProcessorGoes, ProcessorMoves
<1>4. ASSUME NEW next \in Processor!Pcs \ {"idle", "log", "add", "mark failed"},
             worker' = To(next), NEW log \in Processor!Statuses, NEW said,
             logs' = [logs EXCEPT ![m] = log], told' = [told EXCEPT ![m] = said],
             MailOK(log, jobs[m], said), UNCHANGED <<jobs, batch, forwarded>>, TasksOK'
      PROVE  ProcessorInv'
  <2>1. WorkerFits(To(next), logs', jobs')
    BY <1>1, <1>4, ProcessorGoes DEF WorkerFits
  <2>2. To(next) \in ProcessorWorker
    BY <1>1, <1>4, ProcessorGoes
  <2>3. jobs' = [jobs EXCEPT ![m] = jobs[m]] /\ batch' \in BOOLEAN
    BY <1>2, <1>4
  <2>. HIDE DEF To
  <2>. QED  BY <1>2, <1>4, <2>1, <2>2, <2>3, ProcessorWrites
<1>5. ASSUME Processor!Caught, UNCHANGED <<logs, jobs, told, batch, forwarded>>, TasksOK'
      PROVE  ProcessorInv'
  BY <1>1, <1>3, <1>5, ProcessorCaught DEF Processor!Pcs
<1>6. CASE Processor!MarkProcessing
  <2>1. MailOK("processing", jobs[m], told[m])
    BY <1>2, AbsentAssumption DEF MailOK, Processor!Statuses
  <2>2. PICK next \in {"send", "reload"} : worker' = To(next)
    BY <1>6 DEF Processor!MarkProcessing
  <2>3. /\ logs' = [logs EXCEPT ![m] = "processing"] /\ UNCHANGED <<jobs, batch, forwarded>>
        /\ told' = [told EXCEPT ![m] = told[m]] /\ TasksOK'
    BY <1>2, <1>6
    DEF Processor!MarkProcessing, Processor!SetStatus, Processor!Process, TasksOK
  <2>. QED  BY <1>4, <2>1, <2>2, <2>3 DEF Processor!Pcs, Processor!Statuses
<1>7. CASE Processor!ReloadTemplate
  <2>1. TasksOK' /\ UNCHANGED <<logs, jobs, told, batch, forwarded>>
    BY <1>7 DEF Processor!ReloadTemplate, Processor!Reloaded, TasksOK
  <2>2. Processor!Caught \/ worker' = To("send")
    BY <1>7 DEF Processor!ReloadTemplate
  <2>. QED  BY <1>3, <1>5, <2>1, <2>2 DEF Processor!Pcs
<1>8. CASE Processor!Send
  <2>1. TasksOK' /\ UNCHANGED <<logs, jobs, told, batch, forwarded>>
    BY <1>8 DEF Processor!Send, Processor!Process, TasksOK
  <2>2. Processor!Caught \/ worker' = To("mark sent")
    BY <1>8 DEF Processor!Send
  <2>. QED  BY <1>3, <1>5, <2>1, <2>2 DEF Processor!Pcs
<1>9. CASE Processor!MarkSent
  <2>1. PICK log \in {"sent", logs[m]} : logs' = [logs EXCEPT ![m] = log]
    BY <1>2, <1>9 DEF Processor!MarkSent, Processor!SetStatus
  <2>2. /\ MailOK(log, jobs[m], told[m] \cup {"sent"}) /\ log \in Processor!Statuses
    BY <1>2, AbsentAssumption DEF MailOK, Processor!Statuses
  <2>3. /\ told' = [told EXCEPT ![m] = told[m] \cup {"sent"}]
        /\ worker' = To("done") /\ UNCHANGED <<jobs, batch, forwarded>> /\ TasksOK'
    BY <1>2, <1>9 DEF Processor!MarkSent, Processor!Process, TasksOK, ProcessorInv
  <2>. QED  BY <1>4, <2>1, <2>2, <2>3 DEF Processor!Pcs
<1>10. CASE Processor!MarkFailed
  <2>1. PICK log \in {"failed", logs[m]} : logs' = [logs EXCEPT ![m] = log]
    BY <1>2, <1>10 DEF Processor!MarkFailed, Processor!SetStatus
  <2>2. AtLastTry(jobs[m])
    BY <1>10 DEF Processor!MarkFailed, ProcessorInv, WorkerFits
  <2>3. /\ MailOK(log, jobs[m], told[m] \cup {"failed"}) /\ log \in Processor!Statuses
    BY <1>2, <2>2, AbsentAssumption DEF MailOK, Processor!Statuses
  <2>4. /\ told' = [told EXCEPT ![m] = told[m] \cup {"failed"}]
        /\ worker' = To("throw") /\ UNCHANGED <<jobs, batch, forwarded>> /\ TasksOK'
    BY <1>2, <1>10 DEF Processor!MarkFailed, Processor!Process, TasksOK, ProcessorInv
  <2>. QED  BY <1>4, <2>1, <2>3, <2>4 DEF Processor!Pcs
<1>11. CASE Processor!StatementFails
  BY <1>5, <1>11 DEF Processor!StatementFails, Processor!Process, TasksOK
<1>. QED  BY <1>6, <1>7, <1>8, <1>9, <1>10, <1>11 DEF Processor!ProcessJob

LEMMA BulkStep ==
  ASSUME ProcessorInv, Processor!HandleBulkSend
  PROVE  ProcessorInv'
<1>. USE DEF Processor!Doing, Processor!Process
<1>1. worker \in ProcessorWorker /\ TasksOK /\ batch \in BOOLEAN
  BY DEF ProcessorInv
<1>2. worker.left \in 0 .. Recipients
  BY <1>1 DEF ProcessorWorker
<1>. DEFINE onward == [Processor!Resting EXCEPT !.pc = "log", !.left = worker.left - 1]
<1>3. worker.left > 0 => /\ onward \in ProcessorWorker /\ WorkerFits(onward, logs, jobs)
                         /\ WorkerFits(onward, logs', jobs')
  <2>. SUFFICES ASSUME worker.left > 0
                PROVE  /\ onward \in ProcessorWorker /\ WorkerFits(onward, logs, jobs)
                       /\ WorkerFits(onward, logs', jobs')
    OBVIOUS
  <2>. PICK left \in 0 .. Recipients : left = worker.left - 1
    BY <1>2, BoundsAssumption
  <2>. QED  BY BulkWorker
<1>4. CASE Processor!BulkLog
  <2>1. TasksOK' /\ batch' \in BOOLEAN /\ forwarded' \subseteq QueuedMails
    BY <1>1, <1>4, ProcessorTypes DEF Processor!BulkLog, TasksOK
  <2>2. CASE Processor!NextRecipient /\ UNCHANGED logs
    <3>1. worker' = onward /\ UNCHANGED <<logs, jobs, told>> /\ worker.left > 0
      BY <1>4, <2>2 DEF Processor!BulkLog, Processor!NextRecipient
    <3>. HIDE DEF onward
    <3>. QED  BY <1>3, <2>1, <3>1, ProcessorMoves
  <2>3. ASSUME NEW m \in QueuedMails, logs[m] = Nil, Processor!SetStatus(m, "pending"),
               worker' = [worker EXCEPT !.pc = "add", !.mail = m]
        PROVE  ProcessorInv'
    <3>. DEFINE w == [worker EXCEPT !.pc = "add", !.mail = m]
    <3>1. logs' = [logs EXCEPT ![m] = "pending"] /\ UNCHANGED <<jobs, told>>
      BY <1>4, <2>3 DEF Processor!BulkLog, Processor!SetStatus
    <3>2. jobs' = [jobs EXCEPT ![m] = jobs[m]] /\ told' = [told EXCEPT ![m] = told[m]]
      BY <3>1, ProcessorTypes
    <3>3. MailOK("pending", jobs[m], told[m])
      <4>1. jobs[m] = Nil /\ told[m] = {}
        BY <2>3, ProcessorTypes DEF MailOK
      <4>. QED  BY <4>1, AbsentAssumption DEF MailOK, Processor!Statuses
    <3>4. w \in ProcessorWorker /\ w.pc = "add" /\ w.mail = m /\ w.left > 0
      BY <1>1, <1>4 DEF ProcessorWorker, Processor!Pcs, Processor!BulkLog
    <3>5. logs'[m] # Nil
      BY <3>1, AbsentAssumption DEF ProcessorInv, Processor!Statuses
    <3>6. WorkerFits(w, logs', jobs')
      BY <3>4, <3>5 DEF WorkerFits
    <3>7. worker' = w
      BY <2>3
    <3>. HIDE DEF w
    <3>. QED  BY <2>1, <3>1, <3>2, <3>3, <3>4, <3>6, <3>7, ProcessorWrites
  <2>. QED  BY <1>4, <2>2, <2>3 DEF Processor!BulkLog
<1>5. CASE Processor!BulkAdd
  <2>. PICK m : m = worker.mail
    OBVIOUS
  <2>1. m \in QueuedMails /\ logs[m] # Nil
    BY <1>5 DEF Processor!BulkAdd, ProcessorInv, WorkerFits
  <2>2. /\ worker' = onward /\ TasksOK' /\ batch' \in BOOLEAN
        /\ UNCHANGED <<logs, jobs, told>>
    BY <1>1, <1>5 DEF Processor!BulkAdd, Processor!NextRecipient, TasksOK
  <2>3. worker.left > 0
    BY <1>5 DEF Processor!BulkAdd, ProcessorInv, WorkerFits
  <2>4. forwarded' \subseteq QueuedMails
    BY <1>5, <2>1, ProcessorTypes DEF Processor!BulkAdd, Processor!Mail
  <2>. HIDE DEF onward
  <2>. QED  BY <1>3, <2>2, <2>3, <2>4, ProcessorMoves
<1>6. CASE Processor!BulkDone
  <2>1. UNCHANGED <<logs, jobs, told>> /\ worker' = Processor!Resting
        /\ batch' \in BOOLEAN /\ forwarded' \subseteq QueuedMails /\ TasksOK'
    BY <1>1, <1>6, ProcessorTypes DEF Processor!BulkDone, TasksOK
  <2>. QED  BY <2>1, ProcessorMoves, ProcessorTypes
<1>. QED  BY <1>4, <1>5, <1>6 DEF Processor!HandleBulkSend

LEMMA ProcessorStep ==
  ASSUME ProcessorInv, [Processor!Next]_(Processor!vars)
  PROVE  ProcessorInv'
<1>1. CASE UNCHANGED Processor!vars
  BY <1>1 DEF Processor!vars, ProcessorInv, TasksOK
<1>2. CASE Processor!Crash
  <2>. USE <1>2 DEF Processor!Crash
  <2>1. /\ UNCHANGED <<logs, told>> /\ worker' = Processor!Resting /\ TasksOK'
        /\ batch' \in BOOLEAN /\ forwarded' \subseteq QueuedMails
    BY ProcessorTypes DEF TasksOK, Processor!Tasks
  <2>2. CASE UNCHANGED jobs
    BY <2>1, <2>2, ProcessorMoves, ProcessorTypes
  <2>3. ASSUME worker.pc \notin {"idle", "log", "add"},
               jobs' = [jobs EXCEPT ![worker.mail] = Nil]
        PROVE  ProcessorInv'
    <3>. PICK m : m = worker.mail
      OBVIOUS
    <3>1. m \in QueuedMails /\ MailOK(logs[m], jobs[m], told[m])
      BY <2>3 DEF ProcessorInv, WorkerFits
    <3>2. MailOK(logs[m], Nil, told[m])
      BY <3>1 DEF MailOK, AtLastTry
    <3>3. WorkerFits(Processor!Resting, logs', jobs')
      BY DEF WorkerFits, Processor!Resting
    <3>4. /\ logs' = [logs EXCEPT ![m] = logs[m]] /\ told' = [told EXCEPT ![m] = told[m]]
          /\ jobs' = [jobs EXCEPT ![m] = Nil]
      BY <2>1, <2>3, <3>1, ProcessorTypes
    <3>5. Processor!Resting \in ProcessorWorker
      BY ProcessorTypes
    <3>. QED  BY <2>1, <3>1, <3>2, <3>3, <3>4, <3>5, ProcessorWrites
  <2>. QED  BY <2>2, <2>3 DEF Processor!InBatch, Processor!Doing, Processor!Mail
<1>. QED  BY <1>1, <1>2, QueueStep, ProcessStep, BulkStep DEF Processor!Next

\* A mail that a row or an event says has failed has no attempt left but the
\* one that is running, through crashes and lost statements (process).
THEOREM FailureIsFinal == Processor!Spec => []FailedIsLastTry
<1>1. ProcessorInv => FailedIsLastTry
  BY DEF ProcessorInv, MailOK, AtLastTry, FailedIsLastTry, Processor!FailedIsLastTry
<1>. QED  BY <1>1, ProcessorInitial, ProcessorStep, PTL DEF Processor!Spec

-----------------------------------------------------------------------------
(* Tracking: proofs.                                                       *)

LEMMA RestingHandler ==
  /\ Tracking!Resting \in Handler /\ HandlerOK(Tracking!Resting)
  /\ \A known : HandlerRecorded(known, Tracking!Resting)
BY DEF Handler, HandlerOK, HandlerRecorded, Copying, Tracking!Resting, Tracking!Pcs

LEMMA TrackingInitial == Tracking!Init => TrackingInv
<1>. SUFFICES ASSUME Tracking!Init PROVE TrackingInv
  OBVIOUS
<1>. USE DEF Tracking!Init
<1>1. Tracking!Queued \in Tracking!Row
  BY BoundsAssumption DEF Tracking!Queued, Tracking!Row, Tracking!EmailStatus
<1>2. \A m \in Mails : Recorded(Known, m, mailRows[m].status)
  BY DEF Recorded, Tracking!Queued
<1>3. \A h \in Slots : handlers[h] = Tracking!Resting
  OBVIOUS
<1>4. TrackingTyped
  BY <1>1, <1>3, RestingHandler DEF TrackingTyped
<1>. QED  BY <1>2, <1>3, <1>4, RestingHandler DEF TrackingInv

\* A handler goes on; the history of the mails only grows.
LEMMA TrackingGoes ==
  ASSUME TrackingInv, NEW h \in Slots, NEW next,
         handlers' = [handlers EXCEPT ![h] = next],
         HandlerOK(next), HandlerRecorded(Known', next),
         mailRows' \in [Mails -> Tracking!Row],
         events' \in [Mails -> SUBSET Tracking!EmailEventType],
         missed' \in [Mails -> SUBSET Emitted],
         \A m \in Mails : events[m] \subseteq events'[m] /\ missed[m] \subseteq missed'[m],
         \A m \in Mails :
             mailRows'[m].status = mailRows[m].status
             \/ Recorded(Known', m, mailRows'[m].status)
  PROVE  TrackingInv'
<1>1. \A m \in Mails : Known[m] \subseteq Known'[m]
  BY DEF Known
<1>2. \A g \in Slots : handlers'[g] = IF g = h THEN next ELSE handlers[g]
  BY DEF TrackingInv, TrackingTyped
<1>3. TrackingTyped'
  <2>1. next \in Handler
    BY DEF HandlerOK
  <2>. QED  BY <1>2, <2>1 DEF TrackingInv, TrackingTyped
<1>4. \A m \in Mails : Recorded(Known', m, mailRows'[m].status)
  BY <1>1 DEF TrackingInv, Recorded
<1>5. ASSUME NEW g \in Slots
      PROVE  HandlerRecorded(Known', handlers'[g])
  <2>1. CASE g = h
    BY <1>2, <2>1
  <2>2. CASE g # h
    <3>1. handlers[g].pc # "idle" => handlers[g].mail \in Mails
      BY DEF TrackingInv, TrackingTyped, HandlerOK
    <3>2. handlers[g].copy # Nil => handlers[g].pc # "idle"
      BY DEF TrackingInv, TrackingTyped, HandlerOK, Copying
    <3>3. HandlerRecorded(Known, handlers[g])
      BY DEF TrackingInv
    <3>. QED  BY <1>1, <1>2, <2>2, <3>1, <3>2, <3>3 DEF HandlerRecorded, Recorded
  <2>. QED  BY <2>1, <2>2
<1>. QED  BY <1>3, <1>4, <1>5 DEF TrackingInv

\* What a save makes of a copy: a row, whose times are no fewer, and whose
\* status is the copy's, the handler's, or of no event that is emitted.
LEMMA ChangedIs ==
  ASSUME TrackingInv, NEW h \in Slots, Tracking!Saving(h)
  PROVE  /\ handlers[h].mail \in Mails /\ handlers[h].copy \in Tracking!Row
         /\ Tracking!Changed(h) \in Tracking!Row
         /\ handlers[h].copy.openedAt => Tracking!Changed(h).openedAt
         /\ handlers[h].copy.clickedAt => Tracking!Changed(h).clickedAt
         /\ Recorded(Known, handlers[h].mail, Tracking!Changed(h).status)
<1>. USE DEF Tracking!Saving, Tracking!Doing
<1>. DEFINE g == handlers[h]
<1>1. /\ HandlerOK(g) /\ HandlerRecorded(Known, g)
      /\ g.copy \in Tracking!Row /\ g.mail \in Mails
      /\ g.pc \in Copying
  BY DEF TrackingInv, TrackingTyped, HandlerOK, Handler, Copying
<1>. HIDE DEF g
<1>2. CASE g.pc = "save"
  <2>1. g.kind \in Tracking!EmailEventType
    BY <1>1, <1>2, MailsAssumption DEF HandlerOK
  <2>2. Tracking!Changed(h) = Tracking!Handled(g.copy, g.kind)
    BY <1>2 DEF Tracking!Changed, g
  <2>3. /\ Tracking!Handled(g.copy, g.kind) \in Tracking!Row
        /\ g.copy.openedAt => Tracking!Handled(g.copy, g.kind).openedAt
        /\ g.copy.clickedAt => Tracking!Handled(g.copy, g.kind).clickedAt
        /\ Tracking!Handled(g.copy, g.kind).status = g.kind
    BY <1>1, <2>1 DEF Tracking!Handled, Tracking!Row, Tracking!EmailStatus
  <2>4. Recorded(Known, g.mail, g.kind)
    BY <1>1, <1>2 DEF HandlerRecorded
  <2>. QED  BY <1>1, <2>2, <2>3, <2>4 DEF g
<1>3. CASE g.pc = "save open"
  <2>1. g.copy.openCount + 1 \in 0 .. Opens
    <3>1. g.copy.openCount \in 0 .. Opens
      BY <1>1 DEF Tracking!Row
    <3>2. g.copy.openCount < Opens
      BY <1>1, <1>3 DEF HandlerOK
    <3>. QED  BY <3>1, <3>2, BoundsAssumption
  <2>2. Tracking!Changed(h) = Tracking!Opened(g.copy)
    BY <1>3 DEF Tracking!Changed, g
  <2>3. /\ Tracking!Opened(g.copy) \in Tracking!Row
        /\ g.copy.openedAt => Tracking!Opened(g.copy).openedAt
        /\ g.copy.clickedAt => Tracking!Opened(g.copy).clickedAt
        /\ Tracking!Opened(g.copy).status \in {g.copy.status, "opened"}
    BY <1>1, <2>1 DEF Tracking!Opened, Tracking!Row, Tracking!EmailStatus, Tracking!EmailEventType
  <2>4. Recorded(Known, g.mail, Tracking!Opened(g.copy).status)
    BY <1>1, <2>3, AbsentAssumption DEF HandlerRecorded, Recorded
  <2>. QED  BY <1>1, <2>2, <2>3, <2>4 DEF g
<1>4. CASE g.pc = "save click"
  <2>2. Tracking!Changed(h) = Tracking!Clicked(g.copy)
    BY <1>4 DEF Tracking!Changed, g
  <2>3. /\ Tracking!Clicked(g.copy) \in Tracking!Row
        /\ g.copy.openedAt => Tracking!Clicked(g.copy).openedAt
        /\ g.copy.clickedAt => Tracking!Clicked(g.copy).clickedAt
        /\ Tracking!Clicked(g.copy).status \in {g.copy.status, "clicked"}
    BY <1>1 DEF Tracking!Clicked, Tracking!Row, Tracking!EmailStatus, Tracking!EmailEventType
  <2>4. Recorded(Known, g.mail, Tracking!Clicked(g.copy).status)
    BY <1>1, <2>3, AbsentAssumption DEF HandlerRecorded, Recorded
  <2>. QED  BY <1>1, <2>2, <2>3, <2>4 DEF g
<1>. QED  BY <1>1, <1>2, <1>3, <1>4 DEF Copying

LEMMA TrackingStep ==
  ASSUME TrackingInv, [Tracking!Next]_(Tracking!vars)
  PROVE  TrackingInv'
<1>. USE DEF Tracking!Doing, Tracking!Then, Tracking!Start
<1>. DEFINE RowsKept == \A m \in Mails : mailRows'[m] = mailRows[m]
            Growing == /\ events' \in [Mails -> SUBSET Tracking!EmailEventType]
                       /\ missed' \in [Mails -> SUBSET Emitted]
                       /\ \A m \in Mails : events[m] \subseteq events'[m]
                                           /\ missed[m] \subseteq missed'[m]
<1>1. /\ mailRows \in [Mails -> Tracking!Row]
      /\ events \in [Mails -> SUBSET Tracking!EmailEventType]
      /\ missed \in [Mails -> SUBSET Emitted]
      /\ \A m \in Mails : Recorded(Known, m, mailRows[m].status)
      /\ \A h \in Slots : /\ handlers[h] \in Handler /\ HandlerOK(handlers[h])
                          /\ HandlerRecorded(Known, handlers[h])
  BY DEF TrackingInv, TrackingTyped
<1>2. CASE UNCHANGED Tracking!vars
  BY <1>2 DEF Tracking!vars, TrackingInv, TrackingTyped, Known
<1>3. ASSUME UNCHANGED <<mailRows, events, missed>>, NEW h \in Slots, NEW next,
             handlers' = [handlers EXCEPT ![h] = next],
             HandlerOK(next), HandlerRecorded(Known, next)
      PROVE  TrackingInv'
  <2>1. Known' = Known
    BY <1>3 DEF Known
  <2>. QED  BY <1>1, <1>3, <2>1, TrackingGoes
<1>4. ASSUME NEW h \in Slots, NEW m \in Mails, NEW kind \in Emitted, Tracking!Emit(h, m, kind)
      PROVE  TrackingInv'
  <2>. DEFINE next == [pc |-> "event", mail |-> m, kind |-> kind, copy |-> Nil]
  <2>1. HandlerOK(next) /\ HandlerRecorded(Known, next)
    BY MailsAssumption
    DEF HandlerOK, HandlerRecorded, Handler, Copying, Tracking!Pcs
  <2>2. handlers' = [handlers EXCEPT ![h] = next] /\ UNCHANGED <<mailRows, events, missed>>
    BY <1>4 DEF Tracking!Emit
  <2>. HIDE DEF next
  <2>. QED  BY <1>3, <2>1, <2>2
<1>5. ASSUME NEW h \in Slots, NEW m \in Mails, NEW kind \in {"opened", "clicked"},
             Tracking!TrackFind(h, m, kind)
      PROVE  TrackingInv'
  <2>. DEFINE next == [pc |-> "update", mail |-> m, kind |-> kind, copy |-> Nil]
  <2>1. HandlerOK(next) /\ HandlerRecorded(Known, next)
    BY DEF HandlerOK, HandlerRecorded, Handler, Copying, Tracking!Pcs,
           Tracking!EmailEventType
  <2>2. handlers' = [handlers EXCEPT ![h] = next] /\ UNCHANGED <<mailRows, events, missed>>
    BY <1>5 DEF Tracking!TrackFind
  <2>. HIDE DEF next
  <2>. QED  BY <1>3, <2>1, <2>2
<1>6. ASSUME NEW h \in Slots, NEW m \in Mails,
             Tracking!HelperOpen(h, m) \/ Tracking!HelperClick(h, m)
      PROVE  TrackingInv'
  <2>1. PICK pc \in {"save open", "save click"} :
           /\ pc = "save open" => mailRows[m].openCount < Opens
           /\ handlers' = [handlers EXCEPT ![h] =
                 [pc |-> pc, mail |-> m, kind |-> Nil, copy |-> mailRows[m]]]
    BY <1>6 DEF Tracking!HelperOpen, Tracking!HelperClick
  <2>. DEFINE next == [pc |-> pc, mail |-> m, kind |-> Nil, copy |-> mailRows[m]]
  <2>2. mailRows[m] \in Tracking!Row /\ mailRows[m] # Nil
    BY <1>1, AbsentAssumption
  <2>3. HandlerOK(next) /\ HandlerRecorded(Known, next)
    BY <1>1, <2>1, <2>2
    DEF HandlerOK, HandlerRecorded, Handler, Copying, Tracking!Pcs
  <2>4. UNCHANGED <<mailRows, events, missed>>
    BY <1>6 DEF Tracking!HelperOpen, Tracking!HelperClick
  <2>. HIDE DEF next
  <2>5. handlers' = [handlers EXCEPT ![h] = next]
    BY <2>1 DEF next
  <2>. QED  BY <1>3, <2>3, <2>4, <2>5
<1>7. ASSUME NEW h \in Slots, Tracking!SaveEmailEvent(h)
      PROVE  TrackingInv'
  <2>. PICK m, kind : m = handlers[h].mail /\ kind = handlers[h].kind
    OBVIOUS
  <2>. USE <1>7 DEF Tracking!SaveEmailEvent
  <2>. DEFINE next == [handlers[h] EXCEPT !.pc = "find"]
  <2>1. m \in Mails /\ kind \in Emitted /\ kind \in Tracking!EmailEventType
        /\ handlers[h].copy = Nil
    BY <1>1, MailsAssumption DEF HandlerOK, Copying
  <2>2. Growing
    BY <1>1, <2>1 DEF Tracking!StoreEvent, Tracking!MissEvent
  <2>3. kind \in Known'[m]
    BY <1>1, <2>1 DEF Tracking!StoreEvent, Tracking!MissEvent, Known
  <2>4. HandlerOK(next)
    BY <1>1, <2>1 DEF HandlerOK, Handler, Copying, Tracking!Pcs
  <2>5. HandlerRecorded(Known', next)
    BY <1>1, <2>1, <2>3 DEF HandlerRecorded, Recorded, Handler
  <2>6. handlers' = [handlers EXCEPT ![h] = next] /\ mailRows' = mailRows
    OBVIOUS
  <2>. HIDE DEF next
  <2>. QED  BY <1>1, <2>2, <2>4, <2>5, <2>6, TrackingGoes
<1>8. ASSUME NEW h \in Slots, Tracking!FindEmailLog(h)
      PROVE  TrackingInv'
  <2>. DEFINE next == [handlers[h] EXCEPT !.pc = "save", !.copy = mailRows[handlers[h].mail]]
  <2>1. handlers[h].mail \in Mails /\ handlers[h].pc = "find"
    BY <1>1, <1>8 DEF Tracking!FindEmailLog, HandlerOK
  <2>2. /\ mailRows[handlers[h].mail] \in Tracking!Row
        /\ mailRows[handlers[h].mail] # Nil
    BY <1>1, <2>1, AbsentAssumption
  <2>3. HandlerOK(next) /\ HandlerRecorded(Known, next)
    BY <1>1, <2>1, <2>2
    DEF HandlerOK, HandlerRecorded, Handler, Copying, Tracking!Pcs
  <2>4. handlers' = [handlers EXCEPT ![h] = next] /\ UNCHANGED <<mailRows, events, missed>>
    BY <1>8 DEF Tracking!FindEmailLog
  <2>. HIDE DEF next
  <2>. QED  BY <1>3, <2>3, <2>4
<1>9. ASSUME NEW h \in Slots, Tracking!SaveCopy(h)
      PROVE  TrackingInv'
  <2>. PICK m, row : m = handlers[h].mail /\ row = Tracking!Changed(h)
    OBVIOUS
  <2>1. m \in Mails /\ row \in Tracking!Row /\ Recorded(Known, m, row.status)
    BY <1>9, ChangedIs DEF Tracking!SaveCopy
  <2>2. /\ mailRows' = [mailRows EXCEPT ![m] = row] /\ UNCHANGED <<events, missed>>
        /\ handlers' = [handlers EXCEPT ![h] = Tracking!Resting]
    BY <1>9 DEF Tracking!SaveCopy, Tracking!Done
  <2>3. Known' = Known
    BY <2>2 DEF Known
  <2>4. /\ mailRows' \in [Mails -> Tracking!Row]
        /\ \A k \in Mails : mailRows'[k].status = mailRows[k].status
                            \/ Recorded(Known', k, mailRows'[k].status)
    BY <1>1, <2>1, <2>2, <2>3
  <2>. QED  BY <1>1, <2>2, <2>4, RestingHandler, TrackingGoes
<1>10. ASSUME NEW h \in Slots, Tracking!TrackOpen(h) \/ Tracking!TrackClick(h)
       PROVE  TrackingInv'
  <2>. PICK m : m = handlers[h].mail
    OBVIOUS
  <2>. DEFINE next == [handlers[h] EXCEPT !.pc = "store"]
              row == mailRows'[m]
  <2>1. m \in Mails /\ mailRows[m] \in Tracking!Row /\ handlers[h].copy = Nil
        /\ handlers[h].pc = "update"
    BY <1>1, <1>10 DEF HandlerOK, Copying, Tracking!TrackOpen, Tracking!TrackClick
  <2>2. /\ handlers' = [handlers EXCEPT ![h] = next] /\ UNCHANGED <<events, missed>>
        /\ HandlerOK(next) /\ HandlerRecorded(Known, next)
    <3>1. handlers' = [handlers EXCEPT ![h] = next] /\ UNCHANGED <<events, missed>>
      BY <1>10 DEF Tracking!TrackOpen, Tracking!TrackClick
    <3>2. HandlerOK(next) /\ HandlerRecorded(Known, next)
      BY <1>1, <2>1 DEF HandlerOK, HandlerRecorded, Handler, Copying, Tracking!Pcs
    <3>. QED  BY <3>1, <3>2
  <2>3. Known' = Known
    BY <2>2 DEF Known
  <2>4. /\ mailRows' \in [Mails -> Tracking!Row]
        /\ \A k \in Mails : mailRows'[k].status = mailRows[k].status
                            \/ mailRows'[k].status = "opened"
    <3>1. CASE Tracking!TrackOpen(h)
      <4>1. mailRows[m].openCount + 1 \in 0 .. Opens
        <5>1. mailRows[m].openCount \in 0 .. Opens
          BY <2>1 DEF Tracking!Row
        <5>2. mailRows[m].openCount < Opens
          BY <3>1 DEF Tracking!TrackOpen
        <5>. QED  BY <5>1, <5>2, BoundsAssumption
      <4>2. PICK new : new = [mailRows[m] EXCEPT !.openCount = @ + 1, !.status = "opened",
                                                 !.openedAt = TRUE]
        OBVIOUS
      <4>3. new \in Tracking!Row /\ new.status = "opened"
        BY <2>1, <4>1, <4>2 DEF Tracking!Row, Tracking!EmailStatus, Tracking!EmailEventType
      <4>4. mailRows' = [mailRows EXCEPT ![m] = new]
        BY <1>1, <2>1, <3>1, <4>2 DEF Tracking!TrackOpen
      <4>. QED  BY <1>1, <4>3, <4>4
    <3>2. CASE Tracking!TrackClick(h)
      <4>1. PICK new : new = [mailRows[m] EXCEPT !.clickedAt = TRUE]
        OBVIOUS
      <4>2. new \in Tracking!Row /\ new.status = mailRows[m].status
        BY <2>1, <4>1 DEF Tracking!Row
      <4>3. mailRows' = [mailRows EXCEPT ![m] = new]
        BY <1>1, <2>1, <3>2, <4>1 DEF Tracking!TrackClick
      <4>. QED  BY <1>1, <4>2, <4>3
    <3>. QED  BY <1>10, <3>1, <3>2
  <2>5. \A k \in Mails : mailRows'[k].status = mailRows[k].status
                         \/ Recorded(Known', k, mailRows'[k].status)
    BY <2>4 DEF Recorded
  <2>. HIDE DEF next
  <2>. QED  BY <1>1, <2>2, <2>3, <2>4, <2>5, TrackingGoes
<1>11. ASSUME NEW h \in Slots, Tracking!TrackStore(h)
       PROVE  TrackingInv'
  <2>1. /\ handlers[h].mail \in Mails /\ handlers[h].kind \in Tracking!EmailEventType
    BY <1>1, <1>11 DEF HandlerOK, Tracking!TrackStore
  <2>2. Growing /\ mailRows' = mailRows
    BY <1>1, <1>11, <2>1 DEF Tracking!TrackStore, Tracking!StoreEvent
  <2>3. handlers' = [handlers EXCEPT ![h] = Tracking!Resting]
    BY <1>11 DEF Tracking!TrackStore, Tracking!Done
  <2>. QED  BY <1>1, <2>2, <2>3, RestingHandler, TrackingGoes
<1>12. ASSUME NEW h \in Slots, Tracking!Fails(h)
       PROVE  TrackingInv'
  <2>1. /\ handlers' = [handlers EXCEPT ![h] = Tracking!Resting]
        /\ UNCHANGED <<mailRows, events, missed>>
    BY <1>12 DEF Tracking!Fails, Tracking!Done
  <2>. QED  BY <1>3, <2>1, RestingHandler
<1>. QED
  BY <1>2, <1>4, <1>5, <1>6, <1>7, <1>8, <1>9, <1>10, <1>11, <1>12
  DEF Tracking!Next, Tracking!HandleEvent, Tracking!Track

\* A status that only events give has its event in the table, or storing that
\* event failed, in whatever order handlers write (saveEmailEvent,
\* updateEmailLog).
THEOREM HistoryExplainsStatus == Tracking!Spec => []EventBehindStatus
<1>1. TrackingInv => EventBehindStatus
  BY DEF TrackingInv, TrackingTyped, Recorded, Known, EventBehindStatus,
         Tracking!EventBehindStatus
<1>. QED  BY <1>1, TrackingInitial, TrackingStep, PTL DEF Tracking!Spec

\* The times of the first open and the first click are taken back only by a
\* handler with a copy from before (updateEmailLog, trackEmailOpen).
THEOREM TimesLast == Tracking!Spec => TimesAreKept
<1>1. ASSUME TrackingInv, [Tracking!Next]_(Tracking!vars)
      PROVE  [\A m \in Mails :
                 ~Tracking!OlderCopy(m) =>
                     /\ mailRows[m].openedAt => mailRows'[m].openedAt
                     /\ mailRows[m].clickedAt => mailRows'[m].clickedAt]_(Tracking!vars)
  <2>1. mailRows \in [Mails -> Tracking!Row]
    BY <1>1 DEF TrackingInv, TrackingTyped
  <2>2. CASE UNCHANGED mailRows
    BY <2>2
  <2>3. ASSUME NEW h \in Slots, Tracking!SaveCopy(h), NEW m \in Mails, ~Tracking!OlderCopy(m)
        PROVE  /\ mailRows[m].openedAt => mailRows'[m].openedAt
               /\ mailRows[m].clickedAt => mailRows'[m].clickedAt
    <3>1. CASE m # handlers[h].mail
      BY <2>1, <2>3, <3>1 DEF Tracking!SaveCopy
    <3>2. CASE m = handlers[h].mail
      <4>1. Tracking!Saving(h)
        BY <2>3 DEF Tracking!SaveCopy
      <4>2. mailRows'[m] = Tracking!Changed(h)
        BY <2>1, <2>3, <3>2 DEF Tracking!SaveCopy
      <4>3. /\ mailRows[m].openedAt => handlers[h].copy.openedAt
            /\ mailRows[m].clickedAt => handlers[h].copy.clickedAt
        BY <2>3, <3>2, <4>1 DEF Tracking!OlderCopy
      <4>. QED  BY <1>1, <4>1, <4>2, <4>3, ChangedIs
    <3>. QED  BY <3>1, <3>2
  <2>4. ASSUME NEW h \in Slots, Tracking!TrackOpen(h) \/ Tracking!TrackClick(h),
               NEW m \in Mails
        PROVE  /\ mailRows[m].openedAt => mailRows'[m].openedAt
               /\ mailRows[m].clickedAt => mailRows'[m].clickedAt
    BY <2>1, <2>4 DEF Tracking!TrackOpen, Tracking!TrackClick, Tracking!Row
  <2>5. \/ UNCHANGED mailRows
        \/ \E h \in Slots : \/ Tracking!SaveCopy(h)
                            \/ Tracking!TrackOpen(h) \/ Tracking!TrackClick(h)
    BY <1>1
    DEF Tracking!Next, Tracking!HandleEvent, Tracking!Track, Tracking!Emit,
        Tracking!HelperOpen, Tracking!HelperClick, Tracking!TrackFind,
        Tracking!SaveEmailEvent, Tracking!FindEmailLog, Tracking!TrackStore,
        Tracking!Fails, Tracking!vars
  <2>. QED  BY <2>2, <2>3, <2>4, <2>5
<1>. QED  BY <1>1, TrackingInitial, TrackingStep, PTL
     DEF Tracking!Spec, TimesAreKept, Tracking!TimesAreKept

-----------------------------------------------------------------------------
(* The second mail service: proofs.                                        *)

LEMMA NodemailerCardinality == \A S : Nodemailer!Cardinality(S) = Cardinality(S)
  BY DEF Nodemailer!Cardinality, Cardinality

LEMMA RestingCall ==
  /\ Nodemailer!Resting \in NodeCall /\ Nodemailer!Resting.sent = {}
  /\ \A had, known, queue : NodeCallOK(Nodemailer!Resting, had, known, queue)
<1>1. Nodemailer!Resting \in NodeCall
  BY BoundsAssumption DEF NodeCall, Nodemailer!Resting, Nodemailer!Pcs
<1>2. IsFiniteSet({}) /\ \A queue : Cardinality({} \cap queue) = 0
  <2>1. \A queue : {} \cap queue = {}
    OBVIOUS
  <2>. QED  BY <2>1, FS_EmptySet
<1>3. /\ Nodemailer!Resting.pc = "idle" /\ Nodemailer!Resting.sent = {}
      /\ Nodemailer!Resting.queued = 0 /\ Nodemailer!Resting.left = 0
  BY DEF Nodemailer!Resting
<1>. HIDE DEF Nodemailer!Resting
<1>4. \A queue : Cardinality(Nodemailer!Resting.sent \cap queue) = 0
  BY <1>2, <1>3, Zenon
<1>5. IsFiniteSet(Nodemailer!Resting.sent)
  BY <1>2, <1>3, Zenon
<1>. QED  BY <1>1, <1>3, <1>4, <1>5, BoundsAssumption DEF NodeCallOK

LEMMA NodemailerInitial == Nodemailer!Init => NodemailerInv
<1>. SUFFICES ASSUME Nodemailer!Init PROVE NodemailerInv
  OBVIOUS
<1>. USE DEF Nodemailer!Init
<1>1. NodeTables /\ RenderedWasStored
  BY DEF NodeTables, RenderedWasStored, Nodemailer!RenderedWasStored,
         Nodemailer!NoTemplates, Nodemailer!Content
<1>2. \A c \in Slots : nodeCalls[c] = Nodemailer!Resting
  OBVIOUS
<1>3. nodeCalls \in [Slots -> NodeCall]
  BY RestingCall
<1>. QED  BY <1>1, <1>2, <1>3, RestingCall DEF NodemailerInv, OwnMails

\* One call goes on, and what the others hold stays with them.
LEMMA NodeGoes ==
  ASSUME NodemailerInv, NEW c \in Slots, NEW next,
         nodeCalls' = [nodeCalls EXCEPT ![c] = next],
         NodeTables', RenderedWasStored',
         NodeCallOK(next, stored', emailJobs', emailQueue'),
         \A d \in Slots \ {c} :
             /\ next.sent \cap nodeCalls[d].sent = {}
             /\ NodeCallOK(nodeCalls[d], stored', emailJobs', emailQueue')
  PROVE  NodemailerInv'
<1>1. next \in NodeCall /\ nodeCalls \in [Slots -> NodeCall] /\ OwnMails
  BY DEF NodeCallOK, NodemailerInv
<1>2. nodeCalls' \in [Slots -> NodeCall]
  BY <1>1
<1>3. \A d \in Slots : nodeCalls'[d] = IF d = c THEN next ELSE nodeCalls[d]
  BY <1>1
<1>4. OwnMails'
  BY <1>1, <1>3 DEF OwnMails
<1>5. \A d \in Slots : NodeCallOK(nodeCalls'[d], stored', emailJobs', emailQueue')
  BY <1>3
<1>. QED  BY <1>2, <1>4, <1>5 DEF NodemailerInv

\* What the others hold stays with them while contents and mails only come, and
\* no mail of theirs is added to the queue.
LEMMA OthersHold ==
  ASSUME NodemailerInv, NEW d \in Slots, NEW had, NEW known, NEW new,
         \A n \in NodeNames : stored[n] \subseteq had[n], emailJobs \subseteq known,
         new \cap nodeCalls[d].sent = {}
  PROVE  NodeCallOK(nodeCalls[d], had, known, emailQueue \cup new)
<1>. DEFINE call == nodeCalls[d]
<1>1. NodeCallOK(call, stored, emailJobs, emailQueue)
  BY DEF NodemailerInv
<1>2. call.sent \cap (emailQueue \cup new) = call.sent \cap emailQueue
  OBVIOUS
<1>3. call.sent \ (emailQueue \cup new) = call.sent \ emailQueue
  OBVIOUS
<1>4. Cardinality(call.sent \cap (emailQueue \cup new)) = Cardinality(call.sent \cap emailQueue)
  BY <1>2, Zenon
<1>5. call.pc = "set" => call.content \in had[call.name]
  BY <1>1 DEF NodeCallOK
<1>. HIDE DEF call
<1>6. call.sent \subseteq known
  BY <1>1 DEF NodeCallOK
<1>7. call.queued <= Cardinality(call.sent \cap (emailQueue \cup new))
  BY <1>1, <1>4, Zenon DEF NodeCallOK
<1>8. call.pc = "add" => call.left > 0 /\ call.mail \in call.sent \ (emailQueue \cup new)
  BY <1>1, <1>3, Zenon DEF NodeCallOK
<1>9. /\ call \in NodeCall /\ IsFiniteSet(call.sent)
      /\ call.pc \in {"save", "set"} => call.name \in NodeNames /\ call.content \in Contents
      /\ call.queued + call.left <= Recipients
  BY <1>1, Zenon DEF NodeCallOK
<1>10. NodeCallOK(call, had, known, emailQueue \cup new)
  BY <1>5, <1>6, <1>7, <1>8, <1>9, Zenon DEF NodeCallOK
<1>. QED  BY <1>10 DEF call


LEMMA CallGoes ==
  ASSUME NodemailerInv, NEW c \in Slots, NEW next, NEW had, NEW known, NEW new,
         nodeCalls' = [nodeCalls EXCEPT ![c] = next],
         stored' = had, emailJobs' = known, emailQueue' = emailQueue \cup new,
         \A n \in NodeNames : stored[n] \subseteq had[n],
         emailJobs \subseteq known, new \subseteq nodeCalls[c].sent,
         next.sent \cap emailJobs \subseteq nodeCalls[c].sent,
         NodeTables', RenderedWasStored',
         NodeCallOK(next, had, known, emailQueue \cup new)
  PROVE  NodemailerInv'
<1>1. ASSUME NEW d \in Slots \ {c}
      PROVE  /\ next.sent \cap nodeCalls[d].sent = {}
             /\ NodeCallOK(nodeCalls[d], stored', emailJobs', emailQueue')
  <2>1. nodeCalls[d].sent \subseteq emailJobs
    BY <1>1 DEF NodemailerInv, NodeCallOK
  <2>2. nodeCalls[c].sent \cap nodeCalls[d].sent = {}
    BY <1>1 DEF NodemailerInv, OwnMails
  <2>3. NodeCallOK(nodeCalls[d], had, known, emailQueue \cup new)
    <3>1. new \cap nodeCalls[d].sent = {}
      BY <2>2
    <3>. QED  BY <1>1, <3>1, OthersHold
  <2>. QED  BY <2>1, <2>2, <2>3
<1>. QED  BY <1>1, NodeGoes

\* A step of a call that moves neither mails nor stored contents.
LEMMA CallStays ==
  ASSUME NodemailerInv, NEW c \in Slots, NEW next,
         nodeCalls' = [nodeCalls EXCEPT ![c] = next],
         UNCHANGED <<stored, emailJobs, emailQueue>>,
         next.sent \subseteq nodeCalls[c].sent,
         NodeTables', RenderedWasStored',
         NodeCallOK(next, stored, emailJobs, emailQueue)
  PROVE  NodemailerInv'
<1>. PICK had, known, queue : had = stored /\ known = emailJobs /\ queue = emailQueue
  OBVIOUS
<1>1. emailQueue \cup {} = emailQueue
  OBVIOUS
<1>. QED  BY <1>1, CallGoes

\* A call that counts on.
LEMMA CallMoves ==
  ASSUME NodemailerInv, NEW c \in Slots, NEW next, Nodemailer!Then(c, next),
         UNCHANGED up, Nodemailer!TemplatesKept, Nodemailer!MailsKept,
         next.sent \subseteq nodeCalls[c].sent,
         NodeCallOK(next, stored, emailJobs, emailQueue)
  PROVE  NodemailerInv'
<1>1. NodeTables' /\ RenderedWasStored'
  BY DEF NodemailerInv, NodeTables, RenderedWasStored, Nodemailer!RenderedWasStored,
         Nodemailer!TemplatesKept, Nodemailer!MailsKept
<1>. QED  BY <1>1, CallStays
     DEF Nodemailer!Then, Nodemailer!TemplatesKept, Nodemailer!MailsKept

LEMMA NodeLoads ==
  ASSUME NodemailerInv, Nodemailer!LoadTemplates
  PROVE  NodemailerInv'
<1>1. UNCHANGED <<nodeRows, stored, nodeCalls, emailJobs, emailQueue>> /\ up' = TRUE
  BY DEF Nodemailer!LoadTemplates, Nodemailer!MailsKept
<1>2. \/ \E written \in SUBSET Defaults : files' = Nodemailer!WithDefaults(written)
      \/ files # Nil /\ UNCHANGED files
  BY DEF Nodemailer!LoadTemplates
<1>3. files' # Nil /\ files' \in [NodeNames -> Contents \cup {Nil}]
  <2>1. CASE files # Nil /\ UNCHANGED files
    BY <2>1 DEF NodemailerInv, NodeTables
  <2>2. ASSUME NEW written \in SUBSET Defaults, files' = Nodemailer!WithDefaults(written)
        PROVE  files' # Nil /\ files' \in [NodeNames -> Contents \cup {Nil}]
    <3>1. files' \in [NodeNames -> {DefaultContent, Nil}]
      BY <2>2 DEF Nodemailer!WithDefaults
    <3>. QED  BY <3>1, ContentAssumption, AbsentAssumption
  <2>. QED  BY <1>2, <2>1, <2>2
<1>4. /\ templates' \in [NodeNames -> Contents \cup {Nil}]
      /\ \A n \in NodeNames : templates'[n] # Nil => templates'[n] = files'[n]
  <2>1. PICK names : templates' = Nodemailer!Loaded(names)
    BY DEF Nodemailer!LoadTemplates
  <2>. QED  BY <1>3, <2>1 DEF Nodemailer!Loaded
<1>5. NodeTables' /\ RenderedWasStored'
  BY <1>1, <1>3, <1>4
  DEF NodemailerInv, NodeTables, RenderedWasStored, Nodemailer!RenderedWasStored
<1>6. OwnMails'
  BY <1>1 DEF NodemailerInv, OwnMails
<1>. QED  BY <1>1, <1>5, <1>6 DEF NodemailerInv

LEMMA NodeStops ==
  ASSUME NodemailerInv, Nodemailer!Stop
  PROVE  NodemailerInv'
<1>1. /\ \A d \in Slots : nodeCalls'[d] = Nodemailer!Resting
      /\ nodeCalls' \in [Slots -> NodeCall]
  BY RestingCall DEF Nodemailer!Stop
<1>2. NodeTables' /\ RenderedWasStored'
  BY DEF NodemailerInv, NodeTables, RenderedWasStored, Nodemailer!RenderedWasStored,
         Nodemailer!Stop, Nodemailer!NoTemplates
<1>3. OwnMails'
  BY <1>1, RestingCall DEF OwnMails
<1>4. \A d \in Slots : NodeCallOK(nodeCalls'[d], stored', emailJobs', emailQueue')
  BY <1>1, RestingCall
<1>. QED  BY <1>1, <1>2, <1>3, <1>4 DEF NodemailerInv


\* A call goes on with the mails it has.
LEMMA SameMails ==
  ASSUME NEW call, NEW next, NEW had, NEW known, NEW queue,
         NodeCallOK(call, had, known, queue), next \in NodeCall,
         next.sent = call.sent, next.queued = call.queued,
         next.left <= call.left \/ call.queued = 0, next.pc # "add",
         next.pc \in {"save", "set"} =>
             next.name \in NodeNames /\ next.content \in Contents,
         next.pc = "set" => next.content \in had[next.name]
  PROVE  NodeCallOK(next, had, known, queue)
<1>1. call \in NodeCall /\ next.queued <= Cardinality(call.sent \cap queue)
  BY DEF NodeCallOK
<1>2. next.queued <= Cardinality(next.sent \cap queue)
  BY <1>1, Zenon
<1>3. next.queued + next.left <= Recipients
  <2>1. /\ call.queued \in Nat /\ call.left \in Nat
        /\ next.left \in 0 .. Recipients /\ call.queued + call.left <= Recipients
    BY <1>1, BoundsAssumption DEF NodeCall, NodeCallOK
  <2>. QED  BY <2>1, BoundsAssumption
<1>4. IsFiniteSet(next.sent) /\ next.sent \subseteq known
  BY DEF NodeCallOK
<1>. QED  BY <1>2, <1>3, <1>4 DEF NodeCallOK

LEMMA NodeSaves ==
  ASSUME NodemailerInv, NEW c \in Slots, Nodemailer!SaveTemplate(c)
  PROVE  NodemailerInv'
<1>1. /\ nodeCalls[c] \in NodeCall
      /\ NodeCallOK(nodeCalls[c], stored, emailJobs, emailQueue)
  BY DEF NodemailerInv
<1>2. ASSUME NEW n \in NodeNames, NEW content \in Contents,
             Nodemailer!SaveFind(c, n, content)
      PROVE  NodemailerInv'
  <2>. DEFINE next == [Nodemailer!Resting EXCEPT !.pc = "save", !.name = n,
                           !.content = content, !.isNew = (nodeRows[n] = Nil)]
  <2>1. /\ next \in NodeCall /\ next.sent = {} /\ next.queued = 0 /\ next.left = 0
        /\ next.pc = "save" /\ next.name = n /\ next.content = content
    <3>1. (nodeRows[n] = Nil) \in BOOLEAN
      OBVIOUS
    <3>. QED  BY <3>1, RestingCall, BoundsAssumption
         DEF NodeCall, Nodemailer!Resting, Nodemailer!Pcs
  <2>2. Nodemailer!Then(c, next)
    BY <1>2 DEF Nodemailer!SaveFind
  <2>. HIDE DEF next
  <2>3. /\ Nodemailer!Resting.sent = {} /\ Nodemailer!Resting.queued = 0
        /\ Nodemailer!Resting.left = 0
    BY DEF Nodemailer!Resting
  <2>4. NodeCallOK(next, stored, emailJobs, emailQueue)
    <3>. PICK had, known, queue : had = stored /\ known = emailJobs /\ queue = emailQueue
      OBVIOUS
    <3>. QED  BY <2>1, <2>3, RestingCall, SameMails
  <2>. QED  BY <1>2, <2>1, <2>2, <2>4, CallMoves DEF Nodemailer!SaveFind
<1>3. ASSUME Nodemailer!SaveRow(c)
      PROVE  NodemailerInv'
  <2>. PICK call : call = nodeCalls[c]
    OBVIOUS
  <2>. DEFINE next == [call EXCEPT !.pc = "set"]
  <2>1. /\ call.pc = "save" /\ call.name \in NodeNames /\ call.content \in Contents
        /\ nodeCalls' = [nodeCalls EXCEPT ![c] = next]
        /\ nodeRows' = [nodeRows EXCEPT ![call.name] = call.content]
        /\ stored' = [stored EXCEPT ![call.name] = @ \cup {call.content}]
        /\ UNCHANGED <<files, templates, up, emailJobs, emailQueue>>
    BY <1>1, <1>3 DEF Nodemailer!SaveRow, Nodemailer!Waits, Nodemailer!Then,
                      Nodemailer!MailsKept, NodeCallOK
  <2>2. /\ next \in NodeCall /\ next.sent = call.sent /\ next.queued = call.queued
        /\ next.left = call.left /\ next.pc = "set" /\ next.name = call.name
        /\ next.content = call.content
    BY <1>1 DEF NodeCall, Nodemailer!Pcs
  <2>. HIDE DEF next
  <2>3. /\ \A n \in NodeNames : stored[n] \subseteq stored'[n]
        /\ call.content \in stored'[call.name]
        /\ stored' \in [NodeNames -> SUBSET Contents]
    BY <2>1 DEF NodemailerInv, NodeTables
  <2>4. NodeTables' /\ RenderedWasStored'
    BY <2>1, <2>3
    DEF NodemailerInv, NodeTables, RenderedWasStored, Nodemailer!RenderedWasStored
  <2>. PICK had, known, queue : had = stored' /\ known = emailJobs /\ queue = emailQueue
    OBVIOUS
  <2>5. NodeCallOK(call, had, known, queue)
    BY <1>1, <2>1 DEF NodeCallOK
  <2>6. NodeCallOK(next, had, known, queue)
    <3>1. next.left <= call.left
      BY <1>1, <2>2, BoundsAssumption DEF NodeCall
    <3>. QED  BY <2>1, <2>2, <2>3, <2>5, <3>1, SameMails
  <2>7. /\ emailQueue' = emailQueue \cup {} /\ emailJobs' = known /\ stored' = had
        /\ next.sent \cap emailJobs \subseteq nodeCalls[c].sent
        /\ NodeCallOK(next, had, known, emailQueue \cup {})
        /\ emailJobs \subseteq known /\ {} \subseteq nodeCalls[c].sent
    <3>1. emailQueue \cup {} = emailQueue
      OBVIOUS
    <3>. QED  BY <2>1, <2>2, <2>6, <3>1
  <2>8. \A n \in NodeNames : stored[n] \subseteq had[n]
    BY <2>3
  <2>9. nodeCalls' = [nodeCalls EXCEPT ![c] = next]
    BY <2>1
  <2>. QED  BY <2>4, <2>7, <2>8, <2>9, CallGoes
<1>4. ASSUME Nodemailer!SetTemplate(c)
      PROVE  NodemailerInv'
  <2>. PICK call : call = nodeCalls[c]
    OBVIOUS
  <2>1. /\ call.name \in NodeNames /\ call.content \in Contents
        /\ call.content \in stored[call.name]
        /\ nodeCalls' = [nodeCalls EXCEPT ![c] = Nodemailer!Resting]
        /\ templates' = [templates EXCEPT ![call.name] = call.content]
        /\ UNCHANGED <<files, nodeRows, stored, up, emailJobs, emailQueue>>
    BY <1>1, <1>4 DEF Nodemailer!SetTemplate, Nodemailer!Waits, Nodemailer!Then,
                      Nodemailer!Done, Nodemailer!MailsKept, NodeCallOK
  <2>2. NodeTables' /\ RenderedWasStored'
    BY <2>1
    DEF NodemailerInv, NodeTables, RenderedWasStored, Nodemailer!RenderedWasStored
  <2>. QED  BY <2>1, <2>2, RestingCall, CallStays
<1>5. ASSUME Nodemailer!SaveFails(c)
      PROVE  NodemailerInv'
  BY <1>5, RestingCall, CallMoves DEF Nodemailer!SaveFails, Nodemailer!Done
<1>. QED  BY <1>2, <1>3, <1>4, <1>5 DEF Nodemailer!SaveTemplate


LEMMA NodeSends ==
  ASSUME NodemailerInv, NEW c \in Slots, NEW n \in 1 .. Recipients,
         Nodemailer!Send(c, n)
  PROVE  NodemailerInv'
<1>. DEFINE next == [Nodemailer!Resting EXCEPT !.pc = "next", !.left = n]
<1>1. /\ next \in NodeCall /\ next.sent = {} /\ next.queued = 0 /\ next.pc = "next"
      /\ Nodemailer!Resting.sent = {} /\ Nodemailer!Resting.queued = 0
  <2>1. n \in 0 .. Recipients /\ 0 \in 0 .. Recipients
    BY BoundsAssumption
  <2>. QED  BY <2>1 DEF NodeCall, Nodemailer!Resting, Nodemailer!Pcs
<1>2. Nodemailer!Then(c, next)
  BY DEF Nodemailer!Send
<1>. HIDE DEF next
<1>3. NodeCallOK(next, stored, emailJobs, emailQueue)
  <2>. PICK had, known, queue : had = stored /\ known = emailJobs /\ queue = emailQueue
    OBVIOUS
  <2>. QED  BY <1>1, RestingCall, SameMails
<1>. QED  BY <1>1, <1>2, <1>3, CallMoves DEF Nodemailer!Send

LEMMA NodeQueues ==
  ASSUME NodemailerInv, NEW c \in Slots, Nodemailer!QueueEmail(c)
  PROVE  NodemailerInv'
<1>. PICK call : call = nodeCalls[c]
  OBVIOUS
<1>. PICK i \in MailIds \ (emailJobs \cup emailQueue) :
       /\ emailJobs' = emailJobs \cup {i}
       /\ Nodemailer!Then(c, [nodeCalls[c] EXCEPT !.pc = "add", !.mail = i,
                                                  !.sent = @ \cup {i}])
  BY DEF Nodemailer!QueueEmail
<1>. DEFINE next == [call EXCEPT !.pc = "add", !.mail = i, !.sent = @ \cup {i}]
<1>1. /\ NodeCallOK(call, stored, emailJobs, emailQueue) /\ call \in NodeCall
      /\ call.left > 0
      /\ nodeCalls' = [nodeCalls EXCEPT ![c] = next]
      /\ UNCHANGED <<files, nodeRows, templates, stored, up, emailQueue>>
  BY DEF NodemailerInv, Nodemailer!QueueEmail, Nodemailer!Waits, Nodemailer!Then,
         Nodemailer!TemplatesKept
<1>2. /\ next \in NodeCall /\ next.sent = call.sent \cup {i} /\ next.queued = call.queued
      /\ next.left = call.left /\ next.pc = "add" /\ next.mail = i
  BY <1>1 DEF NodeCall, Nodemailer!Pcs
<1>. HIDE DEF next
<1>3. NodeTables' /\ RenderedWasStored'
  BY <1>1
  DEF NodemailerInv, NodeTables, RenderedWasStored, Nodemailer!RenderedWasStored
<1>. PICK had, known, queue :
       had = stored /\ known = emailJobs \cup {i} /\ queue = emailQueue
  OBVIOUS
<1>4. NodeCallOK(next, had, known, queue)
  <2>1. next.sent \cap queue = call.sent \cap queue
    BY <1>2
  <2>2. next.queued <= Cardinality(next.sent \cap queue)
    BY <1>1, <1>2, <2>1 DEF NodeCallOK
  <2>3. IsFiniteSet(next.sent)
    <3>1. IsFiniteSet(call.sent)
      BY <1>1 DEF NodeCallOK
    <3>2. IsFiniteSet(call.sent \cup {i})
      BY <3>1, FS_AddElement
    <3>. QED  BY <1>2, <3>2
  <2>4. next.sent \subseteq known /\ next.left > 0 /\ next.mail \in next.sent \ queue
        /\ next.queued + next.left <= Recipients
    BY <1>1, <1>2 DEF NodeCallOK
  <2>. QED  BY <1>2, <2>2, <2>3, <2>4 DEF NodeCallOK
<1>5. /\ emailQueue' = emailQueue \cup {} /\ emailJobs' = known /\ stored' = had
      /\ next.sent \cap emailJobs \subseteq nodeCalls[c].sent
      /\ NodeCallOK(next, had, known, emailQueue \cup {})
      /\ emailJobs \subseteq known /\ {} \subseteq nodeCalls[c].sent
      /\ \A n \in NodeNames : stored[n] \subseteq had[n]
  <2>1. emailQueue \cup {} = emailQueue
    OBVIOUS
  <2>. QED  BY <1>1, <1>2, <1>4, <2>1
<1>6. nodeCalls' = [nodeCalls EXCEPT ![c] = next]
  BY <1>1
<1>. QED  BY <1>3, <1>5, <1>6, CallGoes

LEMMA NodeAdds ==
  ASSUME NodemailerInv, NEW c \in Slots, Nodemailer!AddJob(c)
  PROVE  NodemailerInv'
<1>. PICK call : call = nodeCalls[c]
  OBVIOUS
<1>. PICK new \in {{call.mail}, {}}, answered \in BOOLEAN :
       /\ new = {} => ~answered
       /\ emailQueue' = emailQueue \cup new
       /\ Nodemailer!Then(c, Nodemailer!AfterAdd(c, answered))
  <2>1. emailQueue \cup {} = emailQueue
    OBVIOUS
  <2>. QED  BY <2>1 DEF Nodemailer!AddJob
<1>. DEFINE next == Nodemailer!AfterAdd(c, answered)
<1>1. /\ NodeCallOK(call, stored, emailJobs, emailQueue) /\ call \in NodeCall
      /\ call.left > 0 /\ call.mail \in call.sent \ emailQueue /\ call.mail \in MailIds
      /\ nodeCalls' = [nodeCalls EXCEPT ![c] = next]
      /\ UNCHANGED <<files, nodeRows, templates, stored, up, emailJobs>>
  BY DEF NodemailerInv, Nodemailer!AddJob, Nodemailer!Waits, Nodemailer!Then,
         Nodemailer!TemplatesKept, NodeCallOK, NodeCall
<1>2. /\ call.left \in 0 .. Recipients /\ call.queued \in 0 .. Recipients
      /\ call.queued + call.left <= Recipients
  BY <1>1 DEF NodeCallOK, NodeCall
<1>3. /\ next.sent = call.sent /\ next.left = call.left - 1 /\ next.pc = "next"
      /\ next.queued = IF answered THEN call.queued + 1 ELSE call.queued
  BY <1>1 DEF NodeCall, Nodemailer!AfterAdd
<1>4. /\ next.left \in 0 .. Recipients /\ next.queued \in 0 .. Recipients
      /\ next.queued + next.left <= Recipients
  BY <1>1, <1>2, <1>3, BoundsAssumption
<1>5. next \in NodeCall
  BY <1>1, <1>4 DEF NodeCall, Nodemailer!AfterAdd, Nodemailer!Pcs
<1>. HIDE DEF next
<1>6. NodeTables' /\ RenderedWasStored'
  BY <1>1
  DEF NodemailerInv, NodeTables, RenderedWasStored, Nodemailer!RenderedWasStored
<1>. PICK had, known, before, after :
       /\ had = stored /\ known = emailJobs
       /\ before = call.sent \cap emailQueue
       /\ after = call.sent \cap (emailQueue \cup new)
  OBVIOUS
<1>7. next.queued <= Cardinality(after)
  <2>1. IsFiniteSet(before)
    BY <1>1, FS_Subset DEF NodeCallOK
  <2>2. call.queued <= Cardinality(before) /\ Cardinality(before) \in Nat
    BY <1>1, <2>1, FS_CardinalityType DEF NodeCallOK
  <2>3. CASE new = {}
    <3>1. after = before
      BY <2>3
    <3>. QED  BY <1>3, <2>2, <2>3, <3>1
  <2>4. CASE new = {call.mail}
    <3>1. after = before \cup {call.mail} /\ call.mail \notin before
      BY <1>1, <2>4
    <3>2. Cardinality(after) = Cardinality(before) + 1
      BY <2>1, <3>1, FS_AddElement
    <3>. QED  BY <1>2, <1>3, <2>2, <3>2
  <2>. QED  BY <2>3, <2>4
<1>8. NodeCallOK(next, had, known, emailQueue \cup new)
  <2>1. IsFiniteSet(next.sent) /\ next.sent \subseteq known
    BY <1>1, <1>3 DEF NodeCallOK
  <2>2. next.queued <= Cardinality(next.sent \cap (emailQueue \cup new))
    <3>1. next.sent \cap (emailQueue \cup new) = after
      BY <1>3
    <3>. QED  BY <1>7, <3>1, Zenon
  <2>. QED  BY <1>3, <1>4, <1>5, <2>1, <2>2 DEF NodeCallOK
<1>9. /\ emailJobs' = known /\ stored' = had
      /\ next.sent \cap emailJobs \subseteq nodeCalls[c].sent
      /\ emailJobs \subseteq known /\ new \subseteq nodeCalls[c].sent
      /\ \A n \in NodeNames : stored[n] \subseteq had[n]
  BY <1>1, <1>3
<1>10. nodeCalls' = [nodeCalls EXCEPT ![c] = next]
  BY <1>1
<1>. QED  BY <1>6, <1>8, <1>9, <1>10, CallGoes

LEMMA NodemailerStep ==
  NodemailerInv /\ [Nodemailer!Next]_(Nodemailer!vars) => NodemailerInv'
<1>. SUFFICES ASSUME NodemailerInv, [Nodemailer!Next]_(Nodemailer!vars)
              PROVE  NodemailerInv'
  OBVIOUS
<1>1. CASE UNCHANGED Nodemailer!vars
  BY <1>1
  DEF Nodemailer!vars, NodemailerInv, NodeTables, OwnMails, RenderedWasStored,
      Nodemailer!RenderedWasStored
<1>2. ASSUME NEW c \in Slots, Nodemailer!BadRecipient(c)
      PROVE  NodemailerInv'
  <2>. DEFINE next == [nodeCalls[c] EXCEPT !.left = @ - 1]
  <2>1. /\ NodeCallOK(nodeCalls[c], stored, emailJobs, emailQueue)
        /\ nodeCalls[c] \in NodeCall
    BY DEF NodemailerInv
  <2>2. nodeCalls[c].pc = "next" /\ nodeCalls[c].left - 1 \in 0 .. Recipients
    <3>1. nodeCalls[c].left \in 0 .. Recipients
      BY <2>1 DEF NodeCall
    <3>. QED  BY <1>2, <3>1, BoundsAssumption
         DEF Nodemailer!BadRecipient, Nodemailer!Waits
  <2>3. /\ next \in NodeCall /\ next.sent = nodeCalls[c].sent /\ next.pc = "next"
        /\ next.queued = nodeCalls[c].queued /\ next.left = nodeCalls[c].left - 1
    BY <2>1, <2>2 DEF NodeCall
  <2>4. Nodemailer!Then(c, next)
    BY <1>2 DEF Nodemailer!BadRecipient
  <2>. HIDE DEF next
  <2>5. NodeCallOK(next, stored, emailJobs, emailQueue)
    <3>. PICK call, had, known, queue :
           call = nodeCalls[c] /\ had = stored /\ known = emailJobs /\ queue = emailQueue
      OBVIOUS
    <3>1. /\ next.left <= call.left /\ NodeCallOK(call, had, known, queue)
          /\ next.sent = call.sent /\ next.queued = call.queued
      <4>1. nodeCalls[c].left \in Nat
        BY <2>1, BoundsAssumption DEF NodeCall
      <4>. QED  BY <2>1, <2>3, <4>1
    <3>2. NodeCallOK(next, had, known, queue)
      BY <2>3, <3>1, SameMails
    <3>. QED  BY <3>2
  <2>. QED  BY <1>2, <2>3, <2>4, <2>5, CallMoves DEF Nodemailer!BadRecipient
<1>3. ASSUME NEW c \in Slots, Nodemailer!Answer(c)
      PROVE  NodemailerInv'
  BY <1>3, RestingCall, CallMoves DEF Nodemailer!Answer, Nodemailer!Done
<1>4. ASSUME NEW c \in Slots,
             Nodemailer!SendOne(c) \/ Nodemailer!SendBulkEmails(c)
             \/ Nodemailer!ResendEmail(c)
      PROVE  NodemailerInv'
  <2>1. PICK n \in 1 .. Recipients : Nodemailer!Send(c, n)
    BY <1>4, BoundsAssumption
    DEF Nodemailer!SendOne, Nodemailer!SendBulkEmails, Nodemailer!ResendEmail
  <2>. QED  BY <2>1, NodeSends
<1>. QED
  BY <1>1, <1>2, <1>3, <1>4, NodeLoads, NodeStops, NodeSaves, NodeQueues, NodeAdds
  DEF Nodemailer!Next, Nodemailer!SendMails

\* What the process renders with has been in the table or is in the directory
\* (saveTemplate, loadTemplates).
THEOREM TemplatesWereStored == Nodemailer!Spec => []RenderedWasStored
<1>1. NodemailerInv => RenderedWasStored
  BY DEF NodemailerInv
<1>. QED  BY <1>1, NodemailerInitial, NodemailerStep, PTL DEF Nodemailer!Spec

\* The count of a bulk mail never exceeds its mails in the queue, and the process
\* knows of each (sendBulkEmails).
THEOREM BatchIsCounted == Nodemailer!Spec => []BatchCounted
<1>1. NodemailerInv => BatchCounted
  BY NodemailerCardinality
  DEF NodemailerInv, NodeCallOK, BatchCounted, Nodemailer!BatchCounted
<1>. QED  BY <1>1, NodemailerInitial, NodemailerStep, PTL DEF Nodemailer!Spec


-----------------------------------------------------------------------------
(* Statistics: proofs.                                                     *)

LEMMA StatisticsCardinality == \A S : Statistics!Cardinality(S) = Cardinality(S)
  BY DEF Statistics!Cardinality, Cardinality

LEMMA MailsCounted ==
  ASSUME NEW S \in SUBSET Mails
  PROVE  IsFiniteSet(S) /\ Cardinality(S) \in 0 .. Cardinality(Mails)
<1>1. IsFiniteSet(S) /\ Cardinality(S) <= Cardinality(Mails)
  BY MailsAssumption, FS_Subset
<1>2. Cardinality(S) \in Nat /\ Cardinality(Mails) \in Nat
  BY <1>1, MailsAssumption, FS_CardinalityType
<1>. QED  BY <1>1, <1>2

LEMMA CountedFinite == IsFiniteSet(Statistics!Counted)
<1>. DEFINE All == {"sent", "delivered", "opened", "clicked", "bounced", "failed"}
<1>1. \A x, y, z : IsFiniteSet({x, y, z})
  <2>. SUFFICES ASSUME NEW x, NEW y, NEW z PROVE IsFiniteSet({x, y, z})
    OBVIOUS
  <2>1. IsFiniteSet({x}) /\ IsFiniteSet({y}) /\ IsFiniteSet({z})
    BY FS_Singleton
  <2>2. IsFiniteSet({x} \cup {y})
    BY <2>1, FS_Union
  <2>3. IsFiniteSet(({x} \cup {y}) \cup {z})
    BY <2>1, <2>2, FS_Union
  <2>4. {x, y, z} = ({x} \cup {y}) \cup {z}
    OBVIOUS
  <2>. QED  BY <2>3, <2>4, Zenon
<1>2. PICK A, B : /\ A = {"sent", "delivered", "opened"}
                  /\ B = {"clicked", "bounced", "failed"}
  OBVIOUS
<1>3. IsFiniteSet(A) /\ IsFiniteSet(B)
  BY <1>1, <1>2
<1>4. IsFiniteSet(A \cup B)
  BY <1>3, FS_Union
<1>5. Statistics!Counted \subseteq A \cup B
  BY <1>2 DEF Statistics!Counted
<1>. QED  BY <1>4, <1>5, FS_Subset

LEMMA SummedCounted ==
  ASSUME NEW todo
  PROVE  /\ IsFiniteSet(Statistics!Counted \ todo)
         /\ Cardinality(Statistics!Counted \ todo) \in 0 .. Cardinality(Statistics!Counted)
<1>1. /\ IsFiniteSet(Statistics!Counted \ todo)
      /\ Cardinality(Statistics!Counted \ todo) <= Cardinality(Statistics!Counted)
  BY CountedFinite, FS_Subset
<1>2. /\ Cardinality(Statistics!Counted \ todo) \in Nat
      /\ Cardinality(Statistics!Counted) \in Nat
  BY <1>1, CountedFinite, FS_CardinalityType
<1>. QED  BY <1>1, <1>2

LEMMA SummedGrows ==
  ASSUME NEW todo, NEW q \in Statistics!Counted \cap todo
  PROVE  Cardinality(Statistics!Counted \ (todo \ {q}))
         = Cardinality(Statistics!Counted \ todo) + 1
<1>. PICK S : S = Statistics!Counted \ todo
  OBVIOUS
<1>1. IsFiniteSet(S) /\ q \notin S
  BY SummedCounted
<1>2. Statistics!Counted \ (todo \ {q}) = S \cup {q}
  OBVIOUS
<1>. QED  BY <1>1, <1>2, FS_AddElement

LEMMA ProductGrows ==
  ASSUME NEW a \in Nat, NEW k \in Nat, NEW n \in Nat, NEW x \in Nat,
         n <= a * k, x <= a
  PROVE  n + x <= a * (k + 1)
<1>1. a * (k + 1) = a * k + a /\ a * k \in Nat
  OBVIOUS
<1>. QED  BY <1>1

LEMMA ProductBound ==
  ASSUME NEW a \in Nat, NEW l \in Nat, NEW k \in 0 .. l
  PROVE  a * k \in Nat /\ a * l \in Nat /\ a * k <= a * l
<1>. PICK d \in Nat : l = k + d
  <2>1. l - k \in Nat /\ l = k + (l - k)
    OBVIOUS
  <2>. QED  BY <2>1
<1>1. a * l = a * k + a * d /\ a * k \in Nat /\ a * d \in Nat
  OBVIOUS
<1>. QED  BY <1>1

\* A count within what has been counted is within the cap.
LEMMA CapHolds ==
  /\ Cap \in Nat /\ Statistics!ChangeCap = Cap
  /\ \A todo : \A n \in Nat :
        n <= Cardinality(Mails) * Cardinality(Statistics!Counted \ todo) => n \in 0 .. Cap
<1>1. Cardinality(Mails) \in Nat /\ Cardinality(Statistics!Counted) \in Nat
  BY MailsAssumption, CountedFinite, FS_CardinalityType
<1>2. Cap \in Nat
  BY <1>1 DEF Cap
<1>3. Statistics!ChangeCap = Cap
  BY StatisticsCardinality, Zenon DEF Cap, Statistics!ChangeCap
<1>4. ASSUME NEW todo, NEW n \in Nat,
             n <= Cardinality(Mails) * Cardinality(Statistics!Counted \ todo)
      PROVE  n \in 0 .. Cap
  <2>. PICK k : k = Cardinality(Statistics!Counted \ todo)
    OBVIOUS
  <2>1. k \in 0 .. Cardinality(Statistics!Counted)
    BY SummedCounted
  <2>2. Cardinality(Mails) * k \in Nat /\ Cardinality(Mails) * k <= Cap
    BY <1>1, <2>1, ProductBound DEF Cap
  <2>. QED  BY <1>2, <1>4, <2>2
<1>. QED  BY <1>2, <1>3, <1>4


LEMMA NothingCounted ==
  ASSUME NEW report \in Report, NEW now, report.counted = 0, report.changes = 0,
         report.kind = "overview" => "total" \in report.todo
  PROVE  ReportOK(report, now)
<1>1. Cardinality(PartsOf(report, now)) \in Nat
  BY MailsCounted DEF PartsOf
<1>2. PICK k, l : /\ k = Cardinality(Summed(report)) /\ l = Cardinality(Mails)
                  /\ k \in Nat /\ l \in Nat
  BY SummedCounted, MailsAssumption, FS_CardinalityType DEF Summed
<1>3. report.counted <= Cardinality(Mails) * Cardinality(Summed(report))
  <2>1. l * k \in Nat
    BY <1>2
  <2>. QED  BY <1>2, <2>1
<1>. QED  BY <1>1, <1>3 DEF ReportOK, Matched

LEMMA RestingReport ==
  /\ Statistics!Resting \in Report /\ Statistics!Resting.kind = "none"
  /\ \A now : ReportOK(Statistics!Resting, now)
<1>1. 0 \in 0 .. Cap /\ 0 \in 0 .. Cardinality(Mails)
  BY CapHolds, MailsAssumption, FS_CardinalityType
<1>2. /\ Statistics!Resting \in Report /\ Statistics!Resting.kind = "none"
      /\ Statistics!Resting.counted = 0 /\ Statistics!Resting.changes = 0
  BY <1>1 DEF Report, Statistics!Resting, Statistics!ReportKinds
<1>. HIDE DEF Statistics!Resting
<1>. QED  BY <1>2, NothingCounted

LEMMA StatisticsInitial == Statistics!Init => StatisticsInv
<1>. SUFFICES ASSUME Statistics!Init PROVE StatisticsInv
  OBVIOUS
<1>1. \A r \in Slots : reports[r] = Statistics!Resting
  BY DEF Statistics!Init
<1>2. reports \in [Slots -> Report]
  BY RestingReport DEF Statistics!Init
<1>3. CronRuns = {}
  BY <1>1, RestingReport DEF CronRuns
<1>4. 0 + Cardinality(CronRuns) <= Cardinality(Slots)
  <2>1. Cardinality(CronRuns) = 0
    BY <1>3, FS_EmptySet
  <2>2. Cardinality(Slots) \in Nat
    BY SlotsAssumption, FS_CardinalityType
  <2>. QED  BY <2>1, <2>2
<1>. QED  BY <1>1, <1>2, <1>4, RestingReport DEF Statistics!Init, StatisticsInv

\* One report goes on.
LEMMA ReportGoes ==
  ASSUME StatisticsInv, NEW r \in Slots, NEW next,
         reports' = [reports EXCEPT ![r] = next], UNCHANGED <<status, sentAt>>,
         ReportOK(next, status),
         stats' \in Nat, stats' + Cardinality(CronRuns') <= Cardinality(Slots)
  PROVE  StatisticsInv'
<1>1. next \in Report /\ reports \in [Slots -> Report]
  BY DEF ReportOK, StatisticsInv
<1>2. reports' \in [Slots -> Report]
  BY <1>1
<1>3. \A q \in Slots : reports'[q] = IF q = r THEN next ELSE reports[q]
  BY <1>1
<1>. PICK now : now = status
  OBVIOUS
<1>4. \A q \in Slots : ReportOK(reports'[q], now)
  BY <1>3 DEF StatisticsInv
<1>5. \A q \in Slots : ReportOK(reports'[q], status')
  BY <1>4
<1>. QED  BY <1>2, <1>5 DEF StatisticsInv

LEMMA CronRunsAre ==
  ASSUME StatisticsInv, NEW r \in Slots, NEW next,
         reports' = [reports EXCEPT ![r] = next]
  PROVE  /\ CronRuns' = IF next.kind = "cron" THEN CronRuns \cup {r} ELSE CronRuns \ {r}
         /\ IsFiniteSet(CronRuns) /\ Cardinality(CronRuns) \in Nat
         /\ Cardinality(CronRuns \ {r}) = IF r \in CronRuns THEN Cardinality(CronRuns) - 1
                                          ELSE Cardinality(CronRuns)
         /\ Cardinality(CronRuns \cup {r}) <= Cardinality(Slots)
         /\ Cardinality(Slots) \in Nat
<1>1. \A q \in Slots : reports'[q] = IF q = r THEN next ELSE reports[q]
  BY DEF StatisticsInv
<1>2. CronRuns' = IF next.kind = "cron" THEN CronRuns \cup {r} ELSE CronRuns \ {r}
  BY <1>1 DEF CronRuns
<1>. PICK S : S = CronRuns
  OBVIOUS
<1>3. S \subseteq Slots
  BY DEF CronRuns
<1>4. IsFiniteSet(S) /\ Cardinality(S) \in Nat /\ Cardinality(Slots) \in Nat
  BY <1>3, SlotsAssumption, FS_Subset, FS_CardinalityType
<1>5. Cardinality(S \ {r}) = IF r \in S THEN Cardinality(S) - 1 ELSE Cardinality(S)
  BY <1>4, FS_RemoveElement
<1>6. Cardinality(S \cup {r}) <= Cardinality(Slots)
  BY <1>3, SlotsAssumption, FS_Subset
<1>. QED  BY <1>2, <1>4, <1>5, <1>6

LEMMA ReportBegins ==
  ASSUME StatisticsInv, NEW r \in Slots, NEW kind \in Statistics!ReportKinds,
         NEW queries \in SUBSET Statistics!Queries, Statistics!Begin(r, kind, queries),
         kind = "overview" => "total" \in queries,
         kind = "cron" => stats = 0
  PROVE  StatisticsInv'
<1>. DEFINE next == [Statistics!Resting EXCEPT !.kind = kind, !.todo = queries]
<1>1. next \in Report /\ next.kind = kind /\ next.todo = queries
      /\ next.counted = 0 /\ next.changes = 0
  BY RestingReport DEF Report, Statistics!Resting
<1>2. /\ reports' = [reports EXCEPT ![r] = next] /\ UNCHANGED <<status, sentAt, stats>>
      /\ r \notin CronRuns
  BY DEF Statistics!Begin, CronRuns
<1>. HIDE DEF next
<1>3. ReportOK(next, status)
  <2>. PICK now : now = status
    OBVIOUS
  <2>. QED  BY <1>1, NothingCounted
<1>4. stats \in Nat /\ stats + Cardinality(CronRuns) <= Cardinality(Slots)
  BY DEF StatisticsInv
<1>5. stats' + Cardinality(CronRuns') <= Cardinality(Slots)
  <2>1. /\ CronRuns' = IF next.kind = "cron" THEN CronRuns \cup {r} ELSE CronRuns \ {r}
        /\ Cardinality(CronRuns \cup {r}) <= Cardinality(Slots)
        /\ Cardinality(CronRuns \cup {r}) \in Nat
    <3>1. IsFiniteSet(CronRuns \cup {r})
      BY <1>2, CronRunsAre, FS_AddElement
    <3>. QED  BY <1>2, <3>1, CronRunsAre, FS_CardinalityType
  <2>2. CASE kind = "cron"
    <3>1. CronRuns' = CronRuns \cup {r} /\ stats' = 0
      BY <1>1, <1>2, <2>1, <2>2
    <3>. QED  BY <2>1, <3>1
  <2>3. CASE kind # "cron"
    <3>1. CronRuns' = CronRuns /\ stats' = stats
      BY <1>1, <1>2, <2>1, <2>3
    <3>. QED  BY <1>4, <3>1
  <2>. QED  BY <2>2, <2>3
<1>. QED  BY <1>2, <1>3, <1>4, <1>5, ReportGoes


\* One more status is counted.
LEMMA StatusCounted ==
  ASSUME NEW report, NEW now, ReportOK(report, now),
         NEW q \in Statistics!Counted, q \in report.todo,
         NEW n \in 0 .. Cardinality(Mails),
         report.kind = "overview" => n = Cardinality({m \in Mails : now[m] = q})
  PROVE  ReportOK(CountSeen(report, q, n), now)
<1>. PICK next : next = CountSeen(report, q, n)
  OBVIOUS
<1>1. report \in Report /\ report.counted \in Nat
  BY CapHolds DEF ReportOK, Report
<1>2. /\ next.todo = report.todo \ {q} /\ next.counted = report.counted + n
      /\ next.kind = report.kind /\ next.total = report.total
      /\ next.changes = report.changes
  BY <1>1 DEF Report, CountSeen
<1>3. n \in Nat /\ n <= Cardinality(Mails) /\ Cardinality(Mails) \in Nat
  BY MailsAssumption, FS_CardinalityType
<1>4. /\ Summed(next) = Summed(report) \cup {q} /\ q \notin Summed(report)
      /\ Cardinality(Summed(next)) = Cardinality(Summed(report)) + 1
  <2>1. /\ Summed(next) = Statistics!Counted \ (report.todo \ {q})
        /\ Summed(report) = Statistics!Counted \ report.todo
    BY <1>2 DEF Summed
  <2>. PICK todo : todo = report.todo
    OBVIOUS
  <2>2. Cardinality(Statistics!Counted \ (todo \ {q}))
        = Cardinality(Statistics!Counted \ todo) + 1
    BY SummedGrows
  <2>. QED  BY <2>1, <2>2
<1>5. next.counted <= Cardinality(Mails) * Cardinality(Summed(next))
  <2>. PICK k, a : k = Cardinality(Summed(report)) /\ a = Cardinality(Mails)
    OBVIOUS
  <2>1. k \in Nat /\ report.counted <= a * k
    <3>1. k \in Nat
      BY SummedCounted DEF Summed
    <3>2. report.counted <= a * k
      BY Zenon DEF ReportOK
    <3>. QED  BY <3>1, <3>2
  <2>2. report.counted + n <= a * (k + 1)
    BY <1>1, <1>3, <2>1, ProductGrows
  <2>. QED  BY <1>2, <1>4, <2>2
<1>6. next \in Report
  <2>. PICK todo : todo = next.todo
    OBVIOUS
  <2>1. /\ next.counted \in Nat
        /\ next.counted <= Cardinality(Mails) * Cardinality(Statistics!Counted \ todo)
    <3>1. next.counted \in Nat
      BY <1>1, <1>2, <1>3
    <3>2. Summed(next) = Statistics!Counted \ todo
      BY DEF Summed
    <3>. QED  BY <1>5, <3>1, <3>2, Zenon
  <2>2. next.counted \in 0 .. Cap
    BY <2>1, CapHolds
  <2>. QED  BY <1>1, <1>2, <2>2 DEF Report, CountSeen
<1>7. ASSUME report.kind = "overview"
      PROVE  Matched(next, now) \/ next.changes = Cap
  <2>. PICK P, Q : P = PartsOf(report, now) /\ Q = {m \in Mails : now[m] = q}
    OBVIOUS
  <2>1. PartsOf(next, now) = P \cup Q /\ P \cap Q = {}
    BY <1>4 DEF PartsOf
  <2>2. /\ IsFiniteSet(P) /\ IsFiniteSet(Q)
        /\ Cardinality(P) \in Nat /\ Cardinality(Q) \in Nat
    BY MailsCounted DEF PartsOf
  <2>3. Cardinality(P \cup Q) = Cardinality(P) + Cardinality(Q)
    <3>1. Cardinality(P \cap Q) = 0
      BY <2>1, FS_EmptySet
    <3>2. Cardinality(P \cup Q) = Cardinality(P) + Cardinality(Q) - Cardinality(P \cap Q)
      BY <2>2, FS_Union
    <3>. QED  BY <2>2, <3>1, <3>2
  <2>4. Cardinality(PartsOf(next, now)) = Cardinality(PartsOf(report, now)) + n
    BY <1>7, <2>1, <2>3
  <2>5. "total" \in next.todo <=> "total" \in report.todo
    BY <1>2 DEF Statistics!Counted
  <2>6. /\ Cardinality(PartsOf(report, now)) \in Nat /\ Cardinality(InLog(now)) \in Nat
        /\ report.changes \in Nat /\ report.total \in Nat
    BY <1>1, <1>3, <2>2, MailsCounted, CapHolds DEF InLog, Report
  <2>7. Matched(report, now) \/ report.changes = Cap
    BY <1>7 DEF ReportOK
  <2>. QED  BY <1>1, <1>2, <1>3, <2>4, <2>5, <2>6, <2>7 DEF Matched
<1>. QED  BY <1>2, <1>5, <1>6, <1>7 DEF ReportOK

\* The total is counted.
LEMMA TotalCounted ==
  ASSUME NEW report, NEW next, NEW now, ReportOK(report, now), "total" \in report.todo,
         next = [report EXCEPT !.todo = @ \ {"total"}, !.total = Cardinality(InLog(now))]
  PROVE  ReportOK(next, now)
<1>1. report \in Report /\ report.counted \in Nat /\ report.changes \in Nat
  BY CapHolds DEF ReportOK, Report
<1>2. /\ next.todo = report.todo \ {"total"} /\ next.counted = report.counted
      /\ next.kind = report.kind /\ next.total = Cardinality(InLog(now))
      /\ next.changes = report.changes
  BY <1>1 DEF Report
<1>3. Summed(next) = Summed(report)
  BY <1>2 DEF Summed, Statistics!Counted
<1>4. PartsOf(next, now) = PartsOf(report, now)
  BY <1>3 DEF PartsOf
<1>5. /\ Cardinality(PartsOf(report, now)) \in Nat
      /\ Cardinality(InLog(now)) \in 0 .. Cardinality(Mails)
  BY MailsCounted DEF PartsOf, InLog
<1>6. next \in Report
  BY <1>1, <1>2, <1>5 DEF Report
<1>7. next.counted <= Cardinality(Mails) * Cardinality(Summed(next))
  BY <1>2, <1>3, Zenon DEF ReportOK
<1>8. ASSUME report.kind = "overview"
      PROVE  Matched(next, now) \/ next.changes = Cap
  <2>1. report.counted <= Cardinality(PartsOf(report, now)) + report.changes
        \/ report.changes = Cap
    BY <1>8 DEF ReportOK, Matched
  <2>2. Cardinality(InLog(now)) \in Nat
    BY <1>5, MailsAssumption, FS_CardinalityType
  <2>. PICK a, b : a = Cardinality(PartsOf(report, now)) /\ b = Cardinality(InLog(now))
    OBVIOUS
  <2>3. \/ report.counted + b <= b + (a + report.changes)
        \/ report.changes = Cap
    BY <1>1, <1>5, <2>1, <2>2
  <2>4. "total" \notin next.todo
    BY <1>2
  <2>. QED  BY <1>2, <1>4, <2>3, <2>4 DEF Matched
<1>. QED  BY <1>2, <1>6, <1>7, <1>8 DEF ReportOK

LEMMA ReportQueries ==
  ASSUME StatisticsInv, NEW r \in Slots, NEW q \in Statistics!Queries,
         Statistics!Query(r, q)
  PROVE  StatisticsInv'
<1>. PICK report, now : report = reports[r] /\ now = status
  OBVIOUS
<1>. DEFINE n == Cardinality({m \in Mails : Statistics!Matches(report.kind, m, q)})
            next == IF q = "total"
                    THEN [report EXCEPT !.todo = @ \ {"total"},
                                        !.total = Cardinality(InLog(now))]
                    ELSE [report EXCEPT !.todo = @ \ {q}, !.counted = @ + n]
<1>1. ReportOK(report, now) /\ report \in Report /\ q \in report.todo
  BY DEF StatisticsInv, ReportOK, Statistics!Query
<1>2. reports' = [reports EXCEPT ![r] = next] /\ UNCHANGED <<status, sentAt, stats>>
  BY <1>1, StatisticsCardinality DEF StatisticsInv, Statistics!Query, InLog, Report
<1>3. ReportOK(next, now)
  <2>1. CASE q = "total"
    <3>1. /\ "total" \in report.todo
          /\ next = [report EXCEPT !.todo = @ \ {"total"},
                                   !.total = Cardinality(InLog(now))]
      BY <1>1, <2>1
    <3>. HIDE DEF next
    <3>. QED  BY <1>1, <3>1, TotalCounted
  <2>2. CASE q # "total"
    <3>. PICK k : k = n
      OBVIOUS
    <3>1. k \in 0 .. Cardinality(Mails)
      BY MailsCounted
    <3>2. report.kind = "overview" => k = Cardinality({m \in Mails : now[m] = q})
      BY DEF Statistics!Matches
    <3>3. q \in Statistics!Counted
      BY <2>2 DEF Statistics!Queries
    <3>. HIDE DEF n
    <3>4. next = CountSeen(report, q, k)
      BY <2>2 DEF CountSeen
    <3>. HIDE DEF next
    <3>5. ReportOK(CountSeen(report, q, k), now)
      BY <1>1, <3>1, <3>2, <3>3, StatusCounted
    <3>. QED  BY <3>4, <3>5, Zenon
  <2>. QED  BY <2>1, <2>2
<1>4. next.kind = report.kind
  BY <1>1 DEF Report
<1>. HIDE DEF next
<1>5. CronRuns' = CronRuns
  BY <1>2, <1>4, CronRunsAre DEF CronRuns
<1>6. stats' \in Nat /\ stats' + Cardinality(CronRuns') <= Cardinality(Slots)
  BY <1>2, <1>5, Zenon DEF StatisticsInv
<1>. QED  BY <1>2, <1>3, <1>6, ReportGoes


LEMMA AtMostOneMore ==
  ASSUME NEW S \in SUBSET Mails, NEW T \in SUBSET Mails, NEW m, S \subseteq T \cup {m}
  PROVE  Cardinality(S) <= Cardinality(T) + 1
<1>1. IsFiniteSet(T) /\ Cardinality(T) \in Nat /\ Cardinality(S) \in Nat
  BY MailsCounted
<1>2. /\ IsFiniteSet(T \cup {m})
      /\ Cardinality(T \cup {m}) = IF m \in T THEN Cardinality(T) ELSE Cardinality(T) + 1
  BY <1>1, FS_AddElement
<1>3. Cardinality(S) <= Cardinality(T \cup {m})
  BY <1>2, FS_Subset
<1>. QED  BY <1>1, <1>2, <1>3

LEMMA NoMore ==
  ASSUME NEW S \in SUBSET Mails, NEW T \in SUBSET Mails, S \subseteq T
  PROVE  Cardinality(S) <= Cardinality(T)
  BY MailsCounted, FS_Subset

\* A mail changes while a report is at work.
LEMMA MailChanged ==
  ASSUME NEW report, NEW now, NEW m \in Mails, NEW s,
         now \in [Mails -> MailStatuses \cup {Nil}], ReportOK(report, now)
  PROVE  /\ ReportOK(ChangeSeen(report), [now EXCEPT ![m] = s])
         /\ ChangeSeen(report).kind = report.kind
<1>. PICK next, later : next = ChangeSeen(report) /\ later = [now EXCEPT ![m] = s]
  OBVIOUS
<1>0. \/ report.kind = "none" /\ next = report
      \/ ~(report.changes < Cap) /\ next = report
      \/ /\ report.kind # "none" /\ report.changes < Cap
         /\ next = [report EXCEPT !.changes = @ + 1]
  BY DEF ChangeSeen
<1>1. /\ report \in Report /\ report.counted \in Nat /\ report.total \in Nat
      /\ report.changes \in 0 .. Cap
  BY CapHolds, MailsAssumption, FS_CardinalityType DEF ReportOK, Report
<1>2. /\ next.todo = report.todo /\ next.counted = report.counted
      /\ next.kind = report.kind /\ next.total = report.total
      /\ next.changes = IF report.kind # "none" /\ report.changes < Cap
                        THEN report.changes + 1 ELSE report.changes
      /\ next \in Report
      /\ next.kind = "overview" /\ next.changes # Cap => next.changes = report.changes + 1
  <2>1. CASE next = report
    <3>1. report.kind # "none" => ~(report.changes < Cap)
      <4>0. report.kind = "none" \/ ~(report.changes < Cap)
            \/ next = [report EXCEPT !.changes = @ + 1]
        BY <1>0
      <4>1. [report EXCEPT !.changes = @ + 1].changes = report.changes + 1
        BY <1>1 DEF Report
      <4>2. report.changes + 1 # report.changes
        BY <1>1, CapHolds
      <4>. QED  BY <2>1, <4>0, <4>1, <4>2, Zenon
    <3>2. ~(report.changes < Cap) => report.changes = Cap
      BY <1>1, CapHolds
    <3>. QED  BY <1>1, <2>1, <3>1, <3>2
  <2>2. CASE /\ report.kind # "none" /\ report.changes < Cap
             /\ next = [report EXCEPT !.changes = @ + 1]
    <3>1. report.changes + 1 \in 0 .. Cap
      BY <1>1, <2>2, CapHolds
    <3>. QED  BY <1>1, <2>2, <3>1 DEF Report
  <2>. QED  BY <1>0, <2>1, <2>2
<1>3. Summed(next) = Summed(report)
  BY <1>2 DEF Summed
<1>4. next.counted <= Cardinality(Mails) * Cardinality(Summed(next))
  BY <1>2, <1>3, Zenon DEF ReportOK
<1>5. ASSUME report.kind = "overview", next.changes # Cap
      PROVE  Matched(next, later)
  <2>. PICK P, Q, L, K : /\ P = PartsOf(report, now) /\ Q = PartsOf(next, later)
                         /\ L = InLog(now) /\ K = InLog(later)
    OBVIOUS
  <2>1. /\ P \subseteq Mails /\ Q \subseteq Mails /\ L \subseteq Mails /\ K \subseteq Mails
        /\ P \subseteq Q \cup {m} /\ K \subseteq L \cup {m}
    BY <1>3 DEF PartsOf, InLog
  <2>2. \/ P \subseteq Q
        \/ K \subseteq L
    <3>1. CASE now[m] = Nil
      <4>1. m \notin P
        BY <3>1, AbsentAssumption DEF PartsOf, Summed
      <4>. QED  BY <2>1, <4>1
    <3>2. CASE now[m] # Nil
      <4>1. m \in L
        BY <3>2 DEF InLog
      <4>. QED  BY <2>1, <4>1
    <3>. QED  BY <3>1, <3>2
  <2>3. /\ Cardinality(P) \in Nat /\ Cardinality(Q) \in Nat
        /\ Cardinality(L) \in Nat /\ Cardinality(K) \in Nat
    BY <2>1, MailsCounted, MailsAssumption, FS_CardinalityType
  <2>4. /\ Cardinality(P) <= Cardinality(Q) + 1 /\ Cardinality(K) <= Cardinality(L) + 1
        /\ Cardinality(P) <= Cardinality(Q) \/ Cardinality(K) <= Cardinality(L)
    BY <2>1, <2>2, AtMostOneMore, NoMore
  <2>5. next.changes = report.changes + 1
    BY <1>2, <1>5
  <2>6. report.changes # Cap /\ report.changes \in Nat
    BY <1>1, <1>2, <1>5, <2>5, CapHolds
  <2>7. Matched(report, now)
    BY <1>5, <2>6 DEF ReportOK
  <2>8. CASE "total" \in report.todo
    <3>1. report.counted <= Cardinality(P) + report.changes
      BY <2>7, <2>8 DEF Matched
    <3>2. report.counted <= Cardinality(Q) + (report.changes + 1)
      BY <1>1, <2>3, <2>4, <2>6, <3>1
    <3>. QED  BY <1>2, <2>5, <2>8, <3>2 DEF Matched
  <2>9. CASE "total" \notin report.todo
    <3>1. report.counted + Cardinality(L) <= report.total + (Cardinality(P) + report.changes)
      BY <2>7, <2>9 DEF Matched
    <3>2. report.counted + Cardinality(K)
          <= report.total + (Cardinality(Q) + (report.changes + 1))
      BY <1>1, <2>3, <2>4, <2>6, <3>1
    <3>. QED  BY <1>2, <2>5, <2>9, <3>2 DEF Matched
  <2>. QED  BY <2>8, <2>9
<1>. QED  BY <1>2, <1>4, <1>5 DEF ReportOK


LEMMA MailsChange ==
  ASSUME StatisticsInv, NEW m \in Mails, NEW s \in MailStatuses, Statistics!Change(m, s)
  PROVE  StatisticsInv'
<1>. PICK now : now = status
  OBVIOUS
<1>1. /\ now \in [Mails -> MailStatuses \cup {Nil}] /\ status' = [now EXCEPT ![m] = s]
      /\ \A r \in Slots : ReportOK(reports[r], now)
      /\ UNCHANGED stats /\ sentAt' \subseteq Mails
  BY DEF StatisticsInv, Statistics!Change
<1>2. \A r \in Slots : reports'[r] = ChangeSeen(reports[r])
  BY CapHolds DEF Statistics!Change, ChangeSeen
<1>3. ASSUME NEW r \in Slots
      PROVE  ReportOK(reports'[r], status') /\ reports'[r].kind = reports[r].kind
  <2>. PICK report : report = reports[r]
    OBVIOUS
  <2>1. ReportOK(report, now)
    BY <1>1
  <2>2. /\ ReportOK(ChangeSeen(report), [now EXCEPT ![m] = s])
        /\ ChangeSeen(report).kind = report.kind
    BY <1>1, <2>1, MailChanged
  <2>3. reports'[r] = ChangeSeen(report)
    BY <1>2
  <2>. QED  BY <1>1, <2>2, <2>3, Zenon
<1>4. reports' \in [Slots -> Report]
  <2>1. reports' = [r \in Slots |-> reports'[r]]
    BY DEF Statistics!Change
  <2>2. \A r \in Slots : reports'[r] \in Report
    BY <1>3 DEF ReportOK
  <2>. QED  BY <2>1, <2>2
<1>5. CronRuns' = CronRuns
  BY <1>3 DEF CronRuns
<1>6. \A r \in Slots : ReportOK(reports'[r], status')
  BY <1>3
<1>7. status' \in [Mails -> MailStatuses \cup {Nil}]
  BY <1>1
<1>8. stats' \in Nat /\ stats' + Cardinality(CronRuns') <= Cardinality(Slots)
  BY <1>1, <1>5, Zenon DEF StatisticsInv
<1>. QED  BY <1>1, <1>4, <1>6, <1>7, <1>8 DEF StatisticsInv

LEMMA ReportEnds ==
  ASSUME StatisticsInv, NEW r \in Slots, Statistics!Answer(r) \/ Statistics!Fails(r)
  PROVE  StatisticsInv'
<1>. PICK next, now : next = Statistics!Resting /\ now = status
  OBVIOUS
<1>1. reports' = [reports EXCEPT ![r] = next] /\ UNCHANGED <<status, sentAt>>
  BY DEF Statistics!Answer, Statistics!Fails
<1>2. ReportOK(next, now) /\ next.kind = "none"
  BY RestingReport
<1>3. stats \in Nat /\ stats + Cardinality(CronRuns) <= Cardinality(Slots)
  BY DEF StatisticsInv
<1>4. /\ CronRuns' = CronRuns \ {r} /\ Cardinality(CronRuns) \in Nat
      /\ Cardinality(CronRuns \ {r}) = IF r \in CronRuns THEN Cardinality(CronRuns) - 1
                                       ELSE Cardinality(CronRuns)
      /\ Cardinality(Slots) \in Nat
  BY <1>1, <1>2, CronRunsAre
<1>5. stats' = IF r \in CronRuns THEN stats' ELSE stats
  BY DEF CronRuns, Statistics!Answer, Statistics!Fails
<1>6. stats' \in {stats, stats + 1}
  BY DEF Statistics!Answer, Statistics!Fails
<1>7. Cardinality(CronRuns') = IF r \in CronRuns THEN Cardinality(CronRuns) - 1
                               ELSE Cardinality(CronRuns)
  BY <1>4, Zenon
<1>8. stats' \in Nat /\ stats' + Cardinality(CronRuns') <= Cardinality(Slots)
  <2>1. CASE r \in CronRuns
    BY <1>3, <1>4, <1>6, <1>7, <2>1
  <2>2. CASE r \notin CronRuns
    BY <1>3, <1>4, <1>5, <1>7, <2>2
  <2>. QED  BY <2>1, <2>2
<1>9. ReportOK(next, status)
  BY <1>2
<1>. QED  BY <1>1, <1>8, <1>9, ReportGoes

LEMMA StatisticsStep ==
  StatisticsInv /\ [Statistics!Next]_(Statistics!vars) => StatisticsInv'
<1>. SUFFICES ASSUME StatisticsInv, [Statistics!Next]_(Statistics!vars)
              PROVE  StatisticsInv'
  OBVIOUS
<1>1. CASE UNCHANGED Statistics!vars
  <2>1. UNCHANGED <<status, sentAt, stats, reports>>
    BY <1>1 DEF Statistics!vars
  <2>2. CronRuns' = CronRuns
    BY <2>1 DEF CronRuns
  <2>. QED  BY <2>1, <2>2 DEF StatisticsInv
<1>2. ASSUME NEW r \in Slots, Statistics!Dashboard(r) \/ Statistics!UpdateDailyStats(r)
      PROVE  StatisticsInv'
  <2>1. /\ Statistics!Counted \in SUBSET Statistics!Queries
        /\ Statistics!Queries \in SUBSET Statistics!Queries
        /\ "total" \in Statistics!Queries
        /\ {"overview", "daily", "cron"} \subseteq Statistics!ReportKinds
    BY DEF Statistics!Queries, Statistics!ReportKinds
  <2>2. StatisticsInv /\ stats \in Nat
    BY DEF StatisticsInv
  <2>3. \/ Statistics!Begin(r, "overview", Statistics!Queries)
        \/ Statistics!Begin(r, "daily", Statistics!Counted)
        \/ stats = 0 /\ Statistics!Begin(r, "cron", Statistics!Counted)
    BY <1>2, <2>2
    DEF Statistics!Dashboard, Statistics!GetOverview, Statistics!GetDailyStats,
        Statistics!UpdateDailyStats, Statistics!DayStored
  <2>. QED  BY <2>1, <2>2, <2>3, ReportBegins
<1>. QED  BY <1>1, <1>2, MailsChange, ReportQueries, ReportEnds DEF Statistics!Next

\* The figures of an overview are off by what happened meanwhile and nothing
\* else, and a day has no more rows than runs of the cron job overlap
\* (getOverview, updateDailyStats).
THEOREM ReportsAreBounded == Statistics!Spec => []ReportsHold
<1>1. ASSUME StatisticsInv
      PROVE  ReportsHold
  <2>1. Statistics!DayStoredBounded
    <3>. PICK a, b : a = Cardinality(CronRuns) /\ b = Cardinality(Slots)
      OBVIOUS
    <3>1. a \in Nat /\ b \in Nat
      <4>1. CronRuns \subseteq Slots
        BY DEF CronRuns
      <4>. QED  BY <4>1, SlotsAssumption, FS_Subset, FS_CardinalityType
    <3>2. stats \in Nat /\ stats + a <= b
      BY <1>1 DEF StatisticsInv
    <3>. QED  BY <3>1, <3>2, StatisticsCardinality DEF Statistics!DayStoredBounded
  <2>2. ASSUME NEW r \in Slots, reports[r].kind = "overview", reports[r].todo = {}
        PROVE  reports[r].counted <= reports[r].total + reports[r].changes
    <3>. PICK report, now : report = reports[r] /\ now = status
      OBVIOUS
    <3>1. ReportOK(report, now) /\ report \in Report
      BY <1>1 DEF StatisticsInv
    <3>2. /\ report.counted \in 0 .. Cap /\ report.changes \in 0 .. Cap
          /\ report.total \in Nat /\ Cap \in Nat
      BY <3>1, CapHolds, MailsAssumption, FS_CardinalityType DEF Report
    <3>3. Cardinality(PartsOf(report, now)) <= Cardinality(InLog(now))
          /\ Cardinality(PartsOf(report, now)) \in Nat /\ Cardinality(InLog(now)) \in Nat
      <4>. PICK P, L : P = PartsOf(report, now) /\ L = InLog(now)
        OBVIOUS
      <4>1. P \subseteq L /\ L \subseteq Mails
        BY AbsentAssumption DEF PartsOf, InLog, Summed
      <4>. QED  BY <4>1, NoMore, MailsCounted, MailsAssumption, FS_CardinalityType
    <3>4. CASE report.changes = Cap
      BY <3>2, <3>4
    <3>5. CASE Matched(report, now)
      <4>1. report.counted + Cardinality(InLog(now))
            <= report.total + (Cardinality(PartsOf(report, now)) + report.changes)
        BY <2>2, <3>5 DEF Matched
      <4>. QED  BY <3>2, <3>3, <4>1
    <3>. QED  BY <2>2, <3>1, <3>4, <3>5 DEF ReportOK
  <2>. QED  BY <2>1, <2>2
       DEF ReportsHold, Statistics!ReportsHold, Statistics!PartsAddUp
<1>. QED  BY <1>1, StatisticsInitial, StatisticsStep, PTL DEF Statistics!Spec


-----------------------------------------------------------------------------
(* Types of the two-factor service, however its requests overlap.          *)

LEMMA IdleRequest ==
  /\ Factor!Idle \in Factor!Request /\ Held(Factor!Idle)
  /\ Factor!Idle.row = Nil /\ Factor!Idle.pc = "idle"
  BY DEF Factor!Idle, Factor!Request, Held

\* What a request that is not idle holds.
LEMMA FactorSlotTyped ==
  ASSUME Factor!TypeOK, NEW r \in FactorRequests, factorReq[r].pc # "idle"
  PROVE  /\ factorReq[r].user \in Users
         /\ factorReq[r].row # Nil \/ factorReq[r].pc # "insert" =>
               /\ factorReq[r].row \in Factor!Row /\ factorReq[r].row # Nil
               /\ factorReq[r].id \in RowIds /\ factorReq[r].base \in Factor!Row \cup {Nil}
         /\ factorReq[r].pc = "use" => factorReq[r].code \in Factor!BackupCodes
  BY FactorAssumption DEF Factor!TypeOK, Factor!Request, Factor!Idle

\* One slot changes; whatever it holds is in the table, and no row leaves it.
LEMMA FactorSlotChanges ==
  ASSUME FactorTyped, NEW r \in FactorRequests, NEW q \in Factor!Request,
         factorReq' = [factorReq EXCEPT ![r] = q],
         q.row # Nil => factors[q.id] # Nil,
         \A k \in RowIds : factors[k] # Nil => factors'[k] # Nil
  PROVE  /\ factorReq' \in [FactorRequests -> Factor!Request]
         /\ \A p \in FactorRequests :
               factorReq'[p].row # Nil => factors'[factorReq'[p].id] # Nil
<1>1. factorReq' \in [FactorRequests -> Factor!Request]
  BY DEF FactorTyped, Factor!TypeOK
<1>2. ASSUME NEW p \in FactorRequests, factorReq'[p].row # Nil
      PROVE  factors'[factorReq'[p].id] # Nil
  <2>1. factorReq'[p] = IF p = r THEN q ELSE factorReq[p]
    BY DEF FactorTyped, Factor!TypeOK
  <2>2. factors[factorReq'[p].id] # Nil
    BY <1>2, <2>1 DEF FactorTyped
  <2>3. factorReq'[p].id \in RowIds
    <3>1. factorReq'[p] \in Factor!Request
      BY <1>1
    <3>. QED  BY <1>2, <3>1 DEF Factor!Request, Factor!Idle
  <2>. QED  BY <2>2, <2>3
<1>. QED  BY <1>1, <1>2

\* A request reads, selects, or ends: only what it holds changes.
LEMMA FactorSlotStep ==
  ASSUME FactorTyped, NEW r \in FactorRequests, NEW q \in Factor!Request,
         factorReq' = [factorReq EXCEPT ![r] = q],
         q.row # Nil => factors[q.id] # Nil,
         UNCHANGED <<factors, secrets, batches, newest, accepted, overlaps, mixed>>,
         confirmed' \subseteq Secrets
  PROVE  FactorTyped'
<1>1. /\ factorReq' \in [FactorRequests -> Factor!Request]
      /\ \A p \in FactorRequests :
            factorReq'[p].row # Nil => factors'[factorReq'[p].id] # Nil
  BY FactorSlotChanges
<1>. QED  BY <1>1 DEF FactorTyped, Factor!TypeOK

\* What a request holds that has just found row k of its user.
LEMMA HoldIs ==
  ASSUME Factor!TypeOK, NEW r \in FactorRequests, NEW u \in Users,
         NEW k \in Factor!RowsOf(u), NEW pc, NEW c, Factor!Hold(r, pc, u, k, c),
         \/ pc \in {"generate", "enable", "disable", "regenerate"} /\ c = Nil
         \/ pc = "use" /\ c \in factors[k].backupCodes
  PROVE  \E q \in Factor!Request :
            /\ factorReq' = [factorReq EXCEPT ![r] = q]
            /\ k \in RowIds /\ q.id = k /\ q.row = factors[k] /\ q.row # Nil
            /\ q.user = u /\ q.row.user = u
            /\ q.base = Nil /\ q.pc = pc /\ q.code = c
<1>. PICK row, q : /\ row = factors[k]
                   /\ q = [pc |-> pc, user |-> u, id |-> k, row |-> row, base |-> Nil,
                           code |-> c]
  OBVIOUS
<1>1. k \in RowIds /\ row \in Factor!Row /\ row.user = u /\ row # Nil
  BY DEF Factor!TypeOK, Factor!RowsOf
<1>2. q \in Factor!Request
  BY <1>1 DEF Factor!Request, Factor!Row
<1>3. factorReq' = [factorReq EXCEPT ![r] = q]
  BY DEF Factor!Hold
<1>. QED  BY <1>1, <1>2, <1>3

LEMMA FactorHoldTyped ==
  ASSUME FactorTyped, NEW r \in FactorRequests, NEW u \in Users,
         NEW k \in Factor!RowsOf(u), NEW pc, NEW c, Factor!Hold(r, pc, u, k, c),
         \/ pc \in {"generate", "enable", "disable", "regenerate"} /\ c = Nil
         \/ pc = "use" /\ c \in factors[k].backupCodes,
         UNCHANGED <<factors, secrets, batches, newest, accepted, overlaps, mixed>>,
         confirmed' \subseteq Secrets
  PROVE  FactorTyped'
<1>. PICK q \in Factor!Request :
        /\ factorReq' = [factorReq EXCEPT ![r] = q]
        /\ q.id = k /\ q.row = factors[k] /\ q.row # Nil
  BY HoldIs DEF FactorTyped
<1>. QED  BY FactorSlotStep

LEMMA FactorReadTyped ==
  ASSUME FactorTyped, NEW r \in FactorRequests, NEW u \in Users,
         Factor!TwoFactorRequest(r, u)
  PROVE  FactorTyped'
<1>1. confirmed \subseteq Secrets
  BY DEF FactorTyped, Factor!TypeOK
<1>2. CASE Factor!GenerateRead(r, u)
  <2>1. CASE \E k \in Factor!RowsOf(u) : Factor!Hold(r, "generate", u, k, Nil)
    BY <1>1, <1>2, <2>1, FactorHoldTyped DEF Factor!GenerateRead, Factor!history
  <2>2. CASE factorReq' = [factorReq EXCEPT ![r] =
                              [Factor!Idle EXCEPT !.pc = "insert", !.user = u]]
    <3>. PICK q : q = [Factor!Idle EXCEPT !.pc = "insert", !.user = u]
      OBVIOUS
    <3>1. q \in Factor!Request /\ q.row = Nil
      BY DEF Factor!Idle, Factor!Request
    <3>. QED  BY <1>1, <1>2, <2>2, <3>1, FactorSlotStep DEF Factor!GenerateRead, Factor!history
  <2>. QED  BY <1>2, <2>1, <2>2 DEF Factor!GenerateRead
<1>3. CASE Factor!EnableRead(r, u)
  <2>1. PICK k \in Factor!RowsOf(u) : /\ confirmed' = confirmed \cup {factors[k].secret}
                                      /\ Factor!Hold(r, "enable", u, k, Nil)
    BY <1>3 DEF Factor!EnableRead
  <2>2. confirmed' \subseteq Secrets
    BY <1>1, <2>1 DEF FactorTyped, Factor!TypeOK, Factor!RowsOf, Factor!Row
  <2>. QED  BY <1>3, <2>1, <2>2, FactorHoldTyped DEF Factor!EnableRead
<1>4. CASE Factor!UseRead(r, u)
  BY <1>1, <1>4, FactorHoldTyped DEF Factor!UseRead, Factor!history
<1>5. CASE Factor!DisableRead(r, u)
  BY <1>1, <1>5, FactorHoldTyped DEF Factor!DisableRead, Factor!history
<1>6. CASE Factor!RegenerateRead(r, u)
  BY <1>1, <1>6, FactorHoldTyped DEF Factor!RegenerateRead, Factor!history
<1>. QED  BY <1>2, <1>3, <1>4, <1>5, <1>6 DEF Factor!TwoFactorRequest

\* What a request holds between the two statements of its save.
LEMMA SelectIs ==
  ASSUME Factor!TypeOK, NEW r \in FactorRequests, Factor!Select(r)
  PROVE  \E q \in Factor!Request :
            /\ factorReq' = [factorReq EXCEPT ![r] = q]
            /\ q.pc = factorReq[r].pc /\ q.user = factorReq[r].user
            /\ q.id = factorReq[r].id /\ q.row = factorReq[r].row
            /\ q.code = factorReq[r].code /\ q.base = factors[factorReq[r].id]
<1>. PICK base, q :
       /\ base = factors[factorReq[r].id]
       /\ q = [pc |-> factorReq[r].pc, user |-> factorReq[r].user, id |-> factorReq[r].id,
               row |-> factorReq[r].row, base |-> base, code |-> factorReq[r].code]
  OBVIOUS
<1>1. factorReq[r] \in Factor!Request /\ factorReq[r].row # Nil
  BY DEF Factor!TypeOK, Factor!Select
<1>2. base \in Factor!Row \cup {Nil}
  <2>1. factorReq[r].id \in RowIds
    BY <1>1 DEF Factor!Request, Factor!Idle
  <2>. QED  BY <2>1 DEF Factor!TypeOK
<1>3. q \in Factor!Request
  BY <1>1, <1>2 DEF Factor!Request, Factor!Idle
<1>4. factorReq' = [factorReq EXCEPT ![r] = q]
  BY DEF Factor!Select
<1>. QED  BY <1>3, <1>4

\* An update leaves a row where there was one.
LEMMA FactorSaveTyped ==
  ASSUME FactorTyped, NEW r \in FactorRequests, NEW row \in Factor!Row,
         factorReq[r].row # Nil, Factor!Save(r, row)
  PROVE  /\ factors' \in [RowIds -> Factor!Row \cup {Nil}]
         /\ \A k \in RowIds : factors[k] # Nil => factors'[k] # Nil
         /\ overlaps' \in [RowIds -> 0 .. 2] /\ mixed' \subseteq RowIds
<1>1. factorReq[r].pc # "idle"
  BY DEF FactorTyped, Factor!TypeOK, Factor!Request, Factor!Idle
<1>. PICK k, old, base, new :
       /\ k = factorReq[r].id /\ old = factors[k] /\ base = factorReq[r].base
       /\ new = Factor!Changed(old, base, row)
  OBVIOUS
<1>2. k \in RowIds /\ base \in Factor!Row /\ old \in Factor!Row
  <2>1. k \in RowIds /\ base \in Factor!Row \cup {Nil}
    BY <1>1, FactorSlotTyped DEF FactorTyped
  <2>. QED  BY <2>1 DEF FactorTyped, Factor!TypeOK, Factor!Save
<1>3. new \in Factor!Row /\ new # Nil
  BY <1>2, FactorAssumption DEF Factor!Changed, Factor!Row
<1>4. /\ factors' = [factors EXCEPT ![k] = new]
      /\ mixed' = mixed \/ mixed' = mixed \cup {k}
      /\ \/ overlaps' = overlaps
         \/ overlaps' = [overlaps EXCEPT ![k] = IF @ = 2 THEN 2 ELSE @ + 1]
  BY DEF Factor!Save
<1>5. overlaps' \in [RowIds -> 0 .. 2]
  <2>1. overlaps \in [RowIds -> 0 .. 2]
    BY DEF FactorTyped, Factor!TypeOK
  <2>2. PICK n : n = IF overlaps[k] = 2 THEN 2 ELSE overlaps[k] + 1
    OBVIOUS
  <2>3. overlaps[k] \in 0 .. 2
    BY <1>2, <2>1
  <2>4. n \in 0 .. 2
    BY <2>2, <2>3
  <2>5. overlaps' = overlaps \/ overlaps' = [overlaps EXCEPT ![k] = n]
    BY <1>4, <2>2, Zenon
  <2>. QED  BY <2>1, <2>4, <2>5
<1>6. factors' \in [RowIds -> Factor!Row \cup {Nil}] /\ mixed' \subseteq RowIds
  BY <1>2, <1>3, <1>4 DEF FactorTyped, Factor!TypeOK
<1>7. \A l \in RowIds : factors[l] # Nil => factors'[l] # Nil
  BY <1>2, <1>3, <1>4 DEF FactorTyped, Factor!TypeOK
<1>. QED  BY <1>5, <1>6, <1>7

LEMMA FactorGenerateTyped ==
  ASSUME Factor!TypeOK, NEW r \in FactorRequests, NEW b \in Batches,
         factorReq[r].pc \in {"enable", "regenerate"}, Factor!Generate(r, b)
  PROVE  /\ batches' \in [Batches -> RowIds \cup {Nil}]
         /\ newest' \in [Users -> Batches \cup {Nil}]
<1>1. factorReq[r].id \in RowIds /\ factorReq[r].user \in Users
  BY FactorSlotTyped
<1>. QED  BY <1>1 DEF Factor!TypeOK, Factor!Generate

LEMMA CodesOfBatch ==
  ASSUME NEW b \in Batches
  PROVE  /\ Factor!Generated(b) \subseteq Factor!BackupCodes
         /\ \A c \in Factor!Generated(b) : c[1] = b
  BY DEF Factor!Generated, Factor!BackupCodes

\* What is saved of a row that was found.
LEMMA CopiesTyped ==
  ASSUME NEW held \in Factor!Row, NEW s \in Secrets, NEW b \in Batches, NEW c
  PROVE  /\ Factor!SetUp(held, s) \in Factor!Row /\ Factor!Enabled(held, b) \in Factor!Row
         /\ Factor!Regenerated(held, b) \in Factor!Row
         /\ Factor!Disabled(held) \in Factor!Row /\ Factor!UsedUp(held, c) \in Factor!Row
  BY CodesOfBatch
  DEF Factor!SetUp, Factor!Enabled, Factor!Regenerated, Factor!Disabled, Factor!UsedUp,
      Factor!Row

\* A request that saves a row ends; what it adds to the histories is typed.
LEMMA FactorEndTyped ==
  ASSUME FactorTyped, NEW r \in FactorRequests, Factor!Finish(r),
         factors' \in [RowIds -> Factor!Row \cup {Nil}],
         \A k \in RowIds : factors[k] # Nil => factors'[k] # Nil,
         overlaps' \in [RowIds -> 0 .. 2], mixed' \subseteq RowIds,
         secrets' \in [Secrets -> Users \cup {Nil}],
         batches' \in [Batches -> RowIds \cup {Nil}],
         newest' \in [Users -> Batches \cup {Nil}], confirmed' \subseteq Secrets,
         accepted' \in [Factor!BackupCodes -> 0 .. 3]
  PROVE  FactorTyped'
<1>1. /\ factorReq' \in [FactorRequests -> Factor!Request]
      /\ \A p \in FactorRequests :
            factorReq'[p].row # Nil => factors'[factorReq'[p].id] # Nil
  BY IdleRequest, FactorSlotChanges DEF Factor!Finish
<1>. QED  BY <1>1 DEF FactorTyped, Factor!TypeOK

LEMMA FactorKeepsTypes ==
  ASSUME FactorTyped, [Factor!Next]_(Factor!vars)
  PROVE  FactorTyped'
<1>. USE DEF Factor!At
<1>1. CASE UNCHANGED Factor!vars
  BY <1>1 DEF Factor!vars, FactorTyped, Factor!TypeOK
<1>2. ASSUME NEW r \in FactorRequests, Factor!Select(r)
      PROVE  FactorTyped'
  <2>1. PICK q \in Factor!Request :
           /\ factorReq' = [factorReq EXCEPT ![r] = q]
           /\ q.id = factorReq[r].id /\ q.row = factorReq[r].row
    BY <1>2, SelectIs DEF FactorTyped
  <2>2. q.row # Nil => factors[q.id] # Nil
    BY <2>1 DEF FactorTyped
  <2>3. /\ UNCHANGED <<factors, secrets, batches, newest, accepted, overlaps, mixed>>
        /\ confirmed' \subseteq Secrets
    BY <1>2 DEF Factor!Select, Factor!history, FactorTyped, Factor!TypeOK
  <2>. QED  BY <2>1, <2>2, <2>3, FactorSlotStep
<1>3. ASSUME NEW r \in FactorRequests, Factor!Fail(r)
      PROVE  FactorTyped'
  <2>1. /\ UNCHANGED <<factors, secrets, batches, newest, accepted, overlaps, mixed>>
        /\ confirmed' \subseteq Secrets /\ Factor!Finish(r)
    BY <1>3 DEF Factor!Fail, Factor!history, FactorTyped, Factor!TypeOK
  <2>. QED  BY <2>1, IdleRequest, FactorSlotStep DEF Factor!Finish
<1>4. ASSUME NEW r \in FactorRequests, NEW s \in Secrets, Factor!GenerateSave(r, s)
      PROVE  FactorTyped'
  <2>. PICK row : row = Factor!SetUp(factorReq[r].row, s)
    OBVIOUS
  <2>1. /\ factorReq[r].user \in Users /\ factorReq[r].row \in Factor!Row
        /\ factorReq[r].row # Nil
    BY <1>4, FactorSlotTyped DEF Factor!GenerateSave, FactorTyped
  <2>2. row \in Factor!Row
    BY <2>1 DEF Factor!SetUp, Factor!Row
  <2>3. Factor!Save(r, row) /\ Factor!Finish(r)
    BY <1>4 DEF Factor!GenerateSave
  <2>4. /\ secrets' \in [Secrets -> Users \cup {Nil}]
        /\ batches' \in [Batches -> RowIds \cup {Nil}]
        /\ newest' \in [Users -> Batches \cup {Nil}] /\ confirmed' \subseteq Secrets
        /\ accepted' \in [Factor!BackupCodes -> 0 .. 3]
    BY <1>4, <2>1 DEF Factor!GenerateSave, FactorTyped, Factor!TypeOK
  <2>. QED  BY <2>1, <2>2, <2>3, <2>4, FactorSaveTyped, FactorEndTyped
<1>5. ASSUME NEW r \in FactorRequests, NEW s \in Secrets, NEW k \in RowIds,
             Factor!GenerateInsert(r, s, k)
      PROVE  FactorTyped'
  <2>. PICK row : row = [user |-> factorReq[r].user, secret |-> s,
                         isEnabled |-> FALSE, backupCodes |-> {}]
    OBVIOUS
  <2>1. factorReq[r].user \in Users
    BY <1>5, FactorSlotTyped DEF Factor!GenerateInsert, FactorTyped
  <2>2. row \in Factor!Row /\ row # Nil
    <3>1. row \in Factor!Row
      BY <2>1 DEF Factor!Row
    <3>. QED  BY <3>1, FactorAssumption
  <2>3. factors' = [factors EXCEPT ![k] = row] /\ Factor!Finish(r)
    BY <1>5 DEF Factor!GenerateInsert
  <2>4. /\ factors' \in [RowIds -> Factor!Row \cup {Nil}]
        /\ \A l \in RowIds : factors[l] # Nil => factors'[l] # Nil
    BY <2>2, <2>3 DEF FactorTyped, Factor!TypeOK
  <2>5. /\ secrets' \in [Secrets -> Users \cup {Nil}]
        /\ batches' \in [Batches -> RowIds \cup {Nil}]
        /\ newest' \in [Users -> Batches \cup {Nil}] /\ confirmed' \subseteq Secrets
        /\ accepted' \in [Factor!BackupCodes -> 0 .. 3]
        /\ overlaps' \in [RowIds -> 0 .. 2] /\ mixed' \subseteq RowIds
    BY <1>5, <2>1 DEF Factor!GenerateInsert, FactorTyped, Factor!TypeOK
  <2>. QED  BY <2>3, <2>4, <2>5, FactorEndTyped
<1>6. ASSUME NEW r \in FactorRequests, NEW b \in Batches, Factor!RegenerateSave(r, b)
      PROVE  FactorTyped'
  <2>. PICK row : row = Factor!Regenerated(factorReq[r].row, b)
    OBVIOUS
  <2>1. factorReq[r].row \in Factor!Row /\ factorReq[r].row # Nil
    BY <1>6, FactorSlotTyped DEF Factor!RegenerateSave, FactorTyped
  <2>2. row \in Factor!Row
    BY <2>1, CodesOfBatch DEF Factor!Regenerated, Factor!Row
  <2>3. Factor!Save(r, row) /\ Factor!Finish(r) /\ Factor!Generate(r, b)
    BY <1>6 DEF Factor!RegenerateSave
  <2>4. /\ batches' \in [Batches -> RowIds \cup {Nil}]
        /\ newest' \in [Users -> Batches \cup {Nil}]
    BY <1>6, <2>3, FactorGenerateTyped DEF Factor!RegenerateSave, FactorTyped
  <2>5. /\ secrets' \in [Secrets -> Users \cup {Nil}] /\ confirmed' \subseteq Secrets
        /\ accepted' \in [Factor!BackupCodes -> 0 .. 3]
    BY <1>6 DEF Factor!RegenerateSave, FactorTyped, Factor!TypeOK
  <2>. QED  BY <2>1, <2>2, <2>3, <2>4, <2>5, FactorSaveTyped, FactorEndTyped
<1>7. ASSUME NEW r \in FactorRequests, Factor!EnableSave(r)
      PROVE  FactorTyped'
  <2>1. factorReq[r].row \in Factor!Row /\ factorReq[r].row # Nil
    BY <1>7, FactorSlotTyped DEF Factor!EnableSave, FactorTyped
  <2>2. PICK b \in Batches :
           /\ Factor!Save(r, Factor!Enabled(factorReq[r].row, b))
           /\ Factor!Generate(r, b) \/ UNCHANGED <<batches, newest>>
    BY <1>7 DEF Factor!EnableSave
  <2>. PICK row : row = Factor!Enabled(factorReq[r].row, b)
    OBVIOUS
  <2>3. row \in Factor!Row
    BY <2>1, CodesOfBatch DEF Factor!Enabled, Factor!Row
  <2>4. /\ batches' \in [Batches -> RowIds \cup {Nil}]
        /\ newest' \in [Users -> Batches \cup {Nil}]
    <3>1. CASE Factor!Generate(r, b)
      BY <1>7, <3>1, FactorGenerateTyped DEF Factor!EnableSave, FactorTyped
    <3>. QED  BY <2>2, <3>1 DEF FactorTyped, Factor!TypeOK
  <2>5. /\ secrets' \in [Secrets -> Users \cup {Nil}] /\ confirmed' \subseteq Secrets
        /\ accepted' \in [Factor!BackupCodes -> 0 .. 3] /\ Factor!Finish(r)
    BY <1>7 DEF Factor!EnableSave, FactorTyped, Factor!TypeOK
  <2>. QED  BY <2>1, <2>2, <2>3, <2>4, <2>5, FactorSaveTyped, FactorEndTyped
<1>8. ASSUME NEW r \in FactorRequests, Factor!DisableSave(r)
      PROVE  FactorTyped'
  <2>. PICK row : row = Factor!Disabled(factorReq[r].row)
    OBVIOUS
  <2>1. factorReq[r].row \in Factor!Row /\ factorReq[r].row # Nil
    BY <1>8, FactorSlotTyped DEF Factor!DisableSave, FactorTyped
  <2>2. row \in Factor!Row
    BY <2>1 DEF Factor!Disabled, Factor!Row
  <2>3. /\ Factor!Save(r, row) /\ Factor!Finish(r)
        /\ UNCHANGED <<secrets, batches, newest, confirmed, accepted>>
    BY <1>8 DEF Factor!DisableSave
  <2>4. /\ secrets' \in [Secrets -> Users \cup {Nil}]
        /\ batches' \in [Batches -> RowIds \cup {Nil}]
        /\ newest' \in [Users -> Batches \cup {Nil}] /\ confirmed' \subseteq Secrets
        /\ accepted' \in [Factor!BackupCodes -> 0 .. 3]
    BY <2>3 DEF FactorTyped, Factor!TypeOK
  <2>. QED  BY <2>1, <2>2, <2>3, <2>4, FactorSaveTyped, FactorEndTyped
<1>9. ASSUME NEW r \in FactorRequests, Factor!UseSave(r)
      PROVE  FactorTyped'
  <2>. PICK code, row : /\ code = factorReq[r].code
                        /\ row = Factor!UsedUp(factorReq[r].row, code)
    OBVIOUS
  <2>1. /\ factorReq[r].row \in Factor!Row /\ factorReq[r].row # Nil
        /\ code \in Factor!BackupCodes
    BY <1>9, FactorSlotTyped DEF Factor!UseSave, FactorTyped
  <2>2. row \in Factor!Row
    BY <2>1 DEF Factor!UsedUp, Factor!Row
  <2>3. Factor!Save(r, row) /\ Factor!Finish(r)
    BY <1>9 DEF Factor!UseSave
  <2>4. accepted' \in [Factor!BackupCodes -> 0 .. 3]
    <3>1. accepted \in [Factor!BackupCodes -> 0 .. 3]
      BY DEF FactorTyped, Factor!TypeOK
    <3>2. PICK n : n = IF accepted[code] = 3 THEN 3 ELSE accepted[code] + 1
      OBVIOUS
    <3>3. accepted[code] \in 0 .. 3
      BY <2>1, <3>1
    <3>4. n \in 0 .. 3
      BY <3>2, <3>3
    <3>5. accepted' = [accepted EXCEPT ![code] = n]
      BY <1>9, <3>2, Zenon DEF Factor!UseSave
    <3>. QED  BY <3>1, <3>4, <3>5, Zenon
  <2>5. /\ secrets' \in [Secrets -> Users \cup {Nil}]
        /\ batches' \in [Batches -> RowIds \cup {Nil}]
        /\ newest' \in [Users -> Batches \cup {Nil}] /\ confirmed' \subseteq Secrets
    BY <1>9 DEF Factor!UseSave, FactorTyped, Factor!TypeOK
  <2>. QED  BY <2>1, <2>2, <2>3, <2>4, <2>5, FactorSaveTyped, FactorEndTyped
<1>. QED
  BY <1>1, <1>2, <1>3, <1>4, <1>5, <1>6, <1>7, <1>8, <1>9, FactorReadTyped
  DEF Factor!Next

-----------------------------------------------------------------------------
(* Two-factor authentication: proofs.                                      *)

LEMMA FactorInitial == Factor!Init => FactorInv
<1>. SUFFICES ASSUME Factor!Init PROVE FactorInv
  OBVIOUS
<1>. USE DEF Factor!Init
<1>1. FactorTyped
  BY IdleRequest DEF FactorTyped, Factor!TypeOK
<1>2. \A r \in FactorRequests : Held(factorReq[r])
  BY IdleRequest
<1>3. OwnRow /\ RowsHold
  BY DEF OwnRow, RowsHold
<1>4. BatchesHold
  BY DEF BatchesHold, Factor!BackupCodes
<1>. QED  BY <1>1, <1>2, <1>3, <1>4 DEF FactorInv

\* A request reads, selects, or ends: only what it holds changes.
LEMMA FactorReads ==
  ASSUME FactorInv, FactorTyped', NEW r \in FactorRequests, NEW q, Held(q),
         factorReq' = [factorReq EXCEPT ![r] = q],
         UNCHANGED <<factors, secrets, batches, newest, accepted>>
  PROVE  FactorInv'
<1>1. ASSUME NEW p \in FactorRequests PROVE Held(factorReq[p])'
  <2>1. factorReq'[p] = IF p = r THEN q ELSE factorReq[p]
    BY DEF FactorInv, FactorTyped, Factor!TypeOK
  <2>. QED  BY <2>1 DEF FactorInv, Held, Factor!RowsOf
<1>2. OwnRow' /\ RowsHold' /\ BatchesHold'
  BY DEF FactorInv, OwnRow, RowsHold, BatchesHold
<1>. QED  BY <1>1, <1>2 DEF FactorInv

\* A request saves a row of its user and ends; no other is in flight.
LEMMA FactorSaves ==
  ASSUME OneAtATime, FactorInv, FactorTyped', NEW r \in FactorRequests, NEW k \in RowIds,
         NEW row \in Factor!Row,
         factorReq' = [factorReq EXCEPT ![r] = Factor!Idle],
         factors' = [factors EXCEPT ![k] = row],
         IF factors[k] = Nil THEN Factor!RowsOf(row.user) = {}
         ELSE factors[k].user = row.user,
         \A s \in Secrets : secrets[s] # Nil \/ s = row.secret => secrets'[s] # Nil,
         \A u \in Users \ {row.user} : newest'[u] = newest[u],
         \A c \in Factor!BackupCodes :
             accepted'[c] = accepted[c] \/ c[1] = newest[row.user],
         \A c \in row.backupCodes : c[1] = newest'[row.user] /\ accepted'[c] = 0,
         BatchesHold'
  PROVE  FactorInv'
<1>2. ASSUME NEW p \in FactorRequests PROVE Held(factorReq[p])'
  <2>1. factorReq'[p] = Factor!Idle
    BY DEF FactorInv, FactorTyped, Factor!TypeOK, OneAtATime
  <2>. QED  BY <2>1 DEF Held, Factor!Idle
<1>3. \A l \in RowIds : factors'[l] = IF l = k THEN row ELSE factors[l]
  BY DEF FactorInv, FactorTyped, Factor!TypeOK
<1>4. \A l \in RowIds \ {k} : factors[l] # Nil => factors[l].user # row.user
  BY DEF FactorInv, OwnRow, Factor!RowsOf
<1>5. row # Nil /\ row.user \in Users /\ row.secret \in Secrets
  BY FactorAssumption DEF Factor!Row
<1>6. OwnRow'
  BY <1>3, <1>4 DEF FactorInv, OwnRow
<1>7. ASSUME NEW l \in RowIds, factors'[l] # Nil
      PROVE  /\ secrets'[factors'[l].secret] # Nil
             /\ \A c \in factors'[l].backupCodes :
                   c[1] = newest'[factors'[l].user] /\ accepted'[c] = 0
  <2>1. CASE l = k
    BY <1>3, <1>5, <2>1
  <2>2. CASE l # k
    <3>. PICK other : other = factors[l]
      OBVIOUS
    <3>1. /\ factors'[l] = other /\ other \in Factor!Row /\ other.user # row.user
          /\ other.user \in Users /\ other.secret \in Secrets
          /\ other.backupCodes \subseteq Factor!BackupCodes
      BY <1>3, <1>4, <1>7, <2>2 DEF FactorInv, FactorTyped, Factor!TypeOK, Factor!Row
    <3>2. secrets[other.secret] # Nil
      BY <1>3, <1>7, <2>2 DEF FactorInv, RowsHold
    <3>3. ASSUME NEW c \in other.backupCodes
          PROVE  c[1] = newest'[other.user] /\ accepted'[c] = 0
      <4>1. c[1] = newest[other.user] /\ accepted[c] = 0
        BY <1>3, <1>7, <2>2 DEF FactorInv, RowsHold
      <4>2. c[1] \in Batches
        BY <3>1 DEF Factor!BackupCodes
      <4>3. c[1] # newest[row.user]
        BY <1>5, <3>1, <4>1, <4>2, FactorAssumption DEF FactorInv, BatchesHold
      <4>. QED  BY <3>1, <4>1, <4>3
    <3>. QED  BY <3>1, <3>2, <3>3
  <2>. QED  BY <2>1, <2>2
<1>8. RowsHold'
  BY <1>7 DEF RowsHold
<1>. QED  BY <1>2, <1>6, <1>8 DEF FactorInv

LEMMA HoldsARow ==
  ASSUME FactorInv, FactorTyped', NEW r \in FactorRequests, NEW u \in Users,
         NEW k \in Factor!RowsOf(u),
         NEW pc \in {"generate", "enable", "disable", "regenerate", "use"}, NEW c,
         IF pc = "use" THEN c \in factors[k].backupCodes ELSE c = Nil,
         pc \in {"use", "disable", "regenerate"} => factors[k].isEnabled,
         Factor!Hold(r, pc, u, k, c),
         UNCHANGED <<factors, secrets, batches, newest, accepted>>
  PROVE  FactorInv'
<1>. PICK q \in Factor!Request :
        /\ factorReq' = [factorReq EXCEPT ![r] = q]
        /\ q.id = k /\ q.row = factors[k] /\ q.row # Nil
        /\ q.user = u /\ q.row.user = u /\ q.base = Nil /\ q.pc = pc /\ q.code = c
  BY HoldIs DEF FactorInv, FactorTyped
<1>1. Held(q)
  BY DEF Held
<1>. QED  BY <1>1, FactorReads

LEMMA FactorReadStep ==
  ASSUME FactorInv, FactorTyped', NEW r \in FactorRequests, NEW u \in Users,
         Factor!TwoFactorRequest(r, u)
  PROVE  FactorInv'
<1>2. CASE Factor!GenerateRead(r, u)
  <2>1. CASE \E k \in Factor!RowsOf(u) : Factor!Hold(r, "generate", u, k, Nil)
    BY <1>2, <2>1, HoldsARow DEF Factor!GenerateRead, Factor!history
  <2>2. CASE /\ Factor!RowsOf(u) = {}
             /\ factorReq' = [factorReq EXCEPT ![r] =
                                 [Factor!Idle EXCEPT !.pc = "insert", !.user = u]]
    <3>. PICK q : q = [Factor!Idle EXCEPT !.pc = "insert", !.user = u]
      OBVIOUS
    <3>1. Held(q)
      BY <2>2 DEF Factor!Idle, Held
    <3>. QED  BY <1>2, <2>2, <3>1, FactorReads DEF Factor!GenerateRead, Factor!history
  <2>. QED  BY <1>2, <2>1, <2>2 DEF Factor!GenerateRead
<1>3. CASE Factor!EnableRead(r, u)
  BY <1>3, HoldsARow DEF Factor!EnableRead
<1>4. CASE Factor!UseRead(r, u)
  BY <1>4, HoldsARow DEF Factor!UseRead, Factor!history
<1>5. CASE Factor!DisableRead(r, u)
  BY <1>5, HoldsARow DEF Factor!DisableRead, Factor!history
<1>6. CASE Factor!RegenerateRead(r, u)
  BY <1>6, HoldsARow DEF Factor!RegenerateRead, Factor!history
<1>. QED  BY <1>2, <1>3, <1>4, <1>5, <1>6 DEF Factor!TwoFactorRequest

\* What a request holds that has found a row.
LEMMA HoldsIts ==
  ASSUME FactorInv, NEW r \in FactorRequests, factorReq[r].row # Nil
  PROVE  /\ factorReq[r].id \in RowIds /\ factorReq[r].row \in Factor!Row
         /\ factors[factorReq[r].id] = factorReq[r].row
         /\ factorReq[r].row.user = factorReq[r].user /\ factorReq[r].user \in Users
         /\ secrets[factorReq[r].row.secret] # Nil
         /\ \A c \in factorReq[r].row.backupCodes :
               c[1] = newest[factorReq[r].user] /\ accepted[c] = 0
<1>1. factorReq[r] \in Factor!Request /\ Held(factorReq[r])
  BY DEF FactorInv, FactorTyped, Factor!TypeOK
<1>2. /\ factorReq[r].id \in RowIds /\ factorReq[r].row \in Factor!Row
      /\ factorReq[r].user \in Users
  BY <1>1 DEF Factor!Request, Factor!Idle
<1>. QED  BY <1>1, <1>2 DEF FactorInv, RowsHold, Held

\* Where a request waits to update, it has found a row.
LEMMA WaitsWithRow ==
  ASSUME FactorInv, NEW r \in FactorRequests,
         factorReq[r].pc \in {"generate", "enable", "disable", "regenerate", "use"}
  PROVE  factorReq[r].row # Nil
  BY FactorSlotTyped DEF FactorInv, FactorTyped

\* The SELECT has found what was read, so the UPDATE writes what is saved.
LEMMA SaveWrites ==
  ASSUME FactorInv, NEW r \in FactorRequests, NEW row \in Factor!Row,
         factorReq[r].row # Nil, Factor!Save(r, row), row.user = factorReq[r].row.user
  PROVE  factors' = [factors EXCEPT ![factorReq[r].id] = row]
<1>. PICK k, held, base : k = factorReq[r].id /\ held = factorReq[r].row
                          /\ base = factorReq[r].base
  OBVIOUS
<1>1. /\ factors[k] = held /\ held \in Factor!Row /\ base # Nil
      /\ factors' = [factors EXCEPT ![k] = Factor!Changed(factors[k], base, row)]
  BY HoldsIts DEF Factor!Save
<1>2. base = held
  BY <1>1 DEF FactorInv, Held
<1>3. Factor!Changed(held, held, row) = row
  BY <1>1 DEF Factor!Changed, Factor!Row
<1>. QED  BY <1>1, <1>2, <1>3, Zenon

LEMMA FactorSelects ==
  ASSUME FactorInv, FactorTyped', NEW r \in FactorRequests, Factor!Select(r)
  PROVE  FactorInv'
<1>. PICK q \in Factor!Request :
        /\ factorReq' = [factorReq EXCEPT ![r] = q]
        /\ q.pc = factorReq[r].pc /\ q.user = factorReq[r].user
        /\ q.id = factorReq[r].id /\ q.row = factorReq[r].row
        /\ q.code = factorReq[r].code /\ q.base = factors[factorReq[r].id]
  BY SelectIs DEF FactorInv, FactorTyped
<1>1. factorReq[r].row # Nil /\ Held(factorReq[r])
  BY DEF Factor!Select, FactorInv
<1>2. Held(q)
  BY <1>1 DEF Held
<1>. QED  BY <1>2, FactorReads DEF Factor!Select, Factor!history

LEMMA FactorGenerates ==
  ASSUME OneAtATime, FactorInv, FactorTyped', NEW r \in FactorRequests, NEW s \in Secrets,
         \/ Factor!GenerateSave(r, s)
         \/ \E k \in RowIds : Factor!GenerateInsert(r, s, k)
  PROVE  FactorInv'
<1>. USE DEF Factor!GenerateSave, Factor!GenerateInsert, Factor!Finish, Factor!At
<1>1. Held(factorReq[r]) /\ factorReq[r].user \in Users
  BY FactorSlotTyped DEF FactorInv, FactorTyped
<1>2. \A t \in Secrets : secrets[t] # Nil \/ t = s => secrets'[t] # Nil
  BY <1>1, FactorAssumption DEF FactorInv, FactorTyped, Factor!TypeOK
<1>3. BatchesHold' /\ UNCHANGED <<newest, accepted>>
  BY DEF FactorInv, BatchesHold
<1>4. CASE Factor!GenerateSave(r, s)
  <2>. PICK row, k : /\ row = Factor!SetUp(factorReq[r].row, s) /\ k = factorReq[r].id
    OBVIOUS
  <2>0. factorReq[r].row # Nil
    BY <1>4, WaitsWithRow
  <2>1. /\ row \in Factor!Row /\ row.user = factorReq[r].user /\ row.secret = s
        /\ row.user = factorReq[r].row.user
        /\ row.backupCodes = factorReq[r].row.backupCodes
    BY <2>0, HoldsIts DEF Factor!SetUp, Factor!Row
  <2>2. factors' = [factors EXCEPT ![k] = row]
    BY <1>4, <2>0, <2>1, SaveWrites
  <2>3. /\ k \in RowIds /\ factors[k] # Nil /\ factors[k].user = row.user
        /\ \A c \in row.backupCodes : c[1] = newest[row.user] /\ accepted[c] = 0
    BY <2>0, <2>1, HoldsIts
  <2>4. /\ \A t \in Secrets : secrets[t] # Nil \/ t = row.secret => secrets'[t] # Nil
        /\ \A u \in Users \ {row.user} : newest'[u] = newest[u]
        /\ \A c \in Factor!BackupCodes :
              accepted'[c] = accepted[c] \/ c[1] = newest[row.user]
        /\ \A c \in row.backupCodes : c[1] = newest'[row.user] /\ accepted'[c] = 0
        /\ factorReq' = [factorReq EXCEPT ![r] = Factor!Idle]
    BY <1>2, <1>3, <1>4, <2>1, <2>3
  <2>. QED  BY <1>2, <1>3, <2>1, <2>2, <2>3, <2>4, FactorSaves
<1>5. ASSUME NEW k \in RowIds, Factor!GenerateInsert(r, s, k)
      PROVE  FactorInv'
  <2>. PICK row : row = [user |-> factorReq[r].user, secret |-> s,
                         isEnabled |-> FALSE, backupCodes |-> {}]
    OBVIOUS
  <2>1. row \in Factor!Row /\ row.user = factorReq[r].user /\ row.secret = s
        /\ row.backupCodes = {}
    BY <1>1 DEF Factor!Row
  <2>2. factors[k] = Nil /\ factors' = [factors EXCEPT ![k] = row]
    BY <1>5
  <2>3. Factor!RowsOf(row.user) = {}
    BY <1>1, <1>5, <2>1 DEF Held
  <2>4. /\ \A t \in Secrets : secrets[t] # Nil \/ t = row.secret => secrets'[t] # Nil
        /\ \A u \in Users \ {row.user} : newest'[u] = newest[u]
        /\ \A c \in Factor!BackupCodes :
              accepted'[c] = accepted[c] \/ c[1] = newest[row.user]
        /\ \A c \in row.backupCodes : c[1] = newest'[row.user] /\ accepted'[c] = 0
        /\ factorReq' = [factorReq EXCEPT ![r] = Factor!Idle]
    BY <1>2, <1>3, <1>5, <2>1
  <2>. QED  BY <1>3, <2>1, <2>2, <2>3, <2>4, FactorSaves
<1>. QED  BY <1>4, <1>5

LEMMA CodesGenerated ==
  ASSUME FactorInv, NEW r \in FactorRequests, NEW b \in Batches, NEW u \in Users,
         u = factorReq[r].user, factorReq[r].id \in RowIds,
         Factor!Generate(r, b), UNCHANGED accepted
  PROVE  /\ newest'[u] = b /\ \A v \in Users \ {u} : newest'[v] = newest[v]
         /\ \A c \in Factor!Generated(b) : c[1] = b /\ accepted'[c] = 0
         /\ BatchesHold'
<1>1. /\ batches \in [Batches -> RowIds \cup {Nil}] /\ newest \in [Users -> Batches \cup {Nil}]
      /\ batches[b] = Nil
      /\ batches' = [batches EXCEPT ![b] = factorReq[r].id]
      /\ newest' = [newest EXCEPT ![u] = b]
  BY DEF FactorInv, FactorTyped, Factor!TypeOK, Factor!Generate
<1>2. \A c \in Factor!Generated(b) : c[1] = b /\ accepted'[c] = 0
  BY <1>1, CodesOfBatch DEF FactorInv, BatchesHold
<1>3. batches'[b] # Nil /\ \A a \in Batches : batches[a] # Nil => batches'[a] # Nil
  BY <1>1, FactorAssumption
<1>4. \A v \in Users \ {u} : newest'[v] = newest[v] /\ newest'[v] # b
  <2>. SUFFICES ASSUME NEW v \in Users \ {u} PROVE newest'[v] = newest[v] /\ newest[v] # b
    OBVIOUS
  <2>. QED  BY <1>1, FactorAssumption DEF FactorInv, BatchesHold
<1>5. \A v \in Users : newest'[v] # Nil => batches'[newest'[v]] # Nil
  BY <1>1, <1>3, <1>4 DEF FactorInv, BatchesHold
<1>6. \A v, w \in Users : newest'[v] = newest'[w] /\ newest'[v] # Nil => v = w
  BY <1>1, <1>4 DEF FactorInv, BatchesHold
<1>7. \A c \in Factor!BackupCodes : c[1] \in Batches
  BY DEF Factor!BackupCodes
<1>8. \A c \in Factor!BackupCodes :
         accepted'[c] <= 1 /\ (batches'[c[1]] = Nil => accepted'[c] = 0)
  BY <1>3, <1>7 DEF FactorInv, BatchesHold
<1>. QED  BY <1>1, <1>2, <1>4, <1>5, <1>6, <1>8 DEF BatchesHold

\* A request saves its row with other codes or another switch.
LEMMA SavesHeld ==
  ASSUME OneAtATime, FactorInv, FactorTyped', NEW r \in FactorRequests,
         NEW row \in Factor!Row,
         factorReq[r].row # Nil, Factor!Save(r, row), Factor!Finish(r),
         row.user = factorReq[r].row.user, row.secret = factorReq[r].row.secret,
         UNCHANGED secrets,
         \A u \in Users \ {row.user} : newest'[u] = newest[u],
         \A c \in Factor!BackupCodes :
             accepted'[c] = accepted[c] \/ c[1] = newest[row.user],
         \A c \in row.backupCodes : c[1] = newest'[row.user] /\ accepted'[c] = 0,
         BatchesHold'
  PROVE  FactorInv'
<1>. PICK k : k = factorReq[r].id
  OBVIOUS
<1>1. /\ k \in RowIds /\ factors[k] # Nil /\ factors[k].user = row.user
      /\ secrets[row.secret] # Nil
  BY HoldsIts
<1>2. /\ factors' = [factors EXCEPT ![k] = row]
      /\ factorReq' = [factorReq EXCEPT ![r] = Factor!Idle]
  BY SaveWrites DEF Factor!Finish
<1>3. \A s \in Secrets : secrets[s] # Nil \/ s = row.secret => secrets'[s] # Nil
  BY <1>1
<1>. QED  BY <1>1, <1>2, <1>3, FactorSaves

LEMMA FactorEnables ==
  ASSUME OneAtATime, FactorInv, FactorTyped', NEW r \in FactorRequests,
         Factor!EnableSave(r)
  PROVE  FactorInv'
<1>. PICK held : held = factorReq[r].row
  OBVIOUS
<1>1. /\ held # Nil /\ held \in Factor!Row /\ held.user = factorReq[r].user
      /\ held.user \in Users /\ factorReq[r].id \in RowIds
      /\ \A c \in held.backupCodes : c[1] = newest[held.user] /\ accepted[c] = 0
  BY WaitsWithRow, HoldsIts DEF Factor!EnableSave, Factor!At
<1>2. /\ Factor!Finish(r) /\ UNCHANGED <<secrets, accepted>>
      /\ \A c \in Factor!BackupCodes : accepted'[c] = accepted[c]
  BY DEF Factor!EnableSave
<1>3. ASSUME NEW b \in Batches, held.backupCodes = {},
             Factor!Generate(r, b), Factor!Save(r, Factor!Enabled(held, b))
      PROVE  FactorInv'
  <2>. PICK row : row = Factor!Enabled(held, b)
    OBVIOUS
  <2>1. /\ newest'[held.user] = b
        /\ \A v \in Users \ {held.user} : newest'[v] = newest[v]
        /\ \A c \in Factor!Generated(b) : c[1] = b /\ accepted'[c] = 0
        /\ BatchesHold'
    BY <1>1, <1>2, <1>3, CodesGenerated
  <2>2. /\ row \in Factor!Row /\ row.user = held.user /\ row.secret = held.secret
        /\ row.backupCodes = Factor!Generated(b)
    BY <1>1, <1>3, CodesOfBatch DEF Factor!Enabled, Factor!Row
  <2>3. /\ Factor!Save(r, row)
        /\ \A u \in Users \ {row.user} : newest'[u] = newest[u]
        /\ \A c \in row.backupCodes : c[1] = newest'[row.user] /\ accepted'[c] = 0
    BY <1>3, <2>1, <2>2
  <2>. QED  BY <1>1, <1>2, <2>1, <2>2, <2>3, SavesHeld
<1>4. ASSUME NEW b \in Batches, held.backupCodes # {},
             Factor!Save(r, Factor!Enabled(held, b)), UNCHANGED <<batches, newest>>
      PROVE  FactorInv'
  <2>. PICK row : row = Factor!Enabled(held, b)
    OBVIOUS
  <2>1. /\ row \in Factor!Row /\ row.user = held.user /\ row.secret = held.secret
        /\ row.backupCodes = held.backupCodes
    BY <1>1, <1>4 DEF Factor!Enabled, Factor!Row
  <2>2. BatchesHold'
    BY <1>2, <1>4 DEF FactorInv, BatchesHold
  <2>3. /\ Factor!Save(r, row)
        /\ \A u \in Users \ {row.user} : newest'[u] = newest[u]
        /\ \A c \in row.backupCodes : c[1] = newest'[row.user] /\ accepted'[c] = 0
    BY <1>1, <1>2, <1>4, <2>1
  <2>. QED  BY <1>1, <1>2, <2>1, <2>2, <2>3, SavesHeld
<1>. QED  BY <1>1, <1>3, <1>4 DEF Factor!EnableSave

LEMMA FactorRegenerates ==
  ASSUME OneAtATime, FactorInv, FactorTyped', NEW r \in FactorRequests, NEW b \in Batches,
         Factor!RegenerateSave(r, b)
  PROVE  FactorInv'
<1>. PICK held : held = factorReq[r].row
  OBVIOUS
<1>1. /\ held # Nil /\ held \in Factor!Row /\ held.user = factorReq[r].user
      /\ held.user \in Users /\ factorReq[r].id \in RowIds
  BY WaitsWithRow, HoldsIts DEF Factor!RegenerateSave, Factor!At
<1>2. /\ Factor!Finish(r) /\ UNCHANGED <<secrets, accepted>>
      /\ \A c \in Factor!BackupCodes : accepted'[c] = accepted[c]
      /\ Factor!Generate(r, b) /\ Factor!Save(r, Factor!Regenerated(held, b))
  BY DEF Factor!RegenerateSave
<1>. PICK row : row = Factor!Regenerated(held, b)
  OBVIOUS
<1>3. /\ newest'[held.user] = b
      /\ \A v \in Users \ {held.user} : newest'[v] = newest[v]
      /\ \A c \in Factor!Generated(b) : c[1] = b /\ accepted'[c] = 0
      /\ BatchesHold'
  BY <1>1, <1>2, CodesGenerated
<1>4. /\ row \in Factor!Row /\ row.user = held.user /\ row.secret = held.secret
      /\ row.backupCodes = Factor!Generated(b)
  BY <1>1, CodesOfBatch DEF Factor!Regenerated, Factor!Row
<1>5. /\ Factor!Save(r, row)
      /\ \A u \in Users \ {row.user} : newest'[u] = newest[u]
      /\ \A c \in row.backupCodes : c[1] = newest'[row.user] /\ accepted'[c] = 0
  BY <1>2, <1>3, <1>4
<1>. QED  BY <1>1, <1>2, <1>3, <1>4, <1>5, SavesHeld

LEMMA FactorDisables ==
  ASSUME OneAtATime, FactorInv, FactorTyped', NEW r \in FactorRequests,
         Factor!DisableSave(r)
  PROVE  FactorInv'
<1>. PICK held, row : held = factorReq[r].row /\ row = Factor!Disabled(held)
  OBVIOUS
<1>1. /\ held # Nil /\ held \in Factor!Row
      /\ held.user = factorReq[r].user /\ held.user \in Users
      /\ \A c \in held.backupCodes : c[1] = newest[held.user] /\ accepted[c] = 0
  BY WaitsWithRow, HoldsIts DEF Factor!DisableSave, Factor!At
<1>2. /\ Factor!Finish(r) /\ Factor!Save(r, row)
      /\ UNCHANGED <<secrets, batches, newest, accepted>>
      /\ BatchesHold'
  BY DEF Factor!DisableSave, FactorInv, BatchesHold
<1>3. /\ row \in Factor!Row /\ row.user = held.user /\ row.secret = held.secret
      /\ row.backupCodes = held.backupCodes
  BY <1>1 DEF Factor!Disabled, Factor!Row
<1>4. /\ \A u \in Users \ {row.user} : newest'[u] = newest[u]
      /\ \A c \in row.backupCodes : c[1] = newest'[row.user] /\ accepted'[c] = 0
      /\ \A c \in Factor!BackupCodes : accepted'[c] = accepted[c]
  BY <1>1, <1>2, <1>3
<1>. QED  BY <1>1, <1>2, <1>3, <1>4, SavesHeld

LEMMA FactorUses ==
  ASSUME OneAtATime, FactorInv, FactorTyped', NEW r \in FactorRequests, Factor!UseSave(r)
  PROVE  FactorInv'
<1>. PICK held, code, row : /\ held = factorReq[r].row /\ code = factorReq[r].code
                            /\ row = Factor!UsedUp(held, code)
  OBVIOUS
<1>1. /\ held # Nil /\ held \in Factor!Row
      /\ held.user = factorReq[r].user /\ held.user \in Users
      /\ \A c \in held.backupCodes : c[1] = newest[held.user] /\ accepted[c] = 0
  BY WaitsWithRow, HoldsIts DEF Factor!UseSave, Factor!At
<1>2. code \in held.backupCodes
  BY DEF Factor!UseSave, Factor!At, FactorInv, Held
<1>3. /\ code \in Factor!BackupCodes /\ code[1] \in Batches /\ accepted[code] = 0
      /\ code[1] = newest[held.user] /\ batches[code[1]] # Nil
  <2>1. code \in Factor!BackupCodes /\ code[1] = newest[held.user] /\ accepted[code] = 0
    BY <1>1, <1>2 DEF Factor!Row
  <2>2. code[1] \in Batches
    BY <2>1 DEF Factor!BackupCodes
  <2>. QED  BY <1>1, <2>1, <2>2, FactorAssumption DEF FactorInv, BatchesHold
<1>4. /\ Factor!Finish(r) /\ Factor!Save(r, row)
      /\ UNCHANGED <<secrets, batches, newest>>
      /\ accepted' = [accepted EXCEPT ![code] = 1]
      /\ accepted \in [Factor!BackupCodes -> 0 .. 3]
  BY <1>3 DEF Factor!UseSave, FactorInv, FactorTyped, Factor!TypeOK
<1>5. /\ row \in Factor!Row /\ row.user = held.user /\ row.secret = held.secret
      /\ row.backupCodes = held.backupCodes \ {code}
  BY <1>1 DEF Factor!UsedUp, Factor!Row
<1>6. \A c \in Factor!BackupCodes : accepted'[c] = IF c = code THEN 1 ELSE accepted[c]
  <2>. PICK B : B = Factor!BackupCodes
    OBVIOUS
  <2>1. accepted \in [B -> 0 .. 3] /\ accepted' = [accepted EXCEPT ![code] = 1]
    BY <1>4
  <2>2. \A c \in B : accepted'[c] = IF c = code THEN 1 ELSE accepted[c]
    BY <2>1
  <2>. QED  BY <2>2
<1>7. BatchesHold'
  BY <1>3, <1>4, <1>6 DEF FactorInv, BatchesHold
<1>8. /\ \A u \in Users \ {row.user} : newest'[u] = newest[u]
      /\ \A c \in row.backupCodes : c[1] = newest'[row.user] /\ accepted'[c] = 0
      /\ \A c \in Factor!BackupCodes :
            accepted'[c] = accepted[c] \/ c[1] = newest[row.user]
  <2>1. row.backupCodes \subseteq Factor!BackupCodes
    BY <1>5 DEF Factor!Row
  <2>. QED  BY <1>1, <1>3, <1>4, <1>5, <1>6, <2>1
<1>. QED  BY <1>1, <1>4, <1>5, <1>7, <1>8, SavesHeld

LEMMA FactorStep ==
  ASSUME OneAtATime
  PROVE  FactorInv /\ [Factor!Next]_(Factor!vars) => FactorInv'
<1>. SUFFICES ASSUME FactorInv, [Factor!Next]_(Factor!vars) PROVE FactorInv'
  OBVIOUS
<1>0. FactorTyped'
  BY FactorKeepsTypes DEF FactorInv
<1>1. CASE UNCHANGED Factor!vars
  BY <1>0, <1>1
  DEF Factor!vars, FactorInv, OwnRow, RowsHold, BatchesHold, Held, Factor!RowsOf
<1>2. ASSUME NEW r \in FactorRequests, Factor!Fail(r)
      PROVE  FactorInv'
  BY <1>0, <1>2, IdleRequest, FactorReads
  DEF Factor!Fail, Factor!history, Factor!Finish
<1>. QED
  BY <1>0, <1>1, <1>2, FactorReadStep, FactorSelects, FactorGenerates, FactorEnables,
     FactorRegenerates, FactorDisables, FactorUses
  DEF Factor!Next

\* While requests do not overlap, a backup code is accepted once, a user has one
\* row, and the codes in force are of the batch sent last
\* (two-factor.service.ts: every operation saves the copy it has found).
THEOREM OneByOneIsServed ==
  ASSUME OneAtATime
  PROVE  Factor!Spec => []ServedOneByOne
<1>1. ASSUME FactorInv
      PROVE  ServedOneByOne
  <2>1. Factor!BackupCodeUsedOnce
    BY <1>1 DEF FactorInv, BatchesHold, Factor!BackupCodeUsedOnce
  <2>2. ASSUME NEW u \in Users
        PROVE  Factor!Cardinality(Factor!RowsOf(u)) <= 1
    <3>. PICK S : S = Factor!RowsOf(u)
      OBVIOUS
    <3>1. \A k, l \in S : k = l
      BY <1>1 DEF FactorInv, OwnRow, Factor!RowsOf
    <3>2. S = {} \/ \E k : S = {k}
      BY <3>1
    <3>3. Cardinality(S) <= 1
      <4>1. \A k : Cardinality({k}) = 1
        BY FS_Singleton
      <4>. QED  BY <3>2, <4>1, FS_EmptySet
    <3>4. Factor!Cardinality(S) = Cardinality(S)
      BY DEF Factor!Cardinality, Cardinality
    <3>. QED  BY <3>3, <3>4
  <2>3. Factor!NewestCodesInForce
    BY <1>1 DEF FactorInv, RowsHold, Factor!NewestCodesInForce, Factor!Table
  <2>. QED  BY <2>1, <2>2, <2>3
       DEF ServedOneByOne, Factor!ServedOneByOne, Factor!OneRowPerUser
<1>. QED  BY <1>1, FactorInitial, FactorStep, PTL DEF Factor!Spec


\* A row as the promise shows it, and the factor of u in a table of rows.
Shown(row) == [stage |-> IF row.isEnabled THEN "on" ELSE "off",
               secret |-> row.secret, codes |-> row.backupCodes]
ShownNone == [stage |-> "none", secret |-> Nil, codes |-> {}]

Showing == [stage: {"none", "off", "on"}, secret: Secrets \cup {Nil},
            codes: SUBSET Factor!BackupCodes]

RowsIn(table, u) == {k \in RowIds : table[k] # Nil /\ table[k].user = u}
FactorIn(table, u) ==
    IF RowsIn(table, u) = {} THEN ShownNone
    ELSE Shown(table[CHOOSE k \in RowsIn(table, u) : TRUE])
FactorsIn(table) == [u \in Users |-> FactorIn(table, u)]
Written(f, x, v) == [f EXCEPT ![x] = v]

LEMMA FactorsAre ==
  /\ [u \in Users |-> Factor!FactorOf(u)] = FactorsIn(factors)
  /\ [u \in Users |-> Factor!FactorOf(u)]' = FactorsIn(factors')
<1>1. ASSUME NEW u \in Users PROVE Factor!FactorOf(u) = FactorIn(factors, u)
  BY DEF Factor!FactorOf, FactorIn, Factor!RowsOf, RowsIn, Shown, ShownNone
<1>2. ASSUME NEW u \in Users PROVE Factor!FactorOf(u)' = FactorIn(factors', u)
  BY DEF Factor!FactorOf, FactorIn, Factor!RowsOf, RowsIn, Shown, ShownNone
<1>. QED  BY <1>1, <1>2 DEF FactorsIn

LEMMA TheOnlyRow ==
  ASSUME NEW table, NEW u, NEW k \in RowIds, table[k] # Nil, table[k].user = u,
         \A l \in RowIds : table[l] # Nil /\ table[l].user = u => l = k
  PROVE  FactorIn(table, u) = Shown(table[k])
<1>1. RowsIn(table, u) = {k}
  BY DEF RowsIn
<1>2. (CHOOSE l \in {k} : TRUE) = k
  OBVIOUS
<1>. QED  BY <1>1, <1>2 DEF FactorIn

\* A save changes what is shown of its user and of nobody else.
LEMMA SaveShown ==
  ASSUME NEW before, NEW k \in RowIds, NEW row, row # Nil, row.user \in Users,
         before \in [RowIds -> Factor!Row \cup {Nil}],
         before[k] = Nil \/ before[k].user = row.user,
         \A l \in RowIds \ {k} : before[l] # Nil => before[l].user # row.user
  PROVE  FactorsIn(Written(before, k, row))
         = Written(FactorsIn(before), row.user, Shown(row))
<1>. PICK after : after = Written(before, k, row)
  OBVIOUS
<1>1. \A l \in RowIds : after[l] = IF l = k THEN row ELSE before[l]
  BY DEF Written
<1>2. FactorIn(after, row.user) = Shown(row)
  BY <1>1, TheOnlyRow
<1>3. ASSUME NEW v \in Users \ {row.user} PROVE FactorIn(after, v) = FactorIn(before, v)
  <2>1. RowsIn(after, v) = RowsIn(before, v) /\ k \notin RowsIn(before, v)
    BY <1>1 DEF RowsIn
  <2>2. CASE RowsIn(before, v) = {}
    BY <2>1, <2>2 DEF FactorIn
  <2>3. CASE RowsIn(before, v) # {}
    <3>. PICK l : l = CHOOSE j \in RowsIn(before, v) : TRUE
      OBVIOUS
    <3>1. l \in RowsIn(before, v)
      BY <2>3
    <3>2. after[l] = before[l]
      BY <1>1, <2>1, <3>1 DEF RowsIn
    <3>3. FactorIn(before, v) = Shown(before[l])
      BY <2>3 DEF FactorIn
    <3>4. FactorIn(after, v) = Shown(after[l])
      <4>1. /\ RowsIn(after, v) # {}
            /\ (CHOOSE j \in RowsIn(after, v) : TRUE) = l
        BY <2>1, <2>3
      <4>. QED  BY <4>1, Zenon DEF FactorIn
    <3>. QED  BY <3>2, <3>3, <3>4, Zenon
  <2>. QED  BY <2>2, <2>3
<1>4. \A v \in Users : FactorIn(after, v) = IF v = row.user THEN Shown(row)
                                            ELSE FactorIn(before, v)
  BY <1>2, <1>3
<1>5. FactorsIn(after) = Written(FactorsIn(before), row.user, Shown(row))
  BY <1>4 DEF FactorsIn, Written
<1>. QED  BY <1>5, Zenon

\* The same of the save of a row that was found.
LEMMA HeldShown ==
  ASSUME FactorInv, NEW r \in FactorRequests, NEW held, NEW row \in Factor!Row,
         held = factorReq[r].row, held # Nil, Factor!Save(r, row), row.user = held.user
  PROVE  /\ held \in Factor!Row /\ held.user \in Users
         /\ FactorsIn(factors)[held.user] = Shown(held)
         /\ FactorsIn(factors') = Written(FactorsIn(factors), held.user, Shown(row))
<1>. PICK k, before : k = factorReq[r].id /\ before = factors
  OBVIOUS
<1>1. /\ k \in RowIds /\ held \in Factor!Row /\ before[k] = held /\ held.user \in Users
      /\ before \in [RowIds -> Factor!Row \cup {Nil}]
  BY HoldsIts DEF FactorInv, FactorTyped, Factor!TypeOK
<1>2. \A l \in RowIds : before[l] # Nil /\ before[l].user = held.user => l = k
  BY <1>1 DEF FactorInv, OwnRow
<1>3. FactorIn(before, held.user) = Shown(held)
  BY <1>1, <1>2, TheOnlyRow
<1>4. row # Nil
  BY FactorAssumption
<1>5. FactorsIn(Written(before, k, row))
      = Written(FactorsIn(before), row.user, Shown(row))
  <2>1. /\ row.user \in Users /\ (before[k] = Nil \/ before[k].user = row.user)
        /\ \A l \in RowIds \ {k} : before[l] # Nil => before[l].user # row.user
    BY <1>1, <1>2
  <2>. QED  BY <1>1, <1>4, <2>1, SaveShown
<1>6. factors' = Written(before, k, row)
  BY SaveWrites DEF Written
<1>7. FactorsIn(before)[held.user] = Shown(held)
  BY <1>1, <1>3 DEF FactorsIn
<1>. QED  BY <1>1, <1>5, <1>6, <1>7, Zenon

LEMMA PromiseStart == Factor!Init => Factor!Promise!Init
<1>. SUFFICES ASSUME Factor!Init PROVE Factor!Promise!Init
  OBVIOUS
<1>1. \A u \in Users : Factor!RowsOf(u) = {}
  BY DEF Factor!Init, Factor!RowsOf
<1>2. \A u \in Users : Factor!FactorOf(u) = Factor!Promise!None
  BY <1>1 DEF Factor!FactorOf, Factor!Promise!None
<1>. QED  BY <1>2 DEF Factor!Promise!Init


\* A factor changes as an operation of the promise says.
AsPromised(old, shown) ==
    \/ \E s \in Secrets :
          old.secret # s /\ shown = [stage |-> "off", secret |-> s, codes |-> old.codes]
    \/ \E b \in Batches :
          /\ old.stage # "none"
          /\ shown = [stage |-> "on", secret |-> old.secret,
                      codes |-> IF old.codes = {} THEN Factor!Promise!Codes(b) ELSE old.codes]
    \/ /\ old.stage = "on"
       /\ \/ \E c \in old.codes :
                shown = [stage |-> "on", secret |-> old.secret, codes |-> old.codes \ {c}]
          \/ shown = [stage |-> "off", secret |-> old.secret, codes |-> old.codes]
          \/ \E b \in Batches :
                /\ old.codes # Factor!Promise!Codes(b)
                /\ shown = [stage |-> "on", secret |-> old.secret,
                            codes |-> Factor!Promise!Codes(b)]

\* A record of three fields with two of them replaced.
LEMMA TwoFieldsReplaced ==
  ASSUME NEW a, NEW b, NEW c, NEW d, NEW e, NEW old,
         old = [stage |-> a, secret |-> b, codes |-> c]
  PROVE  /\ [old EXCEPT !.stage = d, !.secret = e] = [stage |-> d, secret |-> e, codes |-> c]
         /\ [old EXCEPT !.stage = d, !.codes = e] = [stage |-> d, secret |-> b, codes |-> e]
<1>1. [old EXCEPT !.stage = d, !.secret = e] = [stage |-> d, secret |-> e, codes |-> c]
  <2>1. [old EXCEPT !.stage = d] = [stage |-> d, secret |-> b, codes |-> c]
    OBVIOUS
  <2>2. [[stage |-> d, secret |-> b, codes |-> c] EXCEPT !.secret = e] = [stage |-> d, secret |-> e, codes |-> c]
    OBVIOUS
  <2>3. [old EXCEPT !.stage = d, !.secret = e] = [[old EXCEPT !.stage = d] EXCEPT !.secret = e]
    OBVIOUS
  <2>. QED  BY <2>1, <2>2, <2>3
<1>2. [old EXCEPT !.stage = d, !.codes = e] = [stage |-> d, secret |-> b, codes |-> e]
  <2>1. [old EXCEPT !.stage = d] = [stage |-> d, secret |-> b, codes |-> c]
    OBVIOUS
  <2>2. [[stage |-> d, secret |-> b, codes |-> c] EXCEPT !.codes = e] = [stage |-> d, secret |-> b, codes |-> e]
    OBVIOUS
  <2>3. [old EXCEPT !.stage = d, !.codes = e] = [[old EXCEPT !.stage = d] EXCEPT !.codes = e]
    OBVIOUS
  <2>. QED  BY <2>1, <2>2, <2>3
<1>. QED  BY <1>1, <1>2, Zenon

LEMMA PromiseMoves ==
  ASSUME NEW u \in Users, NEW before, NEW after, NEW old \in Showing, NEW shown,
         FactorsIn(factors) = before, FactorsIn(factors') = after, before[u] = old,
         after = Written(before, u, shown), AsPromised(old, shown)
  PROVE  Factor!Promise!Next
<1>1. /\ [v \in Users |-> Factor!FactorOf(v)] = before
      /\ [v \in Users |-> Factor!FactorOf(v)]' = after
  BY FactorsAre
<1>2. DOMAIN before = Users /\ after = [before EXCEPT ![u] = shown]
  BY DEF FactorsIn, Written
<1>9. old = [stage |-> old.stage, secret |-> old.secret, codes |-> old.codes]
  BY DEF Showing
<1>3. ASSUME NEW s \in Secrets, old.secret # s,
             shown = [stage |-> "off", secret |-> s, codes |-> old.codes]
      PROVE  Factor!Promise!SetUp(u, s)
  <2>1. [old EXCEPT !.stage = "off", !.secret = s] = shown
    <3>. PICK a, x, y, z : /\ a = "off" /\ x = old.stage
                           /\ y = old.secret /\ z = old.codes
      OBVIOUS
    <3>1. old = [stage |-> x, secret |-> y, codes |-> z]
      BY <1>9, Zenon
    <3>. PICK new : new = [old EXCEPT !.stage = a, !.secret = s]
      OBVIOUS
    <3>2. new = [stage |-> a, secret |-> s, codes |-> z]
      BY <3>1, TwoFieldsReplaced
    <3>. QED  BY <1>3, <3>2, Zenon
  <2>2. [before EXCEPT ![u].stage = "off", ![u].secret = s]
        = [before EXCEPT ![u] = [old EXCEPT !.stage = "off", !.secret = s]]
    BY <1>2
  <2>3. after = [before EXCEPT ![u].stage = "off", ![u].secret = s]
    BY <1>2, <2>1, <2>2, Zenon
  <2>. QED  BY <1>1, <1>3, <2>3 DEF Factor!Promise!SetUp
<1>4. ASSUME NEW b \in Batches, old.stage # "none",
             shown = [stage |-> "on", secret |-> old.secret,
                      codes |-> IF old.codes = {} THEN Factor!Promise!Codes(b)
                                ELSE old.codes]
      PROVE  Factor!Promise!Confirm(u, b)
  <2>. PICK new : new = Factor!Promise!Codes(b)
    OBVIOUS
  <2>. PICK codes : codes = IF old.codes = {} THEN new ELSE old.codes
    OBVIOUS
  <2>1. [old EXCEPT !.stage = "on", !.codes = codes] = shown
    <3>. PICK a, x, y, z : /\ a = "on" /\ x = old.stage
                           /\ y = old.secret /\ z = old.codes
      OBVIOUS
    <3>1. old = [stage |-> x, secret |-> y, codes |-> z]
      BY <1>9, Zenon
    <3>. PICK changed : changed = [old EXCEPT !.stage = a, !.codes = codes]
      OBVIOUS
    <3>2. changed = [stage |-> a, secret |-> y, codes |-> codes]
      BY <3>1, TwoFieldsReplaced
    <3>. QED  BY <1>4, <3>2, Zenon
  <2>2. [before EXCEPT ![u].stage = "on", ![u].codes = codes]
        = [before EXCEPT ![u] = [old EXCEPT !.stage = "on", !.codes = codes]]
    BY <1>2
  <2>3. after = [before EXCEPT ![u].stage = "on",
                               ![u].codes = IF @ = {} THEN new ELSE @]
    BY <1>2, <2>1, <2>2, Zenon
  <2>. QED  BY <1>1, <1>4, <2>3 DEF Factor!Promise!Confirm
<1>5. ASSUME old.stage = "on", NEW c \in old.codes,
             shown = [stage |-> "on", secret |-> old.secret, codes |-> old.codes \ {c}]
      PROVE  Factor!Promise!Next
  <2>1. [old EXCEPT !.codes = @ \ {c}] = shown
    BY <1>5 DEF Showing
  <2>2. Factor!Promise!UseCode(u, c)
    BY <1>1, <1>2, <1>5, <2>1 DEF Factor!Promise!UseCode
  <2>. QED  BY <1>1, <1>5, <2>2 DEF Factor!Promise!Next
<1>6. ASSUME old.stage = "on",
             shown = [stage |-> "off", secret |-> old.secret, codes |-> old.codes]
      PROVE  Factor!Promise!TurnOff(u)
  <2>1. [old EXCEPT !.stage = "off"] = shown
    BY <1>6 DEF Showing
  <2>. QED  BY <1>1, <1>2, <1>6, <2>1 DEF Factor!Promise!TurnOff
<1>7. ASSUME old.stage = "on", NEW b \in Batches, old.codes # Factor!Promise!Codes(b),
             shown = [stage |-> "on", secret |-> old.secret,
                      codes |-> Factor!Promise!Codes(b)]
      PROVE  Factor!Promise!Renew(u, b)
  <2>1. [old EXCEPT !.codes = Factor!Promise!Codes(b)] = shown
    BY <1>7 DEF Showing
  <2>. QED  BY <1>1, <1>2, <1>7, <2>1 DEF Factor!Promise!Renew
<1>8. \/ \E s \in Secrets : Factor!Promise!SetUp(u, s)
      \/ \E b \in Batches : Factor!Promise!Confirm(u, b) \/ Factor!Promise!Renew(u, b)
      \/ Factor!Promise!TurnOff(u)
      => Factor!Promise!Next
  BY DEF Factor!Promise!Next
<1>. QED  BY <1>3, <1>4, <1>5, <1>6, <1>7, <1>8 DEF AsPromised

LEMMA ShownIs ==
  ASSUME NEW row \in Factor!Row
  PROVE  /\ Shown(row) \in Showing
         /\ Shown(row).stage = IF row.isEnabled THEN "on" ELSE "off"
         /\ Shown(row).secret = row.secret /\ Shown(row).codes = row.backupCodes
  BY DEF Shown, Showing, Factor!Row

\* The save of a changed row is an operation of the promise.
LEMMA SaveAsPromised ==
  ASSUME FactorInv, NEW r \in FactorRequests, NEW held, NEW row \in Factor!Row,
         held = factorReq[r].row, held # Nil, Factor!Save(r, row), row.user = held.user,
         AsPromised(Shown(held), Shown(row))
  PROVE  Factor!Promise!Next
<1>. PICK before, after, old, shown :
       /\ before = FactorsIn(factors) /\ after = FactorsIn(factors')
       /\ old = Shown(held) /\ shown = Shown(row)
  OBVIOUS
<1>1. /\ held \in Factor!Row /\ held.user \in Users
      /\ before[held.user] = old /\ after = Written(before, held.user, shown)
  BY HeldShown
<1>2. old \in Showing
  BY <1>1, ShownIs
<1>. QED  BY <1>1, <1>2, PromiseMoves

LEMMA PromiseCodes ==
  ASSUME NEW b \in Batches
  PROVE  /\ Factor!Promise!Codes(b) = Factor!Generated(b)
         /\ <<b, 1>> \in Factor!Generated(b)
         /\ Factor!Generated(b) \subseteq Factor!BackupCodes
  BY FactorAssumption DEF Factor!Promise!Codes, Factor!Generated, Factor!BackupCodes

LEMMA PromiseGenerates ==
  ASSUME FactorInv, NEW r \in FactorRequests, NEW s \in Secrets,
         \/ Factor!GenerateSave(r, s)
         \/ \E k \in RowIds : Factor!GenerateInsert(r, s, k)
  PROVE  Factor!Promise!Next
<1>1. Held(factorReq[r]) /\ factorReq[r].user \in Users /\ secrets[s] = Nil
  BY FactorSlotTyped
  DEF FactorInv, FactorTyped, Factor!At, Factor!GenerateSave, Factor!GenerateInsert
<1>2. CASE Factor!GenerateSave(r, s)
  <2>. PICK held, row : held = factorReq[r].row /\ row = Factor!SetUp(held, s)
    OBVIOUS
  <2>1. held \in Factor!Row /\ held # Nil /\ held.secret # s
    BY <1>1, <1>2, WaitsWithRow, HoldsIts DEF Factor!GenerateSave, Factor!At
  <2>2. /\ row \in Factor!Row /\ row.user = held.user
        /\ row.secret = s /\ ~row.isEnabled /\ row.backupCodes = held.backupCodes
    BY <2>1 DEF Factor!SetUp, Factor!Row
  <2>3. Factor!Save(r, row)
    BY <1>2 DEF Factor!GenerateSave
  <2>4. Shown(row) = [stage |-> "off", secret |-> s, codes |-> Shown(held).codes]
    BY <2>1, <2>2, ShownIs DEF Shown
  <2>5. AsPromised(Shown(held), Shown(row))
    BY <2>1, <2>4, ShownIs, Zenon DEF AsPromised
  <2>. QED  BY <2>1, <2>2, <2>3, <2>5, SaveAsPromised
<1>3. ASSUME NEW k \in RowIds, Factor!GenerateInsert(r, s, k)
      PROVE  Factor!Promise!Next
  <2>. PICK u : u = factorReq[r].user
    OBVIOUS
  <2>. PICK row : row = [user |-> u, secret |-> s, isEnabled |-> FALSE,
                         backupCodes |-> {}]
    OBVIOUS
  <2>1. factors[k] = Nil /\ factors' = [factors EXCEPT ![k] = row]
    BY <1>3 DEF Factor!GenerateInsert
  <2>. PICK table, before, after, old, shown :
         /\ table = factors /\ before = FactorsIn(table) /\ after = FactorsIn(factors')
         /\ old = ShownNone /\ shown = Shown(row)
    OBVIOUS
  <2>2. row \in Factor!Row /\ row.user = u /\ u \in Users
    BY <1>1 DEF Factor!Row
  <2>3. \A l \in RowIds : table[l] # Nil => table[l].user # u
    BY <1>1, <1>3 DEF Held, Factor!RowsOf, Factor!GenerateInsert, Factor!At
  <2>4. before[u] = old
    BY <2>2, <2>3 DEF FactorsIn, FactorIn, RowsIn
  <2>5. table \in [RowIds -> Factor!Row \cup {Nil}] /\ table[k] = Nil
    BY <2>1 DEF FactorInv, FactorTyped, Factor!TypeOK
  <2>6. row # Nil
    BY <2>2, FactorAssumption
  <2>7. FactorsIn(Written(table, k, row)) = Written(FactorsIn(table), row.user, Shown(row))
    BY <2>2, <2>3, <2>5, <2>6, SaveShown
  <2>8. factors' = Written(table, k, row)
    BY <2>1 DEF Written
  <2>9. after = Written(before, u, shown)
    BY <2>2, <2>7, <2>8, Zenon
  <2>10. /\ old \in Showing /\ old.secret # s
         /\ shown = [stage |-> "off", secret |-> s, codes |-> old.codes]
    BY FactorAssumption DEF Shown, ShownNone, Showing
  <2>11. AsPromised(old, shown)
    BY <2>10, Zenon DEF AsPromised
  <2>. QED  BY <2>2, <2>4, <2>9, <2>10, <2>11, PromiseMoves
<1>. QED  BY <1>2, <1>3

LEMMA PromiseEnables ==
  ASSUME FactorInv, NEW r \in FactorRequests, Factor!EnableSave(r)
  PROVE  Factor!Promise!Next
<1>. PICK held : held = factorReq[r].row
  OBVIOUS
<1>1. held # Nil /\ held \in Factor!Row
  BY WaitsWithRow, HoldsIts DEF Factor!EnableSave, Factor!At
<1>. PICK b \in Batches : Factor!Save(r, Factor!Enabled(held, b))
  BY <1>1 DEF Factor!EnableSave
<1>. PICK row, old, new : /\ row = Factor!Enabled(held, b) /\ old = Shown(held)
                          /\ new = Factor!Promise!Codes(b)
  OBVIOUS
<1>2. /\ row \in Factor!Row /\ row.user = held.user /\ row.secret = held.secret
      /\ row.isEnabled
      /\ row.backupCodes = IF held.backupCodes = {} THEN new ELSE held.backupCodes
  <2>1. new = Factor!Generated(b) /\ new \subseteq Factor!BackupCodes
    BY PromiseCodes
  <2>. QED  BY <1>1, <2>1 DEF Factor!Enabled, Factor!Row
<1>3. /\ old.stage # "none" /\ old.secret = held.secret /\ old.codes = held.backupCodes
  BY <1>1, ShownIs
<1>4. Shown(row) = [stage |-> "on", secret |-> old.secret,
                    codes |-> IF old.codes = {} THEN new ELSE old.codes]
  BY <1>2, <1>3 DEF Shown
<1>5. AsPromised(old, Shown(row))
  BY <1>3, <1>4, Zenon DEF AsPromised
<1>. QED  BY <1>1, <1>2, <1>5, SaveAsPromised

LEMMA PromiseSwitches ==
  ASSUME FactorInv, NEW r \in FactorRequests,
         \/ Factor!DisableSave(r) \/ Factor!UseSave(r)
         \/ \E b \in Batches : Factor!RegenerateSave(r, b)
  PROVE  Factor!Promise!Next
<1>. PICK held, old : held = factorReq[r].row /\ old = Shown(held)
  OBVIOUS
<1>1. held # Nil /\ held \in Factor!Row /\ held.isEnabled
  <2>1. factorReq[r].pc \in {"use", "disable", "regenerate"}
    BY DEF Factor!DisableSave, Factor!UseSave, Factor!RegenerateSave, Factor!At
  <2>2. held.isEnabled
    BY <2>1 DEF FactorInv, Held
  <2>. QED  BY <2>1, <2>2, WaitsWithRow, HoldsIts
<1>2. old.stage = "on" /\ old.secret = held.secret /\ old.codes = held.backupCodes
  BY <1>1, ShownIs
<1>3. CASE Factor!DisableSave(r)
  <2>. PICK row : row = Factor!Disabled(held)
    OBVIOUS
  <2>1. /\ row \in Factor!Row /\ row.user = held.user /\ Factor!Save(r, row)
        /\ row.secret = held.secret /\ ~row.isEnabled
        /\ row.backupCodes = held.backupCodes
    BY <1>1, <1>3 DEF Factor!DisableSave, Factor!Disabled, Factor!Row
  <2>2. Shown(row) = [stage |-> "off", secret |-> old.secret, codes |-> old.codes]
    BY <1>2, <2>1 DEF Shown
  <2>3. AsPromised(old, Shown(row))
    BY <1>2, <2>2, Zenon DEF AsPromised
  <2>. QED  BY <1>1, <2>1, <2>3, SaveAsPromised
<1>4. CASE Factor!UseSave(r)
  <2>. PICK c : c = factorReq[r].code
    OBVIOUS
  <2>. PICK row : row = Factor!UsedUp(held, c)
    OBVIOUS
  <2>1. /\ row \in Factor!Row /\ row.user = held.user /\ Factor!Save(r, row)
        /\ row.secret = held.secret /\ row.isEnabled
        /\ row.backupCodes = held.backupCodes \ {c}
    BY <1>1, <1>4 DEF Factor!UseSave, Factor!UsedUp, Factor!Row
  <2>2. c \in old.codes
    BY <1>2, <1>4 DEF Factor!UseSave, Factor!At, FactorInv, Held
  <2>3. Shown(row) = [stage |-> "on", secret |-> old.secret, codes |-> old.codes \ {c}]
    BY <1>2, <2>1 DEF Shown
  <2>4. AsPromised(old, Shown(row))
    BY <1>2, <2>2, <2>3, Zenon DEF AsPromised
  <2>. QED  BY <1>1, <2>1, <2>4, SaveAsPromised
<1>5. ASSUME NEW b \in Batches, Factor!RegenerateSave(r, b)
      PROVE  Factor!Promise!Next
  <2>. PICK row, new : row = Factor!Regenerated(held, b) /\ new = Factor!Promise!Codes(b)
    OBVIOUS
  <2>1. new = Factor!Generated(b) /\ new \subseteq Factor!BackupCodes /\ <<b, 1>> \in new
    BY PromiseCodes
  <2>2. /\ row \in Factor!Row /\ row.user = held.user /\ Factor!Save(r, row)
        /\ row.secret = held.secret /\ row.isEnabled /\ row.backupCodes = new
    BY <1>1, <1>5, <2>1 DEF Factor!RegenerateSave, Factor!Regenerated, Factor!Row
  <2>3. old.codes # new
    <3>1. SUFFICES ASSUME <<b, 1>> \in held.backupCodes PROVE FALSE
      BY <1>2, <2>1
    <3>2. <<b, 1>>[1] = newest[factorReq[r].user] /\ factorReq[r].user \in Users
      BY <1>1, <3>1, HoldsIts
    <3>3. batches[b] # Nil
      BY <3>2, FactorAssumption DEF FactorInv, BatchesHold
    <3>4. batches[b] = Nil
      BY <1>5 DEF Factor!RegenerateSave, Factor!Generate
    <3>. QED  BY <3>3, <3>4
  <2>4. Shown(row) = [stage |-> "on", secret |-> old.secret, codes |-> new]
    BY <1>2, <2>2 DEF Shown
  <2>5. AsPromised(old, Shown(row))
    BY <1>2, <2>3, <2>4, Zenon DEF AsPromised
  <2>. QED  BY <1>1, <2>2, <2>5, SaveAsPromised
<1>. QED  BY <1>3, <1>4, <1>5

\* While requests do not overlap, every UPDATE or INSERT of a save is one
\* operation of the promise, and every read and SELECT a stutter (generateSecret, verifyAndEnable, verify, disable,
\* regenerateBackupCodes).
THEOREM OneByOneIsAsPromised ==
  ASSUME OneAtATime
  PROVE  Factor!Spec => ImplementsSecondFactor
<1>1. ASSUME FactorInv, [Factor!Next]_(Factor!vars)
      PROVE  [Factor!Promise!Next]_([u \in Users |-> Factor!FactorOf(u)])
  <2>1. CASE UNCHANGED factors
    BY <2>1, FactorsAre
  <2>2. UNCHANGED factors \/ Factor!Promise!Next
    BY <1>1, PromiseGenerates, PromiseEnables, PromiseSwitches
    DEF Factor!Next, Factor!TwoFactorRequest, Factor!GenerateRead, Factor!EnableRead,
        Factor!UseRead, Factor!DisableRead, Factor!RegenerateRead, Factor!Fail,
        Factor!Select, Factor!vars
  <2>. QED  BY <2>1, <2>2
<1>. QED  BY <1>1, PromiseStart, FactorInitial, FactorStep, PTL
     DEF Factor!Spec, ImplementsSecondFactor, Factor!ImplementsSecondFactor,
         Factor!Promise!Spec


-----------------------------------------------------------------------------
(* All of them, one per behaviour.                                         *)

ServicesInv ==
    /\ part \in Parts
    /\ IInv /\ FactorTyped /\ GmailInv /\ ProcessorInv
    /\ TrackingInv /\ StatisticsInv /\ NodemailerInv

LEMMA ServicesInitial == ServicesInit => ServicesInv
<1>1. Factor!Init => FactorTyped
  BY FactorInitial DEF FactorInv
<1>. QED
  BY <1>1, InitInvariant, GmailInitial, ProcessorInitial, TrackingInitial,
     StatisticsInitial, NodemailerInitial
  DEF ServicesInit, ServicesInv

\* A step of one service leaves the others as they are.
LEMMA ServicesAlone ==
  ASSUME [ServicesNext]_servicesVars
  PROVE  /\ UNCHANGED part
         /\ [Next]_vars /\ [Factor!Next]_(Factor!vars) /\ [Gmail!Next]_(Gmail!vars)
         /\ [Processor!Next]_(Processor!vars) /\ [Tracking!Next]_(Tracking!vars)
         /\ [Statistics!Next]_(Statistics!vars) /\ [Nodemailer!Next]_(Nodemailer!vars)
<1>1. UNCHANGED part
  BY DEF ServicesNext, servicesVars, Alone
<1>2. \/ UNCHANGED vars
      \/ Next
  BY DEF ServicesNext, servicesVars, Alone, Next
<1>3. UNCHANGED factorVars \/ Factor!Next
  BY DEF ServicesNext, servicesVars, Alone
<1>4. UNCHANGED gmailVars \/ Gmail!Next
  BY DEF ServicesNext, servicesVars, Alone
<1>5. UNCHANGED processorVars \/ Processor!Next
  BY DEF ServicesNext, servicesVars, Alone
<1>6. UNCHANGED trackingVars \/ Tracking!Next
  BY DEF ServicesNext, servicesVars, Alone
<1>7. UNCHANGED statisticsVars \/ Statistics!Next
  BY DEF ServicesNext, servicesVars, Alone
<1>8. UNCHANGED nodemailerVars \/ Nodemailer!Next
  BY DEF ServicesNext, servicesVars, Alone
<1>. QED
  BY <1>1, <1>2, <1>3, <1>4, <1>5, <1>6, <1>7, <1>8
  DEF factorVars, gmailVars, processorVars, trackingVars, statisticsVars,
      nodemailerVars, Factor!vars, Gmail!vars, Processor!vars, Tracking!vars,
      Statistics!vars, Nodemailer!vars

LEMMA ServicesStep == ServicesInv /\ [ServicesNext]_servicesVars => ServicesInv'
<1>. SUFFICES ASSUME ServicesInv, [ServicesNext]_servicesVars PROVE ServicesInv'
  OBVIOUS
<1>1. part' \in Parts
  BY ServicesAlone DEF ServicesInv
<1>2. IInv'
  BY ServicesAlone, StepInvariant DEF ServicesInv
<1>3. FactorTyped'
  BY ServicesAlone, FactorKeepsTypes DEF ServicesInv
<1>4. GmailInv'
  BY ServicesAlone, GmailKeepsInvariant DEF ServicesInv
<1>5. ProcessorInv'
  BY ServicesAlone, ProcessorStep DEF ServicesInv
<1>6. TrackingInv'
  BY ServicesAlone, TrackingStep DEF ServicesInv
<1>7. StatisticsInv'
  BY ServicesAlone, StatisticsStep DEF ServicesInv
<1>8. NodemailerInv'
  BY ServicesAlone, NodemailerStep DEF ServicesInv
<1>. QED  BY <1>1, <1>2, <1>3, <1>4, <1>5, <1>6, <1>7, <1>8 DEF ServicesInv

\* Every service keeps the types of its tables, queues and calls.
THEOREM ServicesKeepTypes == ServicesSpec => []TypesOK
<1>1. ServicesInv => TypesOK
  <2>. SUFFICES ASSUME ServicesInv PROVE TypesOK
    OBVIOUS
  <2>1. TypeOK
    BY DEF ServicesInv, IInv, Typed, TableOK, SyncOK, AdminOK, ThreadsOK, CompiledOK,
           TypeOK, Copy
  <2>2. Gmail!TypeOK
    BY DEF ServicesInv, GmailInv, GmailTyped
  <2>3. Processor!TypeOK
    BY DEF ServicesInv, ProcessorInv, MailOK, ProcessorWorker, TasksOK, Processor!TypeOK
  <2>4. Tracking!TypeOK
    BY DEF ServicesInv, TrackingInv, TrackingTyped, Handler, Tracking!TypeOK
  <2>5. Statistics!TypeOK
    BY StatisticsCardinality
    DEF ServicesInv, StatisticsInv, Report, Cap, Statistics!ChangeCap, Statistics!TypeOK
  <2>6. Nodemailer!TypeOK
    BY DEF ServicesInv, NodemailerInv, NodeTables, NodeCall, Nodemailer!Content,
           Nodemailer!TypeOK
  <2>. QED
    BY <2>1, <2>2, <2>3, <2>4, <2>5, <2>6 DEF ServicesInv, FactorTyped, Parts, TypesOK
<1>. QED  BY <1>1, ServicesInitial, ServicesStep, PTL DEF ServicesSpec


\* What is proved of a service alone holds of it in the instance of all: a
\* behaviour of the instance is one of each service.
THEOREM EachIsItself ==
  ServicesSpec => /\ Spec /\ Factor!Spec /\ Gmail!Spec /\ Processor!Spec
                  /\ Tracking!Spec /\ Statistics!Spec /\ Nodemailer!Spec
<1>1. ServicesInit => /\ Init /\ Factor!Init /\ Gmail!Init /\ Processor!Init
                      /\ Tracking!Init /\ Statistics!Init /\ Nodemailer!Init
  BY DEF ServicesInit
<1>2. [ServicesNext]_servicesVars =>
          /\ [Next]_vars /\ [Factor!Next]_(Factor!vars) /\ [Gmail!Next]_(Gmail!vars)
          /\ [Processor!Next]_(Processor!vars) /\ [Tracking!Next]_(Tracking!vars)
          /\ [Statistics!Next]_(Statistics!vars) /\ [Nodemailer!Next]_(Nodemailer!vars)
  BY ServicesAlone
<1>. QED
  BY <1>1, <1>2, PTL
  DEF ServicesSpec, Spec, Factor!Spec, Gmail!Spec, Processor!Spec, Tracking!Spec,
      Statistics!Spec, Nodemailer!Spec
=============================================================================
