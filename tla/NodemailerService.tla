-------------------------- MODULE NodemailerService --------------------------
(***************************************************************************)
(* NodemailerService (src/email/nodemailer.service.ts), the other          *)
(* implementation of IEmailService: it keeps its mails and its templates   *)
(* in the memory of the process, beside the queue, the directory and the   *)
(* table email_templates.                                                  *)
(*                                                                         *)
(* Left out: processEmailJob and what only it calls (its worker is         *)
(* commented out), the transporter, webhook handlers, a template's version.*)
(***************************************************************************)
EXTENDS Naturals, FiniteSets

CONSTANTS
    Names,           \* template names
    Defaults,        \* those with a default template
    DefaultContent,
    Contents,
    Ids,             \* email ids: bounds the mails that are queued
    Recipients,      \* bound of the recipients of a bulk mail
    Calls,           \* calls in flight in the process
    Nil

VARIABLES
    files,       \* the directory of templates, Nil while there is none
    rows,        \* table email_templates, by its unique name
    templates,   \* the compiled templates of the process
    emailJobs,   \* the mails the process knows of
    emailQueue,  \* the mails whose job ever reached the queue
    up,          \* is the process running?
    calls,       \* the calls
    stored       \* history: the contents a row has had

vars == <<files, rows, templates, emailJobs, emailQueue, up, calls, stored>>

-----------------------------------------------------------------------------
Content == Contents \cup {Nil}
NoTemplates == [n \in Names |-> Nil]

\* What a call waits for: saveTemplate for its lookup's answer (isNew: no row
\* was found), then for its save; sending for a job to be added.  sent: the
\* mails of a bulk call, queued: its counter.
Pcs == {"idle", "save", "set", "next", "add"}
Resting == [pc |-> "idle", name |-> Nil, content |-> Nil, isNew |-> FALSE,
            left |-> 0, mail |-> Nil, sent |-> {}, queued |-> 0]

TypeOK ==
    /\ files \in [Names -> Content] \cup {Nil}
    /\ rows \in [Names -> Content] /\ templates \in [Names -> Content]
    /\ emailJobs \subseteq Ids /\ emailQueue \subseteq Ids
    /\ up \in BOOLEAN
    /\ calls \in [Calls ->
           [pc: Pcs, name: Names \cup {Nil}, content: Content, isNew: BOOLEAN,
            left: 0 .. Recipients, mail: Ids \cup {Nil}, sent: SUBSET Ids,
            queued: 0 .. Recipients]]
    /\ stored \in [Names -> SUBSET Contents]

\* The directory may be there from the start (the repository ships one).
Init ==
    /\ files \in [Names -> Content] \cup {Nil}
    /\ rows = NoTemplates
    /\ templates = NoTemplates
    /\ emailJobs = {} /\ emailQueue = {}
    /\ up = FALSE
    /\ calls = [c \in Calls |-> Resting]
    /\ stored = [n \in Names |-> {}]

-----------------------------------------------------------------------------
Waits(c, pc) == up /\ calls[c].pc = pc
Then(c, next) == calls' = [calls EXCEPT ![c] = next]
Done(c) == Then(c, Resting)

MailsKept == UNCHANGED <<emailJobs, emailQueue>>
TemplatesKept == UNCHANGED <<files, rows, templates, stored>>

-----------------------------------------------------------------------------
(* Mutated forms of definitions below: plausible slips in the code that    *)
(* the properties must notice.  Nothing refers to them.                    *)

\* A save that compiles into memory before the row is written.
FindAndSet(c, n, content) ==
    /\ Waits(c, "idle")
    /\ templates' = [templates EXCEPT ![n] = content]
    /\ Then(c, [Resting EXCEPT !.pc = "save", !.name = n, !.content = content,
                               !.isNew = rows[n] = Nil])
    /\ UNCHANGED <<files, rows, stored, up>> /\ MailsKept

\* A counter that counts recipients, not jobs.
CountTried(c, answered) ==
    [calls[c] EXCEPT !.pc = "next", !.left = @ - 1, !.queued = @ + 1]

-----------------------------------------------------------------------------
(* The constructor, and the end of the process.                            *)

\* createDefaultTemplates: a default that cannot be written is logged.
WithDefaults(written) == [n \in Names |-> IF n \in written THEN DefaultContent ELSE Nil]

\* loadTemplates: without a directory the default templates are written first.
\* A file that cannot be read ends the loading, which is only logged.
Loaded(names) == [n \in Names |-> IF n \in names THEN files'[n] ELSE Nil]

LoadTemplates ==
    /\ ~up
    /\ up' = TRUE
    /\ \/ files = Nil /\ \E written \in SUBSET Defaults : files' = WithDefaults(written)
       \/ files # Nil /\ UNCHANGED files
    /\ \E read \in SUBSET Names : templates' = Loaded(read)
    /\ UNCHANGED <<rows, stored, calls>> /\ MailsKept

\* What the process knew of its mails and of saved templates is gone.
Stop ==
    /\ up
    /\ up' = FALSE
    /\ templates' = NoTemplates
    /\ emailJobs' = {}
    /\ calls' = [c \in Calls |-> Resting]
    /\ UNCHANGED <<files, rows, stored, emailQueue>>

-----------------------------------------------------------------------------
(* saveTemplate.                                                           *)

SaveFind(c, n, content) ==
    /\ Waits(c, "idle")
    /\ Then(c, [Resting EXCEPT !.pc = "save", !.name = n, !.content = content,
                               !.isNew = rows[n] = Nil])
    /\ UNCHANGED up /\ TemplatesKept /\ MailsKept

\* The name is unique: a second insert of it fails.
CanSave(c) == calls[c].isNew => rows[calls[c].name] = Nil

SaveRow(c) ==
    LET n == calls[c].name IN
    /\ Waits(c, "save") /\ CanSave(c)
    /\ rows' = [rows EXCEPT ![n] = calls[c].content]
    /\ stored' = [stored EXCEPT ![n] = @ \cup {calls[c].content}]
    /\ Then(c, [calls[c] EXCEPT !.pc = "set"])
    /\ UNCHANGED <<files, templates, up>> /\ MailsKept

\* Only the memory of this process gets the new template; the file keeps the
\* old one.
SetTemplate(c) ==
    /\ Waits(c, "set")
    /\ templates' = [templates EXCEPT ![calls[c].name] = calls[c].content]
    /\ Done(c)
    /\ UNCHANGED <<files, rows, stored, up>> /\ MailsKept

\* The save fails, or it is done and its answer lost.
SaveFails(c) ==
    /\ Waits(c, "save") \/ Waits(c, "set")
    /\ Done(c)
    /\ UNCHANGED up /\ TemplatesKept /\ MailsKept

SaveTemplate(c) ==
    \/ \E n \in Names, content \in Contents : SaveFind(c, n, content)
    \/ SaveRow(c) \/ SetTemplate(c) \/ SaveFails(c)

-----------------------------------------------------------------------------
(* Sending: one mail is a bulk mail to one recipient, whose errors the     *)
(* caller gets.                                                            *)

Send(c, recipients) ==
    /\ Waits(c, "idle")
    /\ Then(c, [Resting EXCEPT !.pc = "next", !.left = recipients])
    /\ UNCHANGED up /\ TemplatesKept /\ MailsKept

\* sendVerificationEmail and the other mails of IEmailService.
SendOne(c) == Send(c, 1)

SendBulkEmails(c) == \E n \in 2 .. Recipients : Send(c, n)

\* resendEmail: the process must know the mail; a new one is queued.
ResendEmail(c) == emailJobs # {} /\ Send(c, 1)

\* queueEmail: the mail is known before its job is added.
QueueEmail(c) ==
    /\ Waits(c, "next") /\ calls[c].left > 0
    /\ \E i \in Ids \ (emailJobs \cup emailQueue) :
          /\ emailJobs' = emailJobs \cup {i}
          /\ Then(c, [calls[c] EXCEPT !.pc = "add", !.mail = i, !.sent = @ \cup {i}])
    /\ UNCHANGED <<emailQueue, up>> /\ TemplatesKept

\* A recipient without address: nothing is queued.
BadRecipient(c) ==
    /\ Waits(c, "next") /\ calls[c].left > 0
    /\ Then(c, [calls[c] EXCEPT !.left = @ - 1])
    /\ UNCHANGED up /\ TemplatesKept /\ MailsKept

\* Back in the loop: only what the queue has answered for is counted.
AfterAdd(c, answered) ==
    [calls[c] EXCEPT !.pc = "next", !.left = @ - 1,
                     !.queued = IF answered THEN @ + 1 ELSE @]

\* The job is added, also when the answer is lost, or it is not.
AddJob(c) ==
    /\ Waits(c, "add")
    /\ \/ /\ emailQueue' = emailQueue \cup {calls[c].mail}
          /\ \E answered \in BOOLEAN : Then(c, AfterAdd(c, answered))
       \/ /\ UNCHANGED emailQueue
          /\ Then(c, AfterAdd(c, FALSE))
    /\ UNCHANGED <<emailJobs, up>> /\ TemplatesKept

Answer(c) ==
    /\ Waits(c, "next") /\ calls[c].left = 0
    /\ Done(c)
    /\ UNCHANGED up /\ TemplatesKept /\ MailsKept

SendMails(c) ==
    \/ SendOne(c) \/ SendBulkEmails(c) \/ ResendEmail(c)
    \/ QueueEmail(c) \/ BadRecipient(c) \/ AddJob(c) \/ Answer(c)

-----------------------------------------------------------------------------
Next ==
    \/ LoadTemplates \/ Stop
    \/ \E c \in Calls : SaveTemplate(c) \/ SendMails(c)

Spec == Init /\ [][Next]_vars

-----------------------------------------------------------------------------
(* Properties.                                                             *)

\* What the process renders with is what the table has held or the directory
\* holds, however saves overlap and fail (saveTemplate compiles into memory
\* only after the row is written).
RenderedWasStored ==
    \A n \in Names :
        templates[n] # Nil
        => templates[n] \in stored[n] \/ (files # Nil /\ templates[n] = files[n])

\* The count a bulk mail answers with never exceeds its mails in the queue, and
\* while it runs the process knows of every mail it has queued (sendBulkEmails;
\* a mail it knows of need not be in the queue).
BatchCounted ==
    \A c \in Calls :
        /\ calls[c].queued <= Cardinality(calls[c].sent \cap emailQueue)
        /\ calls[c].sent \subseteq emailJobs
=============================================================================
