---------------------------- MODULE MailProcessor ----------------------------
(***************************************************************************)
(* EmailProcessor (src/email/email.processor.ts): a worker for the queue   *)
(* email-queue with its own cache of templates, and the bulk jobs that     *)
(* spread into single mails, which it adds to another queue, email.  Who   *)
(* queues its jobs and which handler a job is given to is external: the    *)
(* class has no dispatch of its own.                                       *)
(*                                                                         *)
(* The constructor starts three tasks and waits for none of them: jobs are *)
(* taken before the transporter, the templates and the partials are there. *)
(* Redis and the queue (BullMQ) are external.                              *)
(***************************************************************************)
EXTENDS Naturals

CONSTANTS
    Mails,       \* email ids: bounds the mails that are ever queued
    TemplateOf,  \* the template of each mail
    Stored,      \* templates that have a row, active or not
    WithPartial, \* templates that include a partial
    Attempts,    \* of each mail's job (1 without that option)
    Recipients,  \* of the one bulk job
    Nil

VARIABLES
    logs,      \* table email_logs: the status of each mail's row
    jobs,      \* email-queue: what each mail's job has used up
    batch,     \* the bulk job: still in the queue?
    forwarded, \* mails added to the queue email, which is not this worker's
    worker,    \* what the worker is doing
    starting,  \* tasks of the constructor that have not ended
    ready,     \* those that have succeeded
    compiled,  \* templates: names in the cache of the process
    told       \* history: events emitted about each mail

vars == <<logs, jobs, batch, forwarded, worker, starting, ready, compiled, told>>

-----------------------------------------------------------------------------
Statuses == {"pending", "processing", "sent", "failed"}
Tasks == {"transporter", "templates", "partials"}
Job == [made: Nat, attempts: Nat \ {0}]

\* What the worker does next with a mail, or with the next of the recipients
\* that are left.
Pcs == {"idle", "mark", "reload", "send", "mark sent", "mark failed", "throw",
        "done", "log", "add"}
Resting == [pc |-> "idle", mail |-> Nil, left |-> 0]

TypeOK ==
    /\ logs \in [Mails -> Statuses \cup {Nil}]
    /\ \A m \in Mails :
          jobs[m] # Nil => jobs[m] \in Job /\ jobs[m].made < jobs[m].attempts
    /\ batch \in BOOLEAN /\ forwarded \subseteq Mails
    /\ worker \in [pc: Pcs, mail: Mails \cup {Nil}, left: 0 .. Recipients]
    /\ starting \subseteq Tasks /\ ready \subseteq Tasks \ starting
    /\ compiled \subseteq Stored
    /\ told \in [Mails -> SUBSET {"sent", "failed"}]

Init ==
    /\ logs = [m \in Mails |-> Nil]
    /\ jobs = [m \in Mails |-> Nil]
    /\ batch = FALSE /\ forwarded = {}
    /\ worker = Resting
    /\ starting = Tasks
    /\ ready = {}
    /\ compiled = {}
    /\ told = [m \in Mails |-> {}]

-----------------------------------------------------------------------------
(* Mutated forms of definitions below: plausible slips in the code that    *)
(* the properties must notice.  Nothing refers to them.                    *)

\* attemptsMade taken for the number of the running attempt.
LastTryFromOne(m) == jobs[m].made + 1 >= jobs[m].attempts - 1

-----------------------------------------------------------------------------
Doing(pc) == worker.pc = pc
Then(pc) == worker' = [worker EXCEPT !.pc = pc]
Mail == worker.mail
SetStatus(m, status) == logs' = [logs EXCEPT ![m] = status]
Process == UNCHANGED <<starting, ready, compiled>>

-----------------------------------------------------------------------------
(* The constructor's tasks.                                                *)

\* initializeTransporter, loadTemplates and loadPartials each end one day.
TaskDone(t) ==
    /\ t \in starting
    /\ starting' = starting \ {t}
    /\ ready' = ready \cup {t}
    /\ compiled' = IF t = "templates" THEN compiled \cup Stored ELSE compiled
    /\ UNCHANGED <<logs, jobs, batch, forwarded, worker, told>>

\* No test account, no Gmail token, no database: logged, and never tried again.
\* A transporter of which only the verification fails is used all the same.
TaskFails(t) ==
    /\ t \in starting
    /\ starting' = starting \ {t}
    /\ ready' \in {ready, ready \cup ({t} \cap {"transporter"})}
    /\ UNCHANGED <<logs, jobs, batch, forwarded, worker, compiled, told>>

-----------------------------------------------------------------------------
(* The queue.                                                              *)

\* A mail is queued by itself: its row and its job.
QueueMail(m) ==
    /\ logs[m] = Nil
    /\ SetStatus(m, "pending")
    /\ jobs' = [jobs EXCEPT ![m] = [made |-> 0, attempts |-> Attempts]]
    /\ UNCHANGED <<batch, forwarded, worker, told>> /\ Process

\* A bulk job is queued, once here.
QueueBatch ==
    /\ ~batch /\ \A m \in Mails : logs[m] = Nil
    /\ batch' = TRUE
    /\ UNCHANGED <<logs, jobs, forwarded, worker, told>> /\ Process

Take(m) ==
    /\ Doing("idle") /\ jobs[m] # Nil
    /\ worker' = [Resting EXCEPT !.pc = "mark", !.mail = m]
    /\ UNCHANGED <<logs, jobs, batch, forwarded, told>> /\ Process

TakeBatch ==
    /\ Doing("idle") /\ batch
    /\ worker' = [Resting EXCEPT !.pc = "log", !.left = Recipients]
    /\ UNCHANGED <<logs, jobs, batch, forwarded, told>> /\ Process

\* A job that has ended is dropped; a failed one waits while it has attempts.
Retried(job) ==
    IF job.made + 1 < job.attempts THEN [job EXCEPT !.made = @ + 1] ELSE Nil
Leave ==
    /\ \/ Doing("done") /\ jobs' = [jobs EXCEPT ![Mail] = Nil]
       \/ Doing("throw") /\ jobs' = [jobs EXCEPT ![Mail] = Retried(jobs[Mail])]
    /\ worker' = Resting
    /\ UNCHANGED <<logs, batch, forwarded, told>> /\ Process

-----------------------------------------------------------------------------
(* process.                                                                *)

\* Is no attempt left after the running one?
LastTry(m) == jobs[m].made >= jobs[m].attempts - 1

\* What an error leads to: the row is only marked when it was the last try.
Caught == Then(IF LastTry(Mail) THEN "mark failed" ELSE "throw")

MarkProcessing ==
    /\ Doing("mark")
    /\ SetStatus(Mail, "processing")
    /\ Then(IF TemplateOf[Mail] \in compiled THEN "send" ELSE "reload")
    /\ UNCHANGED <<jobs, batch, forwarded, told>> /\ Process

\* reloadTemplate: a row of that name, active or not.
Reloaded(t) == IF t \in Stored THEN compiled \cup {t} ELSE compiled

ReloadTemplate ==
    /\ Doing("reload")
    /\ compiled' = Reloaded(TemplateOf[Mail])
    /\ IF TemplateOf[Mail] \in Stored THEN Then("send") ELSE Caught
    /\ UNCHANGED <<logs, jobs, batch, forwarded, starting, ready, told>>

\* Rendering may need the partials, and sending needs the transporter; the SMTP
\* server may refuse, or its answer be lost.
CanSend ==
    /\ "transporter" \in ready
    /\ TemplateOf[Mail] \in WithPartial => "partials" \in ready

Send ==
    /\ Doing("send")
    /\ \/ CanSend /\ Then("mark sent")
       \/ Caught
    /\ UNCHANGED <<logs, jobs, batch, forwarded, told>> /\ Process

\* updateEmailStatus swallows its errors; the event is emitted all the same.
MarkSent ==
    /\ Doing("mark sent")
    /\ SetStatus(Mail, "sent") \/ UNCHANGED logs
    /\ told' = [told EXCEPT ![Mail] = @ \cup {"sent"}]
    /\ Then("done")
    /\ UNCHANGED <<jobs, batch, forwarded>> /\ Process

MarkFailed ==
    /\ Doing("mark failed")
    /\ SetStatus(Mail, "failed") \/ UNCHANGED logs
    /\ told' = [told EXCEPT ![Mail] = @ \cup {"failed"}]
    /\ Then("throw")
    /\ UNCHANGED <<jobs, batch, forwarded>> /\ Process

\* The first update fails, or reloadTemplate fails and finds nothing.
StatementFails ==
    /\ Doing("mark") \/ Doing("reload")
    /\ Caught
    /\ UNCHANGED <<logs, jobs, batch, forwarded, told>> /\ Process

-----------------------------------------------------------------------------
(* handleBulkSend.                                                         *)

NextRecipient == worker' = [Resting EXCEPT !.pc = "log", !.left = worker.left - 1]

BulkLog ==
    /\ Doing("log") /\ worker.left > 0
    /\ \/ \E m \in Mails :
             /\ logs[m] = Nil
             /\ SetStatus(m, "pending")
             /\ worker' = [worker EXCEPT !.pc = "add", !.mail = m]
       \/ NextRecipient /\ UNCHANGED logs
    /\ UNCHANGED <<jobs, batch, forwarded, told>> /\ Process

\* The job goes to the other queue.  When adding fails the row stays.
BulkAdd ==
    /\ Doing("add")
    /\ forwarded' \in {forwarded, forwarded \cup {Mail}}
    /\ NextRecipient
    /\ UNCHANGED <<logs, jobs, batch, told>> /\ Process

BulkDone ==
    /\ Doing("log") /\ worker.left = 0
    /\ batch' = FALSE
    /\ worker' = Resting
    /\ UNCHANGED <<logs, jobs, forwarded, told>> /\ Process

\* The process dies and starts again.  The queue hands its job out again, or
\* drops it if it stalled before (BullMQ; left open here which of the two).
InBatch == Doing("log") \/ Doing("add")
Crash ==
    /\ \/ UNCHANGED <<jobs, batch>>
       \/ InBatch /\ batch' = FALSE /\ UNCHANGED jobs
       \/ /\ ~InBatch /\ ~Doing("idle")
          /\ jobs' = [jobs EXCEPT ![Mail] = Nil] /\ UNCHANGED batch
    /\ worker' = Resting
    /\ starting' = Tasks
    /\ ready' = {}
    /\ compiled' = {}
    /\ UNCHANGED <<logs, forwarded, told>>

-----------------------------------------------------------------------------
ProcessJob ==
    \/ MarkProcessing \/ ReloadTemplate \/ Send \/ MarkSent \/ MarkFailed
    \/ StatementFails
HandleBulkSend == BulkLog \/ BulkAdd \/ BulkDone
Queue == (\E m \in Mails : QueueMail(m) \/ Take(m)) \/ QueueBatch \/ TakeBatch \/ Leave

Next ==
    \/ \E t \in Tasks : TaskDone(t) \/ TaskFails(t)
    \/ Queue \/ ProcessJob \/ HandleBulkSend \/ Crash

Spec == Init /\ [][Next]_vars

-----------------------------------------------------------------------------
(* Properties.                                                             *)

\* A mail of which the row or an event says that it failed has no attempt left
\* but the one that is running, also when that one is handed out again after
\* a crash (process: "Update status if max retries reached").
FailedIsLastTry ==
    \A m \in Mails :
        logs[m] = "failed" \/ "failed" \in told[m]
        => jobs[m] = Nil \/ jobs[m].made = jobs[m].attempts - 1
=============================================================================
