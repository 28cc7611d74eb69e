---------------------------- MODULE EmailDelivery ----------------------------
(***************************************************************************)
(* The mail queue (src/email/email.service.ts, email.queue.ts and the      *)
(* tracking pixel of email.controller.ts).                                 *)
(*                                                                         *)
(* queueEmail writes a log row and adds one job.  Each server process has  *)
(* one worker, which counts what it has sent in an hour, renders a mail,   *)
(* hands it to the SMTP server and updates the row one statement at a      *)
(* time; the queue (BullMQ, external) gives a failed job its next attempt  *)
(* and hands out a job again when its worker died, but not for ever.       *)
(***************************************************************************)
EXTENDS Naturals

CONSTANTS
    Mails,        \* email ids: bounds the mails that are ever queued
    NoTemplate,   \* mails whose template may exist nowhere when it is needed
    NoPartial,    \* the same, with "partial" in the template's name
    Workers,      \* job processors: one per server process
    Attempts,     \* 3 in the code
    FirstLimit,   \* mails an hour of a new process, 100 in the code
    LimitStep,    \* and how it grows each hour, 50
    LastLimit,    \* up to, 500
    Faults,       \* what may go wrong, a subset of FaultKinds
    StallLimit,   \* how often the queue hands out the job of a dead worker
                  \* again: maxStalledCount, which nothing sets, 1 by default
    Nil

\* The members of EmailStatus that the code ever writes.
Statuses == {"pending", "processing", "sent", "opened", "failed"}

FaultKinds == {"worker", "database", "answer", "request"}

ASSUME TemplateAssumption == NoPartial \subseteq Mails /\ NoTemplate \subseteq Mails
ASSUME AttemptsAssumption == Attempts \in Nat \ {0}
ASSUME LimitAssumption ==
    /\ FirstLimit \in Nat \ {0} /\ LimitStep \in Nat /\ LastLimit \in Nat
    /\ FirstLimit <= LastLimit
ASSUME FaultsAssumption == Faults \subseteq FaultKinds
ASSUME StallAssumption == StallLimit \in Nat
ASSUME NilAssumption == Nil \notin Mails \cup Nat \cup Statuses

VARIABLES
    logs,     \* table email_logs: the status of each mail's row
    adding,   \* mails whose request has saved the row and not added the job
    jobs,     \* the email queue: the attempts each mail's job has made
    workers,  \* what each worker is doing, and for which mail
    rate,     \* the worker's own counter and limit, and whether an hour is over
    stalls,   \* the email queue: how often a job's worker has died
    posted,   \* history: how often the SMTP server accepted a mail
    window,   \* history: mails it accepted from a worker since the last reset
    missed,   \* history: those the worker did not count
    lost      \* history: mails dropped by an event that their rows do not tell

vars == <<logs, adding, jobs, workers, rate, stalls, posted, window, missed, lost>>

-----------------------------------------------------------------------------
\* The history counters stop one above what they are compared with.
PostedCap == Attempts + StallLimit + 1
WindowCap == LastLimit + 1

\* What a worker does next: delay the job; or mark the row processing, render
\* (again, after it registered the partials), send, mark the row sent, or
\* failed after an error; then leave the job, done or with an error, which the
\* row may not tell ("untold").
WorkerPcs == {"move", "mark", "compile", "recover", "send", "markSent",
              "catch", "done", "throw", "untold"}
Resting == [pc |-> "idle", mail |-> Nil]
Started == [sent |-> 0, limit |-> FirstLimit, due |-> FALSE]

TypeOK ==
    /\ logs \in [Mails -> Statuses \cup {Nil}]
    /\ adding \subseteq Mails
    /\ jobs \in [Mails -> (0 .. Attempts - 1) \cup {Nil}]
    /\ workers \in [Workers -> {Resting} \cup [pc: WorkerPcs, mail: Mails]]
    /\ rate \in [Workers -> [sent: 0 .. LastLimit, limit: 1 .. LastLimit,
                             due: BOOLEAN]]
    /\ stalls \in [Mails -> 0 .. StallLimit]
    /\ posted \in [Mails -> 0 .. PostedCap]
    /\ window \in [Workers -> 0 .. WindowCap]
    /\ missed \in [Workers -> 0 .. WindowCap]
    /\ lost \subseteq Mails

Init ==
    /\ logs = [m \in Mails |-> Nil]
    /\ adding = {}
    /\ jobs = [m \in Mails |-> Nil]
    /\ workers = [w \in Workers |-> Resting]
    /\ rate = [w \in Workers |-> Started]
    /\ stalls = [m \in Mails |-> 0]
    /\ posted = [m \in Mails |-> 0]
    /\ window = [w \in Workers |-> 0]
    /\ missed = [w \in Workers |-> 0]
    /\ lost = {}

-----------------------------------------------------------------------------
(* Mutated forms of definitions below: plausible slips in the code that    *)
(* the properties must notice.  Nothing refers to them.                    *)

\* A limit that counts one mail too many.
AboveLimit(now) == now.sent > now.limit

\* An error that is logged and swallowed.
CatchSwallowed(w) ==
    /\ workers[w].pc = "catch"
    /\ workers' = [workers EXCEPT ![w].pc = "done"]
    /\ UNCHANGED <<logs, adding, jobs, rate, stalls, posted, window, missed, lost>>

\* An error that is logged and rethrown, the row left as it is.
CatchLogged(w) ==
    /\ workers[w].pc = "catch"
    /\ workers' = [workers EXCEPT ![w].pc = "throw"]
    /\ UNCHANGED <<logs, adding, jobs, rate, stalls, posted, window, missed, lost>>

\* A job completed when the mail is handed over, before the row is updated.
SendAndComplete(w) ==
    /\ workers[w].pc = "send"
    /\ workers' = [workers EXCEPT ![w].pc = "markSent"]
    /\ jobs' = [jobs EXCEPT ![workers[w].mail] = Nil]
    /\ posted' = [posted EXCEPT ![workers[w].mail] = 1]
    /\ UNCHANGED <<logs, adding, rate, stalls, window, missed, lost>>

\* One attempt more than the job's options say.
OneMoreAttempt(m) == jobs[m] + 1 <= Attempts

-----------------------------------------------------------------------------
(* Steps shared by the operations.                                         *)

Doing(w, pc) == workers[w].pc = pc
Then(w, pc) == workers' = [workers EXCEPT ![w].pc = pc]
MailOf(w) == workers[w].mail
Rest(w) == workers' = [workers EXCEPT ![w] = Resting]

\* emailLogRepository.update({ emailId }, { status }).
SetStatus(m, status) == logs' = [logs EXCEPT ![m] = status]

Smaller(a, b) == IF a < b THEN a ELSE b

Histories == UNCHANGED <<posted, window, missed, lost>>

-----------------------------------------------------------------------------
(* queueEmail.                                                             *)

QueueLog(m) ==
    /\ logs[m] = Nil
    /\ SetStatus(m, "pending")
    /\ adding' = adding \cup {m}
    /\ UNCHANGED <<jobs, workers, rate, stalls>> /\ Histories

QueueAdd(m) ==
    /\ m \in adding
    /\ adding' = adding \ {m}
    /\ jobs' = [jobs EXCEPT ![m] = 0]
    /\ UNCHANGED <<logs, workers, rate, stalls>> /\ Histories

-----------------------------------------------------------------------------
(* EmailQueue.process: up to its first await it runs without interruption. *)

AnHourOver(w) == rate[w].due

\* The counter and limit the worker goes by: a new hour starts a new count.
RateNow(w) ==
    IF AnHourOver(w)
    THEN [sent |-> 0, limit |-> Smaller(rate[w].limit + LimitStep, LastLimit),
          due |-> FALSE]
    ELSE rate[w]

AtLimit(now) == now.sent >= now.limit

Take(w, m) ==
    /\ Doing(w, "idle")
    /\ jobs[m] # Nil
    /\ \A v \in Workers : MailOf(v) # m
    /\ rate' = [rate EXCEPT ![w] = RateNow(w)]
    /\ window' = [window EXCEPT ![w] = IF AnHourOver(w) THEN 0 ELSE @]
    /\ missed' = [missed EXCEPT ![w] = IF AnHourOver(w) THEN 0 ELSE @]
    /\ workers' = [workers EXCEPT ![w] =
          [pc |-> IF AtLimit(RateNow(w)) THEN "move" ELSE "mark", mail |-> m]]
    /\ UNCHANGED <<logs, adding, jobs, stalls, posted, lost>>

\* job.moveToDelayed without the token the worker holds the job by: the queue
\* refuses, and the error fails the attempt.
Move(w) ==
    /\ Doing(w, "move")
    /\ Then(w, "untold")
    /\ UNCHANGED <<logs, adding, jobs, rate, stalls>> /\ Histories

\* An hour has passed since the worker's last reset.
Hour(w) ==
    /\ ~rate[w].due
    /\ rate' = [rate EXCEPT ![w].due = TRUE]
    /\ UNCHANGED <<logs, adding, jobs, workers, stalls>> /\ Histories

-----------------------------------------------------------------------------
(* processQueuedEmail.                                                     *)

MarkProcessing(w) ==
    /\ Doing(w, "mark")
    /\ SetStatus(MailOf(w), "processing")
    /\ Then(w, "compile")
    /\ UNCHANGED <<adding, jobs, rate, stalls>> /\ Histories

\* compileTemplate: its error for a missing template is taken for a missing
\* partial when the template's name says so.
Compile(w) ==
    /\ Doing(w, "compile")
    /\ \/ Then(w, "send")
       \/ MailOf(w) \in NoPartial /\ Then(w, "recover")
       \/ MailOf(w) \in NoTemplate /\ Then(w, "catch")
    /\ UNCHANGED <<logs, adding, jobs, rate, stalls>> /\ Histories

\* registerPartials, which swallows its errors; then compileTemplate again.
Recover(w) ==
    /\ Doing(w, "recover")
    /\ Then(w, "compile")
    /\ UNCHANGED <<logs, adding, jobs, rate, stalls>> /\ Histories

\* The SMTP server accepted the mail.
Accepted(w) ==
    /\ posted' = [posted EXCEPT ![MailOf(w)] = Smaller(@ + 1, PostedCap)]
    /\ window' = [window EXCEPT ![w] = Smaller(@ + 1, WindowCap)]

Missed(w) == missed' = [missed EXCEPT ![w] = Smaller(@ + 1, WindowCap)]

\* transporter.sendMail: accepted or not; or accepted, and the answer lost.
Send(w) ==
    /\ Doing(w, "send")
    /\ \/ Then(w, "catch") /\ UNCHANGED <<posted, window, missed>>
       \/ Then(w, "markSent") /\ Accepted(w) /\ UNCHANGED missed
       \/ "answer" \in Faults /\ Then(w, "catch") /\ Accepted(w) /\ Missed(w)
    /\ UNCHANGED <<logs, adding, jobs, rate, stalls, lost>>

\* The row, and back in process() without another await the counter.
MarkSent(w) ==
    /\ Doing(w, "markSent")
    /\ SetStatus(MailOf(w), "sent")
    /\ rate' = [rate EXCEPT ![w].sent = @ + 1]
    /\ Then(w, "done")
    /\ UNCHANGED <<adding, jobs, stalls>> /\ Histories

Catch(w) ==
    /\ Doing(w, "catch")
    /\ SetStatus(MailOf(w), "failed")
    /\ Then(w, "throw")
    /\ UNCHANGED <<adding, jobs, rate, stalls>> /\ Histories

AttemptsLeft(m) == jobs[m] + 1 < Attempts

\* BullMQ: a completed job goes, a failed one as well when its attempts are
\* used up, and else it waits for its next attempt.
Leave(w) ==
    LET m == MailOf(w) IN
    /\ \/ /\ Doing(w, "done")
          /\ jobs' = [jobs EXCEPT ![m] = Nil]
       \/ /\ workers[w].pc \in {"throw", "untold"}
          /\ jobs' = [jobs EXCEPT ![m] = IF AttemptsLeft(m) THEN @ + 1 ELSE Nil]
    /\ lost' = IF Doing(w, "untold") /\ ~AttemptsLeft(m) THEN lost \cup {m} ELSE lost
    /\ Rest(w)
    /\ UNCHANGED <<logs, adding, rate, stalls, posted, window, missed>>

-----------------------------------------------------------------------------
\* trackOpen: the tracking pixel of a mail that reached its reader.
Open(m) ==
    /\ posted[m] > 0
    /\ SetStatus(m, "opened")
    /\ UNCHANGED <<adding, jobs, workers, rate, stalls>> /\ Histories

-----------------------------------------------------------------------------
(* What may go wrong.                                                      *)

\* The queue finds a job whose worker died: it hands it out again, as often as
\* StallLimit says, and then fails it for good.
Stalled(m) ==
    \/ /\ stalls[m] < StallLimit
       /\ stalls' = [stalls EXCEPT ![m] = @ + 1]
       /\ UNCHANGED <<jobs, lost>>
    \/ /\ stalls[m] = StallLimit
       /\ jobs' = [jobs EXCEPT ![m] = Nil]
       /\ lost' = lost \cup {m}
       /\ UNCHANGED stalls

\* A worker's process dies and starts again: its counter and limit are lost.
Crash(w) ==
    /\ "worker" \in Faults
    /\ IF Doing(w, "idle") THEN UNCHANGED <<jobs, stalls, lost>> ELSE Stalled(MailOf(w))
    /\ Rest(w)
    /\ rate' = [rate EXCEPT ![w] = Started]
    /\ window' = [window EXCEPT ![w] = 0]
    /\ missed' = [missed EXCEPT ![w] = 0]
    /\ UNCHANGED <<logs, adding, posted>>

\* A statement fails: inside the try it is caught like an error of the SMTP
\* server (a mail that was sent is not counted), the update in the catch is not.
DatabaseError(w) ==
    /\ "database" \in Faults
    /\ \/ workers[w].pc \in {"mark", "compile"} /\ Then(w, "catch") /\ UNCHANGED missed
       \/ Doing(w, "markSent") /\ Then(w, "catch") /\ Missed(w)
       \/ Doing(w, "catch") /\ Then(w, "untold") /\ UNCHANGED missed
    /\ UNCHANGED <<logs, adding, jobs, rate, stalls, posted, window, lost>>

\* queueEmail fails, or its process dies, after the row is saved.
Abort(m) ==
    /\ "request" \in Faults
    /\ m \in adding
    /\ adding' = adding \ {m}
    /\ lost' = lost \cup {m}
    /\ UNCHANGED <<logs, jobs, workers, rate, stalls, posted, window, missed>>

-----------------------------------------------------------------------------
Deliver(w) ==
    \/ Move(w) \/ MarkProcessing(w) \/ Compile(w) \/ Recover(w) \/ Send(w)
    \/ MarkSent(w) \/ Catch(w) \/ Leave(w)

Next ==
    \/ \E m \in Mails : QueueLog(m) \/ QueueAdd(m) \/ Open(m) \/ Abort(m)
    \/ \E w \in Workers :
          \/ Deliver(w) \/ Hour(w) \/ Crash(w) \/ DatabaseError(w)
          \/ \E m \in Mails : Take(w, m)

Spec == Init /\ [][Next]_vars

\* A request or worker that can go on does, and the queue passes over no job
\* for ever.  Nobody has to queue or open a mail, no hour has to pass, and
\* workers may die at any time.
Fairness ==
    /\ \A m \in Mails : WF_vars(QueueAdd(m)) /\ SF_vars(\E w \in Workers : Take(w, m))
    /\ \A w \in Workers : WF_vars(Deliver(w))

FairSpec == Spec /\ Fairness

-----------------------------------------------------------------------------
(* Properties.                                                             *)

HasJob(m) == jobs[m] # Nil \/ m \in adding

\* A mail whose row says pending or processing has a job that will settle it,
\* or a request about to add one, or it is lost in one of the four ways the
\* code leaves open: its request failed before the job was added, its worker
\* died once too often, or its last attempt was turned away at the limit or
\* could not store its error (queueEmail, EmailQueue.process,
\* processQueuedEmail).
UnsettledHasJob ==
    \A m \in Mails :
        logs[m] \in {"pending", "processing"} => HasJob(m) \/ m \in lost

\* Between two resets of its counter a worker has handed no more mails to the
\* SMTP server than its limit says, but for those that were sent although
\* their attempt failed, which it does not count (EmailQueue.process).
PostedWithinLimit == \A w \in Workers : window[w] <= rate[w].limit + missed[w]

\* However its attempts end, a mail is sent at most once for each attempt and
\* each time the queue hands out its job again after a worker has died.
PostedAtMostAttempts == \A m \in Mails : posted[m] <= Attempts + StallLimit

\* A mail that was opened stays opened once the queue is done with it: no
\* late update of a worker is left that could overwrite the reader's.
OpenedIsFinal ==
    [][\A m \in Mails :
          logs[m] = "opened" /\ jobs[m] = Nil => logs'[m] = "opened"]_vars

\* Every queued mail is one day done with: the queue has dropped its job and
\* its row says how it ended, or it is lost as above.  Only a worker that
\* recovers from a missing partial again and again can stand in the way.
Settled(m) ==
    ~HasJob(m) /\ (logs[m] \in {"sent", "failed", "opened"} \/ m \in lost)

MailsSettle ==
    \/ []<>(\E w \in Workers : Doing(w, "recover"))
    \/ \A m \in Mails : logs[m] = "pending" ~> Settled(m)
=============================================================================
