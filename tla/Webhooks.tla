------------------------------ MODULE Webhooks ------------------------------
(***************************************************************************)
(* Webhook subscriptions and their deliveries                              *)
(* (src/webhook/webhook.service.ts, webhook.processor.ts).                 *)
(*                                                                         *)
(* An event writes a delivery log and queues a job per active              *)
(* subscription.  A worker takes a job, copies subscription and log, posts *)
(* the payload and updates both rows one statement at a time; the queue    *)
(* (BullMQ, external) gives a failed job its next attempt and hands out a  *)
(* job again when its worker died, but not for ever.                       *)
(***************************************************************************)
EXTENDS Naturals, FiniteSets

CONSTANTS
    Hooks,            \* primary keys of webhook_subscriptions
    Logs,             \* primary keys of webhook_delivery_logs: bounds the deliveries
    Jobs,             \* BullMQ jobs that can exist at once
    Workers,          \* job processors: one per server process
    Requests,         \* slots for events, updates and manual retries
    RetryChoices,     \* values of maxRetries, 1..10 in the code
    DeactivateAfter,  \* 10 in the code
    Faults,           \* what may go wrong, a subset of FaultKinds
    StallLimit,       \* how often the queue hands out the job of a dead worker
                      \* again: maxStalledCount, which nothing sets, 1 by default
    Nil

FaultKinds == {"worker", "database", "request"}

ASSUME RetryAssumption ==
    /\ RetryChoices \subseteq Nat \ {0}
    /\ \E n \in RetryChoices : \A m \in RetryChoices : m <= n
ASSUME DeactivateAssumption == DeactivateAfter \in Nat \ {0}
ASSUME FaultsAssumption == Faults \subseteq FaultKinds
ASSUME StallAssumption == StallLimit \in Nat
ASSUME WorkersAssumption == IsFiniteSet(Workers)

Cap(n, bound) == IF n < bound THEN n ELSE bound

\* Counters are compared with maxRetries and DeactivateAfter only, and stop
\* counting above every bound.
MaxTries == CHOOSE n \in RetryChoices : \A m \in RetryChoices : m <= n
AttemptCap == MaxTries + 1
FailureCap == 2 * DeactivateAfter

Hook == [isActive: BOOLEAN, failedAttempts: 0 .. FailureCap,
         maxRetries: RetryChoices]
Statuses == {"queued", "processing", "success", "failed"}
Log == [hook: Hooks, attempt: 1 .. AttemptCap, status: Statuses]
Job == [log: Logs, attempts: RetryChoices \cup {1}, made: 0 .. MaxTries,
        stalls: 0 .. StallLimit]

ASSUME NilAssumption ==
    Nil \notin Hooks \cup Logs \cup Jobs \cup Hook \cup Log \cup Job

VARIABLES
    hooks,    \* table webhook_subscriptions
    logs,     \* table webhook_delivery_logs
    jobs,     \* the webhook queue: waiting, delayed and active jobs
    workers,  \* what each worker is doing and the copies it holds
    req,      \* the requests in flight
    failures, \* history: tries for a hook that did not succeed
    lost      \* history: deliveries whose job was dropped, or never added,
              \* and whose log has not told and nobody retried since

vars == <<hooks, logs, jobs, workers, req, failures, lost>>

-----------------------------------------------------------------------------
\* What a worker does next: save the log as processing, post, store the
\* answer in the log, count it for the hook; after an error, store it in the
\* log, count it, perhaps deactivate the hook; then leave the job, done or with
\* an error, which the log may not tell ("untold").
WorkerPcs == {"start", "post", "logSuccess", "logFailure", "countSuccess",
              "countFailure", "catchLog", "catchCount", "deactivate",
              "done", "throw", "untold"}
Resting == [pc |-> "idle", job |-> Nil, hook |-> Nil, attempt |-> 1]
Worker == {Resting} \cup [pc: WorkerPcs, job: Jobs, hook: Hook \cup {Nil},
                          attempt: 1 .. AttemptCap]

Idle == [pc |-> "idle", todo |-> {}, log |-> Nil, attempts |-> 1]
Request == [pc: {"idle", "eventLog", "eventAdd", "retryUpdate", "retryAdd"},
            todo: SUBSET (Hooks \X RetryChoices), log: Logs \cup {Nil},
            attempts: RetryChoices \cup {1}]

TypeOK ==
    /\ hooks \in [Hooks -> Hook \cup {Nil}]
    /\ logs \in [Logs -> Log \cup {Nil}]
    /\ jobs \in [Jobs -> Job \cup {Nil}]
    /\ workers \in [Workers -> Worker]
    /\ req \in [Requests -> Request]
    /\ failures \in [Hooks -> 0 .. FailureCap]
    /\ lost \subseteq Logs

Init ==
    /\ hooks = [h \in Hooks |-> Nil]
    /\ logs = [l \in Logs |-> Nil]
    /\ jobs = [j \in Jobs |-> Nil]
    /\ workers = [w \in Workers |-> Resting]
    /\ req = [r \in Requests |-> Idle]
    /\ failures = [h \in Hooks |-> 0]
    /\ lost = {}

-----------------------------------------------------------------------------
Doing(w, pc) == workers[w].pc = pc
Then(w, pc) == workers' = [workers EXCEPT ![w].pc = pc]

-----------------------------------------------------------------------------
(* Mutated forms of definitions below: plausible slips in the code that    *)
(* the properties must notice.  Nothing refers to them.                    *)

\* retryDelivery that resets the status and adds no job.
RetryForgotten(r) ==
    /\ req[r].pc = "retryAdd"
    /\ req' = [req EXCEPT ![r] = Idle]
    /\ UNCHANGED <<hooks, logs, jobs, workers, failures, lost>>

\* A catch that counts the failure and forgets the log.
CatchUnlogged(w) ==
    /\ Doing(w, "catchLog")
    /\ Then(w, "catchCount")
    /\ UNCHANGED <<hooks, logs, jobs, req, failures, lost>>

\* A subscription deactivated whenever a delivery runs out of tries.
ExhaustedAtOnce(copy) == copy.attempt >= copy.hook.maxRetries

-----------------------------------------------------------------------------
(* Steps shared by the operations.                                         *)

At(r, pc) == req[r].pc = pc
Finish(r) == req' = [req EXCEPT ![r] = Idle]

LogOf(w) == jobs[workers[w].job].log
HookOf(w) == logs[LogOf(w)].hook

\* deliveryLogRepository.update(deliveryId, {status}).
SetStatus(l, status) == logs' = [logs EXCEPT ![l].status = status]

\* webhookRepository.update(webhookId, ...): nothing if the row is gone.
UpdateHook(h, new) ==
    hooks' = IF hooks[h] = Nil THEN hooks ELSE [hooks EXCEPT ![h] = new]

OneMore(hook) ==
    [hook EXCEPT !.failedAttempts = Cap(@ + 1, FailureCap)]

Failed(h) == failures' = [failures EXCEPT ![h] = Cap(@ + 1, FailureCap)]

Unsaid == {"queued", "processing"}
Lose(l) == lost' = IF logs[l].status \in Unsaid THEN lost \cup {l} ELSE lost
Told(l) == lost' = lost \ {l}

\* webhookQueue.add('deliver', {log l}, {attempts: n}).
AddJob(l, n) ==
    \E j \in Jobs :
        /\ jobs[j] = Nil
        /\ jobs' = [jobs EXCEPT ![j] = [log |-> l, attempts |-> n, made |-> 0,
                                        stalls |-> 0]]

-----------------------------------------------------------------------------
(* Subscriptions: create, update (which also serves to switch a hook off   *)
(* and on again), remove.                                                  *)

Create(h, n) ==
    /\ hooks[h] = Nil
    /\ \A l \in Logs : logs[l] # Nil => logs[l].hook # h
    /\ \A r \in Requests : \A t \in req[r].todo : t[1] # h
    /\ hooks' = [hooks EXCEPT ![h] =
                    [isActive |-> TRUE, failedAttempts |-> 0, maxRetries |-> n]]
    /\ failures' = [failures EXCEPT ![h] = 0]
    /\ UNCHANGED <<logs, jobs, workers, req, lost>>

Update(h, active, n) ==
    /\ hooks[h] # Nil
    /\ hooks' = [hooks EXCEPT ![h].isActive = active, ![h].maxRetries = n]
    /\ UNCHANGED <<logs, jobs, workers, req, failures, lost>>

Remove(h) ==
    /\ hooks[h] # Nil
    /\ hooks' = [hooks EXCEPT ![h] = Nil]
    /\ UNCHANGED <<logs, jobs, workers, req, failures, lost>>

-----------------------------------------------------------------------------
(* processEvent.                                                           *)

\* find the active subscriptions of the event.
EventRead(r) ==
    /\ At(r, "idle")
    /\ LET found == {h \in Hooks : hooks[h] # Nil /\ hooks[h].isActive}
       IN /\ found # {}
          /\ req' = [req EXCEPT ![r] =
                [pc |-> "eventLog", log |-> Nil, attempts |-> 1,
                 todo |-> {<<h, hooks[h].maxRetries>> : h \in found}]]
    /\ UNCHANGED <<hooks, logs, jobs, workers, failures, lost>>

\* The column attempt has the default 1, and save reads it back.
NewLog(h) == [hook |-> h, attempt |-> 1, status |-> "queued"]

\* save the delivery log of the next subscription.
EventLog(r) ==
    /\ At(r, "eventLog")
    /\ \E t \in req[r].todo, l \in Logs :
          /\ logs[l] = Nil
          /\ logs' = [logs EXCEPT ![l] = NewLog(t[1])]
          /\ req' = [req EXCEPT ![r] =
                [pc |-> "eventAdd", log |-> l, attempts |-> t[2],
                 todo |-> req[r].todo \ {t}]]
    /\ UNCHANGED <<hooks, jobs, workers, failures, lost>>

EventAdd(r) ==
    /\ At(r, "eventAdd")
    /\ AddJob(req[r].log, req[r].attempts)
    /\ IF req[r].todo = {}
       THEN Finish(r)
       ELSE req' = [req EXCEPT ![r] = [pc |-> "eventLog", log |-> Nil,
                                       attempts |-> 1, todo |-> @.todo]]
    /\ UNCHANGED <<hooks, logs, workers, failures, lost>>

-----------------------------------------------------------------------------
(* retryDelivery: only a failed delivery, queued once more.                *)

MayRetry(l) == logs[l].status = "failed"

RetryRead(r, l) ==
    /\ At(r, "idle")
    /\ logs[l] # Nil
    /\ MayRetry(l)
    /\ req' = [req EXCEPT ![r].pc = "retryUpdate", ![r].log = l]
    /\ UNCHANGED <<hooks, logs, jobs, workers, failures, lost>>

RetryUpdate(r) ==
    /\ At(r, "retryUpdate")
    /\ SetStatus(req[r].log, "queued")
    /\ req' = [req EXCEPT ![r].pc = "retryAdd"]
    /\ UNCHANGED <<hooks, jobs, workers, failures, lost>>

RetryAdd(r) ==
    /\ At(r, "retryAdd")
    /\ AddJob(req[r].log, 1)
    /\ Told(req[r].log)
    /\ Finish(r)
    /\ UNCHANGED <<hooks, logs, workers, failures>>

-----------------------------------------------------------------------------
(* deliverWebhook, run by a worker for a job it has taken.                 *)

\* The two findOne; without the subscription (a log is never removed) the
\* delivery throws before it touches anything.
Take(w, j) ==
    /\ Doing(w, "idle")
    /\ jobs[j] # Nil
    /\ \A v \in Workers : workers[v].job # j
    /\ LET log == logs[jobs[j].log]
       IN workers' = [workers EXCEPT ![w] =
             [pc |-> IF hooks[log.hook] = Nil THEN "throw" ELSE "start",
              job |-> j, hook |-> hooks[log.hook], attempt |-> log.attempt]]
    /\ UNCHANGED <<hooks, logs, jobs, req, failures, lost>>

\* status and attempt of the copy, saved.
Start(w) ==
    /\ Doing(w, "start")
    /\ LET n == Cap(workers[w].attempt + 1, AttemptCap)
       IN /\ logs' = [logs EXCEPT ![LogOf(w)].status = "processing",
                                  ![LogOf(w)].attempt = n]
          /\ workers' = [workers EXCEPT ![w].pc = "post", ![w].attempt = n]
    /\ UNCHANGED <<hooks, jobs, req, failures, lost>>

\* The endpoint answers 2xx, or something else, or fetch throws (refused,
\* aborted after webhook.timeout seconds).
Post(w) ==
    /\ Doing(w, "post")
    /\ \/ /\ Then(w, "logSuccess")
          /\ UNCHANGED failures
       \/ /\ \E pc \in {"logFailure", "catchLog"} : Then(w, pc)
          /\ Failed(HookOf(w))
    /\ UNCHANGED <<hooks, logs, jobs, req, lost>>

LogAnswer(w) ==
    \/ /\ Doing(w, "logSuccess")
       /\ SetStatus(LogOf(w), "success") /\ Told(LogOf(w))
       /\ Then(w, "countSuccess")
       /\ UNCHANGED <<hooks, jobs, req, failures>>
    \/ /\ Doing(w, "logFailure")
       /\ SetStatus(LogOf(w), "failed") /\ Told(LogOf(w))
       /\ Then(w, "countFailure")
       /\ UNCHANGED <<hooks, jobs, req, failures>>

CountSuccess(w) ==
    /\ Doing(w, "countSuccess")
    /\ UpdateHook(HookOf(w), [hooks[HookOf(w)] EXCEPT !.failedAttempts = 0])
    /\ Then(w, "done")
    /\ UNCHANGED <<logs, jobs, req, failures, lost>>

\* A non-2xx answer is counted here, then thrown and counted again below.
CountFailure(w) ==
    /\ Doing(w, "countFailure")
    /\ UpdateHook(HookOf(w), OneMore(hooks[HookOf(w)]))
    /\ Then(w, "catchLog")
    /\ UNCHANGED <<logs, jobs, req, failures, lost>>

CatchLog(w) ==
    /\ Doing(w, "catchLog")
    /\ SetStatus(LogOf(w), "failed") /\ Told(LogOf(w))
    /\ Then(w, "catchCount")
    /\ UNCHANGED <<hooks, jobs, req, failures>>

\* attempt and subscription of the worker's copies.
Exhausted(copy) ==
    /\ copy.attempt >= copy.hook.maxRetries
    /\ copy.hook.failedAttempts + 1 >= DeactivateAfter

CatchCount(w) ==
    /\ Doing(w, "catchCount")
    /\ UpdateHook(HookOf(w), OneMore(hooks[HookOf(w)]))
    /\ Then(w, IF Exhausted(workers[w]) THEN "deactivate" ELSE "throw")
    /\ UNCHANGED <<logs, jobs, req, failures, lost>>

Deactivate(w) ==
    /\ Doing(w, "deactivate")
    /\ UpdateHook(HookOf(w), [hooks[HookOf(w)] EXCEPT !.isActive = FALSE])
    /\ Then(w, "throw")
    /\ UNCHANGED <<logs, jobs, req, failures, lost>>

\* BullMQ: a completed job goes, a failed one as well when its attempts are
\* used up, and else it waits for its next attempt.
Leave(w) ==
    LET j == workers[w].job IN
    /\ \/ /\ Doing(w, "done")
          /\ jobs' = [jobs EXCEPT ![j] = Nil]
          /\ UNCHANGED lost
       \/ /\ workers[w].pc \in {"throw", "untold"}
          /\ jobs[j].made + 1 < jobs[j].attempts
          /\ jobs' = [jobs EXCEPT ![j] = [jobs[j] EXCEPT !.made = @ + 1]]
          /\ UNCHANGED lost
       \/ /\ workers[w].pc \in {"throw", "untold"}
          /\ jobs[j].made + 1 >= jobs[j].attempts
          /\ jobs' = [jobs EXCEPT ![j] = Nil]
          /\ IF Doing(w, "untold") THEN Lose(LogOf(w)) ELSE UNCHANGED lost
    /\ workers' = [workers EXCEPT ![w] = Resting]
    /\ UNCHANGED <<hooks, logs, req, failures>>

-----------------------------------------------------------------------------
(* What may go wrong.                                                      *)

\* The queue finds a job whose worker died: it hands it out again, as often as
\* StallLimit says, and then fails it for good.
Stalled(j) ==
    \/ /\ jobs[j].stalls < StallLimit
       /\ jobs' = [jobs EXCEPT ![j] = [jobs[j] EXCEPT !.stalls = @ + 1]]
       /\ UNCHANGED lost
    \/ /\ jobs[j].stalls = StallLimit
       /\ jobs' = [jobs EXCEPT ![j] = Nil]
       /\ Lose(jobs[j].log)

\* A worker's process dies.
Crash(w) ==
    /\ "worker" \in Faults
    /\ ~Doing(w, "idle")
    /\ Stalled(workers[w].job)
    /\ workers' = [workers EXCEPT ![w] = Resting]
    /\ UNCHANGED <<hooks, logs, req, failures>>

\* A statement of the delivery fails: inside the try it is caught like an
\* error of the endpoint, outside it fails the attempt, and the log may not
\* tell.
DatabaseError(w) ==
    /\ "database" \in Faults
    /\ \/ /\ workers[w].pc \in {"logSuccess", "countSuccess"}
          /\ Then(w, "catchLog")
          /\ Failed(HookOf(w))
       \/ /\ workers[w].pc \in {"logFailure", "countFailure"}
          /\ Then(w, "catchLog")
          /\ UNCHANGED failures
       \/ /\ workers[w].pc \in {"start", "catchLog"}
          /\ Then(w, "untold")
          /\ UNCHANGED failures
       \/ /\ workers[w].pc \in {"catchCount", "deactivate"}
          /\ Then(w, "throw")
          /\ UNCHANGED failures
    /\ UNCHANGED <<hooks, logs, jobs, req, lost>>

\* A request fails or its process dies between two awaits: a log it has saved
\* or reset gets no job (and the rest of an event's subscriptions no log).
Abort(r) ==
    /\ "request" \in Faults
    /\ ~At(r, "idle")
    /\ IF req[r].pc \in {"eventAdd", "retryAdd"}
       THEN Lose(req[r].log) ELSE UNCHANGED lost
    /\ Finish(r)
    /\ UNCHANGED <<hooks, logs, jobs, workers, failures>>

-----------------------------------------------------------------------------
Deliver(w) ==
    \/ Start(w) \/ Post(w) \/ LogAnswer(w) \/ CountSuccess(w)
    \/ CountFailure(w) \/ CatchLog(w) \/ CatchCount(w) \/ Deactivate(w)
    \/ Leave(w)

Serve(r) == EventLog(r) \/ EventAdd(r) \/ RetryUpdate(r) \/ RetryAdd(r)

\* The routes of WebhookController that write; the others only read.
CreateWebhook(h) == \E n \in RetryChoices : Create(h, n)
ChangeWebhook(h) ==
    Remove(h) \/ \E n \in RetryChoices, active \in BOOLEAN : Update(h, active, n)
RetryDelivery(r) == \E l \in Logs : RetryRead(r, l)

Next ==
    \/ \E h \in Hooks : CreateWebhook(h) \/ ChangeWebhook(h)
    \/ \E r \in Requests : EventRead(r) \/ RetryDelivery(r) \/ Serve(r) \/ Abort(r)
    \/ \E w \in Workers :
          \/ Deliver(w) \/ Crash(w) \/ DatabaseError(w)
          \/ \E j \in Jobs : Take(w, j)

Spec == Init /\ [][Next]_vars

\* A request or worker that can go on does, and the queue passes over no job
\* for ever.  Nobody has to send events, change subscriptions or retry, and
\* workers may die at any time.
\* (Adding a job never waits in the code; here it waits while Jobs is used
\* up, hence the strong fairness of requests.)
Fairness ==
    /\ \A r \in Requests : SF_vars(Serve(r))
    /\ \A w \in Workers : WF_vars(Deliver(w))
    /\ \A j \in Jobs : SF_vars(\E w \in Workers : Take(w, j))

FairSpec == Spec /\ Fairness

-----------------------------------------------------------------------------
(* Properties.                                                             *)

HasJob(l) ==
    \/ \E j \in Jobs : jobs[j] # Nil /\ jobs[j].log = l
    \/ \E r \in Requests : req[r].log = l /\ req[r].pc \in {"eventAdd", "retryAdd"}

Unsettled(l) ==
    /\ logs[l] # Nil
    /\ logs[l].status \in Unsaid
    /\ hooks[logs[l].hook] # Nil

\* A delivery that says queued or processing has a job that will settle it,
\* or a request about to add one, or it is lost in one of the three ways the
\* code leaves open: its request failed before the job was added, a worker
\* died once too often, or a last attempt could not store its error
\* (processEvent, retryDelivery, deliverWebhook).
UnsettledHasJob == \A l \in Logs : Unsettled(l) => HasJob(l) \/ l \in lost

\* A subscription is deactivated by deliveries only after at least half as
\* many failed tries as the threshold says (a try may count twice).
FailuresBehindDeactivation ==
    \A w \in Workers :
        Doing(w, "deactivate") => 2 * failures[HookOf(w)] > DeactivateAfter

\* Every queued delivery is eventually answered for, unless its
\* subscription is removed or it is lost as above, however often workers die.
DeliveriesSettle ==
    \A l \in Logs :
        logs[l] # Nil /\ logs[l].status = "queued"
        ~> /\ logs[l] # Nil
           /\ \/ logs[l].status \in {"success", "failed"}
              \/ hooks[logs[l].hook] = Nil
              \/ l \in lost
=============================================================================
