--------------------------- MODULE WebhooksProofs ---------------------------
(***************************************************************************)
(* No delivery is forgotten but in the ways that Lose names, for any       *)
(* number of subscriptions, deliveries, jobs, workers and requests.        *)
(*                                                                         *)
(* A delivery may have several jobs (a manual retry adds one), each with a *)
(* worker of its own that overwrites the status.  What survives is that an *)
(* unsettled delivery has a job whose worker, if it has one, has still to  *)
(* write the status.  The second part is about the failures that are       *)
(* behind a deactivation.                                                  *)
(***************************************************************************)
EXTENDS Webhooks, FiniteSetTheorems, TLAPS

\* Rows, jobs and slots refer to what is there; a job has one worker.
RefersToRows ==
    /\ \A j \in Jobs : jobs[j] # Nil => logs[jobs[j].log] # Nil
    /\ \A r \in Requests :
          /\ req[r].log # Nil => logs[req[r].log] # Nil
          /\ req[r].pc \in {"eventAdd", "retryUpdate", "retryAdd"} => req[r].log # Nil
    /\ \A w \in Workers : ~Doing(w, "idle") => jobs[workers[w].job] # Nil
    /\ \A v, w \in Workers :
          ~Doing(v, "idle") /\ workers[v].job = workers[w].job => v = w

\* Where a worker has still to write the status of its delivery, or leaves it
\* to the job's next attempt.
BeforeStatus == {"start", "post", "logSuccess", "logFailure", "countFailure", "catchLog",
                 "untold"}

\* The job is waiting, or its worker will write the status.
WillSettle(j) ==
    /\ jobs[j] # Nil
    /\ \A w \in Workers : workers[w].job = j => workers[w].pc \in BeforeStatus

Covered(l) ==
    \/ \E j \in Jobs : WillSettle(j) /\ jobs[j].log = l
    \/ \E r \in Requests : req[r].log = l /\ req[r].pc \in {"eventAdd", "retryAdd"}

UnsettledCovered == \A l \in Logs : Unsettled(l) => Covered(l) \/ l \in lost

IInv == TypeOK /\ RefersToRows /\ UnsettledCovered

-----------------------------------------------------------------------------
(* Types.                                                                  *)

LEMMA Bounds ==
    /\ MaxTries \in RetryChoices /\ \A n \in RetryChoices : n <= MaxTries
    /\ MaxTries \in Nat \ {0} /\ AttemptCap \in Nat /\ FailureCap \in Nat
<1>1. MaxTries \in RetryChoices /\ \A n \in RetryChoices : n <= MaxTries
    BY RetryAssumption DEF MaxTries
<1>2. QED BY <1>1, RetryAssumption, DeactivateAssumption DEF AttemptCap, FailureCap

LEMMA CapTyped ==
    /\ \A n \in 0 .. FailureCap : Cap(n + 1, FailureCap) \in 0 .. FailureCap
    /\ \A n \in 1 .. AttemptCap : Cap(n + 1, AttemptCap) \in 1 .. AttemptCap
BY Bounds DEF Cap, AttemptCap

LEMMA InitTyped == Init => TypeOK
<1>1. 0 \in 0 .. FailureCap
    BY Bounds
<1>2. Resting \in Worker
    BY DEF Worker
<1>3. Idle \in Request
    BY DEF Idle, Request
<1>4. QED BY <1>1, <1>2, <1>3 DEF Init, TypeOK

\* What a worker holds.
LEMMA WorkerTyped ==
    ASSUME TypeOK, NEW w \in Workers, ~Doing(w, "idle")
    PROVE  /\ workers[w] = [pc |-> workers[w].pc, job |-> workers[w].job,
                            hook |-> workers[w].hook, attempt |-> workers[w].attempt]
           /\ workers[w].pc \in WorkerPcs /\ workers[w].job \in Jobs
           /\ workers[w].hook \in Hook \cup {Nil}
           /\ workers[w].attempt \in 1 .. AttemptCap
BY DEF TypeOK, Worker, Resting, Doing

\* The worker goes on with its job.
LEMMA ThenTyped ==
    ASSUME TypeOK, NEW w \in Workers, ~Doing(w, "idle"), NEW pc \in WorkerPcs,
           Then(w, pc)
    PROVE  /\ workers' \in [Workers -> Worker]
           /\ workers'[w].pc = pc /\ workers'[w].job = workers[w].job
           /\ \A v \in Workers \ {w} : workers'[v] = workers[v]
<1> DEFINE new == [pc |-> pc, job |-> workers[w].job,
                   hook |-> workers[w].hook, attempt |-> workers[w].attempt]
<1>1. [workers[w] EXCEPT !.pc = pc] = new /\ new \in Worker
    <2>1. workers[w] = [pc |-> workers[w].pc, job |-> workers[w].job,
                        hook |-> workers[w].hook, attempt |-> workers[w].attempt]
        BY WorkerTyped
    <2>2. [workers[w] EXCEPT !.pc = pc] = new
        BY <2>1
    <2>3. new \in Worker
        BY WorkerTyped DEF Worker
    <2>4. QED BY <2>2, <2>3
<1>2. workers' = [workers EXCEPT ![w] = new]
    BY <1>1 DEF Then
<1>3. new.pc = pc /\ new.job = workers[w].job
    OBVIOUS
<1> HIDE DEF new
<1>4. QED BY <1>1, <1>2, <1>3 DEF TypeOK

\* The worker gives its job back.
LEMMA RestTyped ==
    ASSUME TypeOK, NEW w \in Workers, workers' = [workers EXCEPT ![w] = Resting]
    PROVE  /\ workers' \in [Workers -> Worker]
           /\ workers'[w].pc = "idle" /\ workers'[w].job = Nil
           /\ \A v \in Workers \ {w} : workers'[v] = workers[v]
BY DEF TypeOK, Worker, Resting

LEMMA StatusTyped ==
    ASSUME TypeOK, NEW l \in Logs, logs[l] # Nil, NEW s \in Statuses, SetStatus(l, s)
    PROVE  /\ logs' \in [Logs -> Log \cup {Nil}]
           /\ logs'[l].status = s /\ logs'[l].hook = logs[l].hook /\ logs'[l] # Nil
           /\ \A k \in Logs \ {l} : logs'[k] = logs[k]
<1>1. logs[l] \in Log
    BY DEF TypeOK
<1>2. [logs[l] EXCEPT !.status = s] \in Log
    BY <1>1 DEF Log
<1>3. logs' = [logs EXCEPT ![l] = [logs[l] EXCEPT !.status = s]]
    BY DEF SetStatus
<1>4. logs'[l] = [logs[l] EXCEPT !.status = s]
    BY <1>3 DEF TypeOK
<1>5. QED BY <1>1, <1>2, <1>3, <1>4, NilAssumption DEF TypeOK, Log

\* An update of a subscription keeps it, or keeps it away.
LEMMA HookTyped ==
    ASSUME TypeOK, NEW h \in Hooks, NEW new, hooks[h] # Nil => new \in Hook,
           UpdateHook(h, new)
    PROVE  /\ hooks' \in [Hooks -> Hook \cup {Nil}]
           /\ \A k \in Hooks : (hooks'[k] = Nil) <=> (hooks[k] = Nil)
BY NilAssumption DEF TypeOK, UpdateHook

LEMMA FailedTyped ==
    ASSUME TypeOK, NEW h \in Hooks, Failed(h)
    PROVE  failures' \in [Hooks -> 0 .. FailureCap]
BY CapTyped DEF TypeOK, Failed

LEMMA AddTyped ==
    ASSUME TypeOK, NEW l \in Logs, NEW n \in RetryChoices \cup {1}, AddJob(l, n)
    PROVE  /\ jobs' \in [Jobs -> Job \cup {Nil}]
           /\ \E j \in Jobs : /\ jobs[j] = Nil /\ jobs'[j] # Nil /\ jobs'[j].log = l
                              /\ \A i \in Jobs \ {j} : jobs'[i] = jobs[i]
<1> DEFINE new == [log |-> l, attempts |-> n, made |-> 0, stalls |-> 0]
<1>1. new \in Job /\ new.log = l
    BY Bounds, StallAssumption DEF Job
<1>2. PICK j \in Jobs : jobs[j] = Nil /\ jobs' = [jobs EXCEPT ![j] = new]
    BY DEF AddJob
<1> HIDE DEF new
<1>3. QED BY <1>1, <1>2, NilAssumption DEF TypeOK

\* The subscription and the delivery of a worker's job.
LEMMA DeliveryTyped ==
    ASSUME TypeOK, RefersToRows, NEW w \in Workers, ~Doing(w, "idle")
    PROVE  /\ workers[w].job \in Jobs /\ jobs[workers[w].job] \in Job
           /\ LogOf(w) \in Logs /\ logs[LogOf(w)] \in Log
           /\ HookOf(w) \in Hooks
           /\ hooks[HookOf(w)] # Nil => hooks[HookOf(w)] \in Hook
BY WorkerTyped DEF TypeOK, RefersToRows, LogOf, HookOf, Job, Log

LEMMA HookValues ==
    ASSUME NEW h \in Hook, NEW active \in BOOLEAN, NEW n \in RetryChoices
    PROVE  /\ OneMore(h) \in Hook
           /\ [h EXCEPT !.failedAttempts = 0] \in Hook
           /\ [h EXCEPT !.isActive = active] \in Hook
           /\ [isActive |-> TRUE, failedAttempts |-> 0, maxRetries |-> n] \in Hook
<1>1. 0 \in 0 .. FailureCap
    BY Bounds
<1>2. Cap(h.failedAttempts + 1, FailureCap) \in 0 .. FailureCap
    BY CapTyped DEF Hook
<1>3. QED BY <1>1, <1>2 DEF Hook, OneMore

-----------------------------------------------------------------------------
(* Types and references of each step.                                      *)

\* Workers keep their jobs or give them back, and no job they hold vanishes.
LEMMA RefsKept ==
    ASSUME TypeOK, RefersToRows,
           \A l \in Logs : logs[l] # Nil => logs'[l] # Nil,
           \A j \in Jobs : jobs'[j] # Nil =>
               \/ jobs[j] # Nil /\ jobs'[j].log = jobs[j].log
               \/ logs[jobs'[j].log] # Nil /\ jobs'[j].log \in Logs,
           \A w \in Workers :
               \/ workers'[w].pc = "idle" /\ workers'[w].job = Nil
               \/ /\ ~Doing(w, "idle") /\ workers'[w].job = workers[w].job
                  /\ jobs'[workers[w].job] # Nil,
           \A r \in Requests :
               \/ req'[r].log = Nil
                  /\ req'[r].pc \notin {"eventAdd", "retryUpdate", "retryAdd"}
               \/ req'[r].log \in Logs /\ logs'[req'[r].log] # Nil
    PROVE  RefersToRows'
<1>1. \A j \in Jobs : jobs'[j] # Nil => logs'[jobs'[j].log] # Nil
    BY DEF RefersToRows, TypeOK, Job
<1>2. \A r \in Requests :
          /\ req'[r].log # Nil => logs'[req'[r].log] # Nil
          /\ req'[r].pc \in {"eventAdd", "retryUpdate", "retryAdd"} => req'[r].log # Nil
    BY NilAssumption
<1>3. \A w \in Workers : workers'[w].pc # "idle" => jobs'[workers'[w].job] # Nil
    OBVIOUS
<1>4. ASSUME NEW v \in Workers, NEW w \in Workers, workers'[v].pc # "idle",
             workers'[v].job = workers'[w].job
      PROVE  v = w
    <2>1. ~Doing(v, "idle") /\ workers'[v].job = workers[v].job /\ workers[v].job \in Jobs
        BY <1>4, WorkerTyped
    <2>2. workers'[w].job # Nil
        BY <1>4, <2>1, NilAssumption
    <2>3. workers'[w].job = workers[w].job
        BY <2>2
    <2>4. QED BY <1>4, <2>1, <2>3 DEF RefersToRows
<1>5. QED BY <1>1, <1>2, <1>3, <1>4 DEF RefersToRows, Doing

\* What the requests hold.
LEMMA RequestTyped ==
    ASSUME TypeOK, RefersToRows, NEW r \in Requests
    PROVE  /\ req[r] = [pc |-> req[r].pc, todo |-> req[r].todo, log |-> req[r].log,
                        attempts |-> req[r].attempts]
           /\ req[r].todo \in SUBSET (Hooks \X RetryChoices)
           /\ req[r].log \in Logs \cup {Nil} /\ req[r].attempts \in RetryChoices \cup {1}
           /\ \/ req[r].log = Nil
                 /\ req[r].pc \notin {"eventAdd", "retryUpdate", "retryAdd"}
              \/ req[r].log \in Logs /\ logs[req[r].log] # Nil
BY DEF TypeOK, Request, RefersToRows

\* Steps of the workers that move no job.
LEMMA WorkerStep ==
    ASSUME TypeOK, RefersToRows, NEW w \in Workers,
           \/ Start(w) \/ Post(w) \/ LogAnswer(w) \/ CountSuccess(w)
           \/ CountFailure(w) \/ CatchLog(w) \/ CatchCount(w) \/ Deactivate(w)
           \/ DatabaseError(w)
    PROVE  /\ TypeOK' /\ RefersToRows' /\ UNCHANGED <<jobs, req>>
           /\ ~Doing(w, "idle")
           /\ workers'[w].pc \in WorkerPcs /\ workers'[w].job = workers[w].job
           /\ \A v \in Workers \ {w} : workers'[v] = workers[v]
           /\ \A h \in Hooks : hooks'[h] = Nil <=> hooks[h] = Nil
           /\ \A l \in Logs : logs[l] # Nil => logs'[l] # Nil
           /\ lost' = lost \/ lost' = lost \ {LogOf(w)}
<1>0. ~Doing(w, "idle")
    BY DEF Start, Post, LogAnswer, CountSuccess, CountFailure, CatchLog, CatchCount,
           Deactivate, DatabaseError, Doing
<1>1. /\ LogOf(w) \in Logs /\ logs[LogOf(w)] \in Log /\ HookOf(w) \in Hooks
      /\ logs[LogOf(w)] # Nil
      /\ hooks[HookOf(w)] # Nil => hooks[HookOf(w)] \in Hook
      /\ workers[w].job \in Jobs /\ jobs[workers[w].job] # Nil
    BY <1>0, DeliveryTyped, NilAssumption
<1>2. UNCHANGED <<jobs, req>>
    BY DEF Start, Post, LogAnswer, CountSuccess, CountFailure, CatchLog, CatchCount,
           Deactivate, DatabaseError
<1>3. /\ workers' \in [Workers -> Worker]
      /\ workers'[w].pc \in WorkerPcs /\ workers'[w].job = workers[w].job
      /\ \A v \in Workers \ {w} : workers'[v] = workers[v]
    <2>1. CASE Start(w)
        <3> DEFINE n == Cap(workers[w].attempt + 1, AttemptCap)
                   new == [workers[w] EXCEPT !.pc = "post", !.attempt = n]
        <3>1. n \in 1 .. AttemptCap
            BY <1>0, WorkerTyped, CapTyped
        <3>2. workers' = [workers EXCEPT ![w].pc = "post", ![w].attempt = n]
            BY <2>1 DEF Start
        <3> HIDE DEF n
        <3>3. workers[w] \in [pc: WorkerPcs, job: Jobs, hook: Hook \cup {Nil},
                              attempt: 1 .. AttemptCap]
            BY <1>0 DEF TypeOK, Worker, Resting, Doing
        <3>4. new \in Worker /\ new.pc \in WorkerPcs /\ new.job = workers[w].job
            BY <3>1, <3>3 DEF Worker, WorkerPcs
        <3>5. workers' = [workers EXCEPT ![w] = new]
            BY <3>2 DEF TypeOK
        <3> HIDE DEF new
        <3>6. QED BY <3>4, <3>5 DEF TypeOK
    <2>2. CASE \E pc \in WorkerPcs : Then(w, pc)
        BY <1>0, <2>2, ThenTyped
    <2>3. QED
        BY <2>1, <2>2
           DEF Post, LogAnswer, CountSuccess, CountFailure, CatchLog, CatchCount,
               Deactivate, DatabaseError, WorkerPcs
<1>4. /\ logs' \in [Logs -> Log \cup {Nil}]
      /\ \A l \in Logs : logs[l] # Nil => logs'[l] # Nil
    <2>1. CASE Start(w)
        <3> DEFINE n == Cap(workers[w].attempt + 1, AttemptCap)
                   new == [logs[LogOf(w)] EXCEPT !.status = "processing", !.attempt = n]
        <3>1. n \in 1 .. AttemptCap
            BY <1>0, WorkerTyped, CapTyped
        <3>2. new \in Log
            BY <1>1, <3>1 DEF Log, Statuses
        <3>3. logs' = [logs EXCEPT ![LogOf(w)] = new]
            BY <1>1, <2>1 DEF Start, TypeOK
        <3> HIDE DEF new
        <3>4. QED BY <1>1, <3>2, <3>3, NilAssumption DEF TypeOK
    <2>2. CASE logs' = logs
        BY <2>2 DEF TypeOK
    <2>3. CASE \E s \in Statuses : SetStatus(LogOf(w), s)
        BY <1>1, <2>3, StatusTyped
    <2>4. QED
        BY <2>1, <2>2, <2>3
           DEF Post, LogAnswer, CountSuccess, CountFailure, CatchLog, CatchCount,
               Deactivate, DatabaseError, Statuses
<1>5. /\ hooks' \in [Hooks -> Hook \cup {Nil}]
      /\ \A h \in Hooks : hooks'[h] = Nil <=> hooks[h] = Nil
    <2>1. CASE hooks' = hooks
        BY <2>1 DEF TypeOK
    <2>2. CASE CountSuccess(w) \/ CountFailure(w) \/ CatchCount(w) \/ Deactivate(w)
        <3>1. PICK new : /\ UpdateHook(HookOf(w), new)
                         /\ hooks[HookOf(w)] # Nil => new \in Hook
            <4>1. CASE CountSuccess(w)
                BY <1>1, <4>1, HookValues, RetryAssumption DEF CountSuccess
            <4>2. CASE CountFailure(w) \/ CatchCount(w)
                BY <1>1, <4>2, HookValues, RetryAssumption DEF CountFailure, CatchCount
            <4>3. CASE Deactivate(w)
                BY <1>1, <4>3, HookValues, RetryAssumption DEF Deactivate
            <4>4. QED BY <2>2, <4>1, <4>2, <4>3
        <3>2. QED BY <1>1, <3>1, HookTyped
    <2>3. QED
        BY <2>1, <2>2 DEF Start, Post, LogAnswer, CatchLog, DatabaseError
<1>6. failures' \in [Hooks -> 0 .. FailureCap]
    <2>1. failures' = failures \/ Failed(HookOf(w))
        BY DEF Start, Post, LogAnswer, CountSuccess, CountFailure, CatchLog, CatchCount,
               Deactivate, DatabaseError
    <2>2. QED BY <1>1, <2>1, FailedTyped DEF TypeOK
<1>l. lost' = lost \/ lost' = lost \ {LogOf(w)}
    BY DEF Start, Post, LogAnswer, CountSuccess, CountFailure, CatchLog, CatchCount,
           Deactivate, DatabaseError, Told
<1>7. TypeOK'
    BY <1>2, <1>3, <1>4, <1>5, <1>6, <1>l DEF TypeOK
<1>8. RefersToRows'
    <2>1. \A v \in Workers :
              \/ workers'[v].pc = "idle" /\ workers'[v].job = Nil
              \/ ~Doing(v, "idle") /\ workers'[v].job = workers[v].job
                 /\ jobs'[workers[v].job] # Nil
        <3>1. \A v \in Workers :
                  \/ workers[v].pc = "idle" /\ workers[v].job = Nil
                  \/ ~Doing(v, "idle") /\ jobs[workers[v].job] # Nil
            BY DEF TypeOK, Worker, WorkerPcs, Resting, Doing, RefersToRows
        <3>2. QED BY <1>0, <1>1, <1>2, <1>3, <3>1
    <2>2. \A j \in Jobs : jobs'[j] # Nil => jobs[j] # Nil /\ jobs'[j].log = jobs[j].log
        BY <1>2
    <2>3. \A r \in Requests :
              \/ req'[r].log = Nil
                 /\ req'[r].pc \notin {"eventAdd", "retryUpdate", "retryAdd"}
              \/ req'[r].log \in Logs /\ logs'[req'[r].log] # Nil
        BY <1>2, <1>4, RequestTyped
    <2>4. QED BY <1>4, <2>1, <2>2, <2>3, RefsKept
<1>9. QED BY <1>0, <1>2, <1>3, <1>4, <1>5, <1>7, <1>8, <1>l

\* What a resting and a working worker hold.
LEMMA WorkerHolds ==
    ASSUME TypeOK, RefersToRows, NEW v \in Workers
    PROVE  \/ workers[v].pc = "idle" /\ workers[v].job = Nil
           \/ /\ ~Doing(v, "idle") /\ workers[v].job \in Jobs
              /\ jobs[workers[v].job] # Nil
BY DEF TypeOK, Worker, WorkerPcs, Resting, Doing, RefersToRows

\* A worker gives its job back: it goes, waits for its next attempt, or is
\* handed out again.
LEMMA RestStep ==
    ASSUME TypeOK, RefersToRows, NEW w \in Workers, Leave(w) \/ Crash(w)
    PROVE  /\ TypeOK' /\ RefersToRows' /\ UNCHANGED <<hooks, logs, req>>
           /\ workers'[w].pc = "idle" /\ workers'[w].job = Nil
           /\ \A v \in Workers \ {w} : workers'[v] = workers[v]
           /\ \A j \in Jobs : jobs'[j] # Nil =>
                 jobs[j] # Nil /\ jobs'[j].log = jobs[j].log
           /\ lost \subseteq lost'
           /\ \A j \in Jobs : jobs[j] # Nil /\ jobs'[j] = Nil =>
                 /\ workers[w].job = j
                 /\ \/ workers[w].pc \in {"done", "throw"}
                    \/ jobs[j].log \in lost' \/ logs[jobs[j].log].status \notin Unsaid
<1> DEFINE j == workers[w].job
<1>1. ~Doing(w, "idle") /\ j \in Jobs /\ jobs[j] \in Job
    BY WorkerTyped, DeliveryTyped DEF Leave, Crash, Doing
<1>2. /\ workers' \in [Workers -> Worker]
      /\ workers'[w].pc = "idle" /\ workers'[w].job = Nil
      /\ \A v \in Workers \ {w} : workers'[v] = workers[v]
    BY RestTyped DEF Leave, Crash
<1>3. /\ jobs' \in [Jobs -> Job \cup {Nil}]
      /\ \A i \in Jobs \ {j} : jobs'[i] = jobs[i]
      /\ jobs'[j] # Nil => jobs'[j].log = jobs[j].log
    <2>2. CASE jobs' = [jobs EXCEPT ![j] = Nil]
        BY <1>1, <2>2 DEF TypeOK
    <2>3. CASE /\ jobs[j].made + 1 < jobs[j].attempts
               /\ jobs' = [jobs EXCEPT ![j] = [jobs[j] EXCEPT !.made = @ + 1]]
        <3> DEFINE new == [jobs[j] EXCEPT !.made = @ + 1]
        <3>1. jobs[j].made + 1 \in 0 .. MaxTries
            BY <1>1, <2>3, Bounds, RetryAssumption DEF Job
        <3>2. new \in Job /\ new.log = jobs[j].log
            BY <1>1, <3>1 DEF Job
        <3> HIDE DEF new
        <3>3. QED BY <1>1, <2>3, <3>2, NilAssumption DEF new, TypeOK
    <2>4. CASE /\ jobs[j].stalls < StallLimit
               /\ jobs' = [jobs EXCEPT ![j] = [jobs[j] EXCEPT !.stalls = @ + 1]]
        <3> DEFINE new == [jobs[j] EXCEPT !.stalls = @ + 1]
        <3>1. jobs[j].stalls + 1 \in 0 .. StallLimit
            BY <1>1, <2>4, StallAssumption DEF Job
        <3>2. new \in Job /\ new.log = jobs[j].log
            BY <1>1, <3>1 DEF Job
        <3> HIDE DEF new
        <3>3. QED BY <1>1, <2>4, <3>2, NilAssumption DEF new, TypeOK
    <2>5. QED BY <2>2, <2>3, <2>4 DEF Leave, Crash, Stalled
<1>4. UNCHANGED <<hooks, logs, req, failures>>
    BY DEF Leave, Crash
<1>l. /\ lost \subseteq lost' /\ lost' \subseteq lost \cup {jobs[j].log}
      /\ jobs'[j] = Nil =>
            \/ workers[w].pc \in {"done", "throw"}
            \/ jobs[j].log \in lost' \/ logs[jobs[j].log].status \notin Unsaid
    <2>1. jobs'[j] = Nil \/ lost' = lost
        <3>1. CASE jobs' = [jobs EXCEPT ![j] = Nil]
            BY <1>1, <3>1 DEF TypeOK
        <3>2. CASE lost' = lost
            BY <3>2
        <3>3. QED BY <3>1, <3>2 DEF Leave, Crash, Stalled
    <2>2. lost' = lost \/ Lose(jobs[j].log)
        BY DEF Leave, Crash, Stalled, LogOf
    <2>3. workers[w].pc \in {"done", "throw"} \/ jobs'[j] # Nil \/ Lose(jobs[j].log)
        <3>1. CASE jobs'[j] = Nil /\ Leave(w)
            <4>1. ~\E n \in Job : jobs' = [jobs EXCEPT ![j] = n]
                BY <1>1, <3>1, NilAssumption DEF TypeOK
            <4>2. jobs[j].made + 1 < jobs[j].attempts =>
                      [jobs[j] EXCEPT !.made = @ + 1] \in Job
                BY <1>1, Bounds, RetryAssumption DEF Job
            <4>3. QED BY <3>1, <4>1, <4>2 DEF Leave, LogOf, Doing
        <3>2. CASE jobs'[j] = Nil /\ Crash(w)
            <4>1. ~\E n \in Job : jobs' = [jobs EXCEPT ![j] = n]
                BY <1>1, <3>2, NilAssumption DEF TypeOK
            <4>2. jobs[j].stalls < StallLimit =>
                      [jobs[j] EXCEPT !.stalls = @ + 1] \in Job
                BY <1>1, StallAssumption DEF Job
            <4>3. QED BY <3>2, <4>1, <4>2 DEF Crash, Stalled
        <3>3. QED BY <3>1, <3>2
    <2>4. QED BY <2>2, <2>3 DEF Lose
<1>5. TypeOK'
    <2>1. jobs[j].log \in Logs
        BY <1>1 DEF Job
    <2>2. QED BY <1>2, <1>3, <1>4, <1>l, <2>1 DEF TypeOK
<1>6. RefersToRows'
    <2>1. \A v \in Workers :
              \/ workers'[v].pc = "idle" /\ workers'[v].job = Nil
              \/ ~Doing(v, "idle") /\ workers'[v].job = workers[v].job
                 /\ jobs'[workers[v].job] # Nil
        <3>1. \A v \in Workers \ {w} : ~Doing(v, "idle") => workers[v].job # j
            BY DEF RefersToRows
        <3>2. QED BY <1>2, <1>3, <3>1, WorkerHolds
    <2>2. \A i \in Jobs : jobs'[i] # Nil => jobs[i] # Nil /\ jobs'[i].log = jobs[i].log
        BY <1>1, <1>3, NilAssumption
    <2>3. \A r \in Requests :
              \/ req'[r].log = Nil
                 /\ req'[r].pc \notin {"eventAdd", "retryUpdate", "retryAdd"}
              \/ req'[r].log \in Logs /\ logs'[req'[r].log] # Nil
        BY <1>4, RequestTyped
    <2>4. QED BY <1>4, <2>1, <2>2, <2>3, RefsKept
<1>7. QED BY <1>1, <1>2, <1>3, <1>4, <1>5, <1>6, <1>l, NilAssumption

\* A worker takes a job nobody has.
LEMMA TakeStep ==
    ASSUME TypeOK, RefersToRows, NEW w \in Workers, NEW j \in Jobs, Take(w, j)
    PROVE  /\ TypeOK' /\ RefersToRows' /\ UNCHANGED <<hooks, logs, jobs, req, lost>>
           /\ jobs[j].log \in Logs
           /\ workers'[w].job = j
           /\ workers'[w].pc = "start" \/ hooks[logs[jobs[j].log].hook] = Nil
           /\ \A v \in Workers \ {w} : workers'[v] = workers[v]
<1> DEFINE log == logs[jobs[j].log]
           pc == IF hooks[log.hook] = Nil THEN "throw" ELSE "start"
           new == [pc |-> pc, job |-> j, hook |-> hooks[log.hook],
                   attempt |-> log.attempt]
<1>1. jobs[j] \in Job /\ jobs[j].log \in Logs /\ log \in Log
    BY DEF Take, TypeOK, RefersToRows, Job
<1>2. new \in Worker /\ new.job = j /\ new.pc # "idle"
      /\ (new.pc = "start" \/ hooks[log.hook] = Nil)
    BY <1>1 DEF Worker, WorkerPcs, Log, TypeOK
<1>3. workers' = [workers EXCEPT ![w] = new]
    BY DEF Take
<1> HIDE DEF new
<1>4. /\ UNCHANGED <<hooks, logs, jobs, req, failures, lost>> /\ jobs[j] # Nil
      /\ \A v \in Workers : workers[v].job # j
    BY DEF Take
<1>5. workers'[w] = new /\ \A v \in Workers \ {w} : workers'[v] = workers[v]
    BY <1>3 DEF TypeOK
<1>6. TypeOK'
    BY <1>2, <1>3, <1>4 DEF TypeOK
<1>7. RefersToRows'
    BY <1>2, <1>4, <1>5 DEF RefersToRows, Doing
<1>8. QED BY <1>1, <1>2, <1>4, <1>5, <1>6, <1>7

-----------------------------------------------------------------------------
(* Subscriptions and requests.                                             *)

LEMMA HookStep ==
    ASSUME TypeOK, RefersToRows, NEW h \in Hooks, CreateWebhook(h) \/ ChangeWebhook(h)
    PROVE  /\ TypeOK' /\ RefersToRows' /\ UNCHANGED <<logs, jobs, workers, req, lost>>
           /\ \A k \in Hooks : hooks[k] = Nil /\ hooks'[k] # Nil =>
                 \A l \in Logs : logs[l] # Nil => logs[l].hook # k
<1>1. UNCHANGED <<logs, jobs, workers, req, lost>>
    BY DEF CreateWebhook, ChangeWebhook, Create, Update, Remove
<1>2. /\ hooks' \in [Hooks -> Hook \cup {Nil}]
      /\ failures' \in [Hooks -> 0 .. FailureCap]
    <2>1. ASSUME NEW n \in RetryChoices, Create(h, n)
          PROVE  /\ hooks' \in [Hooks -> Hook \cup {Nil}]
                 /\ failures' \in [Hooks -> 0 .. FailureCap]
        <3>1. 0 \in 0 .. FailureCap
            BY Bounds
        <3>2. [isActive |-> TRUE, failedAttempts |-> 0, maxRetries |-> n] \in Hook
            BY <3>1 DEF Hook
        <3>3. QED BY <2>1, <3>1, <3>2 DEF Create, TypeOK
    <2>2. ASSUME NEW n \in RetryChoices, NEW active \in BOOLEAN, Update(h, active, n)
          PROVE  /\ hooks' \in [Hooks -> Hook \cup {Nil}]
                 /\ failures' \in [Hooks -> 0 .. FailureCap]
        BY <2>2 DEF Update, TypeOK, Hook
    <2>3. CASE Remove(h)
        BY <2>3 DEF Remove, TypeOK
    <2>4. QED BY <2>1, <2>2, <2>3 DEF CreateWebhook, ChangeWebhook
<1>3. TypeOK'
    BY <1>1, <1>2 DEF TypeOK
<1>4. RefersToRows'
    BY <1>1 DEF RefersToRows, Doing
<1>5. \A k \in Hooks : hooks[k] = Nil /\ hooks'[k] # Nil =>
          \A l \in Logs : logs[l] # Nil => logs[l].hook # k
    BY DEF CreateWebhook, ChangeWebhook, Create, Update, Remove, TypeOK
<1>6. QED BY <1>1, <1>3, <1>4, <1>5

\* The slot of a request after its step.
LEMMA SlotChanged ==
    ASSUME TypeOK, NEW r \in Requests, NEW new \in Request,
           req' = [req EXCEPT ![r] = new]
    PROVE  /\ req' \in [Requests -> Request] /\ req'[r] = new
           /\ \A x \in Requests \ {r} : req'[x] = req[x]
BY DEF TypeOK

\* A step of a request: it reads, stores or changes a delivery and will then
\* add its job, or adds it.
RequestEffect(r) ==
    /\ UNCHANGED <<hooks, workers, failures>>
    /\ req' \in [Requests -> Request]
    /\ \A x \in Requests \ {r} : req'[x] = req[x]
    /\ \/ req'[r].log = Nil
          /\ req'[r].pc \notin {"eventAdd", "retryUpdate", "retryAdd"}
       \/ req'[r].log \in Logs /\ logs'[req'[r].log] # Nil
    /\ logs' \in [Logs -> Log \cup {Nil}]
    /\ \A l \in Logs :
          \/ logs'[l] = logs[l]
          \/ /\ logs'[l] # Nil
             /\ req'[r].log = l /\ req'[r].pc \in {"eventAdd", "retryAdd"}
    /\ jobs' \in [Jobs -> Job \cup {Nil}]
    /\ \/ jobs' = jobs /\ req[r].pc \notin {"eventAdd", "retryAdd"}
       \/ \E j \in Jobs :
             /\ jobs[j] = Nil /\ jobs'[j] # Nil /\ jobs'[j].log = req[r].log
             /\ req[r].log \in Logs /\ logs[req[r].log] # Nil
             /\ \A i \in Jobs \ {j} : jobs'[i] = jobs[i]
    /\ lost' = lost \/ (req[r].pc = "retryAdd" /\ lost' = lost \ {req[r].log})

LEMMA EventReadStep ==
    ASSUME TypeOK, RefersToRows, NEW r \in Requests, EventRead(r)
    PROVE  RequestEffect(r)
<1> DEFINE found == {h \in Hooks : hooks[h] # Nil /\ hooks[h].isActive}
           new == [pc |-> "eventLog", log |-> Nil, attempts |-> 1,
                   todo |-> {<<h, hooks[h].maxRetries>> : h \in found}]
<1>1. {<<h, hooks[h].maxRetries>> : h \in found} \in SUBSET (Hooks \X RetryChoices)
    BY DEF TypeOK, Hook
<1>2. new \in Request
    BY <1>1 DEF Request
<1>3. new.log = Nil /\ new.pc = "eventLog"
    OBVIOUS
<1>4. req' = [req EXCEPT ![r] = new]
    BY DEF EventRead
<1> HIDE DEF new
<1>5. QED BY <1>2, <1>3, <1>4, SlotChanged DEF EventRead, RequestEffect, TypeOK, At

LEMMA EventLogStep ==
    ASSUME TypeOK, RefersToRows, NEW r \in Requests, EventLog(r)
    PROVE  RequestEffect(r)
<1>1. PICK t \in req[r].todo, l \in Logs :
          /\ logs[l] = Nil
          /\ logs' = [logs EXCEPT ![l] = NewLog(t[1])]
          /\ req' = [req EXCEPT ![r] =
                [pc |-> "eventAdd", log |-> l, attempts |-> t[2],
                 todo |-> req[r].todo \ {t}]]
    BY DEF EventLog
<1> DEFINE new == [pc |-> "eventAdd", log |-> l, attempts |-> t[2],
                   todo |-> req[r].todo \ {t}]
<1>2. req[r].todo \in SUBSET (Hooks \X RetryChoices)
    BY RequestTyped
<1>3. t[1] \in Hooks /\ t[2] \in RetryChoices
    BY <1>2
<1>4. new \in Request
    BY <1>2, <1>3 DEF Request
<1>5. NewLog(t[1]) \in Log
    BY <1>3, Bounds DEF NewLog, Log, Statuses, AttemptCap
<1>6. new.log = l /\ new.pc = "eventAdd"
    OBVIOUS
<1>7. req' = [req EXCEPT ![r] = new]
    BY <1>1
<1> HIDE DEF new
<1>8. /\ logs' \in [Logs -> Log \cup {Nil}] /\ logs'[l] # Nil
      /\ \A k \in Logs \ {l} : logs'[k] = logs[k]
    BY <1>1, <1>5, NilAssumption DEF TypeOK
<1>9. UNCHANGED <<hooks, jobs, workers, failures, lost>> /\ req[r].pc = "eventLog"
    BY DEF EventLog, At
<1>10. QED BY <1>4, <1>6, <1>7, <1>8, <1>9, SlotChanged DEF RequestEffect, TypeOK

LEMMA EventAddStep ==
    ASSUME TypeOK, RefersToRows, NEW r \in Requests, EventAdd(r) \/ RetryAdd(r)
    PROVE  RequestEffect(r)
<1>1. /\ req[r].log \in Logs /\ logs[req[r].log] # Nil
      /\ req[r].attempts \in RetryChoices \cup {1}
      /\ req[r].todo \in SUBSET (Hooks \X RetryChoices)
    BY RequestTyped DEF EventAdd, RetryAdd, At
<1>2. PICK new \in Request :
          /\ req' = [req EXCEPT ![r] = new]
          /\ new.log = Nil /\ new.pc \in {"idle", "eventLog"}
    <2>1. CASE Finish(r)
        <3>1. Idle \in Request /\ Idle.log = Nil /\ Idle.pc = "idle"
            BY DEF Idle, Request
        <3>2. QED BY <2>1, <3>1 DEF Finish
    <2>2. CASE req' = [req EXCEPT ![r] = [pc |-> "eventLog", log |-> Nil,
                                          attempts |-> 1, todo |-> @.todo]]
        <3> DEFINE new == [pc |-> "eventLog", log |-> Nil,
                           attempts |-> 1, todo |-> req[r].todo]
        <3>1. new \in Request /\ new.log = Nil /\ new.pc = "eventLog"
            BY <1>1 DEF Request
        <3>2. req' = [req EXCEPT ![r] = new]
            BY <2>2
        <3> HIDE DEF new
        <3>3. QED BY <3>1, <3>2
    <2>3. QED BY <2>1, <2>2 DEF EventAdd, RetryAdd
<1>3. /\ jobs' \in [Jobs -> Job \cup {Nil}]
      /\ \E j \in Jobs : /\ jobs[j] = Nil /\ jobs'[j] # Nil /\ jobs'[j].log = req[r].log
                         /\ \A i \in Jobs \ {j} : jobs'[i] = jobs[i]
    <2>1. AddJob(req[r].log, IF At(r, "eventAdd") THEN req[r].attempts ELSE 1)
        BY DEF EventAdd, RetryAdd, At
    <2>2. QED BY <1>1, <2>1, AddTyped
<1>4. /\ UNCHANGED <<hooks, logs, workers, failures>>
      /\ lost' = lost \/ (req[r].pc = "retryAdd" /\ lost' = lost \ {req[r].log})
    BY DEF EventAdd, RetryAdd, Told, At
<1>5. QED BY <1>1, <1>2, <1>3, <1>4, SlotChanged DEF RequestEffect, TypeOK

LEMMA RetryStep ==
    ASSUME TypeOK, RefersToRows, NEW r \in Requests, RetryDelivery(r) \/ RetryUpdate(r)
    PROVE  RequestEffect(r)
<1>0. req[r] \in Request /\ req[r] \in [pc: {"idle", "eventLog", "eventAdd", "retryUpdate",
          "retryAdd"}, todo: SUBSET (Hooks \X RetryChoices), log: Logs \cup {Nil},
          attempts: RetryChoices \cup {1}]
    BY DEF TypeOK, Request
<1>1. CASE RetryUpdate(r)
    <2> DEFINE new == [req[r] EXCEPT !.pc = "retryAdd"]
    <2>1. req[r].log \in Logs /\ logs[req[r].log] # Nil /\ req[r].pc = "retryUpdate"
        BY <1>1, RequestTyped DEF RetryUpdate, At
    <2>2. new \in Request /\ new.log = req[r].log /\ new.pc = "retryAdd"
        BY <1>0 DEF Request
    <2>3. req' = [req EXCEPT ![r] = new]
        BY <1>1 DEF RetryUpdate
    <2> HIDE DEF new
    <2>4. /\ logs' \in [Logs -> Log \cup {Nil}] /\ logs'[req[r].log] # Nil
          /\ \A k \in Logs \ {req[r].log} : logs'[k] = logs[k]
        BY <1>1, <2>1, StatusTyped DEF RetryUpdate, Statuses
    <2>5. UNCHANGED <<hooks, jobs, workers, failures, lost>>
        BY <1>1 DEF RetryUpdate
    <2>6. QED BY <2>1, <2>2, <2>3, <2>4, <2>5, SlotChanged DEF RequestEffect, TypeOK
<1>2. ASSUME NEW l \in Logs, RetryRead(r, l)
      PROVE  RequestEffect(r)
    <2> DEFINE new == [req[r] EXCEPT !.pc = "retryUpdate", !.log = l]
    <2>1. new \in Request /\ new.log = l /\ new.pc = "retryUpdate"
        BY <1>0 DEF Request
    <2>2. req' = [req EXCEPT ![r] = new]
        BY <1>2 DEF RetryRead, TypeOK
    <2> HIDE DEF new
    <2>3. /\ UNCHANGED <<hooks, logs, jobs, workers, failures, lost>>
          /\ logs[l] # Nil /\ req[r].pc = "idle"
        BY <1>2 DEF RetryRead, At
    <2>4. QED BY <2>1, <2>2, <2>3, SlotChanged DEF RequestEffect, TypeOK
<1>3. QED BY <1>1, <1>2 DEF RetryDelivery

\* What such a step keeps.
LEMMA EffectTyped ==
    ASSUME TypeOK, RefersToRows, NEW r \in Requests, RequestEffect(r)
    PROVE  TypeOK' /\ RefersToRows'
<1>1. TypeOK'
    BY DEF RequestEffect, TypeOK
<1>2. \A l \in Logs : logs[l] # Nil => logs'[l] # Nil
    BY DEF RequestEffect
<1>3. \A j \in Jobs : jobs'[j] # Nil =>
          \/ jobs[j] # Nil /\ jobs'[j].log = jobs[j].log
          \/ logs[jobs'[j].log] # Nil /\ jobs'[j].log \in Logs
    BY DEF RequestEffect
<1>4. \A w \in Workers :
          \/ workers'[w].pc = "idle" /\ workers'[w].job = Nil
          \/ ~Doing(w, "idle") /\ workers'[w].job = workers[w].job
             /\ jobs'[workers[w].job] # Nil
    <2>1. \A j \in Jobs : jobs[j] # Nil => jobs'[j] # Nil
        BY DEF RequestEffect
    <2>2. workers' = workers
        BY DEF RequestEffect
    <2>3. QED BY <2>1, <2>2, WorkerHolds
<1>5. \A x \in Requests :
          \/ req'[x].log = Nil
             /\ req'[x].pc \notin {"eventAdd", "retryUpdate", "retryAdd"}
          \/ req'[x].log \in Logs /\ logs'[req'[x].log] # Nil
    <2>1. ASSUME NEW x \in Requests, x # r
          PROVE  \/ req'[x].log = Nil
                    /\ req'[x].pc \notin {"eventAdd", "retryUpdate", "retryAdd"}
                 \/ req'[x].log \in Logs /\ logs'[req'[x].log] # Nil
        <3>1. req'[x] = req[x]
            BY <2>1 DEF RequestEffect
        <3>2. \/ req[x].log = Nil
                 /\ req[x].pc \notin {"eventAdd", "retryUpdate", "retryAdd"}
              \/ req[x].log \in Logs /\ logs[req[x].log] # Nil
            BY RequestTyped
        <3>3. QED BY <1>2, <3>1, <3>2
    <2>2. QED BY <2>1 DEF RequestEffect
<1>6. QED BY <1>1, <1>2, <1>3, <1>4, <1>5, RefsKept

-----------------------------------------------------------------------------
(* Unsettled deliveries stay covered.                                      *)

\* A request covers what it adds, and its job is free.
LEMMA RequestCovers ==
    ASSUME TypeOK, RefersToRows, UnsettledCovered,
           NEW r \in Requests, RequestEffect(r)
    PROVE  UnsettledCovered'
<1> SUFFICES ASSUME NEW l \in Logs, Unsettled(l)'
             PROVE  Covered(l)' \/ l \in lost'
    BY DEF UnsettledCovered
<1>1. CASE req'[r].log = l /\ req'[r].pc \in {"eventAdd", "retryAdd"}
    BY <1>1 DEF Covered
<1>2. CASE logs'[l] = logs[l]
    <2>1. Covered(l) \/ l \in lost
        BY <1>2 DEF Unsettled, UnsettledCovered, RequestEffect
    <2>2. workers' = workers
        BY DEF RequestEffect
    <2>3. ASSUME NEW j \in Jobs, WillSettle(j), jobs[j].log = l
          PROVE  Covered(l)'
        <3>1. jobs'[j] = jobs[j]
            BY <2>3 DEF RequestEffect, WillSettle
        <3>2. WillSettle(j)'
            BY <2>2, <2>3, <3>1 DEF WillSettle
        <3>3. QED BY <2>3, <3>1, <3>2 DEF Covered
    <2>4. ASSUME NEW x \in Requests, req[x].log = l, req[x].pc \in {"eventAdd", "retryAdd"}
          PROVE  Covered(l)'
        <3>1. CASE x # r
            <4>1. req'[x] = req[x]
                BY <3>1 DEF RequestEffect
            <4>2. QED BY <2>4, <4>1 DEF Covered
        <3>2. CASE x = r
            <4>1. PICK j \in Jobs : jobs[j] = Nil /\ jobs'[j] # Nil /\ jobs'[j].log = l
                BY <2>4, <3>2 DEF RequestEffect
            <4>2. \A w \in Workers : workers[w].job # j
                BY <4>1, WorkerHolds, NilAssumption
            <4>3. WillSettle(j)'
                BY <2>2, <4>1, <4>2 DEF WillSettle
            <4>4. QED BY <4>1, <4>3 DEF Covered
        <3>3. QED BY <3>1, <3>2
    <2>5. l \in lost => l \in lost' \/ (req[r].log = l /\ req[r].pc = "retryAdd")
        BY DEF RequestEffect
    <2>6. QED BY <2>1, <2>3, <2>4, <2>5 DEF Covered
<1>3. QED BY <1>1, <1>2 DEF RequestEffect

\* A new subscription has no deliveries.
LEMMA HookCovers ==
    ASSUME TypeOK, RefersToRows, UnsettledCovered, NEW h \in Hooks,
           CreateWebhook(h) \/ ChangeWebhook(h)
    PROVE  UnsettledCovered'
<1> SUFFICES ASSUME NEW l \in Logs, Unsettled(l)'
             PROVE  Covered(l)' \/ l \in lost'
    BY DEF UnsettledCovered
<1>1. UNCHANGED <<logs, jobs, workers, req, lost>>
    BY HookStep
<1>2. logs[l] # Nil /\ logs[l].hook \in Hooks /\ hooks'[logs[l].hook] # Nil
    BY <1>1 DEF Unsettled, TypeOK, Log
<1>3. hooks[logs[l].hook] # Nil
    BY <1>2, HookStep
<1>4. Covered(l) \/ l \in lost
    BY <1>1, <1>2, <1>3 DEF Unsettled, UnsettledCovered
<1>5. QED BY <1>1, <1>4 DEF Covered, WillSettle

\* A taken job is at its start, unless its subscription is gone.
LEMMA TakeCovers ==
    ASSUME TypeOK, RefersToRows, UnsettledCovered,
           NEW w \in Workers, NEW j \in Jobs, Take(w, j)
    PROVE  UnsettledCovered'
<1> SUFFICES ASSUME NEW l \in Logs, Unsettled(l)'
             PROVE  Covered(l)' \/ l \in lost'
    BY DEF UnsettledCovered
<1>1. /\ UNCHANGED <<hooks, logs, jobs, req, lost>> /\ workers'[w].job = j
      /\ workers'[w].pc = "start" \/ hooks[logs[jobs[j].log].hook] = Nil
      /\ \A v \in Workers \ {w} : workers'[v] = workers[v]
    BY TakeStep
<1>2. Unsettled(l)
    BY <1>1 DEF Unsettled
<1>3. Covered(l) \/ l \in lost
    BY <1>2 DEF UnsettledCovered
<1>4. ASSUME NEW i \in Jobs, WillSettle(i), jobs[i].log = l
      PROVE  WillSettle(i)'
    <2>1. ASSUME NEW v \in Workers, workers'[v].job = i
          PROVE  workers'[v].pc \in BeforeStatus
        <3>1. CASE v = w
            <4>1. i = j /\ workers'[w].pc = "start"
                BY <1>1, <1>2, <1>4, <2>1, <3>1 DEF Unsettled
            <4>2. QED BY <3>1, <4>1 DEF BeforeStatus
        <3>2. CASE v # w
            BY <1>1, <1>4, <2>1, <3>2 DEF WillSettle
        <3>3. QED BY <3>1, <3>2
    <2>2. QED BY <1>1, <1>4, <2>1 DEF WillSettle
<1>5. QED BY <1>1, <1>3, <1>4 DEF Covered

\* A job that goes was not going to settle anything, or its delivery is lost.
LEMMA RestCovers ==
    ASSUME TypeOK, RefersToRows, UnsettledCovered, NEW w \in Workers,
           Leave(w) \/ Crash(w)
    PROVE  UnsettledCovered'
<1> SUFFICES ASSUME NEW l \in Logs, Unsettled(l)'
             PROVE  Covered(l)' \/ l \in lost'
    BY DEF UnsettledCovered
<1>1. /\ UNCHANGED <<hooks, logs, req>> /\ workers'[w].job = Nil
      /\ \A v \in Workers \ {w} : workers'[v] = workers[v]
      /\ \A j \in Jobs : jobs'[j] # Nil => jobs[j] # Nil /\ jobs'[j].log = jobs[j].log
      /\ lost \subseteq lost'
      /\ \A j \in Jobs : jobs[j] # Nil /\ jobs'[j] = Nil =>
             /\ workers[w].job = j
             /\ \/ workers[w].pc \in {"done", "throw"}
                \/ jobs[j].log \in lost' \/ logs[jobs[j].log].status \notin Unsaid
    BY RestStep
<1>2. Covered(l) \/ l \in lost
    BY <1>1 DEF Unsettled, UnsettledCovered
<1>3. ASSUME NEW i \in Jobs, WillSettle(i), jobs[i].log = l
      PROVE  (WillSettle(i)' /\ jobs'[i].log = l) \/ l \in lost'
    <2>1. jobs'[i] # Nil \/ l \in lost'
        BY <1>1, <1>3 DEF WillSettle, BeforeStatus, Unsettled
    <2>2. QED BY <1>1, <1>3, <2>1, NilAssumption DEF WillSettle
<1>4. QED BY <1>1, <1>2, <1>3 DEF Covered

\* A worker that leaves the places where it has to write the status has just
\* written one that settles the delivery.
LEMMA WorkerCovers ==
    ASSUME TypeOK, RefersToRows, UnsettledCovered,
           NEW w \in Workers,
           \/ Start(w) \/ Post(w) \/ LogAnswer(w) \/ CountSuccess(w)
           \/ CountFailure(w) \/ CatchLog(w) \/ CatchCount(w) \/ Deactivate(w)
           \/ DatabaseError(w)
    PROVE  UnsettledCovered'
<1>1. /\ UNCHANGED <<jobs, req>> /\ ~Doing(w, "idle")
      /\ workers'[w].pc \in WorkerPcs /\ workers'[w].job = workers[w].job
      /\ \A v \in Workers \ {w} : workers'[v] = workers[v]
      /\ \A h \in Hooks : hooks'[h] = Nil <=> hooks[h] = Nil
    BY WorkerStep
<1>2. /\ LogOf(w) \in Logs /\ logs[LogOf(w)] # Nil /\ workers[w].job \in Jobs
      /\ jobs[workers[w].job] # Nil /\ jobs[workers[w].job].log = LogOf(w)
    BY <1>1, DeliveryTyped, NilAssumption DEF LogOf
<1>3. \A v \in Workers : workers[v].job = workers[w].job => v = w
    BY <1>1 DEF RefersToRows
<1>4. \/ /\ \A l \in Logs \ {LogOf(w)} : logs'[l] = logs[l]
         /\ workers'[w].pc \in BeforeStatus
      \/ /\ \A l \in Logs \ {LogOf(w)} : logs'[l] = logs[l]
         /\ logs'[LogOf(w)].status \in {"success", "failed"}
      \/ logs' = logs /\ workers[w].pc \notin BeforeStatus
    <2>1. CASE Start(w)
        <3>1. workers'[w].pc = "post"
            <4>1. workers[w] \in [pc: WorkerPcs, job: Jobs, hook: Hook \cup {Nil},
                                  attempt: 1 .. AttemptCap]
                BY <1>1 DEF TypeOK, Worker, Resting, Doing
            <4>2. QED BY <2>1, <4>1 DEF Start, TypeOK
        <3>2. QED BY <2>1, <3>1 DEF Start, TypeOK, BeforeStatus
    <2>2. CASE Post(w)
        <3>1. PICK pc \in {"logSuccess", "logFailure", "catchLog"} : Then(w, pc)
            BY <2>2 DEF Post
        <3>2. workers'[w].pc = pc
            BY <1>1, <3>1, ThenTyped DEF WorkerPcs
        <3>3. QED BY <2>2, <3>1, <3>2 DEF Post, BeforeStatus
    <2>3. CASE LogAnswer(w)
        <3>1. PICK s \in {"success", "failed"} : SetStatus(LogOf(w), s)
            BY <2>3 DEF LogAnswer
        <3>2. QED BY <1>2, <3>1, StatusTyped DEF Statuses
    <2>4. CASE CountFailure(w)
        <3>1. workers'[w].pc = "catchLog" /\ logs' = logs
            BY <1>1, <2>4, ThenTyped DEF CountFailure, WorkerPcs
        <3>2. QED BY <3>1 DEF BeforeStatus
    <2>5. CASE CatchLog(w)
        <3>1. SetStatus(LogOf(w), "failed")
            BY <2>5 DEF CatchLog
        <3>2. QED BY <1>2, <3>1, StatusTyped DEF Statuses
    <2>6. CASE CountSuccess(w) \/ CatchCount(w) \/ Deactivate(w)
        BY <2>6 DEF CountSuccess, CatchCount, Deactivate, Doing, BeforeStatus
    <2>7. CASE DatabaseError(w)
        <3>1. PICK pc \in WorkerPcs : Then(w, pc) /\ (pc \in BeforeStatus \/ workers[w].pc \notin BeforeStatus)
            BY <2>7 DEF DatabaseError, Doing, BeforeStatus, WorkerPcs
        <3>2. workers'[w].pc = pc
            BY <1>1, <3>1, ThenTyped
        <3>3. logs' = logs
            BY <2>7 DEF DatabaseError
        <3>4. QED BY <3>1, <3>2, <3>3
    <2>8. QED BY <2>1, <2>2, <2>3, <2>4, <2>5, <2>6, <2>7
<1>l. \/ lost' = lost
      \/ /\ lost' = lost \ {LogOf(w)}
         /\ logs'[LogOf(w)].status \in {"success", "failed"}
    <2>1. CASE LogAnswer(w)
        <3>1. PICK s \in {"success", "failed"} : SetStatus(LogOf(w), s)
            BY <2>1 DEF LogAnswer
        <3>2. QED BY <1>2, <2>1, <3>1, StatusTyped DEF Statuses, LogAnswer, Told
    <2>2. CASE CatchLog(w)
        <3>1. SetStatus(LogOf(w), "failed") /\ lost' = lost \ {LogOf(w)}
            BY <2>2 DEF CatchLog, Told
        <3>2. QED BY <1>2, <3>1, StatusTyped DEF Statuses
    <2>3. QED BY <2>1, <2>2
          DEF Start, Post, CountSuccess, CountFailure, CatchCount, Deactivate, DatabaseError
<1> SUFFICES ASSUME NEW l \in Logs, Unsettled(l)'
             PROVE  Covered(l)' \/ l \in lost'
    BY DEF UnsettledCovered
<1>5. CASE l = LogOf(w) /\ workers'[w].pc \in BeforeStatus
    <2>1. WillSettle(workers[w].job)'
        <3>1. \A v \in Workers : workers'[v].job = workers[v].job
            BY <1>1
        <3>2. QED BY <1>1, <1>2, <1>3, <1>5, <3>1 DEF WillSettle
    <2>2. QED BY <1>1, <1>2, <1>5, <2>1 DEF Covered
<1>6. ASSUME logs'[l] = logs[l],
             \/ l # LogOf(w) \/ workers[w].pc \notin BeforeStatus
      PROVE  Covered(l)' \/ l \in lost'
    <2>1. Covered(l) \/ l \in lost
        BY <1>1, <1>6 DEF Unsettled, UnsettledCovered, TypeOK, Log
    <2>2. ASSUME NEW i \in Jobs, WillSettle(i), jobs[i].log = l
          PROVE  WillSettle(i)' /\ jobs'[i].log = l
        <3>1. workers[w].job # i
            BY <1>2, <1>6, <2>2 DEF WillSettle
        <3>2. QED BY <1>1, <2>2, <3>1 DEF WillSettle
    <2>3. l \in lost => l \in lost'
        BY <1>l DEF Unsettled, Unsaid
    <2>4. QED BY <1>1, <2>1, <2>2, <2>3 DEF Covered
<1>7. CASE l = LogOf(w) /\ logs'[l].status \in {"success", "failed"}
    BY <1>7 DEF Unsettled, Unsaid
<1>8. QED BY <1>4, <1>5, <1>6, <1>7

-----------------------------------------------------------------------------
(* The steps together.                                                     *)

LEMMA InitOK == Init => IInv
<1> SUFFICES ASSUME Init
             PROVE  IInv
    OBVIOUS
<1>1. TypeOK
    BY InitTyped
<1>2. RefersToRows
    BY DEF Init, RefersToRows, Idle, Resting, Doing
<1>3. UnsettledCovered
    BY DEF Init, UnsettledCovered, Unsettled
<1>4. QED BY <1>1, <1>2, <1>3 DEF IInv

\* A request that fails leaves its slot empty.
LEMMA AbortStep ==
    ASSUME TypeOK, RefersToRows, NEW r \in Requests, Abort(r)
    PROVE  TypeOK' /\ RefersToRows'
<1>1. Idle \in Request /\ Idle.log = Nil /\ Idle.pc = "idle"
    BY DEF Idle, Request
<1>2. /\ req' \in [Requests -> Request] /\ req'[r] = Idle
      /\ \A x \in Requests \ {r} : req'[x] = req[x]
    BY <1>1, SlotChanged DEF Abort, Finish
<1>3. UNCHANGED <<hooks, logs, jobs, workers, failures>> /\ lost' \subseteq Logs
    <2>1. req[r].pc \in {"eventAdd", "retryAdd"} => req[r].log \in Logs
        BY RequestTyped
    <2>2. QED BY <2>1 DEF Abort, Lose, TypeOK
<1>4. TypeOK'
    BY <1>2, <1>3 DEF TypeOK
<1>5. RefersToRows'
    BY <1>1, <1>2, <1>3 DEF RefersToRows, Doing
<1>6. QED BY <1>4, <1>5

\* What it was about to add is lost, unless the log is settled.
LEMMA AbortCovers ==
    ASSUME TypeOK, RefersToRows, UnsettledCovered, NEW r \in Requests, Abort(r)
    PROVE  UnsettledCovered'
<1> SUFFICES ASSUME NEW l \in Logs, Unsettled(l)'
             PROVE  Covered(l)' \/ l \in lost'
    BY DEF UnsettledCovered
<1>1. /\ UNCHANGED <<hooks, logs, jobs, workers>> /\ lost \subseteq lost'
      /\ \A x \in Requests \ {r} : req'[x] = req[x]
      /\ req[r].pc \in {"eventAdd", "retryAdd"} /\ logs[req[r].log].status \in Unsaid
            => req[r].log \in lost'
    BY DEF Abort, Lose, Finish, TypeOK
<1>2. Unsettled(l) /\ logs[l].status \in Unsaid
    BY <1>1 DEF Unsettled
<1>3. Covered(l) \/ l \in lost
    BY <1>2 DEF UnsettledCovered
<1>4. ASSUME NEW j \in Jobs, WillSettle(j), jobs[j].log = l
      PROVE  Covered(l)'
    BY <1>1, <1>4 DEF Covered, WillSettle
<1>5. ASSUME NEW x \in Requests, req[x].log = l, req[x].pc \in {"eventAdd", "retryAdd"}
      PROVE  Covered(l)' \/ l \in lost'
    <2>1. CASE x = r
        BY <1>1, <1>2, <1>5, <2>1
    <2>2. CASE x # r
        BY <1>1, <1>5, <2>2 DEF Covered
    <2>3. QED BY <2>1, <2>2
<1>6. QED BY <1>1, <1>3, <1>4, <1>5 DEF Covered

\* Types and references survive every step, whatever goes wrong.
LEMMA TypeStep ==
    ASSUME TypeOK, RefersToRows, [Next]_vars
    PROVE  TypeOK' /\ RefersToRows'
<1>1. CASE UNCHANGED vars
    BY <1>1 DEF vars, TypeOK, RefersToRows, Doing
<1>2. ASSUME NEW h \in Hooks, CreateWebhook(h) \/ ChangeWebhook(h)
      PROVE  TypeOK' /\ RefersToRows'
    BY <1>2, HookStep
<1>3. ASSUME NEW r \in Requests, EventRead(r) \/ RetryDelivery(r) \/ Serve(r)
      PROVE  TypeOK' /\ RefersToRows'
    BY <1>3, EventReadStep, RetryStep, EventLogStep, EventAddStep, EffectTyped DEF Serve
<1>4. ASSUME NEW r \in Requests, Abort(r)
      PROVE  TypeOK' /\ RefersToRows'
    BY <1>4, AbortStep
<1>5. ASSUME NEW w \in Workers, Deliver(w) \/ Crash(w) \/ DatabaseError(w)
      PROVE  TypeOK' /\ RefersToRows'
    BY <1>5, WorkerStep, RestStep DEF Deliver
<1>6. ASSUME NEW w \in Workers, NEW j \in Jobs, Take(w, j)
      PROVE  TypeOK' /\ RefersToRows'
    BY <1>6, TakeStep
<1>7. QED BY <1>1, <1>2, <1>3, <1>4, <1>5, <1>6 DEF Next

\* Whatever fails, deliveries stay covered or are lost.
LEMMA CoverStep ==
    ASSUME IInv, [Next]_vars
    PROVE  UnsettledCovered'
<1>0. TypeOK /\ RefersToRows /\ UnsettledCovered
    BY DEF IInv
<1>1. CASE UNCHANGED vars
    BY <1>0, <1>1 DEF vars, UnsettledCovered, Unsettled, Covered, WillSettle
<1>2. ASSUME NEW h \in Hooks, CreateWebhook(h) \/ ChangeWebhook(h)
      PROVE  UnsettledCovered'
    BY <1>0, <1>2, HookCovers
<1>3. ASSUME NEW r \in Requests, EventRead(r) \/ RetryDelivery(r) \/ Serve(r)
      PROVE  UnsettledCovered'
    <2>1. RequestEffect(r)
        BY <1>0, <1>3, EventReadStep, RetryStep, EventLogStep, EventAddStep DEF Serve
    <2>2. QED BY <1>0, <2>1, RequestCovers
<1>4. ASSUME NEW w \in Workers, Deliver(w) \/ Crash(w) \/ DatabaseError(w)
      PROVE  UnsettledCovered'
    BY <1>0, <1>4, WorkerCovers, RestCovers DEF Deliver
<1>5. ASSUME NEW w \in Workers, NEW j \in Jobs, Take(w, j)
      PROVE  UnsettledCovered'
    BY <1>0, <1>5, TakeCovers
<1>6. ASSUME NEW r \in Requests, Abort(r)
      PROVE  UnsettledCovered'
    BY <1>0, <1>6, AbortCovers
<1>7. QED BY <1>1, <1>2, <1>3, <1>4, <1>5, <1>6 DEF Next

\* Rows, jobs, workers' copies and slots keep their types whatever fails: no
\* worker or request ever holds something that is not a row or a job
\* (WebhookService, WebhookProcessor).
THEOREM TypeCorrectness == Spec => []TypeOK
<1>1. Init => TypeOK /\ RefersToRows
    BY InitOK DEF IInv
<1>2. TypeOK /\ RefersToRows /\ [Next]_vars => TypeOK' /\ RefersToRows'
    BY TypeStep
<1>3. QED BY <1>1, <1>2, PTL DEF Spec

\* Whatever fails, a delivery that says queued or processing has a job or a
\* request about to add one, unless it was lost in one of the named ways
\* (processEvent, retryDelivery, deliverWebhook).
THEOREM DeliveriesHaveJobs == Spec => []UnsettledHasJob
<1>1. Init => IInv
    BY InitOK
<1>2. IInv /\ [Next]_vars => IInv'
    BY TypeStep, CoverStep DEF IInv
<1>3. IInv => UnsettledHasJob
    BY DEF IInv, UnsettledCovered, UnsettledHasJob, Covered, WillSettle, HasJob
<1>4. QED BY <1>1, <1>2, <1>3, PTL DEF Spec

-----------------------------------------------------------------------------
(* Failures behind a deactivation.  A try that fails is counted once in the *)
(* history and once or twice in the row, later; a worker decides by the row *)
(* it copied before.  So: what the row says, and what workers have still to *)
(* add to it, is at most twice the failures, and so is what a copy says.    *)

\* Where a worker has still to count the failure of its try: twice, or once.
FirstCount == {"logFailure", "countFailure"}
Counts == FirstCount \cup {"catchLog", "catchCount"}
Failing == Counts \cup {"deactivate"}

Owing(P, h) == {w \in Workers : workers[w].pc \in P /\ HookOf(w) = h}
Owed(h) == Cardinality(Owing(FirstCount, h)) + Cardinality(Owing(Counts, h))

\* (Above FailureCap the history no longer counts.)
RowCovered(h) ==
    hooks[h] # Nil =>
        \/ failures[h] = FailureCap
        \/ hooks[h].failedAttempts + Owed(h) <= 2 * failures[h]

CopyCovered(w) ==
    workers[w].pc \notin {"idle", "throw"} =>
        /\ workers[w].hook \in Hook
        /\ \/ failures[HookOf(w)] = FailureCap
           \/ /\ workers[w].hook.failedAttempts <= 2 * failures[HookOf(w)]
              /\ workers[w].pc \in Failing =>
                    workers[w].hook.failedAttempts + 2 <= 2 * failures[HookOf(w)]
        /\ workers[w].pc = "deactivate" =>
              workers[w].hook.failedAttempts + 1 >= DeactivateAfter

FailuresCovered ==
    /\ \A h \in Hooks : RowCovered(h)
    /\ \A w \in Workers : CopyCovered(w)

LEMMA OwingFinite ==
    ASSUME NEW P, NEW h
    PROVE  IsFiniteSet(Owing(P, h)) /\ Cardinality(Owing(P, h)) \in Nat
<1>1. Owing(P, h) \subseteq Workers
    BY DEF Owing
<1>2. QED BY <1>1, WorkersAssumption, FS_Subset, FS_CardinalityType

\* One worker moves.
Keeps(v) ==
    /\ workers'[v] = workers[v]
    /\ ~Doing(v, "idle") => HookOf(v)' = HookOf(v)

LEMMA OwingChanges ==
    ASSUME NEW w \in Workers, \A v \in Workers \ {w} : Keeps(v),
           NEW P, "idle" \notin P, NEW h
    PROVE  /\ Cardinality(Owing(P, h)') \in Nat
           /\ Cardinality(Owing(P, h)') + (IF w \in Owing(P, h) THEN 1 ELSE 0)
              = Cardinality(Owing(P, h)) + (IF w \in Owing(P, h)' THEN 1 ELSE 0)
<1>1. PICK before, after :
          /\ before = Owing(P, h) /\ after = Owing(P, h)'
    OBVIOUS
<1>2. before \ {w} = after \ {w}
    BY <1>1 DEF Owing, Keeps, Doing
<1>3. before \subseteq Workers /\ after \subseteq Workers
    BY <1>1 DEF Owing
<1>4. /\ IsFiniteSet(before) /\ IsFiniteSet(after)
      /\ Cardinality(before) \in Nat /\ Cardinality(after) \in Nat
    BY <1>3, WorkersAssumption, FS_Subset, FS_CardinalityType
<1>5. Cardinality(before \ {w}) =
          IF w \in before THEN Cardinality(before) - 1 ELSE Cardinality(before)
    BY <1>4, FS_RemoveElement
<1>6. Cardinality(after \ {w}) =
          IF w \in after THEN Cardinality(after) - 1 ELSE Cardinality(after)
    BY <1>4, FS_RemoveElement
<1>7. QED BY <1>1, <1>2, <1>4, <1>5, <1>6

\* What a worker at pc has still to count.
Due(pc) == (IF pc \in FirstCount THEN 1 ELSE 0) + (IF pc \in Counts THEN 1 ELSE 0)

LEMMA DueValues ==
    /\ \A pc : Due(pc) \in 0 .. 2 /\ (pc \notin Counts => Due(pc) = 0)
    /\ Due("logFailure") = 2 /\ Due("countFailure") = 2
    /\ Due("catchLog") = 1 /\ Due("catchCount") = 1
    /\ Due("idle") = 0 /\ Due("deactivate") = 0 /\ Due("throw") = 0
    /\ Due("untold") = 0
    /\ Due("done") = 0 /\ Due("start") = 0 /\ Due("post") = 0
    /\ Due("logSuccess") = 0 /\ Due("countSuccess") = 0
BY DEF Due, FirstCount, Counts

LEMMA OwedChanges ==
    ASSUME NEW w \in Workers, \A v \in Workers \ {w} : Keeps(v), NEW h
    PROVE  /\ Owed(h) \in Nat /\ Owed(h)' \in Nat
           /\ HookOf(w) = h /\ HookOf(w)' = h =>
                 Owed(h)' + Due(workers[w].pc) = Owed(h) + Due(workers'[w].pc)
           /\ HookOf(w) # h /\ HookOf(w)' # h => Owed(h)' = Owed(h)
           /\ Due(workers'[w].pc) = 0 => Owed(h)' <= Owed(h)
           /\ Due(workers[w].pc) = 0 /\ Due(workers'[w].pc) = 0 => Owed(h)' = Owed(h)
<1>1. "idle" \notin FirstCount /\ "idle" \notin Counts /\ FirstCount \subseteq Counts
    BY DEF FirstCount, Counts
<1>2. \A P \in {FirstCount, Counts} :
          /\ Cardinality(Owing(P, h)) \in Nat
          /\ Cardinality(Owing(P, h)') \in Nat
          /\ Cardinality(Owing(P, h)') + (IF w \in Owing(P, h) THEN 1 ELSE 0)
             = Cardinality(Owing(P, h)) + (IF w \in Owing(P, h)' THEN 1 ELSE 0)
    BY <1>1, OwingFinite, OwingChanges
<1>3. \A P :
          /\ w \in Owing(P, h) <=> workers[w].pc \in P /\ HookOf(w) = h
          /\ w \in Owing(P, h)' <=> workers'[w].pc \in P /\ HookOf(w)' = h
    BY DEF Owing
<1>4. \A pc : Due(pc) = 0 => pc \notin FirstCount /\ pc \notin Counts
    BY DEF Due
<1>5. /\ Owed(h) = Cardinality(Owing(FirstCount, h)) + Cardinality(Owing(Counts, h))
      /\ Owed(h)' = Cardinality(Owing(FirstCount, h)') + Cardinality(Owing(Counts, h)')
    BY DEF Owed
<1>6. Owed(h) \in Nat /\ Owed(h)' \in Nat
    BY <1>2, <1>5
<1>7. HookOf(w) = h /\ HookOf(w)' = h =>
          Owed(h)' + Due(workers[w].pc) = Owed(h) + Due(workers'[w].pc)
    BY <1>2, <1>3, <1>5 DEF Due
<1>8. HookOf(w) # h /\ HookOf(w)' # h => Owed(h)' = Owed(h)
    BY <1>2, <1>3, <1>5
<1>9. Due(workers'[w].pc) = 0 => Owed(h)' <= Owed(h)
    BY <1>2, <1>3, <1>4, <1>5
<1>10. Due(workers[w].pc) = 0 /\ Due(workers'[w].pc) = 0 => Owed(h)' = Owed(h)
    BY <1>2, <1>3, <1>4, <1>5
<1>11. QED BY <1>6, <1>7, <1>8, <1>9, <1>10

\* A delivery keeps its subscription, and a job its delivery.
LEMMA LogsKeepHooks ==
    ASSUME TypeOK, [Next]_vars
    PROVE  \A l \in Logs : logs[l] # Nil => logs'[l].hook = logs[l].hook
<1> SUFFICES ASSUME NEW l \in Logs, logs[l] # Nil
             PROVE  logs'[l].hook = logs[l].hook
    OBVIOUS
<1>1. logs[l] \in Log
    BY DEF TypeOK
<1>2. CASE logs' = logs
    BY <1>2
<1>3. ASSUME NEW k, NEW s, SetStatus(k, s)
      PROVE  logs'[l].hook = logs[l].hook
    BY <1>1, <1>3 DEF SetStatus, TypeOK, Log
<1>4. ASSUME NEW w \in Workers, Start(w)
      PROVE  logs'[l].hook = logs[l].hook
    <2>1. PICK k, n : logs' = [logs EXCEPT ![k].status = "processing", ![k].attempt = n]
        BY <1>4 DEF Start
    <2>2. QED BY <1>1, <2>1 DEF TypeOK, Log
<1>5. ASSUME NEW r \in Requests, EventLog(r)
      PROVE  logs'[l].hook = logs[l].hook
    BY <1>5 DEF EventLog, TypeOK
<1>6. ASSUME NEW w \in Workers, Deliver(w) \/ Crash(w) \/ DatabaseError(w)
      PROVE  logs'[l].hook = logs[l].hook
    BY <1>2, <1>3, <1>4, <1>6
       DEF Deliver, Post, LogAnswer, CountSuccess, CountFailure, CatchLog, CatchCount,
           Deactivate, Leave, Crash, DatabaseError
<1>7. ASSUME NEW r \in Requests, EventRead(r) \/ RetryDelivery(r) \/ Serve(r) \/ Abort(r)
      PROVE  logs'[l].hook = logs[l].hook
    BY <1>2, <1>3, <1>5, <1>7
       DEF EventRead, RetryDelivery, RetryRead, Serve, EventAdd, RetryUpdate, RetryAdd, Abort
<1>8. QED
    BY <1>2, <1>6, <1>7
       DEF Next, CreateWebhook, Create, ChangeWebhook, Remove, Update, Take, vars

LEMMA HookKept ==
    ASSUME TypeOK, RefersToRows, [Next]_vars, NEW v \in Workers,
           workers'[v].job = workers[v].job,
           ~Doing(v, "idle") => jobs'[workers[v].job].log = jobs[workers[v].job].log
    PROVE  ~Doing(v, "idle") => HookOf(v)' = HookOf(v)
<1> SUFFICES ASSUME ~Doing(v, "idle")
             PROVE  HookOf(v)' = HookOf(v)
    OBVIOUS
<1>1. LogOf(v) \in Logs /\ logs[LogOf(v)] # Nil
    BY DeliveryTyped, NilAssumption
<1>2. LogOf(v)' = LogOf(v)
    BY DEF LogOf
<1>3. QED BY <1>1, <1>2, LogsKeepHooks DEF HookOf

\* The failures and the rows that a step leaves alone.
Same(h) == hooks'[h] = hooks[h] /\ failures'[h] = failures[h]

\* A step of a worker within a try: what it writes to the row it has owed,
\* and a try counts as failed before it owes anything.
Tallies(w) ==
    LET h == HookOf(w)
        pc == workers[w].pc
    IN  /\ pc \notin {"idle", "throw"}
        /\ workers'[w].hook = workers[w].hook /\ HookOf(w)' = h
        /\ \A k \in Hooks \ {h} : Same(k)
        /\ hooks'[h] # Nil => hooks[h] # Nil
        /\ workers'[w].pc = "deactivate" =>
              workers[w].hook.failedAttempts + 1 >= DeactivateAfter
        /\ \/ /\ failures'[h] = failures[h]
              /\ workers'[w].pc \in Failing => pc \in Failing
              /\ hooks'[h] # Nil =>
                    hooks'[h].failedAttempts + Due(workers'[w].pc)
                       <= hooks[h].failedAttempts + Due(pc)
           \/ /\ failures'[h] = Cap(failures[h] + 1, FailureCap)
              /\ hooks'[h] = hooks[h]
              /\ Due(pc) = 0 /\ workers'[w].pc # "deactivate"

LEMMA OneMoreCounts ==
    ASSUME NEW hook \in Hook
    PROVE  /\ OneMore(hook).failedAttempts <= hook.failedAttempts + 1
           /\ OneMore(hook).failedAttempts \in Nat /\ hook.failedAttempts \in Nat
<1>1. hook.failedAttempts \in 0 .. FailureCap
    BY DEF Hook
<1>2. OneMore(hook).failedAttempts = Cap(hook.failedAttempts + 1, FailureCap)
    BY DEF OneMore, Hook
<1>3. QED BY <1>1, <1>2, Bounds DEF Cap

\* Then leaves the copy alone.
LEMMA ThenCopy ==
    ASSUME TypeOK, NEW w \in Workers, ~Doing(w, "idle"), NEW pc, Then(w, pc)
    PROVE  /\ workers'[w].pc = pc /\ workers'[w].hook = workers[w].hook
           /\ workers'[w].attempt = workers[w].attempt
BY WorkerTyped DEF TypeOK, Then

LEMMA TallyStep ==
    ASSUME TypeOK, RefersToRows, NEW w \in Workers, CopyCovered(w), [Next]_vars,
           \/ Start(w) \/ Post(w) \/ LogAnswer(w) \/ CountSuccess(w)
           \/ CountFailure(w) \/ CatchLog(w) \/ CatchCount(w) \/ Deactivate(w)
           \/ DatabaseError(w)
    PROVE  Tallies(w)
<1> USE DEF Doing
<1>1. /\ UNCHANGED <<jobs, req>> /\ ~Doing(w, "idle")
      /\ workers'[w].job = workers[w].job
      /\ \A h \in Hooks : hooks'[h] = Nil <=> hooks[h] = Nil
    BY WorkerStep
<1>2. HookOf(w) \in Hooks /\ HookOf(w)' = HookOf(w)
    BY <1>1, DeliveryTyped, HookKept
<1>3. PICK h \in Hooks : h = HookOf(w)
    BY <1>2
<1>4. /\ hooks[h] # Nil => hooks[h] \in Hook
      /\ hooks[h] # Nil => hooks[h].failedAttempts \in Nat
      /\ failures[h] \in Nat
      /\ hooks'[h] # Nil => hooks[h] # Nil
    BY <1>1, Bounds, OneMoreCounts DEF TypeOK
<1>5. \A pc : Due(pc) \in Nat
    BY DueValues
\* Steps that leave the row and the history alone.
<1>6. ASSUME UNCHANGED <<hooks, failures>>, NEW pc, Then(w, pc),
             workers[w].pc # "throw",
             Due(pc) <= Due(workers[w].pc), pc # "deactivate",
             pc \in Failing => workers[w].pc \in Failing
      PROVE  Tallies(w)
    <2>1. workers'[w].pc = pc /\ workers'[w].hook = workers[w].hook
        BY <1>1, <1>6, ThenCopy
    <2>2. hooks'[h] # Nil => hooks'[h].failedAttempts + Due(pc)
                               <= hooks[h].failedAttempts + Due(workers[w].pc)
        BY <1>4, <1>5, <1>6
    <2>3. QED BY <1>1, <1>2, <1>3, <1>4, <1>6, <2>1, <2>2 DEF Tallies, Same
\* A failed try.
<1>7. ASSUME UNCHANGED hooks, Failed(HookOf(w)), NEW pc \in {"logFailure", "catchLog"},
             Then(w, pc), Due(workers[w].pc) = 0, workers[w].pc # "throw"
      PROVE  Tallies(w)
    <2>1. workers'[w].pc = pc /\ workers'[w].hook = workers[w].hook
        BY <1>1, <1>7, ThenCopy
    <2>2. /\ failures'[h] = Cap(failures[h] + 1, FailureCap)
          /\ \A k \in Hooks \ {h} : failures'[k] = failures[k]
        BY <1>3, <1>7 DEF Failed, TypeOK
    <2>3. QED BY <1>1, <1>2, <1>3, <1>7, <2>1, <2>2 DEF Tallies, Same
\* A count.
<1>8. ASSUME UNCHANGED failures, NEW new, UpdateHook(HookOf(w), new),
             NEW pc, Then(w, pc), workers[w].pc # "throw",
             pc \in Failing => workers[w].pc \in Failing,
             pc = "deactivate" =>
                 workers[w].hook.failedAttempts + 1 >= DeactivateAfter,
             hooks[h] # Nil => new.failedAttempts + Due(pc)
                                 <= hooks[h].failedAttempts + Due(workers[w].pc)
      PROVE  Tallies(w)
    <2>1. workers'[w].pc = pc /\ workers'[w].hook = workers[w].hook
        BY <1>1, <1>8, ThenCopy
    <2>2. /\ \A k \in Hooks \ {h} : hooks'[k] = hooks[k]
          /\ hooks[h] # Nil => hooks'[h] = new
        BY <1>3, <1>8 DEF UpdateHook, TypeOK
    <2>3. QED BY <1>1, <1>2, <1>3, <1>4, <1>8, <2>1, <2>2 DEF Tallies, Same
<1>9. CASE Start(w)
    <2>1. workers'[w].pc = "post" /\ workers'[w].hook = workers[w].hook
        BY <1>9, WorkerTyped DEF Start, TypeOK, Worker, Resting
    <2>2. UNCHANGED <<hooks, failures>> /\ workers[w].pc = "start"
        BY <1>9 DEF Start
    <2>3. hooks'[h] # Nil => hooks'[h].failedAttempts + Due("post")
                               <= hooks[h].failedAttempts + Due("start")
        BY <1>4, <2>2, DueValues
    <2>4. QED BY <1>1, <1>2, <1>3, <1>4, <2>1, <2>2, <2>3 DEF Tallies, Same, Failing, Counts, FirstCount
<1>10. CASE Post(w)
    <2>1. CASE Then(w, "logSuccess") /\ UNCHANGED failures
        BY <1>6, <1>10, <2>1, DueValues DEF Post, Failing, Counts, FirstCount
    <2>2. CASE /\ \E pc \in {"logFailure", "catchLog"} : Then(w, pc)
               /\ Failed(HookOf(w))
        BY <1>7, <1>10, <2>2, DueValues DEF Post
    <2>3. QED BY <1>10, <2>1, <2>2 DEF Post
<1>11. CASE LogAnswer(w)
    <2>1. CASE workers[w].pc = "logSuccess" /\ Then(w, "countSuccess")
        BY <1>6, <1>11, <2>1, DueValues DEF LogAnswer, Failing, Counts, FirstCount
    <2>2. CASE workers[w].pc = "logFailure" /\ Then(w, "countFailure")
        BY <1>6, <1>11, <2>2, DueValues DEF LogAnswer, Failing, Counts, FirstCount
    <2>3. QED BY <1>11, <2>1, <2>2 DEF LogAnswer
<1>12. CASE CountSuccess(w)
    <2> DEFINE new == [hooks[HookOf(w)] EXCEPT !.failedAttempts = 0]
    <2>1. hooks[h] # Nil => new.failedAttempts = 0
        BY <1>3, <1>4 DEF Hook
    <2>2. /\ UNCHANGED failures /\ UpdateHook(HookOf(w), new) /\ Then(w, "done")
          /\ workers[w].pc = "countSuccess"
        BY <1>12 DEF CountSuccess
    <2> HIDE DEF new
    <2>3. hooks[h] # Nil => new.failedAttempts + Due("done")
                              <= hooks[h].failedAttempts + Due("countSuccess")
        BY <1>4, <2>1, DueValues
    <2>4. QED BY <1>8, <2>2, <2>3 DEF Failing, Counts, FirstCount
<1>13. CASE CountFailure(w)
    <2> DEFINE new == OneMore(hooks[HookOf(w)])
    <2>1. hooks[h] # Nil => new.failedAttempts <= hooks[h].failedAttempts + 1
                            /\ new.failedAttempts \in Nat
        BY <1>3, <1>4, OneMoreCounts
    <2>2. /\ UNCHANGED failures /\ UpdateHook(HookOf(w), new) /\ Then(w, "catchLog")
          /\ workers[w].pc = "countFailure"
        BY <1>13 DEF CountFailure
    <2> HIDE DEF new
    <2>3. hooks[h] # Nil => new.failedAttempts + Due("catchLog")
                              <= hooks[h].failedAttempts + Due("countFailure")
        BY <1>4, <2>1, DueValues
    <2>4. QED BY <1>8, <2>2, <2>3 DEF Failing, Counts, FirstCount
<1>14. CASE CatchLog(w)
    BY <1>6, <1>14, DueValues DEF CatchLog, Failing, Counts, FirstCount
<1>15. CASE CatchCount(w)
    <2> DEFINE new == OneMore(hooks[HookOf(w)])
               pc == IF Exhausted(workers[w]) THEN "deactivate" ELSE "throw"
    <2>1. hooks[h] # Nil => new.failedAttempts <= hooks[h].failedAttempts + 1
                            /\ new.failedAttempts \in Nat
        BY <1>3, <1>4, OneMoreCounts
    <2>2. /\ UNCHANGED failures /\ UpdateHook(HookOf(w), new) /\ Then(w, pc)
          /\ workers[w].pc = "catchCount"
        BY <1>15 DEF CatchCount
    <2>3. pc \in {"deactivate", "throw"} /\ Due(pc) = 0
          /\ (pc = "deactivate" =>
                 workers[w].hook.failedAttempts + 1 >= DeactivateAfter)
        BY DueValues DEF Exhausted
    <2> HIDE DEF new, pc
    <2>4. hooks[h] # Nil => new.failedAttempts + Due(pc)
                              <= hooks[h].failedAttempts + Due("catchCount")
        BY <1>4, <2>1, <2>3, DueValues
    <2>5. QED BY <1>8, <2>2, <2>3, <2>4 DEF Failing, Counts, FirstCount
<1>16. CASE Deactivate(w)
    <2> DEFINE new == [hooks[HookOf(w)] EXCEPT !.isActive = FALSE]
    <2>1. hooks[h] # Nil => new.failedAttempts = hooks[h].failedAttempts
        BY <1>3, <1>4 DEF Hook
    <2>2. /\ UNCHANGED failures /\ UpdateHook(HookOf(w), new) /\ Then(w, "throw")
          /\ workers[w].pc = "deactivate"
        BY <1>16 DEF Deactivate
    <2> HIDE DEF new
    <2>3. hooks[h] # Nil => new.failedAttempts + Due("throw")
                              <= hooks[h].failedAttempts + Due("deactivate")
        BY <1>4, <2>1, DueValues
    <2>4. QED BY <1>8, <2>2, <2>3 DEF Failing, Counts, FirstCount
<1>17. CASE DatabaseError(w)
    <2>1. CASE /\ workers[w].pc \in {"logSuccess", "countSuccess"}
               /\ Then(w, "catchLog") /\ Failed(HookOf(w))
        BY <1>7, <1>17, <2>1, DueValues DEF DatabaseError
    <2>2. CASE /\ workers[w].pc \in {"logFailure", "countFailure"}
               /\ Then(w, "catchLog") /\ UNCHANGED failures
        BY <1>6, <1>17, <2>2, DueValues DEF DatabaseError, Failing, Counts, FirstCount
    <2>3. CASE /\ workers[w].pc \in {"start", "catchLog", "catchCount", "deactivate"}
               /\ \E pc \in {"untold", "throw"} : Then(w, pc)
               /\ UNCHANGED failures
        BY <1>6, <1>17, <2>3, DueValues DEF DatabaseError, Failing, Counts, FirstCount
    <2>4. QED BY <1>17, <2>1, <2>2, <2>3 DEF DatabaseError
<1>18. QED
    BY <1>9, <1>10, <1>11, <1>12, <1>13, <1>14, <1>15, <1>16, <1>17

\* What a copy says stays covered while its subscription's failures grow.
LEMMA CopyKept ==
    ASSUME TypeOK, RefersToRows, NEW v \in Workers, CopyCovered(v), Keeps(v),
           \A h \in Hooks :
               failures[h] <= failures'[h] /\ failures'[h] \in 0 .. FailureCap
    PROVE  CopyCovered(v)'
<1> SUFFICES ASSUME workers'[v].pc \notin {"idle", "throw"}
             PROVE  CopyCovered(v)'
    BY DEF CopyCovered
<1>1. workers'[v] = workers[v] /\ ~Doing(v, "idle") /\ HookOf(v)' = HookOf(v)
    BY DEF Keeps, Doing
<1>2. PICK h \in Hooks : h = HookOf(v)
    BY <1>1, DeliveryTyped
<1>3. /\ workers[v].hook \in Hook
      /\ \/ failures[h] = FailureCap
         \/ /\ workers[v].hook.failedAttempts <= 2 * failures[h]
            /\ workers[v].pc \in Failing =>
                  workers[v].hook.failedAttempts + 2 <= 2 * failures[h]
      /\ workers[v].pc = "deactivate" =>
            workers[v].hook.failedAttempts + 1 >= DeactivateAfter
    BY <1>1, <1>2 DEF CopyCovered
<1>4. /\ failures[h] \in Nat /\ failures'[h] \in Nat /\ FailureCap \in Nat
      /\ failures[h] <= failures'[h] /\ failures'[h] <= FailureCap
      /\ workers[v].hook.failedAttempts \in Nat
    BY <1>2, <1>3, Bounds DEF TypeOK, Hook
<1>5. \/ failures'[h] = FailureCap
      \/ /\ workers[v].hook.failedAttempts <= 2 * failures'[h]
         /\ workers[v].pc \in Failing =>
               workers[v].hook.failedAttempts + 2 <= 2 * failures'[h]
    BY <1>3, <1>4
<1>6. QED BY <1>1, <1>2, <1>3, <1>5 DEF CopyCovered

\* Steps of a worker within a try.
LEMMA TryCovers ==
    ASSUME TypeOK, RefersToRows, FailuresCovered, [Next]_vars, NEW w \in Workers,
           \/ Start(w) \/ Post(w) \/ LogAnswer(w) \/ CountSuccess(w)
           \/ CountFailure(w) \/ CatchLog(w) \/ CatchCount(w) \/ Deactivate(w)
           \/ DatabaseError(w)
    PROVE  FailuresCovered'
<1>1. Tallies(w)
    BY TallyStep DEF FailuresCovered
<1>2. /\ UNCHANGED jobs /\ ~Doing(w, "idle") /\ workers'[w].pc # "idle"
      /\ \A v \in Workers \ {w} : workers'[v] = workers[v]
      /\ TypeOK'
    BY WorkerStep DEF WorkerPcs
<1>3. \A v \in Workers \ {w} : Keeps(v)
    BY <1>2, HookKept DEF Keeps
<1>4. PICK h \in Hooks : h = HookOf(w)
    BY <1>2, DeliveryTyped
<1>5. PICK pc, npc : pc = workers[w].pc /\ npc = workers'[w].pc
    OBVIOUS
<1>6. /\ pc \notin {"idle", "throw"}
      /\ workers'[w].hook = workers[w].hook /\ HookOf(w)' = h
      /\ \A k \in Hooks \ {h} : Same(k)
      /\ hooks'[h] # Nil => hooks[h] # Nil
      /\ npc = "deactivate" => workers[w].hook.failedAttempts + 1 >= DeactivateAfter
      /\ \/ /\ failures'[h] = failures[h]
            /\ npc \in Failing => pc \in Failing
            /\ hooks'[h] # Nil => hooks'[h].failedAttempts + Due(npc)
                                    <= hooks[h].failedAttempts + Due(pc)
         \/ /\ failures'[h] = Cap(failures[h] + 1, FailureCap)
            /\ hooks'[h] = hooks[h] /\ Due(pc) = 0 /\ npc # "deactivate"
    BY <1>1, <1>4, <1>5 DEF Tallies
<1>7. /\ FailureCap \in Nat
      /\ \A k \in Hooks : failures[k] \in 0 .. FailureCap /\ failures'[k] \in 0 .. FailureCap
      /\ \A k \in Hooks : hooks[k] # Nil => hooks[k].failedAttempts \in Nat
      /\ \A k \in Hooks : hooks'[k] # Nil => hooks'[k].failedAttempts \in Nat
      /\ Due(pc) \in 0 .. 2 /\ Due(npc) \in 0 .. 2
    BY <1>2, Bounds, DueValues DEF TypeOK, Hook
<1>8. \A k \in Hooks : failures[k] <= failures'[k]
    BY <1>6, <1>7 DEF Same, Cap
<1>9. RowCovered(h)'
    <2>1. /\ Owed(h) \in Nat /\ Owed(h)' \in Nat
          /\ Owed(h)' + Due(pc) = Owed(h) + Due(npc)
        BY <1>3, <1>4, <1>5, <1>6, OwedChanges
    <2>2. RowCovered(h)
        BY DEF FailuresCovered
    <2>3. SUFFICES ASSUME hooks'[h] # Nil
                   PROVE  \/ failures'[h] = FailureCap
                          \/ hooks'[h].failedAttempts + Owed(h)' <= 2 * failures'[h]
        BY DEF RowCovered
    <2>4. \/ failures[h] = FailureCap
          \/ hooks[h].failedAttempts + Owed(h) <= 2 * failures[h]
        BY <1>6, <2>2, <2>3 DEF RowCovered
    <2>5. hooks[h].failedAttempts \in Nat /\ hooks'[h].failedAttempts \in Nat
        BY <1>6, <1>7, <2>3
    <2>6. CASE failures'[h] = failures[h]
               /\ hooks'[h].failedAttempts + Due(npc) <= hooks[h].failedAttempts + Due(pc)
        BY <1>7, <2>1, <2>4, <2>5, <2>6
    <2>7. CASE /\ failures'[h] = Cap(failures[h] + 1, FailureCap)
               /\ hooks'[h] = hooks[h] /\ Due(pc) = 0
        BY <1>7, <2>1, <2>4, <2>5, <2>7 DEF Cap
    <2>8. QED BY <1>6, <2>3, <2>6, <2>7
<1>10. ASSUME NEW k \in Hooks \ {h}
       PROVE  RowCovered(k)'
    <2>1. Owed(k)' = Owed(k)
        BY <1>3, <1>4, <1>6, OwedChanges
    <2>2. RowCovered(k)
        BY DEF FailuresCovered
    <2>3. hooks'[k] = hooks[k] /\ failures'[k] = failures[k]
        BY <1>6 DEF Same
    <2>4. QED BY <2>1, <2>2, <2>3 DEF RowCovered
<1>11. CopyCovered(w)'
    <2>1. /\ workers[w].hook \in Hook
          /\ \/ failures[h] = FailureCap
             \/ /\ workers[w].hook.failedAttempts <= 2 * failures[h]
                /\ pc \in Failing =>
                      workers[w].hook.failedAttempts + 2 <= 2 * failures[h]
        BY <1>4, <1>5, <1>6 DEF FailuresCovered, CopyCovered
    <2>2. workers[w].hook.failedAttempts \in Nat
        BY <2>1, Bounds DEF Hook
    <2>3. \/ failures'[h] = FailureCap
          \/ /\ workers[w].hook.failedAttempts <= 2 * failures'[h]
             /\ npc \in Failing =>
                   workers[w].hook.failedAttempts + 2 <= 2 * failures'[h]
        BY <1>6, <1>7, <2>1, <2>2 DEF Cap
    <2>4. QED BY <1>5, <1>6, <2>1, <2>3 DEF CopyCovered
<1>12. \A v \in Workers \ {w} : CopyCovered(v)'
    BY <1>3, <1>7, <1>8, CopyKept DEF FailuresCovered
<1>13. QED BY <1>9, <1>10, <1>11, <1>12 DEF FailuresCovered

\* A worker that takes a job or gives it back owes nothing.
LEMMA IdleCovers ==
    ASSUME TypeOK, RefersToRows, FailuresCovered, [Next]_vars, NEW w \in Workers,
           \A v \in Workers \ {w} : Keeps(v),
           UNCHANGED <<hooks, failures>>,
           Due(workers'[w].pc) = 0,
           CopyCovered(w)'
    PROVE  FailuresCovered'
<1>1. ASSUME NEW h \in Hooks
      PROVE  RowCovered(h)'
    <2>1. Owed(h) \in Nat /\ Owed(h)' \in Nat /\ Owed(h)' <= Owed(h)
        BY OwedChanges
    <2>2. RowCovered(h)
        BY DEF FailuresCovered
    <2>3. /\ hooks'[h] = hooks[h] /\ failures'[h] = failures[h]
          /\ failures[h] \in Nat
          /\ hooks[h] # Nil => hooks[h].failedAttempts \in Nat
        BY Bounds DEF TypeOK, Hook
    <2>4. QED BY <2>1, <2>2, <2>3 DEF RowCovered
<1>2. \A h \in Hooks : failures[h] <= failures'[h] /\ failures'[h] \in 0 .. FailureCap
    BY Bounds DEF TypeOK
<1>3. \A v \in Workers \ {w} : CopyCovered(v)'
    BY <1>2, CopyKept DEF FailuresCovered
<1>4. QED BY <1>1, <1>3 DEF FailuresCovered

LEMMA RestFailures ==
    ASSUME TypeOK, RefersToRows, FailuresCovered, [Next]_vars, NEW w \in Workers,
           Leave(w) \/ Crash(w)
    PROVE  FailuresCovered'
<1>1. /\ UNCHANGED <<hooks, failures>>
      /\ workers'[w].pc = "idle"
      /\ \A v \in Workers \ {w} : workers'[v] = workers[v]
      /\ \A j \in Jobs : jobs'[j] # Nil => jobs'[j].log = jobs[j].log
      /\ \A j \in Jobs : jobs[j] # Nil /\ jobs'[j] = Nil => workers[w].job = j
    BY RestStep DEF Leave, Crash
<1>2. ASSUME NEW v \in Workers \ {w}
      PROVE  Keeps(v)
    <2>1. ~Doing(v, "idle") => jobs'[workers[v].job].log = jobs[workers[v].job].log
        <3>1. SUFFICES ASSUME ~Doing(v, "idle")
                       PROVE  jobs'[workers[v].job].log = jobs[workers[v].job].log
            OBVIOUS
        <3>2. /\ workers[v].job \in Jobs /\ jobs[workers[v].job] # Nil
              /\ workers[w].job # workers[v].job
            BY <3>1, WorkerHolds DEF RefersToRows, Doing
        <3>3. QED BY <1>1, <3>2
    <2>2. QED BY <1>1, <2>1, HookKept DEF Keeps
<1>3. CopyCovered(w)'
    BY <1>1 DEF CopyCovered
<1>4. QED BY <1>1, <1>2, <1>3, DueValues, IdleCovers

\* The copy says what the row says.
LEMMA TakeFailures ==
    ASSUME TypeOK, RefersToRows, FailuresCovered, [Next]_vars,
           NEW w \in Workers, NEW j \in Jobs, Take(w, j)
    PROVE  FailuresCovered'
<1>1. /\ UNCHANGED <<hooks, logs, jobs, failures>>
      /\ \A v \in Workers \ {w} : workers'[v] = workers[v]
      /\ workers'[w].job = j /\ jobs[j] # Nil
    BY TakeStep DEF Take
<1>2. \A v \in Workers \ {w} : Keeps(v)
    BY <1>1, HookKept DEF Keeps
<1>3. PICK h \in Hooks : h = logs[jobs[j].log].hook
    BY <1>1 DEF TypeOK, RefersToRows, Job, Log
<1>4. /\ workers'[w].pc = IF hooks[h] = Nil THEN "throw" ELSE "start"
      /\ workers'[w].hook = hooks[h]
    BY <1>3 DEF Take, TypeOK
<1>5. HookOf(w)' = h
    BY <1>1, <1>3 DEF HookOf, LogOf
<1>6. CopyCovered(w)'
    <2>1. SUFFICES ASSUME hooks[h] # Nil, workers'[w].pc = "start"
                   PROVE  CopyCovered(w)'
        BY <1>4 DEF CopyCovered
    <2>2. /\ hooks[h] \in Hook /\ hooks[h].failedAttempts \in Nat
          /\ failures[h] \in Nat /\ Owed(h) \in Nat
        BY <2>1, Bounds, OwingFinite DEF TypeOK, Hook, Owed
    <2>3. RowCovered(h)
        BY DEF FailuresCovered
    <2>4. \/ failures[h] = FailureCap
          \/ hooks[h].failedAttempts <= 2 * failures[h]
        BY <2>1, <2>2, <2>3 DEF RowCovered
    <2>5. QED BY <1>1, <1>4, <1>5, <2>1, <2>2, <2>4
              DEF CopyCovered, Failing, Counts, FirstCount
<1>7. Due(workers'[w].pc) = 0
    BY <1>4, DueValues
<1>8. QED BY <1>1, <1>2, <1>6, <1>7, IdleCovers

\* What is owed when no worker moves.
LEMMA OwedUnmoved ==
    ASSUME \A v \in Workers : Keeps(v), NEW h
    PROVE  Owed(h)' = Owed(h)
<1>1. Owing(FirstCount, h)' = Owing(FirstCount, h)
    BY DEF Owing, Keeps, Doing, FirstCount
<1>2. Owing(Counts, h)' = Owing(Counts, h)
    BY DEF Owing, Keeps, Doing, Counts, FirstCount
<1>3. QED BY <1>1, <1>2 DEF Owed

\* Requests move no worker and no count.
LEMMA RequestFailures ==
    ASSUME TypeOK, RefersToRows, FailuresCovered, [Next]_vars,
           UNCHANGED <<hooks, workers, failures>>,
           \A j \in Jobs : jobs[j] # Nil => jobs'[j].log = jobs[j].log
    PROVE  FailuresCovered'
<1>1. ASSUME NEW v \in Workers
      PROVE  Keeps(v)
    <2>1. ~Doing(v, "idle") => jobs'[workers[v].job].log = jobs[workers[v].job].log
        BY WorkerHolds DEF Doing
    <2>2. QED BY <2>1, HookKept DEF Keeps
<1>2. \A h \in Hooks : RowCovered(h)'
    BY <1>1, OwedUnmoved DEF FailuresCovered, RowCovered
<1>3. \A h \in Hooks : failures[h] <= failures'[h] /\ failures'[h] \in 0 .. FailureCap
    BY Bounds DEF TypeOK
<1>4. \A v \in Workers : CopyCovered(v)'
    BY <1>1, <1>3, CopyKept DEF FailuresCovered
<1>5. QED BY <1>2, <1>4 DEF FailuresCovered

\* Changes of subscriptions leave the counts alone; a new one has no
\* deliveries, so nobody owes it anything.
LEMMA HookFailures ==
    ASSUME TypeOK, RefersToRows, FailuresCovered, [Next]_vars,
           NEW h \in Hooks, CreateWebhook(h) \/ ChangeWebhook(h)
    PROVE  FailuresCovered'
<1>1. UNCHANGED <<logs, jobs, workers, req>>
    BY HookStep
<1>2. \A v \in Workers : Keeps(v)
    BY <1>1, HookKept DEF Keeps
<1>3. \A k \in Hooks : Owed(k)' = Owed(k)
    BY <1>2, OwedUnmoved
<1>4. CASE CreateWebhook(h)
    <2>1. PICK n \in RetryChoices : Create(h, n)
        BY <1>4 DEF CreateWebhook
    <2>2. /\ \A l \in Logs : logs[l] # Nil => logs[l].hook # h
          /\ hooks'[h].failedAttempts = 0 /\ failures'[h] = 0
          /\ \A k \in Hooks \ {h} : hooks'[k] = hooks[k] /\ failures'[k] = failures[k]
        BY <2>1 DEF Create, TypeOK
    <2>3. \A w \in Workers : ~Doing(w, "idle") => HookOf(w) # h
        BY <2>2, DeliveryTyped, NilAssumption DEF HookOf
    <2>4. Owed(h) = 0
        <3>1. Owing(FirstCount, h) = {} /\ Owing(Counts, h) = {}
            BY <2>3 DEF Owing, Doing, FirstCount, Counts
        <3>2. QED BY <3>1, FS_EmptySet DEF Owed
    <2>5. RowCovered(h)'
        BY <1>3, <2>2, <2>4 DEF RowCovered
    <2>6. \A k \in Hooks \ {h} : RowCovered(k)'
        BY <1>3, <2>2 DEF FailuresCovered, RowCovered
    <2>7. ASSUME NEW w \in Workers
          PROVE  CopyCovered(w)'
        <3>1. SUFFICES ASSUME ~Doing(w, "idle")
                       PROVE  CopyCovered(w)'
            BY <1>1 DEF CopyCovered, Doing
        <3>2. /\ HookOf(w)' = HookOf(w) /\ workers'[w] = workers[w]
              /\ failures'[HookOf(w)] = failures[HookOf(w)]
            BY <1>2, <2>2, <2>3, <3>1, DeliveryTyped DEF Keeps
        <3>3. QED BY <3>2 DEF FailuresCovered, CopyCovered
    <2>8. QED BY <2>5, <2>6, <2>7 DEF FailuresCovered
<1>5. CASE ChangeWebhook(h)
    <2>1. /\ failures' = failures
          /\ \A k \in Hooks : hooks'[k] # Nil =>
                hooks[k] # Nil /\ hooks'[k].failedAttempts = hooks[k].failedAttempts
        <3>1. CASE Remove(h)
            BY <3>1 DEF Remove, TypeOK
        <3>2. ASSUME NEW n, NEW active, Update(h, active, n)
              PROVE  /\ failures' = failures
                     /\ \A k \in Hooks : hooks'[k] # Nil =>
                           /\ hooks[k] # Nil
                           /\ hooks'[k].failedAttempts = hooks[k].failedAttempts
            BY <3>2 DEF Update, TypeOK, Hook
        <3>3. QED BY <1>5, <3>1, <3>2 DEF ChangeWebhook
    <2>2. \A k \in Hooks : RowCovered(k)'
        BY <1>3, <2>1 DEF FailuresCovered, RowCovered
    <2>3. \A k \in Hooks : failures[k] <= failures'[k] /\ failures'[k] \in 0 .. FailureCap
        BY <2>1, Bounds DEF TypeOK
    <2>4. \A v \in Workers : CopyCovered(v)'
        BY <1>2, <2>3, CopyKept DEF FailuresCovered
    <2>5. QED BY <2>2, <2>4 DEF FailuresCovered
<1>6. QED BY <1>4, <1>5

\* Every step, whatever fails.
LEMMA FailuresStep ==
    ASSUME TypeOK, RefersToRows, FailuresCovered, [Next]_vars
    PROVE  FailuresCovered'
<1>1. CASE UNCHANGED vars
    BY <1>1, RequestFailures DEF vars
<1>2. ASSUME NEW h \in Hooks, CreateWebhook(h) \/ ChangeWebhook(h)
      PROVE  FailuresCovered'
    BY <1>2, HookFailures
<1>3. ASSUME NEW r \in Requests, EventRead(r) \/ RetryDelivery(r) \/ Serve(r)
      PROVE  FailuresCovered'
    <2>1. RequestEffect(r)
        BY <1>3, EventReadStep, RetryStep, EventLogStep, EventAddStep DEF Serve
    <2>2. \A j \in Jobs : jobs[j] # Nil => jobs'[j].log = jobs[j].log
        BY <2>1 DEF RequestEffect
    <2>3. QED BY <2>1, <2>2, RequestFailures DEF RequestEffect
<1>4. ASSUME NEW r \in Requests, Abort(r)
      PROVE  FailuresCovered'
    BY <1>4, RequestFailures DEF Abort
<1>5. ASSUME NEW w \in Workers, Deliver(w) \/ DatabaseError(w)
      PROVE  FailuresCovered'
    BY <1>5, TryCovers, RestFailures DEF Deliver
<1>6. ASSUME NEW w \in Workers, Crash(w)
      PROVE  FailuresCovered'
    BY <1>6, RestFailures
<1>7. ASSUME NEW w \in Workers, NEW j \in Jobs, Take(w, j)
      PROVE  FailuresCovered'
    BY <1>7, TakeFailures
<1>8. QED BY <1>1, <1>2, <1>3, <1>4, <1>5, <1>6, <1>7 DEF Next

LEMMA InitFailures == Init => FailuresCovered
<1> SUFFICES ASSUME Init
             PROVE  FailuresCovered
    OBVIOUS
<1>1. \A h \in Hooks : RowCovered(h)
    BY DEF Init, RowCovered
<1>2. \A w \in Workers : CopyCovered(w)
    BY DEF Init, CopyCovered, Resting
<1>3. QED BY <1>1, <1>2 DEF FailuresCovered

\* A subscription that deliveries deactivate has failed at least half as
\* often as the threshold says, whatever fails and however many workers
\* deliver for it, each with a copy of its own (deliverWebhook counts a
\* non-2xx answer twice and decides by the copy).
THEOREM DeactivationNeedsFailures == Spec => []FailuresBehindDeactivation
<1>1. Init => TypeOK /\ RefersToRows /\ FailuresCovered
    BY InitOK, InitFailures DEF IInv
<1>2. TypeOK /\ RefersToRows /\ FailuresCovered /\ [Next]_vars
          => (TypeOK /\ RefersToRows /\ FailuresCovered)'
    BY TypeStep, FailuresStep
<1>3. TypeOK /\ RefersToRows /\ FailuresCovered => FailuresBehindDeactivation
    <2> SUFFICES ASSUME TypeOK, RefersToRows, FailuresCovered,
                        NEW w \in Workers, Doing(w, "deactivate")
                 PROVE  2 * failures[HookOf(w)] > DeactivateAfter
        BY DEF FailuresBehindDeactivation
    <2>1. PICK h \in Hooks : h = HookOf(w)
        BY DeliveryTyped DEF Doing
    <2>2. /\ workers[w].hook \in Hook
          /\ \/ failures[h] = FailureCap
             \/ workers[w].hook.failedAttempts + 2 <= 2 * failures[h]
          /\ workers[w].hook.failedAttempts + 1 >= DeactivateAfter
        BY <2>1 DEF FailuresCovered, CopyCovered, Doing, Failing
    <2>3. workers[w].hook.failedAttempts \in Nat /\ failures[h] \in Nat
        BY <2>1, <2>2, Bounds DEF Hook, TypeOK
    <2>4. 2 * failures[h] > DeactivateAfter
        BY <2>2, <2>3, DeactivateAssumption DEF FailureCap
    <2>5. QED BY <2>1, <2>4
<1>4. QED BY <1>1, <1>2, <1>3, PTL DEF Spec

=============================================================================
