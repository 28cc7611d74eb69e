------------------------- MODULE EmailDeliveryProofs -------------------------
(***************************************************************************)
(* Safety of the mail queue, for any number of mails and workers and any   *)
(* limits.  IInv says which worker may hold which job and that a worker    *)
(* that may still send is below its limit; the second part adds what each  *)
(* of its theorems needs.                                                  *)
(***************************************************************************)
EXTENDS EmailDelivery, TLAPS

USE DEF Histories

\* A worker holds a job that exists, and nobody else holds it; a mail without
\* a row has no job, and one whose job is still to be added has none either.
Holding ==
    /\ \A w \in Workers : ~Doing(w, "idle") => jobs[MailOf(w)] # Nil
    /\ \A v, w \in Workers : MailOf(v) = MailOf(w) /\ v # w => MailOf(v) = Nil
    /\ \A m \in Mails : logs[m] = Nil => jobs[m] = Nil /\ m \notin adding
    /\ \A m \in adding : jobs[m] = Nil

\* A worker below its limit when it took the job is so until it counts it.
Sending == {"mark", "compile", "recover", "send", "markSent"}
RateInv ==
    \A w \in Workers :
        /\ rate[w].sent <= rate[w].limit
        /\ workers[w].pc \in Sending => rate[w].sent < rate[w].limit

IInv == TypeOK /\ Holding /\ RateInv

-----------------------------------------------------------------------------
LEMMA LimitRange ==
    /\ FirstLimit \in 1 .. LastLimit
    /\ \A n \in 1 .. LastLimit : Smaller(n + LimitStep, LastLimit) \in 1 .. LastLimit
BY LimitAssumption DEF Smaller

\* The counter and limit a worker goes by keep their types, and the count is
\* within the limit.
LEMMA RateNowTyped ==
    ASSUME NEW w \in Workers, TypeOK, RateInv
    PROVE  /\ RateNow(w) \in [sent: 0 .. LastLimit, limit: 1 .. LastLimit,
                              due: BOOLEAN]
           /\ RateNow(w).sent <= RateNow(w).limit
<1>1. rate[w] \in [sent: 0 .. LastLimit, limit: 1 .. LastLimit, due: BOOLEAN]
    BY DEF TypeOK
<1>2. rate[w].sent <= rate[w].limit
    BY DEF RateInv
<1>3. Smaller(rate[w].limit + LimitStep, LastLimit) \in 1 .. LastLimit
    BY <1>1, LimitRange
<1>4. LastLimit \in Nat /\ 0 \in 0 .. LastLimit
    BY LimitAssumption
<1>5. CASE AnHourOver(w)
    BY <1>3, <1>4, <1>5 DEF RateNow
<1>6. CASE ~AnHourOver(w)
    BY <1>1, <1>2, <1>6 DEF RateNow
<1>7. QED BY <1>5, <1>6

\* A worker that goes on keeps its mail; nobody else is disturbed.
LEMMA GoesOn ==
    ASSUME TypeOK, NEW w \in Workers, NEW pc \in WorkerPcs,
           ~Doing(w, "idle"), Then(w, pc)
    PROVE  /\ workers' \in [Workers -> {Resting} \cup [pc: WorkerPcs, mail: Mails]]
           /\ workers'[w].pc = pc
           /\ \A v \in Workers : workers'[v].mail = workers[v].mail
           /\ \A v \in Workers \ {w} : workers'[v] = workers[v]
           /\ workers[w].mail \in Mails
<1>1. workers[w] \in [pc: WorkerPcs, mail: Mails]
    BY DEF TypeOK, Doing, Resting
<1>2. workers' = [workers EXCEPT ![w] = [workers[w] EXCEPT !.pc = pc]]
    BY DEF Then
<1>3. [workers[w] EXCEPT !.pc = pc] \in [pc: WorkerPcs, mail: Mails]
    BY <1>1
<1>4. workers \in [Workers -> {Resting} \cup [pc: WorkerPcs, mail: Mails]]
    BY DEF TypeOK
<1>5. workers' \in [Workers -> {Resting} \cup [pc: WorkerPcs, mail: Mails]]
    BY <1>2, <1>3, <1>4
<1>6. workers'[w] = [workers[w] EXCEPT !.pc = pc]
    BY <1>2, <1>4
<1>7. workers'[w].pc = pc /\ workers'[w].mail = workers[w].mail
    BY <1>1, <1>6
<1>8. \A v \in Workers \ {w} : workers'[v] = workers[v]
    BY <1>2, <1>4
<1>9. QED BY <1>1, <1>5, <1>7, <1>8

\* Whatever a worker's step does to the logs, it leaves the jobs alone.
LEMMA GoingOnHolds ==
    ASSUME IInv, NEW w \in Workers, NEW pc \in WorkerPcs,
           ~Doing(w, "idle"), Then(w, pc), UNCHANGED <<adding, jobs>>,
           \A m \in Mails : logs'[m] = Nil => logs[m] = Nil
    PROVE  Holding'
<1>1. \A v \in Workers : workers'[v].mail = workers[v].mail
    BY GoesOn DEF IInv
<1>2. \A v \in Workers : workers'[v].pc # "idle" => workers[v].pc # "idle"
    <2>1. \A v \in Workers \ {w} : workers'[v] = workers[v]
        BY GoesOn DEF IInv
    <2>2. QED BY <2>1 DEF Doing
<1>3. adding \subseteq Mails
    BY DEF IInv, TypeOK
<1>4. QED BY <1>1, <1>2, <1>3 DEF IInv, Holding, Doing, MailOf

\* A worker that does not start sending, and no counter that moves.
LEMMA GoingOnCounts ==
    ASSUME IInv, NEW w \in Workers, NEW pc \in WorkerPcs,
           ~Doing(w, "idle"), Then(w, pc), UNCHANGED rate,
           pc \in Sending => workers[w].pc \in Sending
    PROVE  RateInv'
<1>1. \A v \in Workers : workers'[v].pc \in Sending => workers[v].pc \in Sending
    <2>1. \A v \in Workers \ {w} : workers'[v] = workers[v]
        BY GoesOn DEF IInv
    <2>2. workers'[w].pc = pc
        BY GoesOn DEF IInv
    <2>3. QED BY <2>1, <2>2
<1>2. QED BY <1>1 DEF IInv, RateInv

LEMMA StatusSet ==
    ASSUME TypeOK, NEW m \in Mails, NEW status \in Statuses, SetStatus(m, status)
    PROVE  /\ logs' \in [Mails -> Statuses \cup {Nil}]
           /\ \A n \in Mails : logs'[n] = Nil => logs[n] = Nil
BY NilAssumption DEF TypeOK, SetStatus

LEMMA Initially == Init => IInv
BY AttemptsAssumption, LimitAssumption, StallAssumption, LimitRange, NilAssumption
DEF Init, IInv, TypeOK, Holding, RateInv, Resting, Started, Doing, MailOf,
    Sending, PostedCap, WindowCap

\* Every step of a worker, a request, a reader or the clock.
LEMMA Inductive == IInv /\ [Next]_vars => IInv'
<1> SUFFICES ASSUME IInv, [Next]_vars PROVE IInv'
    OBVIOUS
<1> DEFINE Now == [sent: 0 .. LastLimit, limit: 1 .. LastLimit, due: BOOLEAN]
<1>a. Started \in Now /\ Started.sent <= Started.limit
    BY LimitRange, LimitAssumption DEF Started
<1>b. \A w \in Workers : ~Doing(w, "idle") => MailOf(w) \in Mails
    BY DEF IInv, TypeOK, Doing, Resting, MailOf
<1>d. missed \in [Workers -> 0 .. WindowCap]
    BY DEF IInv, TypeOK
<1>e. ASSUME NEW w \in Workers, NEW pc \in WorkerPcs, ~Doing(w, "idle"), Then(w, pc),
             UNCHANGED <<logs, adding, jobs, rate, stalls, posted, window, lost>>,
             missed' \in [Workers -> 0 .. WindowCap],
             pc \in Sending => workers[w].pc \in Sending
      PROVE  IInv'
    <2>1. TypeOK'
        BY <1>e, GoesOn DEF IInv, TypeOK
    <2>2. Holding'
        BY <1>e, GoingOnHolds
    <2>3. RateInv'
        BY <1>e, GoingOnCounts
    <2>4. QED BY <2>1, <2>2, <2>3 DEF IInv
<1>f. ASSUME NEW w \in Workers, NEW pc \in WorkerPcs, NEW status \in Statuses,
             ~Doing(w, "idle"), Then(w, pc), SetStatus(MailOf(w), status),
             UNCHANGED <<adding, jobs, rate, stalls, posted, window, missed, lost>>,
             pc \in Sending => workers[w].pc \in Sending
      PROVE  IInv'
    <2>1. TypeOK'
        BY <1>f, <1>b, GoesOn, StatusSet DEF IInv, TypeOK
    <2>2. Holding'
        BY <1>f, <1>b, GoingOnHolds, StatusSet DEF IInv
    <2>3. RateInv'
        BY <1>f, GoingOnCounts
    <2>4. QED BY <2>1, <2>2, <2>3 DEF IInv
<1>1. ASSUME NEW m \in Mails, QueueLog(m) PROVE IInv'
    BY <1>1, NilAssumption DEF IInv, TypeOK, Holding, RateInv, Doing, MailOf, QueueLog, SetStatus, Statuses
<1>2. ASSUME NEW m \in Mails, QueueAdd(m) PROVE IInv'
    BY <1>2, NilAssumption, AttemptsAssumption
    DEF IInv, TypeOK, Holding, RateInv, Doing, MailOf, QueueAdd
<1>3. ASSUME NEW m \in Mails, Open(m) PROVE IInv'
    BY <1>3, NilAssumption DEF IInv, TypeOK, Holding, RateInv, Doing, MailOf, Open, SetStatus, Statuses
<1>4. ASSUME NEW m \in Mails, Abort(m) PROVE IInv'
    BY <1>4 DEF IInv, TypeOK, Holding, RateInv, Doing, MailOf, Abort
<1>5. ASSUME NEW w \in Workers, NEW m \in Mails, Take(w, m) PROVE IInv'
    <2>1. RateNow(w) \in Now /\ RateNow(w).sent <= RateNow(w).limit
        BY RateNowTyped DEF IInv
    <2>2. TypeOK'
        BY <1>5, <2>1, LimitAssumption DEF IInv, TypeOK, Take, WorkerPcs, WindowCap
    <2>3. Holding'
        BY <1>5, <1>b DEF IInv, TypeOK, Holding, Doing, MailOf, Take, Resting
    <2>4. RateInv'
        BY <1>5, <2>1 DEF IInv, TypeOK, RateInv, Sending, Take, AtLimit
    <2>5. QED BY <2>2, <2>3, <2>4 DEF IInv
<1>6. ASSUME NEW w \in Workers, Move(w) PROVE IInv'
    <2>1. /\ Then(w, "untold") /\ ~Doing(w, "idle")
          /\ UNCHANGED <<logs, adding, jobs, rate, stalls, posted, window, missed, lost>>
        BY <1>6 DEF Move, Doing
    <2>2. QED BY <2>1, <1>d, <1>e DEF Sending, WorkerPcs
<1>7. ASSUME NEW w \in Workers, MarkProcessing(w) PROVE IInv'
    <2>1. /\ SetStatus(MailOf(w), "processing") /\ Then(w, "compile")
          /\ Doing(w, "mark") /\ UNCHANGED <<adding, jobs, rate, stalls, posted, window, missed, lost>>
        BY <1>7 DEF MarkProcessing
    <2>2. QED BY <2>1, <1>f DEF Doing, Sending, WorkerPcs, Statuses
<1>8. ASSUME NEW w \in Workers, Compile(w) PROVE IInv'
    <2>1. PICK pc \in {"recover", "catch", "send"} : Then(w, pc)
        BY <1>8 DEF Compile
    <2>2. /\ Doing(w, "compile")
          /\ UNCHANGED <<logs, adding, jobs, rate, stalls, posted, window, missed, lost>>
        BY <1>8 DEF Compile
    <2>3. QED BY <2>1, <2>2, <1>d, <1>e DEF Doing, Sending, WorkerPcs
<1>9. ASSUME NEW w \in Workers, Recover(w) PROVE IInv'
    BY <1>9, <1>d, <1>e DEF Recover, Doing, Sending, WorkerPcs
<1>10. ASSUME NEW w \in Workers, Send(w) PROVE IInv'
    <2>1. PICK pc \in {"catch", "markSent"} : Then(w, pc)
        BY <1>10 DEF Send
    <2>2. Doing(w, "send") /\ UNCHANGED <<logs, adding, jobs, rate, stalls, lost>>
        BY <1>10 DEF Send
    <2>3. ~Doing(w, "idle") /\ pc \in WorkerPcs /\ workers[w].pc \in Sending
        BY <2>2 DEF Doing, Sending, WorkerPcs
    <2>4. MailOf(w) \in Mails
        BY <2>1, <2>3, GoesOn DEF IInv, MailOf
    <2>5. /\ posted' \in [Mails -> 0 .. PostedCap]
          /\ window' \in [Workers -> 0 .. WindowCap]
          /\ missed' \in [Workers -> 0 .. WindowCap]
        <3>1. /\ \A n \in 0 .. PostedCap : Smaller(n + 1, PostedCap) \in 0 .. PostedCap
              /\ \A n \in 0 .. WindowCap : Smaller(n + 1, WindowCap) \in 0 .. WindowCap
            BY AttemptsAssumption, LimitAssumption, StallAssumption
            DEF Smaller, PostedCap, WindowCap
        <3>2. posted' \in [Mails -> 0 .. PostedCap]
            BY <1>10, <2>4, <3>1 DEF Send, Accepted, IInv, TypeOK
        <3>3. window' \in [Workers -> 0 .. WindowCap]
            BY <1>10, <3>1 DEF Send, Accepted, IInv, TypeOK
        <3>4. missed' \in [Workers -> 0 .. WindowCap]
            BY <1>10, <3>1 DEF Send, Missed, IInv, TypeOK
        <3>5. QED BY <3>2, <3>3, <3>4
    <2>6. TypeOK'
        BY <2>1, <2>2, <2>3, <2>5, GoesOn DEF IInv, TypeOK
    <2>7. Holding'
        BY <2>1, <2>2, <2>3, GoingOnHolds
    <2>8. RateInv'
        BY <2>1, <2>2, <2>3, GoingOnCounts
    <2>9. QED BY <2>6, <2>7, <2>8 DEF IInv
<1>11. ASSUME NEW w \in Workers, MarkSent(w) PROVE IInv'
    <2>1. /\ Doing(w, "markSent") /\ SetStatus(MailOf(w), "sent") /\ Then(w, "done")
          /\ rate' = [rate EXCEPT ![w].sent = @ + 1]
          /\ UNCHANGED <<adding, jobs, stalls, posted, window, missed, lost>>
        BY <1>11 DEF MarkSent
    <2>2. ~Doing(w, "idle") /\ "done" \in WorkerPcs /\ "sent" \in Statuses
        BY <2>1 DEF Doing, WorkerPcs, Statuses
    <2>3. MailOf(w) \in Mails
        BY <2>1, <2>2, GoesOn DEF IInv, MailOf
    <2>4. rate[w].sent < rate[w].limit
        BY <2>1 DEF IInv, RateInv, Doing, Sending
    <2>5. /\ rate' \in [Workers -> Now]
          /\ rate'[w].sent <= rate'[w].limit
          /\ \A v \in Workers \ {w} : rate'[v] = rate[v]
        BY <2>1, <2>4, LimitAssumption DEF IInv, TypeOK
    <2>6. TypeOK'
        BY <2>1, <2>2, <2>3, <2>5, GoesOn, StatusSet DEF IInv, TypeOK
    <2>7. Holding'
        BY <2>1, <2>2, <2>3, GoingOnHolds, StatusSet DEF IInv
    <2>8. workers'[w].pc = "done" /\ \A v \in Workers \ {w} : workers'[v] = workers[v]
        BY <2>1, <2>2, GoesOn DEF IInv
    <2>9. RateInv'
        BY <2>5, <2>8 DEF IInv, RateInv, Sending
    <2>10. QED BY <2>6, <2>7, <2>9 DEF IInv
<1>12. ASSUME NEW w \in Workers, Catch(w) PROVE IInv'
    <2>1. /\ SetStatus(MailOf(w), "failed") /\ Then(w, "throw")
          /\ Doing(w, "catch") /\ UNCHANGED <<adding, jobs, rate, stalls, posted, window, missed, lost>>
        BY <1>12 DEF Catch
    <2>2. QED BY <2>1, <1>f DEF Doing, Sending, WorkerPcs, Statuses
<1>13. ASSUME NEW w \in Workers, Leave(w) PROVE IInv'
    <2>1. /\ ~Doing(w, "idle") /\ Rest(w)
          /\ UNCHANGED <<logs, adding, rate, stalls, posted, window, missed>>
        BY <1>13 DEF Leave, Doing
    <2>2. MailOf(w) \in Mails
        BY <2>1 DEF IInv, TypeOK, Doing, Resting, MailOf
    <2>3. jobs[MailOf(w)] \in 0 .. Attempts - 1
        BY <2>1, <2>2 DEF IInv, TypeOK, Holding
    <2>4. /\ jobs' \in [Mails -> (0 .. Attempts - 1) \cup {Nil}]
          /\ \A m \in Mails \ {MailOf(w)} : jobs'[m] = jobs[m]
        BY <1>13, <2>2, <2>3, AttemptsAssumption DEF Leave, AttemptsLeft, IInv, TypeOK
    <2>5. /\ workers' \in [Workers -> {Resting} \cup [pc: WorkerPcs, mail: Mails]]
          /\ workers'[w] = Resting
          /\ \A v \in Workers \ {w} : workers'[v] = workers[v]
        BY <2>1 DEF Rest, IInv, TypeOK
    <2>6. TypeOK'
        <3>1. lost' \subseteq Mails
            BY <1>13, <2>2 DEF Leave, IInv, TypeOK
        <3>2. QED BY <2>1, <2>4, <2>5, <3>1 DEF IInv, TypeOK
    <2>7. \A v \in Workers \ {w} : MailOf(v) # MailOf(w)
        BY <2>2, NilAssumption DEF IInv, Holding
    <2>8. \A v \in Workers \ {w} : ~Doing(v, "idle") => MailOf(v) \in Mails
        BY DEF IInv, TypeOK, Doing, Resting, MailOf
    <2>9. \A v \in Workers : ~Doing(v, "idle")' => jobs'[MailOf(v)'] # Nil
        BY <2>4, <2>5, <2>7, <2>8 DEF IInv, Holding, Doing, MailOf, Resting
    <2>10. logs[MailOf(w)] # Nil /\ MailOf(w) \notin adding
        BY <2>2, <2>3, NilAssumption DEF IInv, Holding
    <2>11. adding \subseteq Mails
        BY DEF IInv, TypeOK
    <2>12. Holding'
        BY <2>1, <2>4, <2>5, <2>9, <2>10, <2>11 DEF IInv, Holding, MailOf, Resting
    <2>13. RateInv'
        BY <2>1, <2>5 DEF IInv, RateInv, Sending, Resting
    <2>14. QED BY <2>6, <2>12, <2>13 DEF IInv
<1>14. ASSUME NEW w \in Workers, Hour(w) PROVE IInv'
    <2>1. /\ rate' = [rate EXCEPT ![w] = [rate[w] EXCEPT !.due = TRUE]]
          /\ rate \in [Workers -> Now]
        BY <1>14 DEF Hour, IInv, TypeOK
    <2>2. /\ rate' \in [Workers -> Now]
          /\ \A v \in Workers : rate'[v].sent = rate[v].sent /\ rate'[v].limit = rate[v].limit
        BY <2>1
    <2>3. UNCHANGED <<logs, adding, jobs, workers, stalls, posted, window, missed, lost>>
        BY <1>14 DEF Hour
    <2>4. TypeOK'
        BY <2>2, <2>3 DEF IInv, TypeOK
    <2>5. Holding' /\ RateInv'
        BY <2>2, <2>3 DEF IInv, Holding, RateInv, Doing, MailOf
    <2>6. QED BY <2>4, <2>5 DEF IInv
<1>15. ASSUME NEW w \in Workers, Crash(w) PROVE IInv'
    <2>1. /\ workers' \in [Workers -> {Resting} \cup [pc: WorkerPcs, mail: Mails]]
          /\ workers'[w] = Resting
          /\ \A v \in Workers \ {w} : workers'[v] = workers[v]
        BY <1>15 DEF Crash, Rest, IInv, TypeOK
    <2>2. /\ jobs' \in [Mails -> (0 .. Attempts - 1) \cup {Nil}]
          /\ \A m \in Mails : jobs'[m] = jobs[m] \/ jobs'[m] = Nil
          /\ \A m \in Mails \ {MailOf(w)} : jobs'[m] = jobs[m]
          /\ stalls' \in [Mails -> 0 .. StallLimit] /\ lost' \subseteq Mails
        BY <1>15, <1>b, StallAssumption DEF Crash, Stalled, IInv, TypeOK
    <2>3. rate' \in [Workers -> Now]
        BY <1>15, <1>a DEF Crash, IInv, TypeOK
    <2>4. window' \in [Workers -> 0 .. WindowCap] /\ missed' \in [Workers -> 0 .. WindowCap]
        BY <1>15, LimitAssumption DEF Crash, IInv, TypeOK, WindowCap
    <2>5. UNCHANGED <<logs, adding, posted>>
        BY <1>15 DEF Crash
    <2>6. TypeOK'
        BY <2>1, <2>2, <2>3, <2>4, <2>5 DEF IInv, TypeOK
    <2>7. \A v \in Workers \ {w} :
              ~Doing(v, "idle") => MailOf(v) \in Mails \ {MailOf(w)}
        BY <1>b, NilAssumption DEF IInv, Holding
    <2>8. adding \subseteq Mails
        BY DEF IInv, TypeOK
    <2>9. Holding'
        BY <2>1, <2>2, <2>5, <2>7, <2>8 DEF IInv, Holding, Doing, MailOf, Resting
    <2>10. rate'[w] = Started /\ \A v \in Workers \ {w} : rate'[v] = rate[v]
        BY <1>15 DEF Crash, IInv, TypeOK
    <2>11. RateInv'
        BY <2>1, <2>10, <1>a DEF IInv, RateInv, Sending, Resting
    <2>12. QED BY <2>6, <2>9, <2>11 DEF IInv
<1>16. ASSUME NEW w \in Workers, DatabaseError(w) PROVE IInv'
    <2>1. PICK pc \in {"catch", "untold"} : Then(w, pc)
        BY <1>16 DEF DatabaseError
    <2>2. ~Doing(w, "idle") /\ UNCHANGED <<logs, adding, jobs, rate, stalls, posted, window, lost>>
        BY <1>16 DEF DatabaseError, Doing
    <2>3. missed' \in [Workers -> 0 .. WindowCap]
        BY <1>16, <1>d, LimitAssumption DEF DatabaseError, Missed, Smaller, WindowCap
    <2>4. QED BY <2>1, <2>2, <2>3, <1>e DEF Sending, WorkerPcs
<1>17. CASE UNCHANGED vars
    BY <1>17 DEF IInv, TypeOK, Holding, RateInv, Doing, MailOf, vars
<1>18. QED
    BY <1>1, <1>2, <1>3, <1>4, <1>5, <1>6, <1>7, <1>8, <1>9, <1>10, <1>11,
       <1>12, <1>13, <1>14, <1>15, <1>16, <1>17 DEF Next, Deliver

\* Tables, queue, workers and counters keep their types; a worker holds only
\* jobs that exist, alone, and never goes over its limit by its own count.
THEOREM Safety == Spec => []IInv
<1>1. IInv /\ [Next]_vars => IInv'
    BY Inductive
<1>2. QED BY Initially, <1>1, PTL DEF Spec

THEOREM TypeCorrectness == Spec => []TypeOK
<1>1. IInv => TypeOK
    BY DEF IInv
<1>2. QED BY <1>1, Safety, PTL

-----------------------------------------------------------------------------
(***************************************************************************)
(* The properties of the mail queue that its run checks, from IInv and one *)
(* strengthening each, whatever goes wrong.                                *)
(***************************************************************************)

\* A worker's step that goes on (see GoesOn), for the steps named in Deliver.
LEMMA OthersStay ==
    ASSUME TypeOK, NEW w \in Workers, NEW pc, Then(w, pc)
    PROVE  \A v \in Workers \ {w} : workers'[v] = workers[v]
BY DEF TypeOK, Then

LEMMA HolderHasMail ==
    ASSUME IInv, NEW w \in Workers, ~Doing(w, "idle")
    PROVE  /\ MailOf(w) \in Mails
           /\ workers[w] \in [pc: WorkerPcs, mail: Mails]
           /\ jobs[MailOf(w)] \in 0 .. Attempts - 1
           /\ MailOf(w) \notin adding
           /\ logs[MailOf(w)] # Nil
           /\ \A v \in Workers \ {w} : MailOf(v) # MailOf(w)
<1>1. workers[w] \in [pc: WorkerPcs, mail: Mails]
    BY DEF IInv, TypeOK, Doing, Resting
<1>2. MailOf(w) \in Mails
    BY <1>1 DEF MailOf
<1>3. jobs[MailOf(w)] # Nil
    BY DEF IInv, Holding
<1>4. jobs[MailOf(w)] \in 0 .. Attempts - 1
    BY <1>2, <1>3 DEF IInv, TypeOK
<1>5. MailOf(w) \notin adding /\ logs[MailOf(w)] # Nil
    BY <1>2, <1>3 DEF IInv, Holding
<1>6. \A v \in Workers \ {w} : MailOf(v) # MailOf(w)
    BY <1>2, NilAssumption DEF IInv, Holding
<1>7. QED BY <1>1, <1>2, <1>4, <1>5, <1>6

-----------------------------------------------------------------------------
(* The hourly limit.                                                       *)

\* What the SMTP server accepted since the reset has been counted or missed,
\* but for the mail whose row is about to be marked.
WindowInv ==
    \A w \in Workers :
        window[w] <= rate[w].sent + missed[w]
                     + (IF Doing(w, "markSent") THEN 1 ELSE 0)

LEMMA WindowKept ==
    ASSUME IInv, WindowInv, [Next]_vars
    PROVE  WindowInv'
<1> DEFINE Bounded(w) ==
        window[w] <= rate[w].sent + missed[w]
                     + (IF Doing(w, "markSent") THEN 1 ELSE 0)
<1>1. \A w \in Workers :
          /\ Bounded(w) /\ window[w] \in 0 .. WindowCap /\ missed[w] \in 0 .. WindowCap
          /\ rate[w].sent \in Nat /\ WindowCap \in Nat
    BY LimitAssumption DEF WindowInv, IInv, TypeOK, WindowCap
<1>2. ASSUME UNCHANGED <<workers, rate, window, missed>> PROVE WindowInv'
    BY <1>2 DEF WindowInv, Doing
<1>3. ASSUME NEW w \in Workers, NEW pc, Then(w, pc), ~Doing(w, "markSent"),
             UNCHANGED <<rate, window, missed>>
      PROVE  WindowInv'
    <2>1. \A v \in Workers \ {w} : workers'[v] = workers[v]
        BY <1>3, OthersStay DEF IInv
    <2>2. QED BY <1>1, <1>3, <2>1 DEF WindowInv, Doing
<1>4. ASSUME NEW w \in Workers, Rest(w), ~Doing(w, "markSent"),
             UNCHANGED <<rate, window, missed>>
      PROVE  WindowInv'
    BY <1>1, <1>4 DEF WindowInv, Doing, Rest, Resting, IInv, TypeOK
\* An accepted mail that the worker stops counting on.
<1>m. \A a, b, n \in 0 .. WindowCap, k \in Nat :
          /\ a <= k + b + 1 => a <= k + Smaller(b + 1, WindowCap)
          /\ a <= k + b => Smaller(a + 1, WindowCap) <= k + Smaller(b + 1, WindowCap)
          /\ a <= k + b => Smaller(a + 1, WindowCap) <= k + b + 1
    BY LimitAssumption DEF Smaller, WindowCap
<1>5. ASSUME NEW w \in Workers, NEW m \in Mails, Take(w, m) PROVE WindowInv'
    <2>1. /\ ~Doing(w, "idle")' /\ Doing(w, "idle") /\ ~Doing(w, "markSent")'
          /\ \A v \in Workers \ {w} : workers'[v] = workers[v]
        BY <1>5 DEF Take, Doing, IInv, TypeOK
    <2>2. /\ rate'[w] = RateNow(w)
          /\ window'[w] = IF AnHourOver(w) THEN 0 ELSE window[w]
          /\ missed'[w] = IF AnHourOver(w) THEN 0 ELSE missed[w]
          /\ \A v \in Workers \ {w} : /\ rate'[v] = rate[v] /\ window'[v] = window[v]
                                      /\ missed'[v] = missed[v]
        BY <1>5 DEF Take, IInv, TypeOK
    <2>3. window'[w] <= rate'[w].sent + missed'[w]
        BY <1>1, <2>1, <2>2 DEF RateNow, Doing
    <2>4. rate'[w].sent \in Nat
        BY <2>2, RateNowTyped DEF IInv
    <2>5. QED BY <1>1, <2>1, <2>2, <2>3, <2>4 DEF WindowInv, Doing
<1>6. ASSUME NEW w \in Workers, Send(w) PROVE WindowInv'
    <2>1. Doing(w, "send") /\ ~Doing(w, "markSent") /\ UNCHANGED rate
        BY <1>6 DEF Send, Doing
    <2>2. /\ \A pc : Then(w, pc) => workers'[w].pc = pc
          /\ \A v \in Workers \ {w} : workers'[v] = workers[v]
        BY <1>6, <2>1, OthersStay DEF Then, Send, Doing, IInv, TypeOK, Resting
    <2>3. window[w] <= rate[w].sent + missed[w]
        BY <1>1, <2>1
    <2>4. CASE Then(w, "catch") /\ UNCHANGED <<window, missed>>
        BY <2>1, <2>4, <1>3
    <2>5. CASE Then(w, "markSent") /\ Accepted(w) /\ UNCHANGED missed
        <3>1. /\ window'[w] = Smaller(window[w] + 1, WindowCap)
              /\ \A v \in Workers \ {w} : window'[v] = window[v]
            BY <2>5 DEF Accepted, IInv, TypeOK
        <3>2. window'[w] <= rate[w].sent + missed[w] + 1
            BY <1>1, <1>m, <2>3, <3>1
        <3>3. QED BY <1>1, <2>1, <2>2, <2>5, <3>1, <3>2 DEF WindowInv, Doing
    <2>6. CASE Then(w, "catch") /\ Accepted(w) /\ Missed(w)
        <3>1. /\ window'[w] = Smaller(window[w] + 1, WindowCap)
              /\ missed'[w] = Smaller(missed[w] + 1, WindowCap)
              /\ \A v \in Workers \ {w} : window'[v] = window[v] /\ missed'[v] = missed[v]
            BY <2>6 DEF Accepted, Missed, IInv, TypeOK
        <3>2. window'[w] <= rate[w].sent + missed'[w]
            BY <1>1, <1>m, <2>3, <3>1
        <3>3. ~Doing(w, "markSent")'
            BY <2>2, <2>6 DEF Doing
        <3>4. /\ window'[w] <= rate'[w].sent + missed'[w] + 0
              /\ \A v \in Workers \ {w} : /\ rate'[v] = rate[v] /\ window'[v] = window[v]
                                          /\ missed'[v] = missed[v] /\ workers'[v] = workers[v]
            <4>1. UNCHANGED rate /\ missed'[w] \in Nat /\ rate[w].sent \in Nat
                BY <1>1, <2>1, <3>1, LimitAssumption DEF Smaller, WindowCap
            <4>2. window'[w] <= rate'[w].sent + missed'[w] + 0
                BY <3>2, <4>1
            <4>3. QED BY <2>2, <3>1, <4>1, <4>2
        <3>5. QED BY <1>1, <3>3, <3>4 DEF WindowInv, Doing
    <2>7. QED BY <1>6, <2>4, <2>5, <2>6 DEF Send
<1>7. ASSUME NEW w \in Workers, MarkSent(w) PROVE WindowInv'
    <2>1. workers'[w].pc = "done" /\ \A v \in Workers \ {w} : workers'[v] = workers[v]
        BY <1>7 DEF MarkSent, Then, Doing, IInv, TypeOK, Resting
    <2>2. rate'[w].sent = rate[w].sent + 1 /\ \A v \in Workers \ {w} : rate'[v] = rate[v]
        BY <1>7 DEF MarkSent, IInv, TypeOK
    <2>3. Doing(w, "markSent") /\ UNCHANGED <<window, missed>>
        BY <1>7 DEF MarkSent
    <2>4. QED BY <1>1, <2>1, <2>2, <2>3 DEF WindowInv, Doing
<1>8. ASSUME NEW w \in Workers, Crash(w) PROVE WindowInv'
    <2>1. /\ rate'[w] = Started /\ window'[w] = 0 /\ missed'[w] = 0
          /\ \A v \in Workers \ {w} : /\ rate'[v] = rate[v]
                                      /\ window'[v] = window[v]
                                      /\ missed'[v] = missed[v]
                                      /\ workers'[v] = workers[v]
        BY <1>8 DEF Crash, Rest, IInv, TypeOK
    <2>2. 0 <= rate'[w].sent + missed'[w] + (IF Doing(w, "markSent")' THEN 1 ELSE 0)
        BY <2>1 DEF Started
    <2>3. QED BY <1>1, <2>1, <2>2 DEF WindowInv, Doing
<1>9. ASSUME NEW w \in Workers, Hour(w) PROVE WindowInv'
    BY <1>1, <1>9 DEF Hour, WindowInv, Doing, IInv, TypeOK
<1>10. ASSUME NEW m \in Mails, QueueLog(m) \/ QueueAdd(m) \/ Open(m) \/ Abort(m)
       PROVE  WindowInv'
    BY <1>2, <1>10 DEF QueueLog, QueueAdd, Open, Abort
<1>11. ASSUME NEW w \in Workers, Move(w) PROVE WindowInv'
    BY <1>3, <1>4, <1>11 DEF Move, Doing
<1>12. ASSUME NEW w \in Workers,
              MarkProcessing(w) \/ Recover(w) \/ Catch(w)
       PROVE  WindowInv'
    BY <1>3, <1>12 DEF MarkProcessing, Recover, Catch, Doing
<1>13. ASSUME NEW w \in Workers, Compile(w) PROVE WindowInv'
    BY <1>3, <1>13 DEF Compile, Doing
<1>14. ASSUME NEW w \in Workers, Leave(w) PROVE WindowInv'
    BY <1>4, <1>14 DEF Leave, Doing
<1>15. ASSUME NEW w \in Workers, DatabaseError(w) PROVE WindowInv'
    <2>1. CASE ~Doing(w, "markSent")
        BY <1>3, <1>15, <2>1 DEF DatabaseError
    <2>2. CASE Doing(w, "markSent")
        <3>1. Then(w, "catch") /\ Missed(w) /\ UNCHANGED <<rate, window>>
            BY <1>15, <2>2 DEF DatabaseError, Doing
        <3>2. /\ ~Doing(w, "markSent")'
              /\ \A v \in Workers \ {w} : workers'[v] = workers[v]
            BY <2>2, <3>1, GoesOn DEF Doing, WorkerPcs, IInv
        <3>3. /\ missed'[w] = Smaller(missed[w] + 1, WindowCap)
              /\ \A v \in Workers \ {w} : missed'[v] = missed[v]
            BY <3>1 DEF Missed, IInv, TypeOK
        <3>4. window[w] <= rate[w].sent + missed[w] + 1
            BY <1>1, <2>2
        <3>5. window[w] <= rate[w].sent + missed'[w]
            BY <1>1, <1>m, <3>3, <3>4
        <3>6. missed'[w] \in Nat
            BY <1>1, <3>3, LimitAssumption DEF Smaller, WindowCap
        <3>7. window'[w] <= rate'[w].sent + missed'[w] + 0
            BY <1>1, <3>1, <3>5, <3>6
        <3>8. QED BY <1>1, <3>1, <3>2, <3>3, <3>7 DEF WindowInv, Doing
    <2>3. QED BY <2>1, <2>2
<1>16. CASE UNCHANGED vars
    BY <1>2, <1>16 DEF vars
<1>17. QED
    BY <1>5, <1>6, <1>7, <1>8, <1>9, <1>10, <1>11, <1>12, <1>13, <1>14, <1>15,
       <1>16 DEF Next, Deliver

\* Whatever fails, a worker sends no more mails between two resets than its
\* limit says and those it did not count (EmailQueue.process).
THEOREM LimitKept == Spec => []PostedWithinLimit
<1>1. Init => WindowInv
    BY LimitAssumption DEF Init, WindowInv, Started, Resting, Doing
<1>2. IInv /\ WindowInv /\ [Next]_vars => WindowInv'
    BY WindowKept
<1>3. IInv /\ WindowInv => PostedWithinLimit
    <2> SUFFICES ASSUME IInv, WindowInv, NEW w \in Workers
                 PROVE  window[w] <= rate[w].limit + missed[w]
        BY DEF PostedWithinLimit
    <2>1. /\ window[w] \in Nat /\ missed[w] \in Nat
          /\ rate[w].sent \in Nat /\ rate[w].limit \in Nat
          /\ rate[w].sent <= rate[w].limit
          /\ Doing(w, "markSent") => rate[w].sent < rate[w].limit
        BY DEF IInv, TypeOK, RateInv, Sending, Doing
    <2>2. QED BY <2>1 DEF WindowInv
<1>4. QED BY <1>1, <1>2, <1>3, Safety, PTL DEF Spec

-----------------------------------------------------------------------------
(* The attempts.                                                           *)

\* Past the SMTP server, successfully or not: the attempt may have sent.
Over == {"markSent", "catch", "done", "throw", "untold"}

\* A mail was posted at most once for each attempt its job has made and each
\* time a worker died with it, and once in an attempt past the SMTP server.
PostInv ==
    \A m \in Mails :
        /\ posted[m] <= Attempts + StallLimit
        /\ logs[m] = Nil \/ m \in adding => posted[m] = 0
        /\ jobs[m] # Nil => posted[m] <= jobs[m] + stalls[m] + 1
        /\ jobs[m] # Nil /\ (\A w \in Workers : MailOf(w) = m => workers[w].pc \notin Over)
              => posted[m] <= jobs[m] + stalls[m]

LEMMA PostsKept ==
    ASSUME IInv, PostInv, [Next]_vars
    PROVE  PostInv'
<1>1. \A m \in Mails :
          /\ posted[m] \in Nat /\ stalls[m] \in Nat /\ stalls[m] <= StallLimit
          /\ jobs[m] # Nil => jobs[m] \in Nat
    BY StallAssumption DEF IInv, TypeOK
<1>2. ASSUME NEW w \in Workers, NEW pc \in WorkerPcs, Then(w, pc), ~Doing(w, "idle"),
             workers[w].pc \in Over => pc \in Over,
             UNCHANGED <<adding, jobs, stalls, posted>>,
             \A m \in Mails : logs'[m] = Nil => logs[m] = Nil
      PROVE  PostInv'
    <2>1. /\ workers'[w].pc = pc
          /\ \A v \in Workers : workers'[v].mail = workers[v].mail
          /\ \A v \in Workers \ {w} : workers'[v] = workers[v]
        BY <1>2, GoesOn DEF IInv
    <2>2. \A v \in Workers : workers[v].pc \in Over => workers'[v].pc \in Over
        BY <1>2, <2>1
    <2>3. QED BY <1>2, <2>1, <2>2 DEF PostInv, MailOf
<1>3. ASSUME NEW m \in Mails, QueueLog(m) PROVE PostInv'
    BY <1>3, NilAssumption DEF QueueLog, SetStatus, PostInv, MailOf, IInv, TypeOK
<1>4. ASSUME NEW m \in Mails, QueueAdd(m) PROVE PostInv'
    BY <1>1, <1>4 DEF QueueAdd, PostInv, MailOf, IInv, TypeOK
<1>5. ASSUME NEW m \in Mails, Open(m) PROVE PostInv'
    BY <1>5, NilAssumption DEF Open, SetStatus, PostInv, MailOf, IInv, TypeOK, Statuses
<1>6. ASSUME NEW m \in Mails, Abort(m) PROVE PostInv'
    BY <1>6 DEF Abort, PostInv, MailOf
<1>7. ASSUME NEW w \in Workers, NEW m \in Mails, Take(w, m) PROVE PostInv'
    <2>1. /\ UNCHANGED <<logs, adding, jobs, stalls, posted>>
          /\ workers'[w].pc \notin Over /\ MailOf(w) \notin Mails
          /\ workers'[w].mail = m
          /\ \A v \in Workers \ {w} : workers'[v] = workers[v]
          /\ \A v \in Workers : MailOf(v) # m
        BY <1>7, NilAssumption
        DEF Take, Over, Doing, MailOf, IInv, TypeOK, Resting, WorkerPcs
    <2>2. \A n \in Mails \ {m} :
              (\A v \in Workers : workers'[v].mail = n => workers'[v].pc \notin Over)
              => \A v \in Workers : MailOf(v) = n => workers[v].pc \notin Over
        BY <2>1 DEF MailOf
    <2>3. QED BY <2>1, <2>2 DEF PostInv, MailOf
<1>8. ASSUME NEW w \in Workers, Move(w) PROVE PostInv'
    BY <1>2, <1>8 DEF Move, Doing, Over, WorkerPcs
<1>9. ASSUME NEW w \in Workers, MarkProcessing(w) PROVE PostInv'
    <2>1. MailOf(w) \in Mails
        BY <1>9, HolderHasMail DEF MarkProcessing, Doing
    <2>2. \A m \in Mails : logs'[m] = Nil => logs[m] = Nil
        BY <1>9, <2>1, StatusSet DEF MarkProcessing, Statuses, IInv
    <2>3. QED BY <1>2, <1>9, <2>2 DEF MarkProcessing, Doing, Over, WorkerPcs
<1>10. ASSUME NEW w \in Workers, Compile(w) PROVE PostInv'
    BY <1>2, <1>10 DEF Compile, Doing, Over, WorkerPcs
<1>11. ASSUME NEW w \in Workers, Recover(w) PROVE PostInv'
    BY <1>2, <1>11 DEF Recover, Doing, Over, WorkerPcs
<1>12. ASSUME NEW w \in Workers, Send(w) PROVE PostInv'
    <2>1. /\ UNCHANGED <<logs, adding, jobs, stalls>> /\ Doing(w, "send")
          /\ \E pc \in {"catch", "markSent"} : Then(w, pc)
        BY <1>12 DEF Send
    <2>2. /\ MailOf(w) \in Mails /\ jobs[MailOf(w)] \in 0 .. Attempts - 1
          /\ MailOf(w) \notin adding /\ logs[MailOf(w)] # Nil
          /\ \A v \in Workers \ {w} : MailOf(v) # MailOf(w)
        BY <2>1, HolderHasMail DEF Doing
    <2>3. /\ workers'[w].pc \in Over
          /\ \A v \in Workers : workers'[v].mail = workers[v].mail
          /\ \A v \in Workers \ {w} : workers'[v] = workers[v]
        BY <2>1, GoesOn DEF Doing, Over, WorkerPcs, IInv
    <2>4. posted[MailOf(w)] <= jobs[MailOf(w)] + stalls[MailOf(w)]
        BY <2>1, <2>2, NilAssumption DEF PostInv, Doing, Over
    <2>5. /\ posted'[MailOf(w)] \in Nat
          /\ posted'[MailOf(w)] <= posted[MailOf(w)] + 1
          /\ \A m \in Mails \ {MailOf(w)} : posted'[m] = posted[m]
        BY <1>1, <1>12, <2>2, AttemptsAssumption, StallAssumption
        DEF Send, Accepted, Smaller, PostedCap, IInv, TypeOK
    <2>6. ASSUME NEW m \in Mails \ {MailOf(w)}
          PROVE  (\A v \in Workers : workers'[v].mail = m => workers'[v].pc \notin Over)
                 => \A v \in Workers : MailOf(v) = m => workers[v].pc \notin Over
        BY <2>3 DEF MailOf
    <2>7. /\ posted'[MailOf(w)] <= jobs[MailOf(w)] + stalls[MailOf(w)] + 1
          /\ posted'[MailOf(w)] <= Attempts + StallLimit
        BY <1>1, <2>2, <2>4, <2>5, AttemptsAssumption, StallAssumption
    <2>8. QED BY <2>1, <2>2, <2>3, <2>5, <2>6, <2>7 DEF PostInv, MailOf
<1>13. ASSUME NEW w \in Workers, MarkSent(w) PROVE PostInv'
    <2>1. MailOf(w) \in Mails
        BY <1>13, HolderHasMail DEF MarkSent, Doing
    <2>2. \A m \in Mails : logs'[m] = Nil => logs[m] = Nil
        BY <1>13, <2>1, StatusSet DEF MarkSent, Statuses, IInv
    <2>3. QED BY <1>2, <1>13, <2>2 DEF MarkSent, Doing, Over, WorkerPcs
<1>14. ASSUME NEW w \in Workers, Catch(w) PROVE PostInv'
    <2>1. MailOf(w) \in Mails
        BY <1>14, HolderHasMail DEF Catch, Doing
    <2>2. \A m \in Mails : logs'[m] = Nil => logs[m] = Nil
        BY <1>14, <2>1, StatusSet DEF Catch, Statuses, IInv
    <2>3. QED BY <1>2, <1>14, <2>2 DEF Catch, Doing, Over, WorkerPcs
<1>15. ASSUME NEW w \in Workers, Leave(w) PROVE PostInv'
    <2>1. ~Doing(w, "idle") /\ UNCHANGED <<logs, adding, stalls, posted>>
        BY <1>15 DEF Leave, Doing
    <2>2. /\ MailOf(w) \in Mails /\ jobs[MailOf(w)] \in 0 .. Attempts - 1
          /\ MailOf(w) \notin adding /\ logs[MailOf(w)] # Nil
        BY <2>1, HolderHasMail
    <2>3. /\ \A m \in Mails \ {MailOf(w)} : jobs'[m] = jobs[m]
          /\ jobs'[MailOf(w)] # Nil => jobs'[MailOf(w)] = jobs[MailOf(w)] + 1
        BY <1>15, <2>2 DEF Leave, AttemptsLeft, IInv, TypeOK
    <2>4. \A v \in Workers \ {w} : workers'[v] = workers[v]
        BY <1>15 DEF Leave, Rest, IInv, TypeOK
    <2>5. posted[MailOf(w)] <= jobs[MailOf(w)] + stalls[MailOf(w)] + 1
        BY <2>2, NilAssumption DEF PostInv
    <2>6. ASSUME NEW m \in Mails \ {MailOf(w)}
          PROVE  (\A v \in Workers : workers'[v].mail = m => workers'[v].pc \notin Over)
                 => \A v \in Workers : MailOf(v) = m => workers[v].pc \notin Over
        BY <2>4 DEF MailOf
    <2>7. jobs'[MailOf(w)] # Nil =>
              posted[MailOf(w)] <= jobs'[MailOf(w)] + stalls[MailOf(w)]
        BY <1>1, <2>2, <2>3, <2>5
    <2>8. QED BY <1>1, <2>1, <2>2, <2>3, <2>6, <2>7 DEF PostInv, MailOf
<1>16. ASSUME NEW w \in Workers, Hour(w) PROVE PostInv'
    BY <1>16 DEF Hour, PostInv, MailOf
<1>17. ASSUME NEW w \in Workers, Crash(w) PROVE PostInv'
    <2>1. /\ UNCHANGED <<logs, adding, posted>>
          /\ workers'[w] = Resting /\ Resting.pc \notin Over
          /\ \A v \in Workers \ {w} : workers'[v] = workers[v]
        BY <1>17 DEF Crash, Rest, Resting, Over, IInv, TypeOK
    <2>2. ASSUME NEW m \in Mails, m # MailOf(w) \/ Doing(w, "idle")
          PROVE  /\ jobs'[m] = jobs[m] /\ stalls'[m] = stalls[m]
                 /\ (\A v \in Workers : workers'[v].mail = m => workers'[v].pc \notin Over)
                    => \A v \in Workers : MailOf(v) = m => workers[v].pc \notin Over
        <3>1. jobs'[m] = jobs[m] /\ stalls'[m] = stalls[m]
            BY <1>17, <2>2 DEF Crash, Stalled, IInv, TypeOK
        <3>2. MailOf(w) = m => workers[w].pc \notin Over
            BY <2>2 DEF Doing, Over
        <3>3. QED BY <2>1, <3>1, <3>2 DEF MailOf
    <2>3. CASE Doing(w, "idle")
        BY <2>1, <2>2, <2>3 DEF PostInv, MailOf
    <2>4. CASE ~Doing(w, "idle")
        <3>1. MailOf(w) \in Mails /\ MailOf(w) \notin adding /\ logs[MailOf(w)] # Nil
              /\ jobs[MailOf(w)] \in Nat /\ jobs[MailOf(w)] # Nil
            BY <1>1, <2>4, HolderHasMail, NilAssumption
        <3>2. \/ jobs'[MailOf(w)] = Nil
              \/ /\ jobs'[MailOf(w)] = jobs[MailOf(w)]
                 /\ stalls'[MailOf(w)] = stalls[MailOf(w)] + 1
            BY <1>17, <2>4, <3>1 DEF Crash, Stalled, IInv, TypeOK
        <3>3. posted[MailOf(w)] <= jobs[MailOf(w)] + stalls[MailOf(w)] + 1
            BY <3>1 DEF PostInv
        <3>4. jobs'[MailOf(w)] # Nil =>
                  posted[MailOf(w)] <= jobs'[MailOf(w)] + stalls'[MailOf(w)]
            BY <1>1, <3>1, <3>2, <3>3
        <3>5. jobs'[MailOf(w)] # Nil =>
                  posted[MailOf(w)] <= jobs'[MailOf(w)] + stalls'[MailOf(w)] + 1
            BY <1>1, <3>1, <3>2, <3>3
        <3>6. QED BY <2>1, <2>2, <3>1, <3>4, <3>5 DEF PostInv, MailOf
    <2>5. QED BY <2>3, <2>4
<1>18. ASSUME NEW w \in Workers, DatabaseError(w) PROVE PostInv'
    BY <1>2, <1>18 DEF DatabaseError, Doing, Over, WorkerPcs
<1>19. CASE UNCHANGED vars
    BY <1>19 DEF vars, PostInv, MailOf
<1>20. QED
    BY <1>3, <1>4, <1>5, <1>6, <1>7, <1>8, <1>9, <1>10, <1>11, <1>12, <1>13,
       <1>14, <1>15, <1>16, <1>17, <1>18, <1>19 DEF Next, Deliver

\* Whatever fails, a mail is sent at most once for each attempt of its job and
\* each time the queue hands it out again (queueEmail's attempts: 3).
THEOREM AttemptsBoundPosts == Spec => []PostedAtMostAttempts
<1>1. Init => PostInv
    <2> SUFFICES ASSUME Init, NEW m \in Mails
                 PROVE  posted[m] = 0 /\ jobs[m] = Nil /\ 0 <= Attempts + StallLimit
        BY DEF PostInv
    <2>1. posted[m] = 0 /\ jobs[m] = Nil
        BY DEF Init
    <2>2. QED BY <2>1, AttemptsAssumption, StallAssumption
<1>2. IInv /\ PostInv /\ [Next]_vars => PostInv'
    BY PostsKept
<1>3. PostInv => PostedAtMostAttempts
    BY DEF PostInv, PostedAtMostAttempts
<1>4. QED BY <1>1, <1>2, <1>3, Safety, PTL DEF Spec

-----------------------------------------------------------------------------
(* Settling, and staying opened.                                           *)

\* A worker leaves a job only when the row says how the attempt ended, or the
\* attempt failed without telling.
SettledInv ==
    /\ UnsettledHasJob
    /\ \A w \in Workers :
          workers[w].pc \in {"done", "throw"} =>
              logs[MailOf(w)] \notin {"pending", "processing"}

LEMMA SettledKept ==
    ASSUME IInv, SettledInv, [Next]_vars
    PROVE  SettledInv'
<1>1. ASSUME NEW w \in Workers, NEW pc \in WorkerPcs \ {"done", "throw"},
             Then(w, pc), ~Doing(w, "idle"), UNCHANGED <<logs, adding, jobs, lost>>
      PROVE  SettledInv'
    <2>1. /\ workers'[w].pc = pc
          /\ \A v \in Workers \ {w} : workers'[v] = workers[v]
        BY <1>1, GoesOn DEF IInv
    <2>2. QED BY <1>1, <2>1 DEF SettledInv, UnsettledHasJob, HasJob, MailOf
<1>2. ASSUME NEW w \in Workers, NEW pc \in WorkerPcs, NEW status \in Statuses,
             Then(w, pc), ~Doing(w, "idle"), SetStatus(MailOf(w), status),
             UNCHANGED <<adding, jobs, lost>>,
             pc \in {"done", "throw"} => status \notin {"pending", "processing"}
      PROVE  SettledInv'
    <2>1. /\ workers'[w].pc = pc
          /\ \A v \in Workers : workers'[v].mail = workers[v].mail
          /\ \A v \in Workers \ {w} : workers'[v] = workers[v]
        BY <1>2, GoesOn DEF IInv
    <2>2. /\ MailOf(w) \in Mails /\ jobs[MailOf(w)] # Nil
          /\ \A v \in Workers \ {w} : MailOf(v) # MailOf(w)
        BY <1>2, HolderHasMail, NilAssumption
    <2>3. logs' = [logs EXCEPT ![MailOf(w)] = status] /\ logs \in [Mails -> Statuses \cup {Nil}]
        BY <1>2 DEF SetStatus, IInv, TypeOK
    <2>4. \A m \in Mails : logs'[m] \in {"pending", "processing"} => HasJob(m)' \/ m \in lost'
        BY <1>2, <2>2, <2>3 DEF SettledInv, UnsettledHasJob, HasJob
    <2>5. ASSUME NEW v \in Workers, workers'[v].pc \in {"done", "throw"}
          PROVE  logs'[workers'[v].mail] \notin {"pending", "processing"}
        <3>1. CASE v = w
            BY <1>2, <2>1, <2>2, <2>3, <2>5, <3>1 DEF MailOf
        <3>2. CASE v # w
            <4>1. ~Doing(v, "idle") /\ workers[v].pc \in {"done", "throw"}
                BY <2>1, <2>5, <3>2 DEF Doing
            <4>2. MailOf(v) \in Mails
                BY <4>1, HolderHasMail
            <4>3. logs'[MailOf(v)] = logs[MailOf(v)]
                BY <2>2, <2>3, <3>2, <4>2
            <4>4. QED BY <2>1, <4>1, <4>3 DEF SettledInv, MailOf
        <3>3. QED BY <3>1, <3>2
    <2>6. QED BY <2>4, <2>5 DEF SettledInv, UnsettledHasJob, MailOf
<1>3. ASSUME NEW m \in Mails, QueueLog(m) PROVE SettledInv'
    <2>1. \A w \in Workers : workers[w].pc \in {"done", "throw"} => MailOf(w) # m
        BY <1>3, HolderHasMail DEF QueueLog, Doing
    <2>2. \A w \in Workers : workers[w].pc \in {"done", "throw"} => MailOf(w) \in Mails
        BY HolderHasMail DEF Doing
    <2>3. QED
        BY <1>3, <2>1, <2>2 DEF QueueLog, SetStatus, SettledInv, UnsettledHasJob,
            HasJob, MailOf, IInv, TypeOK
<1>4. ASSUME NEW m \in Mails, QueueAdd(m) PROVE SettledInv'
    BY <1>4, AttemptsAssumption, NilAssumption
    DEF QueueAdd, SettledInv, UnsettledHasJob, HasJob, MailOf, IInv, TypeOK
<1>5. ASSUME NEW m \in Mails, Open(m) PROVE SettledInv'
    <2>1. \A w \in Workers : workers[w].pc \in {"done", "throw"} => MailOf(w) \in Mails
        BY HolderHasMail DEF Doing
    <2>2. QED
        BY <1>5, <2>1 DEF Open, SetStatus, SettledInv, UnsettledHasJob, HasJob,
            MailOf, IInv, TypeOK
<1>6. ASSUME NEW m \in Mails, Abort(m) PROVE SettledInv'
    BY <1>6 DEF Abort, SettledInv, UnsettledHasJob, HasJob, MailOf
<1>7. ASSUME NEW w \in Workers, NEW m \in Mails, Take(w, m) PROVE SettledInv'
    <2>1. /\ UNCHANGED <<logs, adding, jobs, lost>> /\ workers'[w].pc \notin {"done", "throw"}
          /\ \A v \in Workers \ {w} : workers'[v] = workers[v]
        BY <1>7 DEF Take, IInv, TypeOK
    <2>2. QED BY <2>1 DEF SettledInv, UnsettledHasJob, HasJob, MailOf
<1>9. ASSUME NEW w \in Workers, Move(w) PROVE SettledInv'
    BY <1>1, <1>9 DEF Move, Doing, WorkerPcs
<1>10. ASSUME NEW w \in Workers, MarkProcessing(w) PROVE SettledInv'
    BY <1>2, <1>10 DEF MarkProcessing, Doing, Statuses, WorkerPcs
<1>11. ASSUME NEW w \in Workers, Compile(w) PROVE SettledInv'
    BY <1>1, <1>11 DEF Compile, Doing, WorkerPcs
<1>12. ASSUME NEW w \in Workers, Recover(w) PROVE SettledInv'
    BY <1>1, <1>12 DEF Recover, Doing, WorkerPcs
<1>13. ASSUME NEW w \in Workers, Send(w) PROVE SettledInv'
    BY <1>1, <1>13 DEF Send, Doing, WorkerPcs
<1>14. ASSUME NEW w \in Workers, MarkSent(w) PROVE SettledInv'
    BY <1>2, <1>14 DEF MarkSent, Doing, Statuses, WorkerPcs
<1>15. ASSUME NEW w \in Workers, Catch(w) PROVE SettledInv'
    BY <1>2, <1>15 DEF Catch, Doing, Statuses, WorkerPcs
<1>16. ASSUME NEW w \in Workers, Leave(w) PROVE SettledInv'
    <2>1. /\ ~Doing(w, "idle") /\ Rest(w) /\ UNCHANGED <<logs, adding>>
        BY <1>16 DEF Leave, Doing
    <2>2. MailOf(w) \in Mails /\ jobs[MailOf(w)] \in 0 .. Attempts - 1
        BY <2>1, HolderHasMail
    <2>3. /\ \A m \in Mails \ {MailOf(w)} : jobs'[m] = jobs[m]
          /\ lost \subseteq lost'
        BY <1>16 DEF Leave, IInv, TypeOK
    <2>4. \/ logs[MailOf(w)] \notin {"pending", "processing"}
          \/ jobs'[MailOf(w)] # Nil
          \/ MailOf(w) \in lost'
        <3>1. CASE Doing(w, "untold")
            BY <1>16, <2>2, <3>1, NilAssumption DEF Leave, Doing, IInv, TypeOK
        <3>2. CASE workers[w].pc \in {"done", "throw"}
            BY <3>2 DEF SettledInv
        <3>3. QED BY <1>16, <3>1, <3>2 DEF Leave, Doing
    <2>5. /\ workers'[w].pc \notin {"done", "throw"}
          /\ \A v \in Workers \ {w} : workers'[v] = workers[v]
        BY <2>1 DEF Rest, Resting, IInv, TypeOK
    <2>6. QED BY <2>1, <2>2, <2>3, <2>4, <2>5 DEF SettledInv, UnsettledHasJob, HasJob, MailOf
<1>17. ASSUME NEW w \in Workers, Hour(w) PROVE SettledInv'
    BY <1>17 DEF Hour, SettledInv, UnsettledHasJob, HasJob, MailOf
<1>18. ASSUME NEW w \in Workers, Crash(w) PROVE SettledInv'
    <2>1. /\ UNCHANGED <<logs, adding>> /\ lost \subseteq lost'
          /\ workers'[w].pc \notin {"done", "throw"}
          /\ \A v \in Workers \ {w} : workers'[v] = workers[v]
        BY <1>18 DEF Crash, Stalled, Rest, Resting, IInv, TypeOK
    <2>2. \A m \in Mails : jobs'[m] = jobs[m] \/ m \in lost'
        BY <1>18 DEF Crash, Stalled, IInv, TypeOK
    <2>3. QED BY <2>1, <2>2 DEF SettledInv, UnsettledHasJob, HasJob, MailOf
<1>19. ASSUME NEW w \in Workers, DatabaseError(w) PROVE SettledInv'
    BY <1>1, <1>19 DEF DatabaseError, Doing, WorkerPcs
<1>20. CASE UNCHANGED vars
    BY <1>20 DEF vars, SettledInv, UnsettledHasJob, HasJob, MailOf
<1>21. QED
    BY <1>3, <1>4, <1>5, <1>6, <1>7, <1>9, <1>10, <1>11, <1>12, <1>13, <1>14,
       <1>15, <1>16, <1>17, <1>18, <1>19, <1>20 DEF Next, Deliver

\* Whatever fails, a row that says pending or processing has a job, unless its
\* mail was lost in one of the named ways (queueEmail, processQueuedEmail).
THEOREM QueueSettles == Spec => []UnsettledHasJob
<1>1. Init => SettledInv
    BY NilAssumption DEF Init, SettledInv, UnsettledHasJob, Resting, Statuses
<1>2. IInv /\ SettledInv /\ [Next]_vars => SettledInv'
    BY SettledKept
<1>3. SettledInv => UnsettledHasJob
    BY DEF SettledInv
<1>4. QED BY <1>1, <1>2, <1>3, Safety, PTL DEF Spec

\* Whatever fails, nothing overwrites the status of an opened mail once its
\* job is gone (trackOpen against the updates of processQueuedEmail).
THEOREM OpenedStays == Spec => OpenedIsFinal
<1>1. IInv /\ [Next]_vars
      => [\A m \in Mails : logs[m] = "opened" /\ jobs[m] = Nil => logs'[m] = "opened"]_vars
    <2> SUFFICES ASSUME IInv, Next, NEW m \in Mails, logs[m] = "opened", jobs[m] = Nil
                 PROVE  logs'[m] = "opened"
        OBVIOUS
    <2>1. \A w \in Workers : ~Doing(w, "idle") => MailOf(w) # m
        BY DEF IInv, Holding
    <2>2. logs \in [Mails -> Statuses \cup {Nil}] /\ Nil # "opened"
        BY NilAssumption DEF IInv, TypeOK, Statuses
    <2>3. ASSUME NEW n \in Mails, QueueLog(n) \/ QueueAdd(n) \/ Open(n) \/ Abort(n)
          PROVE  logs'[m] = "opened"
        BY <2>2, <2>3 DEF QueueLog, QueueAdd, Open, Abort, SetStatus
    <2>4. ASSUME NEW w \in Workers, MarkProcessing(w) \/ MarkSent(w) \/ Catch(w)
          PROVE  logs'[m] = "opened"
        <3>1. MailOf(w) # m
            BY <2>1, <2>4 DEF MarkProcessing, MarkSent, Catch, Doing
        <3>2. PICK status : logs' = [logs EXCEPT ![MailOf(w)] = status]
            BY <2>4 DEF MarkProcessing, MarkSent, Catch, SetStatus
        <3>3. QED BY <2>2, <3>1, <3>2
    <2>5. ASSUME NEW w \in Workers,
                 \/ Move(w) \/ Compile(w) \/ Recover(w) \/ Send(w) \/ Leave(w)
                 \/ Hour(w) \/ Crash(w) \/ DatabaseError(w)
                 \/ \E n \in Mails : Take(w, n)
          PROVE  logs'[m] = "opened"
        BY <2>5 DEF Move, Compile, Recover, Send, Leave, Hour, Crash, DatabaseError, Take
    <2>6. QED BY <2>3, <2>4, <2>5 DEF Next, Deliver
<1>2. QED BY <1>1, Safety, PTL DEF Spec, OpenedIsFinal
=============================================================================
