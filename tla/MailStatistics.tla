--------------------------- MODULE MailStatistics ---------------------------
(***************************************************************************)
(* Counting mails (src/email/email-stats.cron.service.ts,                  *)
(* email-dashboard.controller.ts).                                         *)
(*                                                                         *)
(* A report is a handful of counts that run side by side on the            *)
(* connections of a pool, while the mails go on changing; each process     *)
(* stores the day's row at midnight, if it finds none.                     *)
(***************************************************************************)
EXTENDS Naturals, FiniteSets

CONSTANTS
    Mails,     \* mails that may be queued
    Statuses,  \* their statuses, some of EmailStatus
    Reports,   \* reports and runs of the cron job at work
    Nil

VARIABLES
    status,   \* email_logs: the status of each mail, Nil before it is queued
    sentAt,   \* email_logs: mails with a sentAt
    stats,    \* table email_stats: rows of the day
    reports   \* the reports

vars == <<status, sentAt, stats, reports>>

-----------------------------------------------------------------------------
\* What is counted, each in a query of its own.
Counted == Statuses \cap {"sent", "delivered", "opened", "clicked", "bounced", "failed"}
Queries == Counted \cup {"total"}

\* Past the cap the changes exceed whatever can be counted.
ChangeCap == Cardinality(Mails) * Cardinality(Counted)

Resting == [kind |-> "none", todo |-> {}, total |-> 0, counted |-> 0, changes |-> 0]
ReportKinds == {"none", "overview", "daily", "cron"}

TypeOK ==
    /\ status \in [Mails -> Statuses \cup {Nil}]
    /\ sentAt \subseteq Mails
    /\ stats \in Nat
    /\ reports \in [Reports ->
           [kind: ReportKinds, todo: SUBSET Queries, total: 0 .. Cardinality(Mails),
            counted: 0 .. ChangeCap, changes: 0 .. ChangeCap]]

Init ==
    /\ status = [m \in Mails |-> Nil]
    /\ sentAt = {}
    /\ stats = 0
    /\ reports = [r \in Reports |-> Resting]

-----------------------------------------------------------------------------
(* Mutated forms of definitions below: plausible slips in the code that    *)
(* the properties must notice.  Nothing refers to them.                    *)

\* An overview that counts a mail as sent by its time of sending.
MatchesBySentAt(kind, m, s) ==
    IF s = "sent" THEN m \in sentAt ELSE status[m] = s

-----------------------------------------------------------------------------
\* What all the rest of the service does to a mail: it is queued, its status
\* changes.  Reports at work may or may not see it.
Change(m, s) ==
    /\ status[m] # s
    /\ status' = [status EXCEPT ![m] = s]
    /\ sentAt' = IF s = "sent" THEN sentAt \cup {m} ELSE sentAt
    /\ reports' = [r \in Reports |->
           IF reports[r].kind # "none" /\ reports[r].changes < ChangeCap
           THEN [reports[r] EXCEPT !.changes = @ + 1] ELSE reports[r]]
    /\ UNCHANGED stats

Begin(r, kind, queries) ==
    /\ reports[r].kind = "none"
    /\ reports' = [reports EXCEPT ![r] = [Resting EXCEPT !.kind = kind, !.todo = queries]]
    /\ UNCHANGED <<status, sentAt, stats>>

\* getOverview
GetOverview(r) == Begin(r, "overview", Queries)

\* getDailyStats: the rows there are, or else counts from the logs.
GetDailyStats(r) == stats = 0 /\ Begin(r, "daily", Counted)

\* updateDailyStats: nothing to do when the day has its row.
DayStored == stats > 0
UpdateDailyStats(r) == ~DayStored /\ Begin(r, "cron", Counted)

\* What a query counts.  Only the cron job and the daily figures ask for the
\* time of sending, and the cron job for nothing else.
Matches(kind, m, s) ==
    CASE s = "sent" /\ kind = "cron" -> m \in sentAt
      [] s = "sent" /\ kind = "daily" -> status[m] = s /\ m \in sentAt
      [] OTHER -> status[m] = s

Query(r, q) ==
    /\ q \in reports[r].todo
    /\ reports' = [reports EXCEPT
           ![r].todo = @ \ {q},
           ![r].total = IF q = "total" THEN Cardinality({m \in Mails : status[m] # Nil})
                        ELSE @,
           ![r].counted = IF q = "total" THEN @
               ELSE @ + Cardinality({m \in Mails : Matches(reports[r].kind, m, q)})]
    /\ UNCHANGED <<status, sentAt, stats>>

\* The answer, or the row of the day.
Answer(r) ==
    /\ reports[r].kind # "none" /\ reports[r].todo = {}
    /\ reports' = [reports EXCEPT ![r] = Resting]
    /\ stats' = IF reports[r].kind = "cron" THEN stats + 1 ELSE stats
    /\ UNCHANGED <<status, sentAt>>

\* A query fails, or the process dies.
Fails(r) ==
    /\ reports[r].kind # "none"
    /\ reports' = [reports EXCEPT ![r] = Resting]
    /\ UNCHANGED <<status, sentAt, stats>>

Dashboard(r) == GetOverview(r) \/ GetDailyStats(r)

Next ==
    \/ \E m \in Mails, s \in Statuses : Change(m, s)
    \/ \E r \in Reports :
          \/ Dashboard(r) \/ UpdateDailyStats(r) \/ Answer(r) \/ Fails(r)
          \/ \E q \in Queries : Query(r, q)

Spec == Init /\ [][Next]_vars

-----------------------------------------------------------------------------
(* Properties.                                                             *)

\* The statuses of an overview add up to no more than its total and the
\* changes made while it was counting: what it shows as the parts of a whole
\* (getOverview) is off by what happened meanwhile and nothing else.
PartsAddUp ==
    \A r \in Reports :
        reports[r].kind = "overview" /\ reports[r].todo = {}
        => reports[r].counted <= reports[r].total + reports[r].changes

\* A day has at most as many rows as runs of the cron job overlap, however
\* often it runs: a run that begins later finds a row (updateDailyStats; the
\* date of email_stats is not unique).
DayStoredBounded == stats <= Cardinality(Reports)

\* Both, whatever happens to the mails while reports are at work.
ReportsHold == PartsAddUp /\ DayStoredBounded
=============================================================================
