----------------------------- MODULE MCServices -----------------------------
(* Model-checking instance of the components that share no state with each  *)
(* other: each behaviour is one of one of them, the others stay as they are.*)
EXTENDS MailTemplates

CONSTANTS
    Slots,                                            \* of requests in flight
    Users, RowIds, Secrets, Batches, FactorRequests, BatchSize,  \* TwoFactor
    Grants, EnvGrant, MaxRows,                        \* GmailTokens
    Mails, Emitted, Opens, MailStatuses,              \* MailTracking, MailStatistics
    QueuedMails, TemplateOf, StoredTemplates, WithPartial, Attempts,  \* MailProcessor
    NodeNames, Defaults, MailIds, Recipients          \* NodemailerService

VARIABLES
    part,
    factors, secrets, batches, newest, confirmed, accepted, overlaps, mixed, factorReq,
    credentials, cached, calls, booted,
    logs, jobs, batch, forwarded, worker, starting, ready, compiled, told,
    mailRows, events, handlers, missed,
    status, sentAt, stats, reports,
    files, nodeRows, templates, emailJobs, emailQueue, up, nodeCalls, stored

\* Every file has the same content, which administrators may replace.
MCFileContent == [f \in Files |-> CHOOSE c \in Contents : c = DefaultContent]

\* One request at a time.
Factor == INSTANCE TwoFactorRefinement WITH
    Requests <- FactorRequests, rows <- factors, req <- factorReq

Gmail == INSTANCE GmailTokens WITH Calls <- Slots

\* Each mail has a template of its own.
MCTemplateOf == [m \in QueuedMails |-> m]

Processor == INSTANCE MailProcessor WITH
    Mails <- QueuedMails, Stored <- StoredTemplates

Tracking == INSTANCE MailTracking WITH Handlers <- Slots, rows <- mailRows

Statistics == INSTANCE MailStatistics WITH
    Reports <- Slots, Statuses <- MailStatuses

Nodemailer == INSTANCE NodemailerService WITH
    Names <- NodeNames, Ids <- MailIds, Calls <- Slots,
    rows <- nodeRows, calls <- nodeCalls

\* How little is asked of the constants: Nil is no value of any column.
ASSUME SlotsAssumption == IsFiniteSet(Slots)
ASSUME MailsAssumption == IsFiniteSet(Mails) /\ Emitted \subseteq Tracking!EmailEventType
ASSUME BoundsAssumption ==
    /\ MaxRows \in Nat /\ Opens \in Nat
    /\ Attempts \in Nat \ {0} /\ Recipients \in Nat \ {0}
ASSUME DefaultsAssumption == Defaults \subseteq NodeNames
ASSUME FactorAssumption ==
    /\ BatchSize \in Nat \ {0}
    /\ Nil \notin Users \cup RowIds \cup Secrets \cup Batches \cup Factor!Row
ASSUME AbsentAssumption ==
    /\ Nil \notin Processor!Statuses \cup Statistics!Counted \cup Tracking!Row
    /\ Nil \notin [NodeNames -> {DefaultContent, Nil}]

-----------------------------------------------------------------------------
Parts == {"templates", "factor", "gmail", "processor",
          "tracking", "statistics", "nodemailer"}

ServicesInit ==
    /\ part \in Parts
    /\ Init /\ Factor!Init /\ Gmail!Init /\ Processor!Init
    /\ Tracking!Init /\ Statistics!Init /\ Nodemailer!Init
    /\ part = "nodemailer" \/ files = Nil  \* where it starts matters to it alone

factorVars ==
    <<factors, secrets, batches, newest, confirmed, accepted, overlaps, mixed,
      factorReq>>
gmailVars == <<credentials, cached, calls, booted>>
processorVars == <<logs, jobs, batch, forwarded, worker, starting, ready, compiled, told>>
trackingVars == <<mailRows, events, handlers, missed>>
statisticsVars == <<status, sentAt, stats, reports>>
nodemailerVars ==
    <<files, nodeRows, templates, emailJobs, emailQueue, up, nodeCalls, stored>>
servicesVars ==
    <<part, vars, factorVars, gmailVars, processorVars, trackingVars,
      statisticsVars, nodemailerVars>>

\* The other components stay as they are.
Alone(p) ==
    /\ part = p /\ UNCHANGED part
    /\ IF p = "templates" THEN TRUE ELSE UNCHANGED vars
    /\ IF p = "factor" THEN TRUE ELSE UNCHANGED factorVars
    /\ IF p = "gmail" THEN TRUE ELSE UNCHANGED gmailVars
    /\ IF p = "processor" THEN TRUE ELSE UNCHANGED processorVars
    /\ IF p = "tracking" THEN TRUE ELSE UNCHANGED trackingVars
    /\ IF p = "statistics" THEN TRUE ELSE UNCHANGED statisticsVars
    /\ IF p = "nodemailer" THEN TRUE ELSE UNCHANGED nodemailerVars

ServicesNext ==
    \/ Alone("templates") /\ Render
    \/ Alone("templates") /\ Synchronise
    \/ Alone("templates") /\ Administer
    \/ Alone("templates") /\ Restart
    \/ Alone("factor") /\ Factor!Next
    \/ Alone("gmail") /\ Gmail!Next
    \/ Alone("processor") /\ Processor!Next
    \/ Alone("tracking") /\ Tracking!Next
    \/ Alone("statistics") /\ Statistics!Next
    \/ Alone("nodemailer") /\ Nodemailer!Next

ServicesSpec == ServicesInit /\ [][ServicesNext]_servicesVars /\ Fairness

-----------------------------------------------------------------------------
(* The properties of the components, under the names of this run.          *)

\* Every component's variables keep their types.
TypesOK ==
    CASE part = "templates" -> TypeOK
      [] part = "factor" -> Factor!TypeOK
      [] part = "gmail" -> Gmail!TypeOK
      [] part = "processor" -> Processor!TypeOK
      [] part = "tracking" -> Tracking!TypeOK
      [] part = "statistics" -> Statistics!TypeOK
      [] part = "nodemailer" -> Nodemailer!TypeOK

ServedOneByOne == Factor!ServedOneByOne
ImplementsSecondFactor == Factor!ImplementsSecondFactor
ActiveBounded == Gmail!ActiveBounded
DeactivatedStaysOff == Gmail!DeactivatedStaysOff
FailedIsLastTry == Processor!FailedIsLastTry
TimesAreKept == Tracking!TimesAreKept
EventBehindStatus == Tracking!EventBehindStatus
ReportsHold == Statistics!ReportsHold
RenderedWasStored == Nodemailer!RenderedWasStored
BatchCounted == Nodemailer!BatchCounted
=============================================================================
