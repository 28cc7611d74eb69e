---------------------------- MODULE MailTracking ----------------------------
(***************************************************************************)
(* What becomes of a mail after it was sent: the events about it           *)
(* (src/email/email-event.listener.ts), the tracking routes                *)
(* (email.controller.ts) and the tracking helper (email.tracking.helper.ts)*)
(* all write its row and the table of events.                              *)
(*                                                                         *)
(* An event's handler is not waited for: handlers of one mail overlap, in  *)
(* any order.  Handlers and helper save a copy of the row, the routes      *)
(* update columns.                                                         *)
(***************************************************************************)
EXTENDS Naturals

CONSTANTS
    Mails,     \* mails with a row in email_logs
    Emitted,   \* kinds of events that are emitted, among EmailEventType
    Handlers,  \* handlers and requests at work
    Opens,     \* bound of openCount
    Nil

VARIABLES
    rows,      \* table email_logs: the columns the tracking writes
    events,    \* table email_events: the kinds stored about each mail
    handlers,  \* what each handler or request is doing
    missed     \* history: kinds whose event could not be stored

vars == <<rows, events, handlers, missed>>

-----------------------------------------------------------------------------
EmailEventType == {"sent", "delivered", "opened", "clicked", "bounced",
                   "complained", "failed"}
EmailStatus == {"pending", "processing"} \cup EmailEventType

\* openedAt and clickedAt: is the time set?
Row == [status: EmailStatus, openCount: 0 .. Opens, openedAt: BOOLEAN,
        clickedAt: BOOLEAN]
Queued == [status |-> "pending", openCount |-> 0, openedAt |-> FALSE,
           clickedAt |-> FALSE]

\* A handler stores the event, finds the row and saves it; a route updates the
\* row and stores an event; the helper saves the row it found.  copy: the row
\* as it was found.
Pcs == {"idle", "event", "find", "save", "save open", "save click", "update",
        "store"}
Resting == [pc |-> "idle", mail |-> Nil, kind |-> Nil, copy |-> Nil]

TypeOK ==
    /\ rows \in [Mails -> Row]
    /\ events \in [Mails -> SUBSET EmailEventType]
    /\ handlers \in [Handlers ->
           [pc: Pcs, mail: Mails \cup {Nil}, kind: EmailEventType \cup {Nil},
            copy: Row \cup {Nil}]]
    /\ missed \in [Mails -> SUBSET Emitted]

Init ==
    /\ rows = [m \in Mails |-> Queued]
    /\ events = [m \in Mails |-> {}]
    /\ handlers = [h \in Handlers |-> Resting]
    /\ missed = [m \in Mails |-> {}]

-----------------------------------------------------------------------------
(* Steps the operations share.                                             *)

Doing(h, pc) == handlers[h].pc = pc
Then(h, next) == handlers' = [handlers EXCEPT ![h] = next]
Done(h) == Then(h, Resting)
Start(h, pc, m, kind) ==
    /\ Doing(h, "idle")
    /\ Then(h, [pc |-> pc, mail |-> m, kind |-> kind, copy |-> Nil])

StoreEvent(m, kind) == events' = [events EXCEPT ![m] = @ \cup {kind}]
MissEvent(m, kind) == missed' = [missed EXCEPT ![m] = @ \cup {kind}]

\* The status column is an enum; the migration that creates it has no value
\* for a complaint.
Storable(status) == status # "complained"

-----------------------------------------------------------------------------
(* Mutated forms of definitions below: plausible slips in the code that    *)
(* the properties must notice.  Nothing refers to them.                    *)

\* The row of the event replaced by a new one.
FreshCopy(row, kind) == [Queued EXCEPT !.status = kind]

\* An event of which the row is written first, and the event only after it.
EmitToRow(h, m, kind) ==
    /\ Start(h, "find", m, kind)
    /\ UNCHANGED <<rows, events, missed>>

-----------------------------------------------------------------------------
(* EmailEventListener.                                                     *)

\* Something emits an event: the processor, a notice of the mail server, a
\* bounce.
Emit(h, m, kind) ==
    /\ Start(h, "event", m, kind)
    /\ UNCHANGED <<rows, events, missed>>

\* saveEmailEvent: an error is logged, and the handler goes on.
SaveEmailEvent(h) ==
    LET m == handlers[h].mail
        kind == handlers[h].kind
    IN  /\ Doing(h, "event")
        /\ \/ StoreEvent(m, kind) /\ UNCHANGED missed
           \/ MissEvent(m, kind) /\ UNCHANGED events
        /\ Then(h, [handlers[h] EXCEPT !.pc = "find"])
        /\ UNCHANGED rows

\* What a handler makes of the row: its status, whatever it was, and the times
\* of what the reader did.
Handled(row, kind) ==
    [row EXCEPT !.status = kind,
                !.openedAt = @ \/ kind = "opened",
                !.clickedAt = @ \/ kind = "clicked"]

\* updateEmailLog
FindEmailLog(h) ==
    /\ Doing(h, "find")
    /\ Then(h, [handlers[h] EXCEPT !.pc = "save", !.copy = rows[handlers[h].mail]])
    /\ UNCHANGED <<rows, events, missed>>

-----------------------------------------------------------------------------
(* EmailTrackingHelper.                                                    *)

\* The first open, or the first click, also changes the status.
Opened(row) ==
    LET counted == [row EXCEPT !.openCount = @ + 1]
    IN  IF row.openedAt THEN counted
        ELSE [counted EXCEPT !.status = "opened", !.openedAt = TRUE]
Clicked(row) ==
    IF row.clickedAt THEN row
    ELSE [row EXCEPT !.status = "clicked", !.clickedAt = TRUE]

HelperOpen(h, m) ==
    /\ Doing(h, "idle") /\ rows[m].openCount < Opens
    /\ Then(h, [pc |-> "save open", mail |-> m, kind |-> Nil, copy |-> rows[m]])
    /\ UNCHANGED <<rows, events, missed>>

HelperClick(h, m) ==
    /\ Doing(h, "idle")
    /\ Then(h, [pc |-> "save click", mail |-> m, kind |-> Nil, copy |-> rows[m]])
    /\ UNCHANGED <<rows, events, missed>>

\* save() of the changed copy writes every column in which it differs from the
\* row by now.
Changed(h) ==
    CASE Doing(h, "save") -> Handled(handlers[h].copy, handlers[h].kind)
      [] Doing(h, "save open") -> Opened(handlers[h].copy)
      [] Doing(h, "save click") -> Clicked(handlers[h].copy)

Saving(h) == handlers[h].copy # Nil
SaveCopy(h) ==
    /\ Saving(h) /\ Storable(Changed(h).status)
    /\ rows' = [rows EXCEPT ![handlers[h].mail] = Changed(h)]
    /\ Done(h)
    /\ UNCHANGED <<events, missed>>

-----------------------------------------------------------------------------
(* The routes trackOpen and trackClick of EmailController.                 *)

TrackFind(h, m, kind) ==
    /\ Start(h, "update", m, kind)
    /\ UNCHANGED <<rows, events, missed>>

\* An open counts itself in SQL and sets the status each time; a click leaves
\* the status alone.
TrackOpen(h) ==
    LET m == handlers[h].mail IN
    /\ Doing(h, "update") /\ handlers[h].kind = "opened"
    /\ rows[m].openCount < Opens
    /\ rows' = [rows EXCEPT ![m].openCount = @ + 1, ![m].status = "opened",
                            ![m].openedAt = TRUE]
    /\ Then(h, [handlers[h] EXCEPT !.pc = "store"])
    /\ UNCHANGED <<events, missed>>

TrackClick(h) ==
    /\ Doing(h, "update") /\ handlers[h].kind = "clicked"
    /\ rows' = [rows EXCEPT ![handlers[h].mail].clickedAt = TRUE]
    /\ Then(h, [handlers[h] EXCEPT !.pc = "store"])
    /\ UNCHANGED <<events, missed>>

TrackStore(h) ==
    /\ Doing(h, "store")
    /\ StoreEvent(handlers[h].mail, handlers[h].kind)
    /\ Done(h)
    /\ UNCHANGED <<rows, missed>>

\* A statement fails, or the process dies: the handler ends where it is.
Fails(h) ==
    /\ ~Doing(h, "idle")
    /\ Done(h)
    /\ UNCHANGED <<rows, events, missed>>

-----------------------------------------------------------------------------
HandleEvent(h) == SaveEmailEvent(h) \/ FindEmailLog(h)
Track(h) == TrackOpen(h) \/ TrackClick(h) \/ TrackStore(h)

Next ==
    \E h \in Handlers :
        \/ \E m \in Mails, kind \in Emitted : Emit(h, m, kind)
        \/ \E m \in Mails :
              \/ HelperOpen(h, m) \/ HelperClick(h, m)
              \/ \E kind \in {"opened", "clicked"} : TrackFind(h, m, kind)
        \/ HandleEvent(h) \/ Track(h) \/ SaveCopy(h) \/ Fails(h)

Spec == Init /\ [][Next]_vars

-----------------------------------------------------------------------------
(* Properties.                                                             *)

\* Once it is known when a mail was opened, it stays known, and so for the
\* first click, unless a handler holds a copy of the row from before.
OlderCopy(m) ==
    \E h \in Handlers :
        /\ Saving(h) /\ handlers[h].mail = m
        /\ \/ rows[m].openedAt /\ ~handlers[h].copy.openedAt
           \/ rows[m].clickedAt /\ ~handlers[h].copy.clickedAt
TimesAreKept ==
    [][\A m \in Mails :
          ~OlderCopy(m) =>
              /\ rows[m].openedAt => rows'[m].openedAt
              /\ rows[m].clickedAt => rows'[m].clickedAt]_vars

\* A status that only events give has its event in the table, or storing that
\* event failed: what the log says of delivery is what the history shows.
EventBehindStatus ==
    \A m \in Mails :
        rows[m].status \in {"delivered", "bounced"}
        => rows[m].status \in events[m] \cup missed[m]
=============================================================================
