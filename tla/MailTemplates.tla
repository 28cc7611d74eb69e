---------------------------- MODULE MailTemplates ----------------------------
(***************************************************************************)
(* Mail templates (src/email/email-template-sync.service.ts,               *)
(* email-template.controller.ts, the rendering part of email.service.ts    *)
(* and the template route of admin.controller.ts).                         *)
(*                                                                         *)
(* One server process renders mails.  When it starts, its two EmailService *)
(* instances register the partials and the synchronisation copies the      *)
(* template files into the table, while its worker already takes jobs.     *)
(* Administrators edit the table, through this process or another one.     *)
(* What the process has compiled it keeps until it restarts.               *)
(***************************************************************************)
EXTENDS Naturals, FiniteSets

CONSTANTS
    Templates,      \* names of templates
    Partials,       \* names of partials: those with the prefix "partial-"
    Files,          \* names that have a file
    FileContent,    \* and what is in it
    DefaultPartials,\* header and footer
    DefaultContent, \* what createDefaultPartials writes into them
    Contents,       \* contents a row may have
    Ids,            \* row ids: bounds the rows that are ever inserted
    Boots,          \* EmailService instances of the process, two in the code
    Admins,         \* requests of administrators in flight
    UpdateOnStart,  \* EMAIL_UPDATE_TEMPLATES_ON_START
    Nil

Names == Templates \cup Partials
Row == [name: Names, content: Contents, isActive: BOOLEAN]

ASSUME NamesAssumption ==
    /\ Templates \cap Partials = {}
    /\ Files \subseteq Names /\ DefaultPartials \subseteq Partials
ASSUME ContentAssumption ==
    FileContent \in [Files -> Contents] /\ DefaultContent \in Contents
ASSUME BooleanAssumption == UpdateOnStart \in BOOLEAN
ASSUME NilAssumption == Nil \notin Names \cup Contents \cup Ids \cup Row

VARIABLES
    rows,      \* table email_templates
    used,      \* history: ids that were ever given to a row
    cache,     \* templateCache of the instance that renders
    registry,  \* the partials registered with Handlebars, one per process
    threads,   \* the job being rendered, and the registration at start
    sync,      \* the synchronisation at start
    admin,     \* requests of administrators
    seen,      \* history: contents a name has had since the process started
    disturbed  \* history: did an administrator write since then?

vars == <<rows, used, cache, registry, threads, sync, admin, seen, disturbed>>

-----------------------------------------------------------------------------
Worker == "worker"
Threads == {Worker} \cup Boots

\* A thread inserts a row for a file, or registers partials: at once, after it
\* has made the defaults.  It compiles its template at the end, if it has one.
ThreadPcs == {"idle", "insert", "register", "defaults", "refetch"}
Rest == [pc |-> "idle", name |-> Nil, content |-> Nil]
Booting == [Rest EXCEPT !.pc = "register"]

\* The synchronisation reads a row, then inserts or saves; it stops at the
\* first error.
SyncPcs == {"find", "create", "save", "done", "failed"}
Unread == [id |-> Nil, row |-> Nil]
SyncStart == [pc |-> "find", todo |-> Files, name |-> Nil, copy |-> Unread]

AdminPcs == {"idle", "create", "rename", "update", "create file", "save file"}
AdminRest == [pc |-> "idle", name |-> Nil, copy |-> Unread]

Copy == {Unread} \cup [id: Ids, row: Row \cup {Nil}]

TypeOK ==
    /\ rows \in [Ids -> Row \cup {Nil}]
    /\ used \subseteq Ids
    /\ cache \in [Templates -> Contents \cup {Nil}]
    /\ registry \in [Partials -> Contents \cup {Nil}]
    /\ threads \in [Threads -> [pc: ThreadPcs, name: Templates \cup {Nil},
                                content: Contents \cup {Nil}]]
    /\ sync \in [pc: SyncPcs, todo: SUBSET Files, name: Files \cup {Nil},
                 copy: Copy]
    /\ admin \in [Admins -> [pc: AdminPcs, name: Names \cup {Nil}, copy: Copy]]
    /\ seen \in [Names -> SUBSET Contents]
    /\ disturbed \in BOOLEAN

-----------------------------------------------------------------------------
(* The table.                                                              *)

Exists(i) == rows[i] # Nil
RowsNamed(n) == {i \in Ids : Exists(i) /\ rows[i].name = n}
ActiveNamed(n) == {i \in RowsNamed(n) : rows[i].isActive}

\* name is a unique column: a statement that would repeat one fails.
NameTaken(n, i) == RowsNamed(n) \ {i} # {}

\* What name n stands for in a given table: the content of its active row, and
\* of its file, which a job reads when no row is active.
Current(table, n) ==
    {table[i].content : i \in {j \in Ids : /\ table[j] # Nil
                                           /\ table[j].name = n
                                           /\ table[j].isActive}}
    \cup {FileContent[f] : f \in Files \cap Templates \cap {n}}

Noted(table) == [n \in Names |-> seen[n] \cup Current(table, n)]

Write(table) == rows' = table /\ seen' = Noted(table)

\* save() of a copy read earlier writes all its columns, and inserts the row
\* again when it has been deleted.
SaveCopy(copy) ==
    /\ ~NameTaken(copy.row.name, copy.id)
    /\ Write([rows EXCEPT ![copy.id] = copy.row])
    /\ UNCHANGED used

Init ==
    /\ rows = [i \in Ids |-> Nil]
    /\ used = {}
    /\ cache = [n \in Templates |-> Nil]
    /\ registry = [p \in Partials |-> Nil]
    /\ threads = [t \in Threads |-> IF t \in Boots THEN Booting ELSE Rest]
    /\ sync = SyncStart
    /\ admin = [a \in Admins |-> AdminRest]
    /\ seen = [n \in Names |-> Current(rows, n)]
    /\ disturbed = FALSE

-----------------------------------------------------------------------------
(* Mutated forms of definitions below: plausible slips in the code that    *)
(* the properties must notice.  Nothing refers to them.                    *)

\* A lookup that does not ask for an active row.
FoundEvenInactive(n) == RowsNamed(n)

\* A synchronisation that takes an inactive row for an up-to-date one.
SyncNeedsExisting(i, n) == UpdateOnStart /\ n \in Templates


\* A cache entry kept under the name of the row, with its content at hand.
CompiledFromName(t) ==
    IF threads[t].name = Nil THEN cache
    ELSE [cache EXCEPT ![threads[t].name] = threads[t].name]

\* save() of a new entity: an insert under an id nobody has had.
Insert(i, n, c, active) ==
    /\ i \notin used
    /\ RowsNamed(n) = {}
    /\ used' = used \cup {i}
    /\ Write([rows EXCEPT ![i] = [name |-> n, content |-> c,
                                  isActive |-> active]])

-----------------------------------------------------------------------------
(* Rendering: compileTemplate, registerPartials, createDefaultPartials.    *)

\* The active row a job or a registration finds.
Found(n) == ActiveNamed(n)
HasFile(n) == n \in Files

Unchanged == UNCHANGED <<sync, admin, disturbed>>

\* A job for a template that is not compiled yet: its active row, else its
\* file.  Without both the attempt fails and nothing has changed.
Lookup(n) ==
    /\ threads[Worker].pc = "idle"
    /\ cache[n] = Nil
    /\ \/ \E i \in Found(n) :
             threads' = [threads EXCEPT ![Worker] =
                 [pc |-> "register", name |-> n, content |-> rows[i].content]]
       \/ /\ Found(n) = {}
          /\ HasFile(n)
          /\ threads' = [threads EXCEPT ![Worker] =
                 [pc |-> "insert", name |-> n, content |-> FileContent[n]]]
    /\ UNCHANGED <<rows, used, cache, registry, seen>> /\ Unchanged

\* The file becomes a row; a row of that name, which is inactive or has been
\* inserted meanwhile, fails the attempt.
InsertFromFile ==
    /\ threads[Worker].pc = "insert"
    /\ \/ /\ \E i \in Ids : Insert(i, threads[Worker].name,
                                   threads[Worker].content, TRUE)
          /\ threads' = [threads EXCEPT ![Worker].pc = "register"]
       \/ /\ RowsNamed(threads[Worker].name) # {}
          /\ threads' = [threads EXCEPT ![Worker] = Rest]
          /\ UNCHANGED <<rows, used, seen>>
    /\ UNCHANGED <<cache, registry>> /\ Unchanged

\* The cache once a thread has done with the partials.
Compiled(t) ==
    IF threads[t].name = Nil THEN cache
    ELSE [cache EXCEPT ![threads[t].name] = threads[t].content]

ActivePartials == {p \in Partials : Found(p) # {}}

\* Registers every active partial with what its row says.
Registered ==
    {r \in [Partials -> Contents \cup {Nil}] :
        \A p \in Partials :
            IF p \in ActivePartials
            THEN \E i \in Found(p) : r[p] = rows[i].content
            ELSE r[p] = registry[p]}

Finish(t) ==
    /\ threads' = [threads EXCEPT ![t] = Rest]
    /\ cache' = Compiled(t)

\* registerPartials: the partials there are, or else the defaults.
Register(t) ==
    /\ threads[t].pc = "register"
    /\ IF ActivePartials = {}
       THEN /\ threads' = [threads EXCEPT ![t].pc = "defaults"]
            /\ UNCHANGED <<cache, registry>>
       ELSE registry' \in Registered /\ Finish(t)
    /\ UNCHANGED <<rows, used, seen>> /\ Unchanged

\* createDefaultPartials saves its rows in one transaction, and only logs that
\* one of the names is taken.  (Without ids left, a bound of the model, the
\* transaction fails too.)
NoIdsLeft == Cardinality(Ids \ used) < Cardinality(DefaultPartials)
CreateDefaults(t) ==
    /\ threads[t].pc = "defaults"
    /\ threads' = [threads EXCEPT ![t].pc = "refetch"]
    /\ \/ /\ \A p \in DefaultPartials : RowsNamed(p) = {}
          /\ \E id \in [DefaultPartials -> Ids \ used] :
                /\ \A p, q \in DefaultPartials : id[p] = id[q] => p = q
                /\ used' = used \cup {id[p] : p \in DefaultPartials}
                /\ Write([i \in Ids |->
                       IF \E p \in DefaultPartials : id[p] = i
                       THEN [name |-> CHOOSE p \in DefaultPartials : id[p] = i,
                             content |-> DefaultContent, isActive |-> TRUE]
                       ELSE rows[i]])
       \/ /\ NoIdsLeft \/ \E p \in DefaultPartials : RowsNamed(p) # {}
          /\ UNCHANGED <<rows, used, seen>>
    /\ UNCHANGED <<cache, registry>> /\ Unchanged

\* The second find of registerPartials.
Refetch(t) ==
    /\ threads[t].pc = "refetch"
    /\ registry' \in Registered
    /\ Finish(t)
    /\ UNCHANGED <<rows, used, seen>> /\ Unchanged

\* A failing statement: registerPartials logs it and the template is compiled
\* all the same; a failing insert fails the attempt.
StatementFails(t) ==
    /\ \/ threads[t].pc \in {"register", "refetch"} /\ Finish(t)
       \/ /\ threads[t].pc = "insert"
          /\ threads' = [threads EXCEPT ![t] = Rest]
          /\ UNCHANGED cache
       \/ /\ threads[t].pc = "defaults"
          /\ threads' = [threads EXCEPT ![t].pc = "refetch"]
          /\ UNCHANGED cache
    /\ UNCHANGED <<rows, used, registry, seen>> /\ Unchanged

-----------------------------------------------------------------------------
(* Synchronisation at start: syncEmailTemplates, syncPartialTemplates.     *)

Others == UNCHANGED <<cache, registry, threads, admin, disturbed>>

\* What the copy of an existing row becomes before it is saved.
FromFile(row) == [row EXCEPT !.content = FileContent[row.name],
                             !.isActive = TRUE]

\* Is an existing row saved again?
SyncNeeds(i, n) ==
    ~rows[i].isActive \/ (UpdateOnStart /\ n \in Templates)

\* Is there a row of the file's name, and has it to be written?
Examine(n) ==
    /\ \/ /\ RowsNamed(n) = {}
          /\ sync' = [sync EXCEPT !.pc = "create", !.name = n]
       \/ \E i \in RowsNamed(n) :
             sync' = IF SyncNeeds(i, n)
                     THEN [sync EXCEPT !.pc = "save", !.name = n,
                               !.copy = [id |-> i, row |-> FromFile(rows[i])]]
                     ELSE [sync EXCEPT !.todo = @ \ {n}]
    /\ UNCHANGED <<rows, used, seen>> /\ Others

\* The next template's file.
SyncFind(n) ==
    /\ sync.pc = "find" /\ n \in sync.todo \cap Templates
    /\ Examine(n)

\* The next partial's file, after all templates.
SyncFindPartial(n) ==
    /\ sync.pc = "find" /\ n \in sync.todo /\ sync.todo \subseteq Partials
    /\ Examine(n)

SyncNext == [pc |-> "find", todo |-> sync.todo \ {sync.name}, name |-> Nil,
             copy |-> Unread]
SyncFailed == [SyncNext EXCEPT !.pc = "failed"]

\* createTemplateFromFile and its counterpart for partials.
SyncCreate ==
    /\ sync.pc = "create"
    /\ \/ /\ \E i \in Ids : Insert(i, sync.name, FileContent[sync.name], TRUE)
          /\ sync' = SyncNext
       \/ /\ RowsNamed(sync.name) # {}
          /\ sync' = SyncFailed
          /\ UNCHANGED <<rows, used, seen>>
    /\ Others

\* activateTemplate, updateTemplateContent.
SyncSave ==
    /\ sync.pc = "save"
    /\ \/ SaveCopy(sync.copy) /\ sync' = SyncNext
       \/ /\ NameTaken(sync.copy.row.name, sync.copy.id)
          /\ sync' = SyncFailed
          /\ UNCHANGED <<rows, used, seen>>
    /\ Others

SyncDone ==
    /\ sync.pc = "find" /\ sync.todo = {}
    /\ sync' = [sync EXCEPT !.pc = "done"]
    /\ UNCHANGED <<rows, used, seen>> /\ Others

\* A failing statement ends the synchronisation; onModuleInit logs it.
SyncFails ==
    /\ sync.pc \in {"find", "create", "save"}
    /\ sync' = SyncFailed
    /\ UNCHANGED <<rows, used, seen>> /\ Others

-----------------------------------------------------------------------------
(* Administrators: the routes of EmailTemplateController and syncTemplate. *)

Elsewhere == UNCHANGED <<cache, registry, threads, sync>>
Wait(a, pc, n, copy) ==
    /\ admin' = [admin EXCEPT ![a] = [pc |-> pc, name |-> n, copy |-> copy]]
    /\ UNCHANGED <<rows, used, seen, disturbed>> /\ Elsewhere
Answer(a) == admin' = [admin EXCEPT ![a] = AdminRest]
Only(i) == [id |-> i, row |-> Nil]

\* createTemplate: the name must be free.  Handlebars compiles lazily, so its
\* "syntax check" rejects nothing.
CreateFind(a, n) ==
    /\ admin[a].pc = "idle" /\ RowsNamed(n) = {}
    /\ Wait(a, "create", n, Unread)

CreateInsert(a, c, active) ==
    /\ admin[a].pc = "create"
    /\ \E i \in Ids : Insert(i, admin[a].name, c, active)
    /\ Answer(a) /\ disturbed' = TRUE /\ Elsewhere

\* updateTemplate: the row must exist; a name in the request must be the row's
\* own or free when checked.
UpdateFind(a, i) ==
    /\ admin[a].pc = "idle" /\ Exists(i)
    /\ \/ \E n \in {Nil, rows[i].name} : Wait(a, "update", n, Only(i))
       \/ \E n \in Names \ {rows[i].name} : Wait(a, "rename", n, Only(i))

RenameFind(a) ==
    /\ admin[a].pc = "rename" /\ RowsNamed(admin[a].name) = {}
    /\ Wait(a, "update", admin[a].name, admin[a].copy)

\* A mutated form: save() of the row it found, which inserts it again.
UpdateSaved(a, c, active) ==
    LET i == admin[a].copy.id
        n == IF admin[a].name = Nil THEN rows[i].name ELSE admin[a].name
    IN  /\ admin[a].pc = "update"
        /\ Exists(i) \/ admin[a].name # Nil
        /\ ~NameTaken(n, i)
        /\ Write([rows EXCEPT ![i] = [name |-> n, content |-> c,
                                      isActive |-> active]])
        /\ Answer(a) /\ disturbed' = TRUE
        /\ UNCHANGED used /\ Elsewhere

\* update() writes the columns of the request, the name if it is among them,
\* to the row if it is still there.
UpdateWrite(a, c, active) ==
    LET i == admin[a].copy.id
        n == IF admin[a].name = Nil THEN rows[i].name ELSE admin[a].name
    IN  /\ admin[a].pc = "update" /\ Exists(i) /\ ~NameTaken(n, i)
        /\ Write([rows EXCEPT ![i] = [name |-> n, content |-> c,
                                      isActive |-> active]])
        /\ Answer(a) /\ disturbed' = TRUE
        /\ UNCHANGED used /\ Elsewhere

\* deleteTemplate, of however many requests: what its findOne has seen the
\* DELETE does not ask for, and a row that has gone meanwhile it leaves alone.
Delete(i) ==
    /\ Exists(i)
    /\ Write([rows EXCEPT ![i] = Nil])
    /\ disturbed' = TRUE
    /\ UNCHANGED <<used, admin>> /\ Elsewhere

\* updateSpecificTemplate: content from the file, whether active or not.
SyncOneFind(a, n) ==
    /\ admin[a].pc = "idle" /\ n \in Files \cap Templates
    /\ \/ RowsNamed(n) = {} /\ Wait(a, "create file", n, Unread)
       \/ \E i \in RowsNamed(n) :
             Wait(a, "save file", n,
                  [id |-> i, row |-> [rows[i] EXCEPT !.content = FileContent[n]]])

SyncOneWrite(a) ==
    /\ \/ /\ admin[a].pc = "create file"
          /\ \E i \in Ids :
                Insert(i, admin[a].name, FileContent[admin[a].name], TRUE)
       \/ admin[a].pc = "save file" /\ SaveCopy(admin[a].copy)
    /\ Answer(a) /\ disturbed' = TRUE /\ Elsewhere

\* The write fails or finds no row or a taken name, or a new name is taken.
AdminFails(a) ==
    /\ admin[a].pc # "idle"
    /\ Answer(a)
    /\ UNCHANGED <<rows, used, seen, disturbed>> /\ Elsewhere

-----------------------------------------------------------------------------
\* The process dies and starts again; requests elsewhere go on.
Restart ==
    /\ cache' = [n \in Templates |-> Nil]
    /\ registry' = [p \in Partials |-> Nil]
    /\ threads' = [t \in Threads |-> IF t \in Boots THEN Booting ELSE Rest]
    /\ sync' = SyncStart
    /\ seen' = [n \in Names |-> Current(rows, n)]
    /\ disturbed' = FALSE
    /\ UNCHANGED <<rows, used, admin>>

Render ==
    \/ \E n \in Templates : Lookup(n)
    \/ InsertFromFile
    \/ \E t \in Threads :
          Register(t) \/ CreateDefaults(t) \/ Refetch(t) \/ StatementFails(t)

Synchronise ==
    \/ \E n \in Files : SyncFind(n) \/ SyncFindPartial(n)
    \/ SyncCreate \/ SyncSave \/ SyncDone \/ SyncFails

Administer ==
    \/ \E i \in Ids : Delete(i)
    \/ \E a \in Admins :
          \/ \E n \in Names : CreateFind(a, n) \/ SyncOneFind(a, n)
          \/ \E i \in Ids : UpdateFind(a, i)
          \/ \E c \in Contents, active \in BOOLEAN :
                CreateInsert(a, c, active) \/ UpdateWrite(a, c, active)
          \/ RenameFind(a) \/ SyncOneWrite(a) \/ AdminFails(a)

Next == Render \/ Synchronise \/ Administer \/ Restart

Spec == Init /\ [][Next]_vars

\* A process that stays up and whose statements succeed from some time on, in
\* which a thread goes on working and every template has mails to render.
Progress(t) == Register(t) \/ CreateDefaults(t) \/ Refetch(t)
Fairness ==
    /\ \A t \in Threads : WF_vars(Progress(t))
    /\ WF_vars(InsertFromFile)
    /\ \A n \in Templates : SF_vars(Lookup(n))
    /\ <>[][~(Restart \/ \E t \in Threads : StatementFails(t))]_vars

FairSpec == Spec /\ Fairness

-----------------------------------------------------------------------------
(* Properties.                                                             *)

\* What the process renders with, template or partial, is never older than
\* the process itself: since its start there was an active row, or a file,
\* that said so.  (Newer contents it may miss: templateCache and the registry
\* of Handlebars are never dropped while it runs.)
CompiledWasCurrent ==
    /\ \A n \in Templates : cache[n] # Nil => cache[n] \in seen[n]
    /\ \A p \in Partials : registry[p] # Nil => registry[p] \in seen[p]

\* After a synchronisation that reported success, with no administrator
\* writing in between, every file has an active row, whatever jobs and
\* registrations inserted meanwhile (onModuleInit).
SyncedMeansActive ==
    sync.pc = "done" /\ ~disturbed => \A n \in Files : ActiveNamed(n) # {}

\* A copy of row i is held by an operation that will save it.
CopyHeld(i) ==
    \/ sync.copy.id = i
    \/ \E a \in Admins : admin[a].pc = "save file" /\ admin[a].copy.id = i

\* A deleted template stays deleted once no synchronisation, at start or on
\* request, holds a copy it read before (only save() can insert it again).
DeletedStaysDeleted ==
    [][\A i \in used : ~Exists(i) /\ ~CopyHeld(i) => rows'[i] = Nil]_vars

\* A template with a file is compiled sooner or later, or an inactive row of
\* its name stands in the way: no race of the insert on first use with the
\* synchronisation and administrators can (compileTemplate).  Compiled is not
\* yet rendered: that throws as long as a partial the content names is not
\* registered, which nothing makes up for once the template is cached.
\* (In an instance whose ids have run out the insert is not possible either.)
Shadowed(n) ==
    \/ RowsNamed(n) # {} /\ ActiveNamed(n) = {}
    \/ RowsNamed(n) = {} /\ used = Ids
=============================================================================
