------------------------ MODULE MailTemplatesProofs ------------------------
(***************************************************************************)
(* Safety of the mail templates, for any names, files and administrators,  *)
(* with statements failing and the process restarting at any time.  Only   *)
(* Write changes the table; TableStep says what any such step keeps, and   *)
(* the invariants ask only that.                                           *)
(***************************************************************************)
EXTENDS MailTemplates, TLAPS

TableOK ==
  /\ rows \in [Ids -> Row \cup {Nil}]
  /\ used \subseteq Ids
  /\ seen \in [Names -> SUBSET Contents]

\* What the synchronisation holds, by where it waits.
SyncOK ==
  /\ sync \in [pc: SyncPcs, todo: SUBSET Files, name: Files \cup {Nil},
               copy: {Unread} \cup [id: Ids, row: Row]]
  /\ sync.pc \in {"create", "save"} <=> sync.name # Nil
  /\ sync.pc = "save" <=> sync.copy # Unread
  /\ sync.pc = "done" => sync.todo = {}
  /\ sync.pc = "save" =>
        /\ sync.copy.id \in used
        /\ sync.copy.row.name = sync.name /\ sync.copy.row.isActive

\* What the request of an administrator holds, by where it waits.
AdminOK ==
  /\ admin \in [Admins -> [pc: AdminPcs, name: Names \cup {Nil}, copy: Copy]]
  /\ \A a \in Admins :
        /\ admin[a].pc \in {"create", "rename"} => admin[a].name \in Names
        /\ admin[a].pc = "create file" => admin[a].name \in Files \cap Templates
        /\ admin[a].pc \in {"rename", "update"} =>
              admin[a].copy \in [id: used, row: {Nil}]
        /\ admin[a].pc = "save file" => admin[a].copy \in [id: used, row: Row]

ThreadsOK ==
  /\ threads \in [Threads -> [pc: ThreadPcs, name: Templates \cup {Nil},
                              content: Contents \cup {Nil}]]
  /\ \A t \in Threads : threads[t].name = Nil <=> threads[t].content = Nil
  /\ \A t \in Threads : threads[t].pc = "insert" => threads[t].name # Nil

CompiledOK ==
  /\ cache \in [Templates -> Contents \cup {Nil}]
  /\ registry \in [Partials -> Contents \cup {Nil}]

\* An id is spent when its row is inserted.
RowsAreUsed == \A i \in Ids : Exists(i) => i \in used

Typed ==
  /\ TableOK /\ SyncOK /\ AdminOK /\ ThreadsOK /\ CompiledOK
  /\ disturbed \in BOOLEAN /\ RowsAreUsed

\* seen misses nothing that a name stands for now, and nothing that a thread
\* has read and will compile.
SeenCovers ==
  /\ \A n \in Names : Current(rows, n) \subseteq seen[n]
  /\ \A t \in Threads :
        threads[t].name # Nil => threads[t].content \in seen[threads[t].name]
  /\ CompiledWasCurrent

\* While only jobs and the synchronisation write, the row the latter is about
\* to save is the one it read, and the files it is through with are active.
SyncKeepsUp ==
  ~disturbed =>
     /\ sync.pc = "save" =>
           /\ Exists(sync.copy.id)
           /\ rows[sync.copy.id].name = sync.copy.row.name
     /\ sync.pc # "failed" =>
           \A n \in Files \ sync.todo : ActiveNamed(n) # {}

IInv == Typed /\ SeenCovers /\ SyncKeepsUp

-----------------------------------------------------------------------------
(* What a step does to the table.                                          *)

TableStep ==
  /\ TableOK' /\ RowsAreUsed'
  /\ used \subseteq used'
  /\ \A n \in Names : Current(rows, n)' \subseteq seen'[n]

\* All steps but Restart also keep what was seen.
SeenGrows == \A n \in Names : seen[n] \subseteq seen'[n]

RowsStay == \A i \in Ids : Exists(i) => rows'[i] = rows[i]

LEMMA RowIsThere ==
  ASSUME TableOK, NEW i \in Ids
  PROVE  /\ Exists(i) <=> rows[i] \in Row
         /\ Exists(i) => /\ rows[i].name \in Names
                         /\ rows[i].content \in Contents
                         /\ rows[i].isActive \in BOOLEAN
BY NilAssumption DEF TableOK, Exists, Row

LEMMA FoundIsCurrent ==
  ASSUME TableOK, NEW n \in Names, NEW i \in Found(n)
  PROVE  /\ i \in Ids /\ Exists(i) /\ rows[i].name = n /\ rows[i].isActive
         /\ rows[i].content \in Current(rows, n)
         /\ rows[i].content \in Contents
BY RowIsThere DEF Found, ActiveNamed, RowsNamed, Current, Exists

LEMMA CurrentType ==
  ASSUME NEW table \in [Ids -> Row \cup {Nil}], NEW n \in Names
  PROVE  Current(table, n) \subseteq Contents
<1>1. \A i \in Ids : table[i] # Nil => table[i].content \in Contents
  BY DEF Row
<1>2. \A f \in Files : FileContent[f] \in Contents
  BY ContentAssumption
<1>3. QED
  BY <1>1, <1>2 DEF Current

LEMMA KeptTable ==
  ASSUME TableOK, RowsAreUsed, \A n \in Names : Current(rows, n) \subseteq seen[n],
         UNCHANGED <<rows, used, seen>>
  PROVE  TableStep /\ SeenGrows /\ RowsStay
BY DEF TableOK, RowsAreUsed, Exists, Current, TableStep, SeenGrows, RowsStay

LEMMA WriteStep ==
  ASSUME TableOK, NEW table \in [Ids -> Row \cup {Nil}], Write(table),
         used \subseteq used', used' \subseteq Ids,
         \A i \in Ids : table[i] # Nil => i \in used'
  PROVE  TableStep /\ SeenGrows /\ rows' = table
<1>1. rows' = table /\ seen' = [n \in Names |-> seen[n] \cup Current(table, n)]
  BY DEF Write, Noted
<1>2. \A n \in Names : Current(table, n) \subseteq Contents
  BY CurrentType
<1>3. TableOK'
  BY <1>1, <1>2 DEF TableOK
<1>4. \A n \in Names : Current(rows, n)' = Current(table, n)
  BY <1>1 DEF Current
<1>5. QED
  BY <1>1, <1>3, <1>4 DEF TableStep, SeenGrows, RowsAreUsed, Exists

LEMMA InsertStep ==
  ASSUME TableOK, RowsAreUsed, NEW i \in Ids, NEW n \in Names,
         NEW c \in Contents, NEW active \in BOOLEAN, Insert(i, n, c, active)
  PROVE  /\ TableStep /\ SeenGrows /\ RowsStay
         /\ rows'[i] = [name |-> n, content |-> c, isActive |-> active]
         /\ rows'[i] \in Row
         /\ active => ActiveNamed(n)' # {}
<1> DEFINE new == [name |-> n, content |-> c, isActive |-> active]
           table == [rows EXCEPT ![i] = new]
<1>1. new \in Row
  BY DEF Row
<1>2. table \in [Ids -> Row \cup {Nil}]
  BY <1>1 DEF TableOK
<1>3. /\ i \notin used /\ used' = used \cup {i} /\ Write(table)
  BY DEF Insert
<1>4. \A j \in Ids : table[j] # Nil => j \in used'
  BY <1>3 DEF RowsAreUsed, Exists, TableOK
<1>5. TableStep /\ SeenGrows /\ rows' = table
  <2> HIDE DEF table
  <2>1. QED BY <1>2, <1>3, <1>4, WriteStep DEF TableOK
<1>6. RowsStay
  BY <1>3, <1>5 DEF RowsStay, RowsAreUsed, TableOK
<1>7. rows'[i] = new /\ Exists(i)'
  BY <1>1, <1>5, NilAssumption DEF TableOK, Exists
<1>8. active => i \in ActiveNamed(n)'
  BY <1>7 DEF ActiveNamed, RowsNamed
<1>9. QED
  BY <1>1, <1>5, <1>6, <1>7, <1>8

LEMMA SaveCopyStep ==
  ASSUME TableOK, RowsAreUsed, NEW copy \in [id: used, row: Row], SaveCopy(copy)
  PROVE  /\ TableStep /\ SeenGrows
         /\ rows' = [rows EXCEPT ![copy.id] = copy.row]
<1> DEFINE table == [rows EXCEPT ![copy.id] = copy.row]
<1>1. copy.id \in Ids /\ copy.id \in used /\ copy.row \in Row
  BY DEF TableOK
<1>2. table \in [Ids -> Row \cup {Nil}]
  BY <1>1 DEF TableOK
<1>3. \A j \in Ids : table[j] # Nil => j \in used
  BY <1>1 DEF RowsAreUsed, Exists, TableOK
<1>4. Write(table) /\ used' = used
  BY DEF SaveCopy
<1> HIDE DEF table
<1>5. TableStep /\ SeenGrows /\ rows' = table
  BY <1>2, <1>3, <1>4, WriteStep DEF TableOK
<1>6. QED
  BY <1>5 DEF table

-----------------------------------------------------------------------------
(* Those who take no part in a step keep their part of the invariant.      *)

LEMMA SyncStays ==
  ASSUME SyncOK, TableStep, UNCHANGED sync
  PROVE  SyncOK'
BY DEF SyncOK, TableStep

LEMMA AdminStays ==
  ASSUME AdminOK, TableStep, UNCHANGED admin
  PROVE  AdminOK'
BY DEF AdminOK, TableStep

LEMMA ReadersStay ==
  ASSUME ThreadsOK, CompiledOK, SeenCovers, TableStep, SeenGrows,
         UNCHANGED <<threads, cache, registry>>
  PROVE  ThreadsOK' /\ CompiledOK' /\ SeenCovers'
<1>1. ThreadsOK' /\ CompiledOK'
  BY DEF ThreadsOK, CompiledOK
<1>2. \A t \in Threads :
        threads'[t].name # Nil => threads'[t].content \in seen'[threads'[t].name]
  BY DEF ThreadsOK, SeenCovers, SeenGrows, Names
<1>3. CompiledWasCurrent'
  BY DEF SeenCovers, SeenGrows, CompiledWasCurrent, Names
<1>4. QED
  BY <1>1, <1>2, <1>3 DEF SeenCovers, TableStep

LEMMA ActiveStays ==
  ASSUME RowsStay, NEW n
  PROVE  ActiveNamed(n) \subseteq ActiveNamed(n)'
BY DEF RowsStay, ActiveNamed, RowsNamed, Exists

LEMMA SyncStillKeepsUp ==
  ASSUME SyncKeepsUp, Typed, RowsStay, UNCHANGED <<sync, disturbed>>
  PROVE  SyncKeepsUp'
<1>1. ASSUME ~disturbed, sync.pc = "save"
      PROVE  /\ Exists(sync.copy.id)'
             /\ rows'[sync.copy.id].name = sync.copy.row.name
  BY <1>1 DEF SyncKeepsUp, RowsStay, Typed, SyncOK, TableOK, Exists
<1>2. \A n \in Files : ActiveNamed(n) # {} => ActiveNamed(n)' # {}
  BY ActiveStays
<1>3. QED
  BY <1>1, <1>2 DEF SyncKeepsUp

-----------------------------------------------------------------------------
(* Rendering.                                                              *)

ThreadsSeen ==
  \A t \in Threads :
      threads[t].name # Nil => threads[t].content \in seen[threads[t].name]

CompiledSeen ==
  CompiledOK /\ CompiledWasCurrent

RenderEffect ==
  /\ TableStep /\ SeenGrows /\ RowsStay
  /\ ThreadsOK' /\ ThreadsSeen' /\ CompiledSeen'

Slot == [pc: ThreadPcs, name: Templates \cup {Nil}, content: Contents \cup {Nil}]

LEMMA SlotMoves ==
  ASSUME ThreadsOK, ThreadsSeen, SeenGrows, NEW t \in Threads, NEW slot \in Slot,
         threads' = [threads EXCEPT ![t] = slot],
         slot.name = Nil <=> slot.content = Nil,
         slot.pc = "insert" => slot.name # Nil,
         slot.name # Nil => slot.content \in seen'[slot.name]
  PROVE  ThreadsOK' /\ ThreadsSeen'
<1>1. threads'[t] = slot /\ \A x \in Threads \ {t} : threads'[x] = threads[x]
  BY DEF ThreadsOK
<1>2. ThreadsOK'
  <2>1. threads' \in [Threads -> Slot]
    BY DEF ThreadsOK, Slot
  <2>2. QED
    BY <1>1, <2>1 DEF ThreadsOK, Slot
<1>3. \A x \in Threads \ {t} :
        threads'[x].name # Nil => threads'[x].content \in seen'[threads'[x].name]
  BY <1>1 DEF ThreadsOK, ThreadsSeen, SeenGrows, Names
<1>4. QED
  BY <1>1, <1>2, <1>3 DEF ThreadsSeen

LEMMA ThreadGoesOn ==
  ASSUME ThreadsOK, ThreadsSeen, SeenGrows, NEW t \in Threads,
         NEW pc \in ThreadPcs \ {"insert"}, threads' = [threads EXCEPT ![t].pc = pc]
  PROVE  ThreadsOK' /\ ThreadsSeen'
<1> DEFINE slot == [threads[t] EXCEPT !.pc = pc]
<1>1. threads[t] \in Slot /\ threads' = [threads EXCEPT ![t] = slot]
  BY DEF ThreadsOK, Slot
<1>2. /\ slot \in Slot /\ slot.pc = pc /\ slot.name = threads[t].name
      /\ slot.content = threads[t].content
  BY <1>1 DEF Slot
<1>3. slot.name # Nil => slot.content \in seen'[slot.name]
  BY <1>1, <1>2 DEF Slot, ThreadsSeen, SeenGrows, Names
<1>4. slot.name = Nil <=> slot.content = Nil
  BY <1>2 DEF ThreadsOK
<1> HIDE DEF slot
<1>5. QED
  BY <1>1, <1>2, <1>3, <1>4, SlotMoves

LEMMA ThreadRests ==
  ASSUME ThreadsOK, ThreadsSeen, SeenGrows, NEW t \in Threads,
         threads' = [threads EXCEPT ![t] = Rest]
  PROVE  ThreadsOK' /\ ThreadsSeen'
<1>1. Rest \in Slot /\ Rest.name = Nil /\ Rest.content = Nil /\ Rest.pc # "insert"
  BY DEF Rest, Slot, ThreadPcs
<1>2. QED
  BY <1>1, SlotMoves

LEMMA CacheFilled ==
  ASSUME ThreadsOK, ThreadsSeen, CompiledSeen, NEW t \in Threads, Finish(t),
         UNCHANGED seen
  PROVE  /\ cache' \in [Templates -> Contents \cup {Nil}]
         /\ \A n \in Templates : cache'[n] # Nil => cache'[n] \in seen'[n]
BY DEF Finish, Compiled, ThreadsOK, ThreadsSeen, CompiledSeen, CompiledOK,
       CompiledWasCurrent

LEMMA PartialsRegistered ==
  ASSUME TableOK, CompiledSeen, \A n \in Names : Current(rows, n) \subseteq seen[n],
         registry' \in Registered, UNCHANGED seen
  PROVE  /\ registry' \in [Partials -> Contents \cup {Nil}]
         /\ \A p \in Partials : registry'[p] # Nil => registry'[p] \in seen'[p]
<1>1. registry' \in [Partials -> Contents \cup {Nil}]
  BY DEF Registered
<1>2. ASSUME NEW p \in Partials, registry'[p] # Nil
      PROVE  registry'[p] \in seen'[p]
  <2>1. p \in Names
    BY DEF Names
  <2>2. CASE p \in ActivePartials
    <3>1. PICK i \in Found(p) : registry'[p] = rows[i].content
      BY <2>2 DEF Registered
    <3>2. QED
      BY <2>1, <3>1, FoundIsCurrent
  <2>3. CASE p \notin ActivePartials
    BY <1>2, <2>3 DEF Registered, CompiledSeen, CompiledWasCurrent
  <2>4. QED
    BY <2>2, <2>3
<1>3. QED
  BY <1>1, <1>2

LEMMA SameTable ==
  ASSUME Typed, SeenCovers, UNCHANGED <<rows, used, seen>>
  PROVE  TableStep /\ SeenGrows /\ RowsStay
BY KeptTable DEF Typed, SeenCovers

LEMMA SameCompiled ==
  ASSUME CompiledSeen, SeenGrows, UNCHANGED <<cache, registry>>
  PROVE  CompiledSeen'
BY DEF CompiledSeen, CompiledOK, CompiledWasCurrent, SeenGrows, Names

LEMMA LookupEffect ==
  ASSUME Typed, SeenCovers, NEW n \in Templates, Lookup(n)
  PROVE  RenderEffect
<1> n \in Names /\ Worker \in Threads
  BY DEF Names, Threads
<1> TableOK /\ ThreadsOK /\ ThreadsSeen /\ CompiledSeen
  BY DEF Typed, SeenCovers, ThreadsSeen, CompiledSeen
<1>1. TableStep /\ SeenGrows /\ RowsStay
  BY SameTable DEF Lookup
<1>2. CompiledSeen'
  BY <1>1, SameCompiled DEF Lookup
<1>3. PICK pc \in {"register", "insert"}, c \in Contents :
         /\ c \in Current(rows, n)
         /\ threads' = [threads EXCEPT ![Worker] =
                          [pc |-> pc, name |-> n, content |-> c]]
  <2>1. CASE \E i \in Found(n) :
               threads' = [threads EXCEPT ![Worker] =
                 [pc |-> "register", name |-> n, content |-> rows[i].content]]
    BY <2>1, FoundIsCurrent
  <2>2. CASE /\ HasFile(n)
             /\ threads' = [threads EXCEPT ![Worker] =
                  [pc |-> "insert", name |-> n, content |-> FileContent[n]]]
    <3>1. FileContent[n] \in Current(rows, n) /\ FileContent[n] \in Contents
      BY <2>2, ContentAssumption DEF HasFile, Current
    <3>2. QED
      BY <2>2, <3>1
  <2>3. QED
    BY <2>1, <2>2 DEF Lookup
<1> DEFINE slot == [pc |-> pc, name |-> n, content |-> c]
<1>4. /\ slot \in Slot /\ slot.name = n /\ slot.content = c
      /\ n # Nil /\ c # Nil
  BY NilAssumption DEF Slot, ThreadPcs, Names
<1>5. slot.content \in seen'[n]
  BY <1>1, <1>3, <1>4 DEF SeenCovers, SeenGrows
<1>6. threads' = [threads EXCEPT ![Worker] = slot]
  BY <1>3
<1> HIDE DEF slot
<1>7. ThreadsOK' /\ ThreadsSeen'
  BY <1>1, <1>4, <1>5, <1>6, SlotMoves
<1>8. QED
  BY <1>1, <1>2, <1>7 DEF RenderEffect

LEMMA InsertFromFileEffect ==
  ASSUME Typed, SeenCovers, InsertFromFile
  PROVE  RenderEffect
<1> Worker \in Threads
  BY DEF Threads
<1> TableOK /\ RowsAreUsed /\ ThreadsOK /\ ThreadsSeen /\ CompiledSeen
  BY DEF Typed, SeenCovers, ThreadsSeen, CompiledSeen
<1> DEFINE n == threads[Worker].name
           c == threads[Worker].content
<1>1. n \in Names /\ c \in Contents
  BY DEF InsertFromFile, ThreadsOK, Names
<1>2. CASE /\ \E i \in Ids : Insert(i, n, c, TRUE)
           /\ threads' = [threads EXCEPT ![Worker].pc = "register"]
  <2>1. TableStep /\ SeenGrows /\ RowsStay
    <3> HIDE DEF n, c
    <3>1. QED BY <1>1, <1>2, InsertStep
  <2>2. ThreadsOK' /\ ThreadsSeen'
    BY <1>2, <2>1, ThreadGoesOn DEF ThreadPcs
  <2>3. QED
    BY <2>1, <2>2, SameCompiled DEF RenderEffect, InsertFromFile
<1>3. CASE /\ threads' = [threads EXCEPT ![Worker] = Rest]
           /\ UNCHANGED <<rows, used, seen>>
  BY <1>3, SameTable, ThreadRests, SameCompiled DEF RenderEffect, InsertFromFile
<1>4. QED
  BY <1>2, <1>3 DEF InsertFromFile

LEMMA FinishEffect ==
  ASSUME Typed, SeenCovers, NEW t \in Threads, Finish(t),
         UNCHANGED <<rows, used, seen>>,
         registry' \in Registered \/ UNCHANGED registry
  PROVE  RenderEffect
<1> TableOK /\ ThreadsOK /\ ThreadsSeen /\ CompiledSeen
  BY DEF Typed, SeenCovers, ThreadsSeen, CompiledSeen
<1>1. TableStep /\ SeenGrows /\ RowsStay
  BY SameTable
<1>2. ThreadsOK' /\ ThreadsSeen'
  BY <1>1, ThreadRests DEF Finish
<1>3. /\ cache' \in [Templates -> Contents \cup {Nil}]
      /\ \A n \in Templates : cache'[n] # Nil => cache'[n] \in seen'[n]
  BY CacheFilled
<1>4. /\ registry' \in [Partials -> Contents \cup {Nil}]
      /\ \A p \in Partials : registry'[p] # Nil => registry'[p] \in seen'[p]
  BY PartialsRegistered
     DEF SeenCovers, CompiledSeen, CompiledOK, CompiledWasCurrent
<1>5. QED
  BY <1>1, <1>2, <1>3, <1>4
     DEF RenderEffect, CompiledSeen, CompiledOK, CompiledWasCurrent

LEMMA DefaultsInserted ==
  ASSUME TableOK, RowsAreUsed, NEW id \in [DefaultPartials -> Ids \ used],
         used' = used \cup {id[p] : p \in DefaultPartials},
         Write([i \in Ids |->
            IF \E p \in DefaultPartials : id[p] = i
            THEN [name |-> CHOOSE p \in DefaultPartials : id[p] = i,
                  content |-> DefaultContent, isActive |-> TRUE]
            ELSE rows[i]])
  PROVE  TableStep /\ SeenGrows /\ RowsStay
<1> DEFINE default(i) == [name |-> CHOOSE p \in DefaultPartials : id[p] = i,
                          content |-> DefaultContent, isActive |-> TRUE]
           given(i) == \E p \in DefaultPartials : id[p] = i
           table == [i \in Ids |-> IF given(i) THEN default(i) ELSE rows[i]]
<1>1. \A i \in Ids : given(i) => default(i) \in Row
  <2> SUFFICES ASSUME NEW i \in Ids, given(i) PROVE default(i) \in Row
    OBVIOUS
  <2>1. (CHOOSE p \in DefaultPartials : id[p] = i) \in DefaultPartials
    OBVIOUS
  <2>2. QED
    BY <2>1, NamesAssumption, ContentAssumption DEF Row, Names
<1>2. table \in [Ids -> Row \cup {Nil}]
  BY <1>1 DEF TableOK
<1>3. used \subseteq used' /\ used' \subseteq Ids
  BY DEF TableOK
<1>4. \A i \in Ids : given(i) => i \in used' /\ i \notin used
  OBVIOUS
<1>5. \A i \in Ids : table[i] # Nil => i \in used'
  BY <1>3, <1>4 DEF RowsAreUsed, Exists
<1>6. Write(table)
  OBVIOUS
<1>7. \A i \in Ids : Exists(i) => table[i] = rows[i]
  BY <1>4 DEF RowsAreUsed
<1> HIDE DEF table
<1>8. TableStep /\ SeenGrows /\ rows' = table
  BY <1>2, <1>3, <1>5, <1>6, WriteStep
<1>9. QED
  BY <1>7, <1>8 DEF RowsStay

LEMMA CreateDefaultsEffect ==
  ASSUME Typed, SeenCovers, NEW t \in Threads, CreateDefaults(t)
  PROVE  RenderEffect
<1> TableOK /\ RowsAreUsed /\ ThreadsOK /\ ThreadsSeen /\ CompiledSeen
  BY DEF Typed, SeenCovers, ThreadsSeen, CompiledSeen
<1>1. TableStep /\ SeenGrows /\ RowsStay
  <2>1. CASE UNCHANGED <<rows, used, seen>>
    BY <2>1, SameTable
  <2>2. CASE ~UNCHANGED <<rows, used, seen>>
    BY <2>2, DefaultsInserted DEF CreateDefaults
  <2>3. QED
    BY <2>1, <2>2
<1>2. ThreadsOK' /\ ThreadsSeen'
  BY <1>1, ThreadGoesOn DEF CreateDefaults, ThreadPcs
<1>3. QED
  BY <1>1, <1>2, SameCompiled DEF RenderEffect, CreateDefaults

LEMMA ThreadEffect ==
  ASSUME Typed, SeenCovers, NEW t \in Threads,
         Register(t) \/ CreateDefaults(t) \/ Refetch(t) \/ StatementFails(t)
  PROVE  RenderEffect
<1> TableOK /\ ThreadsOK /\ ThreadsSeen /\ CompiledSeen
  BY DEF Typed, SeenCovers, ThreadsSeen, CompiledSeen
<1>1. ASSUME NEW pc \in ThreadPcs \ {"insert"},
             threads' = [threads EXCEPT ![t].pc = pc],
             UNCHANGED <<rows, used, seen, cache, registry>>
      PROVE  RenderEffect
  BY <1>1, SameTable, ThreadGoesOn, SameCompiled DEF RenderEffect
<1>2. CASE Register(t)
  <2>1. CASE ActivePartials = {}
    BY <1>1, <1>2, <2>1 DEF Register, ThreadPcs
  <2>2. CASE ActivePartials # {}
    BY <1>2, <2>2, FinishEffect DEF Register
  <2>3. QED
    BY <2>1, <2>2
<1>3. CASE Refetch(t)
  BY <1>3, FinishEffect DEF Refetch
<1>4. CASE StatementFails(t)
  <2>1. CASE Finish(t)
    BY <1>4, <2>1, FinishEffect DEF StatementFails
  <2>2. CASE threads' = [threads EXCEPT ![t] = Rest] /\ UNCHANGED cache
    BY <1>4, <2>2, SameTable, ThreadRests, SameCompiled
       DEF RenderEffect, StatementFails
  <2>3. CASE threads' = [threads EXCEPT ![t].pc = "refetch"] /\ UNCHANGED cache
    BY <1>1, <1>4, <2>3 DEF StatementFails, ThreadPcs
  <2>4. QED
    BY <1>4, <2>1, <2>2, <2>3 DEF StatementFails
<1>5. QED
  BY <1>2, <1>3, <1>4, CreateDefaultsEffect

LEMMA RenderKeeps ==
  ASSUME IInv, Render
  PROVE  IInv'
<1> Typed /\ SeenCovers /\ SyncKeepsUp
  BY DEF IInv
<1>1. RenderEffect
  BY LookupEffect, InsertFromFileEffect, ThreadEffect DEF Render
<1>2. UNCHANGED <<sync, admin, disturbed>>
  BY DEF Render, Lookup, InsertFromFile, Register, CreateDefaults, Refetch,
         StatementFails, Unchanged
<1>3. SyncOK' /\ AdminOK'
  BY <1>1, <1>2, SyncStays, AdminStays DEF RenderEffect, Typed
<1>4. Typed'
  BY <1>1, <1>2, <1>3 DEF RenderEffect, CompiledSeen, TableStep, Typed
<1>5. SeenCovers'
  BY <1>1 DEF RenderEffect, CompiledSeen, ThreadsSeen, TableStep, SeenCovers
<1>6. SyncKeepsUp'
  BY <1>1, <1>2, SyncStillKeepsUp DEF RenderEffect
<1>7. QED
  BY <1>4, <1>5, <1>6 DEF IInv

-----------------------------------------------------------------------------
(* The synchronisation.                                                    *)

LEMMA SyncParts ==
  ASSUME SyncOK
  PROVE  /\ sync.pc \in SyncPcs /\ sync.todo \subseteq Files
         /\ sync.name \in Files \cup {Nil}
         /\ sync.pc \in {"create", "save"} => sync.name \in Files
         /\ sync.pc = "save" => sync.copy \in [id: used, row: Row]
         /\ sync = [pc |-> sync.pc, todo |-> sync.todo, name |-> sync.name,
                    copy |-> sync.copy]
<1>1. sync \in [pc: SyncPcs, todo: SUBSET Files, name: Files \cup {Nil},
                copy: {Unread} \cup [id: Ids, row: Row]]
  BY DEF SyncOK
<1>2. sync.pc = "save" => sync.copy \in [id: used, row: Row]
  BY <1>1 DEF SyncOK
<1>3. QED
  BY <1>1, <1>2 DEF SyncOK

SyncValue(pc, todo, name, copy) ==
  [pc |-> pc, todo |-> todo, name |-> name, copy |-> copy]

LEMMA SyncMoves ==
  ASSUME SyncOK, NEW pc \in {"find", "done", "failed"},
         NEW todo \in SUBSET Files, sync' = SyncValue(pc, todo, Nil, Unread),
         pc = "done" => todo = {}
  PROVE  SyncOK' /\ sync'.pc = pc /\ sync'.todo = todo
BY DEF SyncOK, SyncValue, SyncPcs

\* Through with file n: with a row of its name that is active.
LEMMA ThroughWith ==
  ASSUME SyncKeepsUp, sync.pc # "failed", NEW n \in Files, NEW pc,
         sync' = SyncValue(pc, sync.todo \ {n}, Nil, Unread),
         pc # "save", UNCHANGED disturbed,
         ~disturbed => ActiveNamed(n)' # {},
         ~disturbed => \A m \in Files : ActiveNamed(m) # {} => ActiveNamed(m)' # {}
  PROVE  SyncKeepsUp'
BY DEF SyncKeepsUp, SyncValue

LEMMA FindKeeps ==
  ASSUME IInv, NEW n \in Files, Examine(n), sync.pc = "find"
  PROVE  IInv'
<1> Typed /\ SeenCovers /\ SyncKeepsUp /\ TableOK /\ SyncOK /\ RowsAreUsed
  BY DEF IInv, Typed
<1>1. UNCHANGED <<rows, used, seen, cache, registry, threads, admin, disturbed>>
  BY DEF Examine, Others
<1>2. TableStep /\ SeenGrows /\ RowsStay
  BY <1>1, SameTable
<1>3. AdminOK' /\ ThreadsOK' /\ CompiledOK' /\ SeenCovers'
  BY <1>1, <1>2, AdminStays, ReadersStay DEF Typed
<1>4. /\ sync.todo \subseteq Files /\ sync.name = Nil /\ sync.copy = Unread
      /\ sync = SyncValue("find", sync.todo, Nil, Unread)
  BY SyncParts DEF SyncOK, SyncValue
<1>5. CASE sync' = [sync EXCEPT !.pc = "create", !.name = n]
  <2>1. sync' = SyncValue("create", sync.todo, n, Unread)
    BY <1>4, <1>5 DEF SyncValue
  <2>2. n # Nil
    BY NamesAssumption, NilAssumption
  <2>3. SyncOK'
    BY <1>4, <2>1, <2>2 DEF SyncOK, SyncValue, SyncPcs
  <2>4. SyncKeepsUp'
    BY <1>1, <2>1 DEF SyncKeepsUp, SyncValue, ActiveNamed, RowsNamed, Exists
  <2>5. QED
    BY <1>1, <1>2, <1>3, <2>3, <2>4 DEF IInv, Typed, TableStep
<1>6. ASSUME NEW i \in RowsNamed(n),
             sync' = [sync EXCEPT !.pc = "save", !.name = n,
                        !.copy = [id |-> i, row |-> FromFile(rows[i])]]
      PROVE  IInv'
  <2>1. /\ i \in Ids /\ Exists(i) /\ i \in used /\ rows[i] \in Row
        /\ rows[i].name = n
    BY RowIsThere DEF RowsNamed, RowsAreUsed
  <2> DEFINE row == FromFile(rows[i])
             copy == [id |-> i, row |-> row]
  <2>2. row \in Row /\ row.name = n /\ row.isActive
    BY <2>1, ContentAssumption DEF FromFile, Row
  <2>3. sync' = SyncValue("save", sync.todo, n, copy)
    BY <1>4, <1>6 DEF SyncValue
  <2>4. n # Nil /\ i # Nil
    BY <2>1, NamesAssumption, NilAssumption
  <2>5. SyncOK'
    <3>1. /\ copy \in [id: Ids, row: Row] /\ copy.id = i /\ copy.row = row
          /\ copy # Unread
      BY <2>1, <2>2, <2>4 DEF Unread
    <3> HIDE DEF row, copy
    <3>2. QED
      BY <1>1, <1>4, <2>1, <2>2, <2>3, <2>4, <3>1 DEF SyncOK, SyncValue, SyncPcs
  <2>6. SyncKeepsUp'
    <3>1. copy.id = i /\ copy.row = row
      OBVIOUS
    <3> HIDE DEF row, copy
    <3>2. QED
      BY <1>1, <1>4, <2>1, <2>2, <2>3, <3>1
         DEF SyncKeepsUp, SyncValue, ActiveNamed, RowsNamed, Exists
  <2>7. QED
    BY <1>1, <1>2, <1>3, <2>5, <2>6 DEF IInv, Typed, TableStep
<1>7. ASSUME NEW i \in RowsNamed(n), ~SyncNeeds(i, n),
             sync' = [sync EXCEPT !.todo = @ \ {n}]
      PROVE  IInv'
  <2>1. sync' = SyncValue("find", sync.todo \ {n}, Nil, Unread)
    BY <1>4, <1>7 DEF SyncValue
  <2>2. SyncOK'
    BY <1>4, <2>1, SyncMoves
  <2>3. ActiveNamed(n)' # {}
    BY <1>1, <1>7 DEF SyncNeeds, ActiveNamed, RowsNamed, Exists
  <2>4. SyncKeepsUp'
    BY <1>1, <1>2, <2>1, <2>3, ThroughWith, ActiveStays
  <2>5. QED
    BY <1>1, <1>2, <1>3, <2>2, <2>4 DEF IInv, Typed, TableStep
<1>8. QED
  BY <1>5, <1>6, <1>7 DEF Examine

\* The synchronisation has written the row of file n.
LEMMA SyncWroteKeeps ==
  ASSUME IInv, Others, sync' = SyncNext, TableStep, SeenGrows,
         sync.pc \in {"create", "save"}, NEW n \in Files, n = sync.name,
         ~disturbed => ActiveNamed(n)' # {},
         ~disturbed => \A m \in Files : ActiveNamed(m) # {} => ActiveNamed(m)' # {}
  PROVE  IInv'
<1> Typed /\ SeenCovers /\ SyncKeepsUp /\ SyncOK
  BY DEF IInv, Typed
<1>1. AdminOK' /\ ThreadsOK' /\ CompiledOK' /\ SeenCovers'
  BY AdminStays, ReadersStay DEF Typed, Others
<1>2. /\ sync' = SyncValue("find", sync.todo \ {n}, Nil, Unread)
      /\ sync.todo \ {n} \in SUBSET Files
  BY SyncParts DEF SyncNext, SyncValue
<1>3. SyncOK'
  BY <1>2, SyncMoves
<1>4. UNCHANGED disturbed /\ sync.pc # "failed" /\ "find" # "save"
  BY DEF Others
<1>5. SyncKeepsUp'
  BY <1>2, <1>4, ThroughWith
<1>6. QED
  BY <1>1, <1>3, <1>5 DEF IInv, Typed, TableStep, Others

LEMMA SyncStopsKeeps ==
  ASSUME IInv, Others, UNCHANGED <<rows, used, seen>>,
         \/ sync' = SyncFailed
         \/ /\ sync.pc = "find" /\ sync.todo = {}
            /\ sync' = [sync EXCEPT !.pc = "done"]
  PROVE  IInv'
<1> Typed /\ SeenCovers /\ SyncKeepsUp /\ SyncOK
  BY DEF IInv, Typed
<1>1. TableStep /\ SeenGrows /\ RowsStay
  BY SameTable
<1>2. AdminOK' /\ ThreadsOK' /\ CompiledOK' /\ SeenCovers'
  BY <1>1, AdminStays, ReadersStay DEF Typed, Others
<1>3. SyncOK' /\ SyncKeepsUp'
  <2>1. CASE sync' = SyncFailed
    <3> DEFINE todo == sync.todo \ {sync.name}
    <3>1. sync' = SyncValue("failed", todo, Nil, Unread) /\ todo \in SUBSET Files
      BY <2>1, SyncParts DEF SyncFailed, SyncNext, SyncValue
    <3>2. SyncOK' /\ sync'.pc = "failed"
      <4>1. "failed" # "done"
        OBVIOUS
      <4> HIDE DEF todo
      <4>2. QED BY <3>1, <4>1, SyncMoves
    <3>3. QED
      BY <3>2 DEF SyncKeepsUp
  <2>2. CASE /\ sync.pc = "find" /\ sync.todo = {}
             /\ sync' = [sync EXCEPT !.pc = "done"]
    <3>1. sync' = SyncValue("done", sync.todo, Nil, Unread)
      BY <2>2, SyncParts DEF SyncOK, SyncValue
    <3>2. SyncOK' /\ sync'.pc = "done" /\ sync'.todo = sync.todo
      <4>1. PICK todo \in SUBSET Files : todo = sync.todo /\ todo = {}
        BY <2>2
      <4>2. sync' = SyncValue("done", todo, Nil, Unread)
        BY <3>1, <4>1
      <4>3. QED
        BY <4>1, <4>2, SyncMoves
    <3>3. \A m \in Files : ActiveNamed(m) # {} => ActiveNamed(m)' # {}
      BY <1>1, ActiveStays
    <3>4. QED
      BY <2>2, <3>2, <3>3 DEF SyncKeepsUp, Others
  <2>3. QED
    BY <2>1, <2>2
<1>4. QED
  BY <1>1, <1>2, <1>3 DEF IInv, Typed, TableStep, Others

LEMMA SyncSaveKeeps ==
  ASSUME IInv, sync.pc = "save", SaveCopy(sync.copy), sync' = SyncNext, Others
  PROVE  IInv'
<1> Typed /\ SyncKeepsUp /\ TableOK /\ RowsAreUsed /\ SyncOK
  BY DEF IInv, Typed
<1>1. PICK n \in Files, copy \in [id: used, row: Row] :
         /\ n = sync.name /\ copy = sync.copy
         /\ copy.row.name = n /\ copy.row.isActive /\ copy.id \in Ids
  BY SyncParts DEF SyncOK, TableOK
<1>2. TableStep /\ SeenGrows /\ rows' = [rows EXCEPT ![copy.id] = copy.row]
  BY <1>1, SaveCopyStep
<1>3. copy.id \in ActiveNamed(n)'
  <2>1. rows'[copy.id] = copy.row /\ copy.row # Nil
    BY <1>1, <1>2, NilAssumption DEF TableOK
  <2>2. QED
    BY <1>1, <2>1 DEF ActiveNamed, RowsNamed, Exists
<1>4. ASSUME ~disturbed, NEW m \in Files, NEW i \in ActiveNamed(m)
      PROVE  ActiveNamed(m)' # {}
  <2>1. CASE i = copy.id
    <3>1. m = n
      BY <1>1, <1>4, <2>1 DEF SyncKeepsUp, ActiveNamed, RowsNamed
    <3>2. QED
      BY <1>3, <3>1
  <2>2. CASE i # copy.id
    <3>1. i \in Ids /\ rows'[i] = rows[i]
      BY <1>2, <2>2 DEF ActiveNamed, RowsNamed, TableOK
    <3>2. i \in ActiveNamed(m)'
      BY <3>1 DEF ActiveNamed, RowsNamed, Exists
    <3>3. QED
      BY <3>2
  <2>3. QED
    BY <2>1, <2>2
<1>5. QED
  BY <1>1, <1>2, <1>3, <1>4, SyncWroteKeeps

LEMMA SyncCreateKeeps ==
  ASSUME IInv, sync.pc = "create", NEW i \in Ids,
         Insert(i, sync.name, FileContent[sync.name], TRUE),
         sync' = SyncNext, Others
  PROVE  IInv'
<1> Typed /\ TableOK /\ RowsAreUsed /\ SyncOK
  BY DEF IInv, Typed
<1>1. PICK n \in Files : n = sync.name
  BY SyncParts
<1>2. n \in Names /\ FileContent[n] \in Contents
  BY NamesAssumption, ContentAssumption
<1>3. Insert(i, n, FileContent[n], TRUE)
  BY <1>1
<1>4. TableStep /\ SeenGrows /\ RowsStay /\ ActiveNamed(n)' # {}
  BY <1>2, <1>3, InsertStep
<1>5. QED
  BY <1>1, <1>4, ActiveStays, SyncWroteKeeps

LEMMA SynchroniseKeeps ==
  ASSUME IInv, Synchronise
  PROVE  IInv'
<1> Typed /\ SyncKeepsUp /\ TableOK /\ RowsAreUsed /\ SyncOK
  BY DEF IInv, Typed
<1>1. CASE \E n \in Files : SyncFind(n) \/ SyncFindPartial(n)
  BY <1>1, FindKeeps DEF SyncFind, SyncFindPartial
<1>2. CASE SyncCreate
  BY <1>2, SyncCreateKeeps, SyncStopsKeeps DEF SyncCreate
<1>3. CASE SyncSave
  BY <1>3, SyncSaveKeeps, SyncStopsKeeps DEF SyncSave
<1>4. CASE SyncDone
  BY <1>4, SyncStopsKeeps DEF SyncDone
<1>5. CASE SyncFails
  BY <1>5, SyncStopsKeeps DEF SyncFails
<1>6. QED
  BY <1>1, <1>2, <1>3, <1>4, <1>5 DEF Synchronise

-----------------------------------------------------------------------------
(* Administrators.                                                         *)

AdminSlot(slot) ==
  /\ slot \in [pc: AdminPcs, name: Names \cup {Nil}, copy: Copy]
  /\ slot.pc \in {"create", "rename"} => slot.name \in Names
  /\ slot.pc = "create file" => slot.name \in Files \cap Templates
  /\ slot.pc \in {"rename", "update"} => slot.copy \in [id: used, row: {Nil}]
  /\ slot.pc = "save file" => slot.copy \in [id: used, row: Row]

LEMMA AdminMoves ==
  ASSUME AdminOK, TableStep, NEW a \in Admins, NEW slot, AdminSlot(slot),
         admin' = [admin EXCEPT ![a] = slot]
  PROVE  AdminOK'
<1>1. AdminOK <=> /\ admin = [b \in Admins |-> admin[b]]
                  /\ \A b \in Admins : AdminSlot(admin[b])
  BY DEF AdminOK, AdminSlot
<1>2. \A b \in Admins : AdminSlot(admin'[b])
  BY <1>1 DEF AdminOK
<1>3. used \subseteq used'
  BY DEF TableStep
<1>4. admin' \in [Admins -> [pc: AdminPcs, name: Names \cup {Nil}, copy: Copy]]
  BY <1>1, <1>2 DEF AdminSlot, AdminOK
<1>5. QED
  BY <1>2, <1>3, <1>4 DEF AdminSlot, AdminOK

LEMMA AdminAnswers ==
  ASSUME AdminOK, TableStep, NEW a \in Admins, Answer(a)
  PROVE  AdminOK'
<1>1. AdminSlot(AdminRest)
  BY DEF AdminSlot, AdminRest, AdminPcs, Copy
<1>2. QED
  BY <1>1, AdminMoves DEF Answer

\* A request that reads, and goes on or ends.
LEMMA AdminReadKeeps ==
  ASSUME IInv, NEW a \in Admins, NEW slot, AdminSlot(slot),
         admin' = [admin EXCEPT ![a] = slot],
         UNCHANGED <<rows, used, seen, disturbed>>, Elsewhere
  PROVE  IInv'
<1> Typed /\ SeenCovers /\ SyncKeepsUp
  BY DEF IInv, Typed
<1>1. TableStep /\ SeenGrows /\ RowsStay
  BY SameTable
<1>2. /\ AdminOK' /\ SyncOK' /\ ThreadsOK' /\ CompiledOK' /\ SeenCovers'
      /\ SyncKeepsUp'
  BY <1>1, AdminMoves, SyncStays, ReadersStay, SyncStillKeepsUp
     DEF Typed, Elsewhere
<1>3. QED
  BY <1>1, <1>2 DEF IInv, Typed, TableStep

LEMMA WaitKeeps ==
  ASSUME IInv, NEW a \in Admins, NEW pc, NEW n, NEW copy, Wait(a, pc, n, copy),
         AdminSlot([pc |-> pc, name |-> n, copy |-> copy])
  PROVE  IInv'
BY AdminReadKeeps DEF Wait

\* A request that writes.
LEMMA AdminWriteKeeps ==
  ASSUME IInv, NEW a \in Admins, Answer(a), disturbed' = TRUE, Elsewhere,
         TableStep, SeenGrows
  PROVE  IInv'
<1> Typed /\ SeenCovers
  BY DEF IInv, Typed
<1>1. AdminOK' /\ SyncOK' /\ ThreadsOK' /\ CompiledOK' /\ SeenCovers'
  BY AdminAnswers, SyncStays, ReadersStay DEF Typed, Elsewhere
<1>2. SyncKeepsUp'
  BY DEF SyncKeepsUp
<1>3. QED
  BY <1>1, <1>2 DEF IInv, Typed, TableStep

LEMMA OnlyIsCopy ==
  ASSUME TableOK, RowsAreUsed, NEW i \in Ids, Exists(i)
  PROVE  Only(i) \in Copy /\ Only(i) \in [id: used, row: {Nil}]
BY DEF Only, Copy, RowsAreUsed, TableOK

LEMMA AdminFindsKeep ==
  ASSUME IInv, NEW a \in Admins,
         \/ \E n \in Names : CreateFind(a, n) \/ SyncOneFind(a, n)
         \/ \E i \in Ids : UpdateFind(a, i)
         \/ RenameFind(a) \/ AdminFails(a)
  PROVE  IInv'
<1> TableOK /\ RowsAreUsed /\ AdminOK
  BY DEF IInv, Typed
<1> USE DEF AdminSlot, AdminPcs
<1>1. ASSUME NEW n \in Names, CreateFind(a, n)
      PROVE  IInv'
  BY <1>1, WaitKeeps DEF CreateFind, Copy
<1>2. ASSUME NEW n \in Names, SyncOneFind(a, n)
      PROVE  IInv'
  <2>1. n \in Files \cap Templates
    BY <1>2 DEF SyncOneFind
  <2>2. CASE Wait(a, "create file", n, Unread)
    BY <2>1, <2>2, WaitKeeps DEF Copy
  <2>3. ASSUME NEW i \in RowsNamed(n),
               Wait(a, "save file", n,
                    [id |-> i, row |-> [rows[i] EXCEPT !.content = FileContent[n]]])
        PROVE  IInv'
    <3> DEFINE copy == [id |-> i, row |-> [rows[i] EXCEPT !.content = FileContent[n]]]
    <3>1. i \in Ids /\ i \in used /\ rows[i] \in Row
      BY RowIsThere DEF RowsNamed, RowsAreUsed
    <3>2. copy \in [id: used, row: Row] /\ copy \in Copy
      BY <2>1, <3>1, ContentAssumption DEF Copy, Row
    <3>3. Wait(a, "save file", n, copy)
      BY <2>3
    <3> HIDE DEF copy
    <3>4. AdminSlot([pc |-> "save file", name |-> n, copy |-> copy])
      BY <3>2
    <3>5. QED
      BY <3>3, <3>4, WaitKeeps
  <2>4. QED
    BY <1>2, <2>2, <2>3 DEF SyncOneFind
<1>3. ASSUME NEW i \in Ids, UpdateFind(a, i)
      PROVE  IInv'
  <2>1. Only(i) \in Copy /\ Only(i) \in [id: used, row: {Nil}]
    BY <1>3, OnlyIsCopy DEF UpdateFind
  <2>0. Exists(i) /\ rows[i].name \in Names
    BY <1>3, RowIsThere DEF UpdateFind, TableOK
  <2>2. ASSUME NEW n \in {Nil, rows[i].name}, Wait(a, "update", n, Only(i))
        PROVE  IInv'
    BY <2>0, <2>1, <2>2, WaitKeeps
  <2>3. ASSUME NEW n \in Names, Wait(a, "rename", n, Only(i))
        PROVE  IInv'
    BY <2>1, <2>3, WaitKeeps
  <2>4. QED
    BY <1>3, <2>2, <2>3 DEF UpdateFind
<1>4. CASE RenameFind(a)
  <2>1. AdminSlot([pc |-> "update", name |-> admin[a].name, copy |-> admin[a].copy])
    BY <1>4 DEF RenameFind, AdminOK
  <2>2. QED
    BY <1>4, <2>1, WaitKeeps DEF RenameFind
<1>5. CASE AdminFails(a)
  <2>1. AdminSlot(AdminRest)
    BY DEF AdminRest, Copy
  <2>2. QED
    BY <1>5, <2>1, AdminReadKeeps DEF AdminFails, Answer
<1>6. QED
  BY <1>1, <1>2, <1>3, <1>4, <1>5

LEMMA UpdateWriteStep ==
  ASSUME Typed, NEW a \in Admins, NEW c \in Contents, NEW active \in BOOLEAN,
         UpdateWrite(a, c, active)
  PROVE  TableStep /\ SeenGrows
<1> TableOK /\ RowsAreUsed /\ AdminOK
  BY DEF Typed
<1> DEFINE i == admin[a].copy.id
           n == IF admin[a].name = Nil THEN rows[i].name ELSE admin[a].name
           row == [name |-> n, content |-> c, isActive |-> active]
           table == [rows EXCEPT ![i] = row]
<1>1. i \in used /\ Exists(i) /\ Write(table) /\ used' = used
  BY DEF UpdateWrite, AdminOK
<1>2. n \in Names
  BY <1>1, RowIsThere DEF AdminOK, TableOK
<1>3. row \in Row
  BY <1>2 DEF Row
<1>4. table \in [Ids -> Row \cup {Nil}]
  BY <1>3 DEF TableOK
<1>5. \A j \in Ids : table[j] # Nil => j \in used
  <2> HIDE DEF row, i
  <2>1. QED BY <1>1 DEF TableOK, RowsAreUsed, Exists
<1> HIDE DEF table
<1>6. QED
  BY <1>1, <1>4, <1>5, WriteStep DEF TableOK

LEMMA DeleteKeeps ==
  ASSUME IInv, NEW i \in Ids, Delete(i)
  PROVE  IInv'
<1> Typed /\ TableOK /\ RowsAreUsed /\ AdminOK /\ SeenCovers
  BY DEF IInv, Typed
<1>1. TableStep /\ SeenGrows
  <2> DEFINE table == [rows EXCEPT ![i] = Nil]
  <2>1. Write(table) /\ used' = used
    BY DEF Delete
  <2>2. table \in [Ids -> Row \cup {Nil}]
    BY DEF TableOK
  <2>3. \A j \in Ids : table[j] # Nil => j \in used
    BY DEF TableOK, RowsAreUsed, Exists
  <2> HIDE DEF table
  <2>4. QED
    BY <2>1, <2>2, <2>3, WriteStep DEF TableOK
<1>2. AdminOK'
  BY <1>1, AdminStays DEF Delete
<1>3. SyncOK' /\ ThreadsOK' /\ CompiledOK' /\ SeenCovers'
  BY <1>1, SyncStays, ReadersStay DEF Delete, Typed, Elsewhere
<1>4. SyncKeepsUp' /\ disturbed' \in BOOLEAN
  BY DEF Delete, SyncKeepsUp
<1>5. QED
  BY <1>1, <1>2, <1>3, <1>4 DEF IInv, Typed, TableStep

LEMMA SyncOneWriteStep ==
  ASSUME Typed, NEW a \in Admins, SyncOneWrite(a)
  PROVE  TableStep /\ SeenGrows
<1> TableOK /\ RowsAreUsed /\ AdminOK
  BY DEF Typed
<1>1. ASSUME admin[a].pc = "create file", NEW i \in Ids,
             Insert(i, admin[a].name, FileContent[admin[a].name], TRUE)
      PROVE  TableStep /\ SeenGrows
  <2>1. PICK n \in Files : n = admin[a].name
    BY <1>1 DEF AdminOK
  <2>2. n \in Names /\ FileContent[n] \in Contents
    BY NamesAssumption, ContentAssumption
  <2>3. Insert(i, n, FileContent[n], TRUE)
    BY <1>1, <2>1
  <2>4. QED
    BY <2>2, <2>3, InsertStep
<1>2. ASSUME admin[a].pc = "save file", SaveCopy(admin[a].copy)
      PROVE  TableStep /\ SeenGrows
  <2>1. PICK copy \in [id: used, row: Row] : copy = admin[a].copy
    BY <1>2 DEF AdminOK
  <2>2. SaveCopy(copy)
    BY <1>2, <2>1
  <2>3. QED
    BY <2>2, SaveCopyStep
<1>3. QED
  BY <1>1, <1>2 DEF SyncOneWrite

LEMMA CreateInsertStep ==
  ASSUME Typed, NEW a \in Admins, NEW c \in Contents, NEW active \in BOOLEAN,
         CreateInsert(a, c, active)
  PROVE  TableStep /\ SeenGrows
<1> TableOK /\ RowsAreUsed /\ AdminOK
  BY DEF Typed
<1>1. PICK n \in Names : n = admin[a].name
  BY DEF CreateInsert, AdminOK
<1>2. PICK i \in Ids : Insert(i, n, c, active)
  BY <1>1 DEF CreateInsert
<1>3. QED
  BY <1>2, InsertStep

LEMMA AdministerKeeps ==
  ASSUME IInv, Administer
  PROVE  IInv'
<1> Typed
  BY DEF IInv
<1>1. CASE \E i \in Ids : Delete(i)
  BY <1>1, DeleteKeeps
<1>2. ASSUME NEW a \in Admins,
             \/ \E n \in Names : CreateFind(a, n) \/ SyncOneFind(a, n)
             \/ \E i \in Ids : UpdateFind(a, i)
             \/ \E c \in Contents, active \in BOOLEAN :
                   CreateInsert(a, c, active) \/ UpdateWrite(a, c, active)
             \/ RenameFind(a) \/ SyncOneWrite(a) \/ AdminFails(a)
      PROVE  IInv'
  <2>1. ASSUME NEW c \in Contents, NEW active \in BOOLEAN,
               CreateInsert(a, c, active)
        PROVE  IInv'
    BY <2>1, CreateInsertStep, AdminWriteKeeps DEF CreateInsert
  <2>2. ASSUME NEW c \in Contents, NEW active \in BOOLEAN,
               UpdateWrite(a, c, active)
        PROVE  IInv'
    BY <2>2, UpdateWriteStep, AdminWriteKeeps DEF UpdateWrite
  <2>3. CASE SyncOneWrite(a)
    BY <2>3, SyncOneWriteStep, AdminWriteKeeps DEF SyncOneWrite
  <2>4. QED
    BY <1>2, <2>1, <2>2, <2>3, AdminFindsKeep
<1>3. QED
  BY <1>1, <1>2 DEF Administer

-----------------------------------------------------------------------------
(* The start of a process, and the theorems.                               *)

\* What a process starts with, whatever the table holds.
LEMMA FreshProcess ==
  /\ SyncStart \in [pc: SyncPcs, todo: SUBSET Files, name: Files \cup {Nil},
                    copy: {Unread} \cup [id: Ids, row: Row]]
  /\ SyncStart.pc = "find" /\ SyncStart.todo = Files /\ SyncStart.name = Nil
  /\ SyncStart.copy = Unread
  /\ \A t \in Boots : Booting = [pc |-> "register", name |-> Nil, content |-> Nil]
BY DEF SyncStart, SyncPcs, Booting, Rest

LEMMA FreshThreads ==
  ASSUME NEW slots, slots = [t \in Threads |-> IF t \in Boots THEN Booting ELSE Rest]
  PROVE  /\ slots \in [Threads -> [pc: ThreadPcs, name: Templates \cup {Nil},
                                   content: Contents \cup {Nil}]]
         /\ \A t \in Threads : /\ slots[t].name = Nil /\ slots[t].content = Nil
                               /\ slots[t].pc # "insert"
BY DEF Booting, Rest, ThreadPcs

LEMMA RestartKeeps ==
  ASSUME IInv, Restart
  PROVE  IInv'
<1> Typed /\ TableOK /\ RowsAreUsed /\ AdminOK
  BY DEF IInv, Typed
<1>1. TableStep
  <2>1. seen' \in [Names -> SUBSET Contents]
    BY CurrentType DEF Restart, TableOK
  <2>2. \A n \in Names : Current(rows, n)' = seen'[n]
    BY DEF Restart, Current
  <2>3. QED
    BY <2>1, <2>2 DEF Restart, TableStep, TableOK, RowsAreUsed, Exists
<1>2. AdminOK'
  BY <1>1, AdminStays DEF Restart
<1>3. SyncOK' /\ sync'.todo = Files /\ sync'.pc = "find"
  BY FreshProcess DEF Restart, SyncOK
<1>4. ThreadsOK' /\ \A t \in Threads : threads'[t].name = Nil
  BY FreshThreads DEF Restart, ThreadsOK
<1>5. CompiledOK' /\ CompiledWasCurrent'
  BY DEF Restart, CompiledOK, CompiledWasCurrent
<1>6. SeenCovers' /\ SyncKeepsUp'
  BY <1>1, <1>3, <1>4, <1>5 DEF SeenCovers, TableStep, SyncKeepsUp
<1>7. Typed'
  BY <1>1, <1>2, <1>3, <1>4, <1>5 DEF Restart, Typed, TableStep
<1>8. QED
  BY <1>6, <1>7 DEF IInv

LEMMA InitInvariant == Init => IInv
<1> SUFFICES ASSUME Init PROVE IInv
  OBVIOUS
<1>1. TableOK /\ RowsAreUsed
  <2>1. rows \in [Ids -> Row \cup {Nil}]
    BY DEF Init
  <2>2. seen \in [Names -> SUBSET Contents]
    BY <2>1, CurrentType DEF Init
  <2>3. QED
    BY <2>1, <2>2 DEF Init, TableOK, RowsAreUsed, Exists
<1>2. AdminOK
  BY DEF Init, AdminOK, AdminRest, AdminPcs, Copy
<1>3. SyncOK /\ sync.todo = Files /\ sync.pc = "find"
  BY FreshProcess DEF Init, SyncOK
<1>4. ThreadsOK /\ \A t \in Threads : threads[t].name = Nil
  BY FreshThreads DEF Init, ThreadsOK
<1>5. CompiledOK /\ CompiledWasCurrent
  BY DEF Init, CompiledOK, CompiledWasCurrent
<1>6. SeenCovers /\ SyncKeepsUp
  BY <1>1, <1>3, <1>4, <1>5 DEF Init, SeenCovers, SyncKeepsUp
<1>7. QED
  BY <1>1, <1>2, <1>3, <1>4, <1>5, <1>6 DEF Init, IInv, Typed

LEMMA StepInvariant == IInv /\ [Next]_vars => IInv'
<1> SUFFICES ASSUME IInv, [Next]_vars PROVE IInv'
  OBVIOUS
<1>1. CASE UNCHANGED vars
  <2>1. Typed /\ SeenCovers /\ SyncKeepsUp
    BY DEF IInv
  <2>2. UNCHANGED <<rows, used, seen, cache, registry, threads, sync, admin, disturbed>>
    BY <1>1 DEF vars
  <2>3. TableStep /\ SeenGrows /\ RowsStay
    BY <2>1, <2>2, SameTable
  <2>4. /\ AdminOK' /\ SyncOK' /\ ThreadsOK' /\ CompiledOK' /\ SeenCovers'
        /\ SyncKeepsUp'
    BY <2>1, <2>2, <2>3, AdminStays, SyncStays, ReadersStay, SyncStillKeepsUp
       DEF Typed
  <2>5. QED
    BY <2>1, <2>2, <2>3, <2>4 DEF IInv, Typed, TableStep
<1>2. QED
  BY <1>1, RenderKeeps, SynchroniseKeeps, AdministerKeeps, RestartKeeps DEF Next

LEMMA Invariance == Spec => []IInv
<1>1. QED
  BY InitInvariant, StepInvariant, PTL DEF Spec

(* Rows, compiled templates and what the operations hold keep their types.  *)
THEOREM TypeCorrectness == Spec => []TypeOK
<1>1. IInv => TypeOK
  BY DEF IInv, Typed, TableOK, SyncOK, AdminOK, ThreadsOK, CompiledOK, TypeOK, Copy
<1>2. QED
  BY <1>1, Invariance, PTL

(* What the process renders with was, since it started, the content of an   *)
(* active row or of a file (compileTemplate, registerPartials), whoever     *)
(* edits, inserts or deletes rows between its read and its use of them.     *)
THEOREM RendersWhatWasCurrent == Spec => []CompiledWasCurrent
<1>1. IInv => CompiledWasCurrent
  BY DEF IInv, SeenCovers
<1>2. QED
  BY <1>1, Invariance, PTL

(* A synchronisation that reports success leaves an active row for every    *)
(* file, although jobs and registrations insert rows while it runs          *)
(* (syncEmailTemplates, syncPartialTemplates).                              *)
THEOREM SynchronisedIsActive == Spec => []SyncedMeansActive
<1>1. IInv => SyncedMeansActive
  BY DEF IInv, Typed, SyncOK, SyncKeepsUp, SyncedMeansActive
<1>2. QED
  BY <1>1, Invariance, PTL

LEMMA DeletedStep ==
  ASSUME IInv, Next, NEW i \in used, ~Exists(i), ~CopyHeld(i)
  PROVE  rows'[i] = Nil
<1> TableOK /\ SyncOK /\ AdminOK /\ i \in Ids /\ rows[i] = Nil
  BY DEF IInv, Typed, TableOK, Exists
<1>1. ASSUME NEW j \in Ids, NEW n, NEW c, NEW active, Insert(j, n, c, active)
      PROVE  rows'[i] = Nil
  BY <1>1 DEF Insert, Write, TableOK
<1>2. CASE UNCHANGED rows
  BY <1>2
<1>3. CASE Render
  <2>1. ASSUME NEW t \in Threads, CreateDefaults(t), rows' # rows
        PROVE  rows'[i] = Nil
    <3>1. PICK id \in [DefaultPartials -> Ids \ used] :
             Write([j \in Ids |->
                IF \E p \in DefaultPartials : id[p] = j
                THEN [name |-> CHOOSE p \in DefaultPartials : id[p] = j,
                      content |-> DefaultContent, isActive |-> TRUE]
                ELSE rows[j]])
      BY <2>1 DEF CreateDefaults
    <3>2. ~\E p \in DefaultPartials : id[p] = i
      OBVIOUS
    <3>3. QED
      BY <3>1, <3>2 DEF Write
  <2>2. QED
    BY <1>1, <1>2, <1>3, <2>1 DEF Render, Lookup, InsertFromFile, Register,
                                  Refetch, StatementFails
<1>4. CASE Synchronise
  <2>1. ASSUME SyncSave, SaveCopy(sync.copy)
        PROVE  rows'[i] = Nil
    BY <2>1 DEF SaveCopy, Write, CopyHeld, TableOK
  <2>2. QED
    BY <1>1, <1>4, <2>1 DEF Synchronise, SyncFind, SyncFindPartial, Examine,
                            SyncCreate, SyncSave, SyncDone, SyncFails
<1>5. CASE Administer
  <2>1. ASSUME NEW a \in Admins, NEW c \in Contents, NEW active \in BOOLEAN,
               UpdateWrite(a, c, active)
        PROVE  rows'[i] = Nil
    BY <2>1 DEF UpdateWrite, Write, TableOK, Exists
  <2>2. ASSUME NEW j \in Ids, Delete(j)
        PROVE  rows'[i] = Nil
    BY <2>2 DEF Delete, Write, TableOK, Exists
  <2>3. ASSUME NEW a \in Admins, SyncOneWrite(a)
        PROVE  rows'[i] = Nil
    BY <1>1, <2>3 DEF SyncOneWrite, SaveCopy, Write, CopyHeld, TableOK
  <2>4. QED
    BY <1>1, <1>2, <1>5, <2>1, <2>2, <2>3
       DEF Administer, CreateFind, SyncOneFind, UpdateFind, CreateInsert,
           RenameFind, AdminFails, Wait
<1>6. CASE Restart
  BY <1>6 DEF Restart
<1>7. QED
  BY <1>3, <1>4, <1>5, <1>6 DEF Next

(* Only save() of a copy that some synchronisation read before can insert a *)
(* deleted row again: every other statement needs the row, or a new id.     *)
THEOREM DeletedStays == Spec => DeletedStaysDeleted
<1>1. IInv /\ [Next]_vars =>
        [\A i \in used : ~Exists(i) /\ ~CopyHeld(i) => rows'[i] = Nil]_vars
  BY DeletedStep
<1>2. QED
  BY <1>1, Invariance, PTL DEF Spec, DeletedStaysDeleted

=============================================================================
