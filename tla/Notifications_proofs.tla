------------------------- MODULE Notifications_proofs -------------------------
(***************************************************************************)
(* Proofs about Notifications for any number of users, sockets, days,      *)
(* notifications and faults: its types, that everyone is told, that nobody *)
(* is told of an end that is not his, and that sockets miss nothing.       *)
(***************************************************************************)
EXTENDS Notifications, TLAPS

\* What the senders and the request know at each step.
Prepared ==
    /\ job.pc = "emit" => job.note \in Used /\ note[job.note].user = job.user
    /\ job.pc # "emit" => job.note = None
    /\ hook.pc = "create" => hook.user \in Users
    /\ hook.pc = "emit" => hook.note \in Used /\ note[hook.note].user = hook.user
    /\ hook.pc # "emit" => hook.note = None
    /\ mark.pc = "write" => mark.user \in Users
    /\ ~ran => job = NoJob

\* The users on the list are announced what is true, or were when it was read.
Announced ==
    \A u \in job.list : end[u] = clock + Days(job.kind) \/ u \in job.moved

ToldSo(u, k) == \E n \in NotesOf(u) : note[n].kind = k /\ note[n].at = clock

\* The job has yet to reach the list of kind k, or the user on it.
Pending(u, k) ==
    \/ k = "week" /\ job.pc # "idle" /\ job.kind = "day"
    \/ k = job.kind /\ u \in job.list

\* Once the job was called, who is due was told, will be, or an error came between.
Served ==
    ran => \A u \in steady, k \in {"day", "week"} :
               end[u] = clock + Days(k) => k \in cut \/ ToldSo(u, k) \/ Pending(u, k)

IInv == TypeOK /\ Prepared /\ Announced /\ Served /\ ConnectedMissNothing

-----------------------------------------------------------------------------
(* Notes *)

LEMMA Bounds ==
    /\ Ids \subseteq Nat /\ None \notin Ids /\ None \notin Users
    /\ Dates \subseteq Nat /\ None \notin Dates
    /\ NoJob \in Jobs /\ NoHook \in Hooks /\ NoMark \in Marks
    /\ NewSocket \in Sockets /\ Stale \in Sockets
<1>1. /\ Ids \subseteq Nat /\ None \notin Ids /\ None \notin Users
      /\ Dates \subseteq Nat /\ None \notin Dates
  BY NotificationsAssumption DEF Ids, Dates
<1>2. NoJob \in Jobs /\ NoHook \in Hooks /\ NoMark \in Marks
  BY DEF NoJob, Jobs, NoHook, Hooks, NoMark, Marks
<1>3. NewSocket \in Sockets
  BY DEF NewSocket, Sockets
<1>4. Stale \in Sockets
  BY <1>3 DEF Stale, Sockets
<1> QED
  BY <1>1, <1>2, <1>3, <1>4

\* A new row leaves the others alone.
LEMMA RowIs ==
    ASSUME TypeOK, NEW n \in Ids, NEW u \in Users, NEW kind \in Kinds, Row(n, u, kind)
    PROVE  /\ note' \in [Ids -> NoteRows \cup {None}]
           /\ n \notin Used /\ note'[n] # None
           /\ note'[n].user = u /\ note'[n].kind = kind /\ note'[n].at = clock
           /\ \A m \in Ids : m # n => note'[m] = note[m]
           /\ Used' = Used \cup {n}
           /\ \A v \in Users : NotesOf(v)' = IF v = u THEN NotesOf(v) \cup {n} ELSE NotesOf(v)
<1> DEFINE row == [user |-> u, kind |-> kind, at |-> clock, read |-> FALSE]
<1>1. row \in NoteRows
  BY DEF TypeOK, NoteRows
<1>2. note' = [note EXCEPT ![n] = row] /\ n \notin Used
  BY DEF Row
<1>3. row # None
  BY <1>1, NoneAssumption
<1> HIDE DEF row
<1>4. /\ note' \in [Ids -> NoteRows \cup {None}]
      /\ note'[n] = row
      /\ \A m \in Ids : m # n => note'[m] = note[m]
  BY <1>1, <1>2 DEF TypeOK
<1>5. Used' = Used \cup {n}
  BY <1>3, <1>4 DEF Used
<1>6. row.user = u /\ row.kind = kind /\ row.at = clock
  BY DEF row
<1>7. ASSUME NEW v \in Users
      PROVE  NotesOf(v)' = IF v = u THEN NotesOf(v) \cup {n} ELSE NotesOf(v)
  BY <1>2, <1>4, <1>5, <1>6 DEF NotesOf, Used
<1> QED
  BY <1>2, <1>3, <1>4, <1>5, <1>6, <1>7

\* An insert that fails adds no row, or one that is counted as unheard.
LEMMA FailsIs ==
    ASSUME TypeOK, NEW u \in Users, NEW kind \in Kinds, RowFails(u, kind)
    PROVE  /\ note' \in [Ids -> NoteRows \cup {None}]
           /\ unheard \subseteq unheard' /\ unheard' \subseteq Ids
           /\ Used' \subseteq Used \cup unheard'
           /\ \A m \in Used : m \in Used' /\ note'[m] = note[m]
<1>1. CASE UNCHANGED <<note, unheard>>
  BY <1>1 DEF TypeOK, Used
<1>2. ASSUME NEW n \in Ids, Row(n, u, kind), unheard' = unheard \cup {n}
      PROVE  /\ note' \in [Ids -> NoteRows \cup {None}]
             /\ unheard \subseteq unheard' /\ unheard' \subseteq Ids
             /\ Used' \subseteq Used \cup unheard'
             /\ \A m \in Used : m \in Used' /\ note'[m] = note[m]
  <2>1. /\ note' \in [Ids -> NoteRows \cup {None}]
        /\ n \notin Used /\ Used' = Used \cup {n}
        /\ \A m \in Ids : m # n => note'[m] = note[m]
    BY <1>2, RowIs
  <2>2. unheard' \subseteq Ids
    BY <1>2 DEF TypeOK
  <2> QED
    BY <1>2, <2>1, <2>2 DEF Used
<1> QED
  BY <1>1, <1>2 DEF RowFails

\* Marking as read changes nothing else.
LEMMA MarkIs ==
    ASSUME TypeOK, Prepared, MarkWrite
    PROVE  /\ note' \in [Ids -> NoteRows \cup {None}]
           /\ Used' = Used
           /\ \A m \in Used : /\ note'[m].user = note[m].user
                              /\ note'[m].kind = note[m].kind
                              /\ note'[m].at = note[m].at
           /\ \A v \in Users : NotesOf(v)' = NotesOf(v)
<1>1. \A m \in Ids : note'[m] = note[m] \/
          (m \in Used /\ note'[m] = [note[m] EXCEPT !.read = TRUE])
  BY DEF MarkWrite, NotesOf, TypeOK
<1>2. \A m \in Used : note[m] \in NoteRows
  BY DEF TypeOK, Used
<1>3. \A m \in Used : [note[m] EXCEPT !.read = TRUE] \in NoteRows
  BY <1>2 DEF NoteRows
<1>4. note' = [m \in Ids |-> note'[m]]
  BY DEF MarkWrite, TypeOK
<1>5. note' \in [Ids -> NoteRows \cup {None}]
  BY <1>1, <1>3, <1>4 DEF TypeOK
<1>6. Used' = Used
  BY <1>1, <1>3, NoneAssumption DEF Used
<1>7. \A m \in Used : /\ note'[m].user = note[m].user
                      /\ note'[m].kind = note[m].kind
                      /\ note'[m].at = note[m].at
  <2>1. \A m \in Used : LET row == [note[m] EXCEPT !.read = TRUE] IN
          row.user = note[m].user /\ row.kind = note[m].kind /\ row.at = note[m].at
    BY <1>2 DEF NoteRows
  <2> QED
    BY <1>1, <2>1 DEF Used
<1> QED
  BY <1>5, <1>6, <1>7 DEF NotesOf, Used

\* A push changes what the sockets of the user got, and nothing else.
LEMMA PushIs ==
    ASSUME TypeOK, NEW u \in Users, NEW n \in Ids, Push(u, n)
    PROVE  /\ client' \in [Clients -> Sockets]
           /\ \A c \in Clients : /\ client'[c].pc = client[c].pc
                                 /\ client'[c].user = client[c].user
                                 /\ client'[c].known = client[c].known
                                 /\ client[c].got \subseteq client'[c].got
                                 /\ client[c].pc = "on" /\ client[c].user = u =>
                                      n \in client'[c].got
<1>1. \A c \in Clients : client[c] \in Sockets
  BY DEF TypeOK
<1>2. \A c \in Clients : [client[c] EXCEPT !.got = @ \cup {n}] \in Sockets
  BY <1>1 DEF Sockets
<1>3. client' \in [Clients -> Sockets]
  BY <1>1, <1>2 DEF Push
<1>4. \A c \in Clients : client'[c] = IF c \in Room(u)
                                      THEN [client[c] EXCEPT !.got = @ \cup {n}] ELSE client[c]
  BY DEF Push
<1> QED
  BY <1>1, <1>3, <1>4 DEF Room, Sockets

-----------------------------------------------------------------------------
(* Helpers *)

\* The job after a list was read.
LEMMA ListedIs ==
    ASSUME TypeOK, NEW kind \in {"day", "week"}, Listed(kind)
    PROVE  /\ job' \in Jobs
           /\ job'.pc = "send" /\ job'.kind = kind /\ job'.note = None
           /\ job'.list = {u \in Users : end[u] = clock + Days(kind)}
<1>1. ExpiringOn(clock + Days(kind)) \in SUBSET Users
  BY DEF ExpiringOn
<1>2. NoJob.note = None
  BY DEF NoJob
<1> QED
  BY <1>1, <1>2, Bounds DEF Listed, Jobs, ExpiringOn

LEMMA FaultIs ==
    ASSUME TypeOK, NEW f, Fault(f) \/ NoFault
    PROVE  happened' \subseteq Faults
  BY NotificationsAssumption DEF Fault, NoFault, TypeOK

LEMMA NoJobIs == NoJob.pc = "idle" /\ NoJob.list = {} /\ NoJob.note = None /\ NoJob.kind = "day"
  BY DEF NoJob

LEMMA NoHookIs == NoHook.pc = "idle" /\ NoHook.note = None
  BY DEF NoHook

LEMMA NoMarkIs == NoMark.pc = "idle"
  BY DEF NoMark

LEMMA SocketsAre ==
    /\ NewSocket.pc = "new" /\ Stale.pc = "stale"
<1>1. NewSocket.pc = "new"
  BY DEF NewSocket
<1>2. Stale.pc = "stale"
  BY Bounds DEF Stale, Sockets
<1> QED
  BY <1>1, <1>2

-----------------------------------------------------------------------------
(* Types *)

LEMMA JobTyped ==
    ASSUME TypeOK, Prepared, Job
    PROVE  TypeOK'
<1>1. CASE JobStart
  <2>1. job' \in Jobs /\ cut' \subseteq {"day", "week"}
    BY <1>1, ListedIs, Bounds DEF JobStart, CutShort, TypeOK
  <2>2. happened' \subseteq Faults
    BY <1>1, FaultIs DEF JobStart
  <2> QED
    BY <1>1, <2>1, <2>2 DEF JobStart, TypeOK, accounts, sockets
<1>2. CASE JobWeek
  <2>1. job' \in Jobs /\ cut' \subseteq {"day", "week"}
    BY <1>2, ListedIs, Bounds DEF JobWeek, CutShort, TypeOK
  <2>2. happened' \subseteq Faults
    BY <1>2, FaultIs DEF JobWeek
  <2> QED
    BY <1>2, <2>1, <2>2 DEF JobWeek, TypeOK, accounts, sockets, time
<1>3. CASE JobEnd
  BY <1>3, Bounds DEF JobEnd, TypeOK, accounts, sockets, time, history
<1>4. ASSUME NEW u \in Users, JobCreate(u)
      PROVE  TypeOK'
  <2>1. happened' \subseteq Faults
    BY <1>4, FaultIs DEF JobCreate
  <2>2. ASSUME CutShort({job.kind, "week"}), RowFails(u, job.kind)
        PROVE  TypeOK'
    <3>1. cut' \subseteq {"day", "week"}
      BY <2>2 DEF CutShort, TypeOK, Jobs
    <3>2. note' \in [Ids -> NoteRows \cup {None}] /\ unheard' \subseteq Ids
      BY <2>2, FailsIs DEF TypeOK, Jobs, Kinds
    <3> QED
      BY <1>4, <2>1, <2>2, <3>1, <3>2, Bounds DEF CutShort, JobCreate, TypeOK, accounts, sockets, time
  <2>3. ASSUME NEW n \in Ids, Row(n, u, job.kind), NoFault, UNCHANGED <<cut, unheard>>,
               job' = [job EXCEPT !.pc = "emit", !.user = u, !.note = n, !.list = @ \ {u}]
        PROVE  TypeOK'
    <3>1. note' \in [Ids -> NoteRows \cup {None}]
      BY <2>3, RowIs DEF TypeOK, Jobs, Kinds
    <3>2. job' \in Jobs
      BY <2>3 DEF TypeOK, Jobs
    <3> QED
      BY <1>4, <2>1, <2>3, <3>1, <3>2 DEF JobCreate, TypeOK, accounts, sockets, time
  <2> QED
    BY <1>4, <2>2, <2>3 DEF JobCreate
<1>5. CASE JobEmit
  <2>1. job.user \in Users /\ job.note \in Ids
    BY <1>5 DEF JobEmit, Prepared, Used, TypeOK, NoteRows
  <2>2. job' \in Jobs
    BY <1>5 DEF JobEmit, TypeOK, Jobs
  <2>3. /\ client' \in [Clients -> Sockets]
        /\ \A c \in Clients : client'[c].pc = client[c].pc
    BY <1>5, <2>1, PushIs DEF JobEmit
  <2> QED
    BY <1>5, <2>2, <2>3 DEF JobEmit, TypeOK, accounts, time, history
<1> QED
  BY <1>1, <1>2, <1>3, <1>4, <1>5 DEF Job

LEMMA HookTyped ==
    ASSUME TypeOK, Prepared, Hook
    PROVE  TypeOK'
<1>1. ASSUME NEW u \in Users, NEW d \in Dates, Pay(u, d)
      PROVE  TypeOK'
  <2>1. end' \in [Users -> Dates \cup {None}]
    BY <1>1 DEF Pay, TypeOK
  <2>2. job' \in Jobs
    BY <1>1 DEF Pay, TypeOK, Jobs
  <2>3. hook' \in Hooks
    BY <1>1, Bounds DEF Pay, Hooks
  <2>4. moves' \in 0 .. MaxMoves
    BY <1>1, NotificationsAssumption DEF Pay, TypeOK
  <2> QED
    BY <1>1, <2>1, <2>2, <2>3, <2>4 DEF Pay, TypeOK, sockets, time
<1>2. CASE HookCreate
  <2>1. happened' \subseteq Faults
    BY <1>2, FaultIs DEF HookCreate
  <2>2. hook.user \in Users
    BY <1>2 DEF HookCreate, Prepared
  <2>3. note' \in [Ids -> NoteRows \cup {None}] /\ unheard' \subseteq Ids
    BY <1>2, <2>2, RowIs, FailsIs DEF HookCreate, Kinds, TypeOK
  <2>4. hook' \in Hooks
    BY <1>2, Bounds DEF HookCreate, TypeOK, Hooks
  <2> QED
    BY <1>2, <2>1, <2>3, <2>4 DEF HookCreate, TypeOK, accounts, sockets, time
<1>3. CASE HookEmit
  <2>1. hook.user \in Users /\ hook.note \in Ids
    BY <1>3 DEF HookEmit, Prepared, Used, TypeOK, NoteRows
  <2>2. /\ client' \in [Clients -> Sockets]
        /\ \A c \in Clients : client'[c].pc = client[c].pc
    BY <1>3, <2>1, PushIs DEF HookEmit
  <2> QED
    BY <1>3, <2>2, Bounds DEF HookEmit, TypeOK, accounts, time, history
<1> QED
  BY <1>1, <1>2, <1>3 DEF Hook

LEMMA MarkTyped ==
    ASSUME TypeOK, Prepared, Mark
    PROVE  TypeOK'
<1>1. ASSUME NEW u \in Users, NEW ids \in SUBSET Ids, MarkFind(u, ids)
      PROVE  TypeOK'
  <2>1. mark' \in Marks
    BY <1>1 DEF MarkFind, Marks
  <2>2. moves' \in 0 .. MaxMoves
    BY <1>1, NotificationsAssumption DEF MarkFind, TypeOK
  <2> QED
    BY <1>1, <2>1, <2>2 DEF MarkFind, TypeOK, senders, sockets, time, history
<1>2. CASE MarkWrite
  <2>1. happened' \subseteq Faults
    BY <1>2, FaultIs DEF MarkWrite
  <2>2. note' \in [Ids -> NoteRows \cup {None}]
    BY <1>2, MarkIs
  <2> QED
    BY <1>2, <2>1, <2>2, Bounds DEF MarkWrite, TypeOK, accounts, senders, sockets, time, history
<1> QED
  BY <1>1, <1>2 DEF Mark

LEMMA SocketTyped ==
    ASSUME TypeOK, NEW c \in Clients, Socket(c)
    PROVE  TypeOK'
<1>1. client[c] \in Sockets
  BY DEF TypeOK
<1>2. ASSUME NEW u \in Users, Connect(c, u)
      PROVE  TypeOK'
  <2>1. [client[c] EXCEPT !.pc = "asking", !.user = u] \in Sockets
    BY <1>1 DEF Sockets
  <2>2. client'[c].pc = "asking" /\ (\A b \in Clients \ {c} : client'[b] = client[b])
    BY <1>1, <1>2 DEF Connect, TypeOK, Sockets
  <2>3. client' \in [Clients -> Sockets]
    BY <1>2, <1>1 DEF Connect, TypeOK, Sockets
  <2>4. clients' = {b \in Clients : client'[b].pc \in {"on", "stale"}}
    BY <1>2, <2>2 DEF Connect, TypeOK
  <2> QED
    BY <1>2, <2>3, <2>4 DEF Connect, TypeOK, accounts, senders, time, history
<1>3. CASE Connected(c)
  <2>1. happened' \subseteq Faults
    BY <1>3, FaultIs DEF Connected
  <2>2. [client[c] EXCEPT !.pc = "on", !.known = Used] \in Sockets
    BY <1>1 DEF Sockets, Used
  <2>3. [client[c] EXCEPT !.pc = "on", !.known = Used].pc = "on"
    BY <1>1 DEF Sockets
  <2> DEFINE on == [client[c] EXCEPT !.pc = "on", !.known = Used]
  <2> HIDE DEF on
  <2>4. /\ client'[c] \in {on, Stale, NewSocket}
        /\ client' = [client EXCEPT ![c] = client'[c]]
        /\ clients' = IF client'[c] = NewSocket THEN clients ELSE clients \cup {c}
    <3>1. on # NewSocket /\ Stale # NewSocket
      BY <2>3, SocketsAre DEF on
    <3> QED
      BY <1>3, <3>1 DEF Connected, TypeOK, on
  <2>5. on \in Sockets /\ on.pc = "on"
    BY <2>2, <2>3 DEF on
  <2>6. client' \in [Clients -> Sockets] /\ \A b \in Clients \ {c} : client'[b] = client[b]
    BY <2>4, <2>5, Bounds DEF TypeOK
  <2>7. c \notin clients
    BY <1>3 DEF Connected, TypeOK
  <2>8. clients' = {b \in Clients : client'[b].pc \in {"on", "stale"}}
    <3>1. CASE client'[c] = NewSocket
      BY <3>1, <2>4, <2>6, <2>7, SocketsAre DEF TypeOK
    <3>2. CASE client'[c] # NewSocket
      BY <3>2, <2>4, <2>5, <2>6, SocketsAre DEF TypeOK
    <3> QED
      BY <3>1, <3>2
  <2> QED
    BY <1>3, <2>1, <2>6, <2>8 DEF Connected, TypeOK, accounts, senders, time, history
<1>4. CASE Disconnect(c)
  <2>1. [client[c] EXCEPT !.late = TRUE] \in Sockets
    BY <1>1 DEF Sockets
  <2>2. [client[c] EXCEPT !.late = TRUE].pc = client[c].pc
    BY <1>1 DEF Sockets
  <2>3. /\ client'[c] = IF client[c].pc = "on" THEN NewSocket ELSE [client[c] EXCEPT !.late = TRUE]
        /\ client' = [client EXCEPT ![c] = client'[c]]
    BY <1>4 DEF Disconnect, TypeOK
  <2>4. client' \in [Clients -> Sockets] /\ \A b \in Clients \ {c} : client'[b] = client[b]
    <3>1. client'[c] \in Sockets
      BY <2>1, <2>3, Bounds
    <3> QED
      BY <2>3, <3>1 DEF TypeOK
  <2>5. client'[c].pc \in {"new", "asking"}
    BY <1>4, <2>2, <2>3, SocketsAre DEF Disconnect
  <2>6. clients' = {b \in Clients : client'[b].pc \in {"on", "stale"}}
    BY <1>4, <2>4, <2>5 DEF Disconnect, Unlisted, TypeOK
  <2> QED
    BY <1>4, <2>4, <2>6 DEF Disconnect, TypeOK, accounts, senders, time, history
<1> QED
  BY <1>2, <1>3, <1>4 DEF Socket

LEMMA TypeStep ==
    TypeOK /\ Prepared /\ [Next]_vars => TypeOK'
<1> SUFFICES ASSUME TypeOK, Prepared, [Next]_vars
             PROVE  TypeOK'
  OBVIOUS
<1>1. CASE Crash
  <2>1. happened' \subseteq Faults /\ cut' \subseteq {"day", "week"}
    BY <1>1, FaultIs DEF Crash, TypeOK, Jobs
  <2>2. \A c \in Clients : client'[c] = NewSocket
    BY <1>1 DEF Crash
  <2>3. clients' = {c \in Clients : client'[c].pc \in {"on", "stale"}}
    BY <1>1, <2>2, SocketsAre DEF Crash
  <2>4. client' \in [Clients -> Sockets]
    BY <1>1, Bounds DEF Crash
  <2> QED
    BY <1>1, <2>1, <2>3, <2>4, Bounds DEF Crash, TypeOK, accounts, time
<1>2. CASE Tick
  <2>1. happened' \subseteq Faults
    BY <1>2, FaultIs DEF Tick
  <2>2. clock' \in 0 .. MaxClock
    BY <1>2, NotificationsAssumption DEF Tick, TypeOK
  <2> QED
    BY <1>2, <2>1, <2>2 DEF Tick, TypeOK, accounts, senders, sockets
<1>3. CASE UNCHANGED vars
  BY <1>3 DEF vars, accounts, senders, history, sockets, time, TypeOK
<1> QED
  BY <1>1, <1>2, <1>3, JobTyped, HookTyped, MarkTyped, SocketTyped DEF Next

-----------------------------------------------------------------------------
(* Each part, step by step *)

LEMMA InitIInv == Init => IInv
<1> SUFFICES ASSUME Init PROVE IInv
  OBVIOUS
<1>1. TypeOK
  <2>1. NewSocket.pc = "new"
    BY DEF NewSocket
  <2>2. \A c \in Clients : client[c] = NewSocket
    BY DEF Init
  <2>3. clients = {c \in Clients : client[c].pc \in {"on", "stale"}}
    BY <2>1, <2>2 DEF Init
  <2>4. clock \in 0 .. MaxClock /\ moves \in 0 .. MaxMoves
    BY NotificationsAssumption DEF Init
  <2>5. note \in [Ids -> NoteRows \cup {None}] /\ client \in [Clients -> Sockets]
    BY Bounds DEF Init
  <2> QED
    BY <2>3, <2>4, <2>5, Bounds DEF Init, TypeOK
<1>2. Prepared /\ Announced /\ Served
  BY DEF Init, Prepared, Announced, Served, NoJob, NoHook, NoMark
<1>3. ConnectedMissNothing
  BY DEF Init, ConnectedMissNothing, NewSocket
<1> QED
  BY <1>1, <1>2, <1>3 DEF IInv

\* No step takes a row away or changes whose it is, of what kind and of which day.
LEMMA RowsStay ==
    ASSUME TypeOK, Prepared, [Next]_vars
    PROVE  \A m \in Used : /\ m \in Used'
                           /\ note'[m].user = note[m].user
                           /\ note'[m].kind = note[m].kind
                           /\ note'[m].at = note[m].at
<1> DEFINE Goal == \A m \in Used : /\ m \in Used'
                                   /\ note'[m].user = note[m].user
                                   /\ note'[m].kind = note[m].kind
                                   /\ note'[m].at = note[m].at
<1>1. ASSUME UNCHANGED note PROVE Goal
  BY <1>1 DEF Used
<1>2. ASSUME NEW n \in Ids, NEW u \in Users, NEW kind \in Kinds, Row(n, u, kind)
      PROVE  Goal
  BY <1>2, RowIs DEF Used
<1>3. CASE MarkWrite
  BY <1>3, MarkIs
<1>f. ASSUME NEW u \in Users, NEW kind \in Kinds, RowFails(u, kind)
      PROVE  Goal
  BY <1>f, FailsIs
<1>4. ASSUME NEW u \in Users, JobCreate(u) PROVE Goal
  <2>1. job.kind \in Kinds
    BY DEF TypeOK, Jobs, Kinds
  <2> QED
    BY <1>f, <1>2, <1>4, <2>1 DEF JobCreate
<1>5. CASE HookCreate
  <2>1. hook.user \in Users /\ "paid" \in Kinds
    BY <1>5 DEF HookCreate, Prepared, Kinds
  <2> QED
    BY <1>f, <1>2, <1>5, <2>1 DEF HookCreate
<1>6. CASE JobStart \/ JobWeek \/ JobEnd \/ JobEmit \/ HookEmit \/ Crash \/ Tick \/ UNCHANGED vars
  <2>1. UNCHANGED note
    BY <1>6 DEF JobStart, JobWeek, JobEnd, JobEmit, HookEmit, Crash, Tick, vars
  <2> QED
    BY <2>1, <1>1
<1>7. ASSUME NEW c \in Clients, Socket(c) PROVE Goal
  BY <1>1, <1>7 DEF Socket, Connect, Connected, Disconnect
<1>8. ASSUME NEW u \in Users, NEW d \in Dates, Pay(u, d) PROVE Goal
  BY <1>1, <1>8 DEF Pay
<1>9. ASSUME NEW u \in Users, NEW ids \in SUBSET Ids, MarkFind(u, ids) PROVE Goal
  BY <1>1, <1>9 DEF MarkFind
<1>10. CASE Job \/ Hook \/ Mark
  BY <1>3, <1>4, <1>5, <1>6, <1>8, <1>9, <1>10 DEF Job, Hook, Mark
<1> QED
  BY <1>6, <1>7, <1>10 DEF Next

LEMMA PreparedStep ==
    ASSUME TypeOK, Prepared, [Next]_vars
    PROVE  Prepared'
<1> USE RowsStay
<1>1. CASE JobStart
  <2>1. job' = NoJob \/ Listed("day")
    BY <1>1 DEF JobStart, CutShort
  <2>2. job'.pc # "emit" /\ job'.note = None /\ ran'
    BY <1>1, <2>1, NoJobIs, ListedIs DEF JobStart
  <2> QED
    BY <1>1, <2>2 DEF JobStart, Prepared, Used
<1>2. CASE JobWeek
  <2>1. job' = NoJob \/ Listed("week")
    BY <1>2 DEF JobWeek, CutShort
  <2>2. job'.pc # "emit" /\ job'.note = None
    BY <1>2, <2>1, NoJobIs, ListedIs DEF JobWeek
  <2>3. ran'
    BY <1>2, NoJobIs DEF JobWeek, Prepared, time, TypeOK
  <2> QED
    BY <1>2, <2>2, <2>3 DEF JobWeek, Prepared, Used
<1>3. CASE JobEnd
  BY <1>3, NoJobIs DEF JobEnd, Prepared, Used, time
<1>4. ASSUME NEW u \in Users, JobCreate(u)
      PROVE  Prepared'
  <2>1. ran'
    BY <1>4, NoJobIs DEF JobCreate, Prepared, time, TypeOK
  <2>2. CASE CutShort({job.kind, "week"})
    BY <1>4, <2>1, <2>2, NoJobIs DEF CutShort, JobCreate, Prepared, Used
  <2>3. ASSUME NEW n \in Ids, Row(n, u, job.kind),
               job' = [job EXCEPT !.pc = "emit", !.user = u, !.note = n, !.list = @ \ {u}]
        PROVE  Prepared'
    <3>1. n \in Used' /\ note'[n].user = u
      BY <2>3, RowIs DEF TypeOK, Jobs, Kinds
    <3>2. job'.pc = "emit" /\ job'.note = n /\ job'.user = u
      BY <2>3 DEF TypeOK, Jobs
    <3> QED
      BY <1>4, <2>1, <3>1, <3>2 DEF JobCreate, Prepared
  <2> QED
    BY <1>4, <2>2, <2>3 DEF JobCreate
<1>5. CASE JobEmit
  <2>1. job'.pc # "emit" /\ job'.note = None
    BY <1>5 DEF JobEmit, TypeOK, Jobs
  <2>2. ran'
    BY <1>5, NoJobIs DEF JobEmit, Prepared, time, TypeOK
  <2> QED
    BY <1>5, <2>1, <2>2 DEF JobEmit, Prepared, Used
<1>6. ASSUME NEW u \in Users, NEW d \in Dates, Pay(u, d)
      PROVE  Prepared'
  <2>1. /\ job'.pc = job.pc /\ job'.note = job.note /\ job'.user = job.user
        /\ job = NoJob => job' = NoJob
    BY <1>6, NoJobIs DEF Pay, TypeOK, Jobs, NoJob
  <2>2. hook'.pc = "create" /\ hook'.user = u /\ hook'.note = None
    BY <1>6 DEF Pay, NoHook
  <2> QED
    BY <1>6, <2>1, <2>2 DEF Pay, Prepared, Used, time
<1>7. CASE HookCreate
  <2>1. CASE hook' = NoHook
    BY <1>7, <2>1, NoHookIs DEF HookCreate, Prepared, time
  <2>2. ASSUME NEW n \in Ids, Row(n, hook.user, "paid"),
               hook' = [hook EXCEPT !.pc = "emit", !.note = n]
        PROVE  Prepared'
    <3>1. n \in Used' /\ note'[n].user = hook.user
      BY <1>7, <2>2, RowIs DEF HookCreate, Prepared, Kinds
    <3>2. hook'.pc = "emit" /\ hook'.note = n /\ hook'.user = hook.user
      BY <2>2 DEF TypeOK, Hooks
    <3> QED
      BY <1>7, <3>1, <3>2 DEF HookCreate, Prepared, time
  <2> QED
    BY <1>7, <2>1, <2>2 DEF HookCreate
<1>8. CASE HookEmit
  BY <1>8, NoHookIs DEF HookEmit, Prepared, time
<1>9. CASE Mark
  <2>1. ASSUME NEW u \in Users, NEW ids \in SUBSET Ids, MarkFind(u, ids)
        PROVE  Prepared'
    BY <2>1 DEF MarkFind, Prepared, senders, time
  <2>2. CASE MarkWrite
    BY <2>2, NoMarkIs DEF MarkWrite, Prepared, senders, time
  <2> QED
    BY <1>9, <2>1, <2>2 DEF Mark
<1>10. ASSUME NEW c \in Clients, Socket(c)
       PROVE  Prepared'
  BY <1>10 DEF Socket, Connect, Connected, Disconnect, Prepared, senders, time
<1>11. CASE Crash
  BY <1>11, NoJobIs, NoHookIs, NoMarkIs DEF Crash, Prepared
<1>12. CASE Tick
  BY <1>12 DEF Tick, Prepared, senders
<1>13. CASE UNCHANGED vars
  BY <1>13 DEF vars, senders, time, Prepared
<1> QED
  BY <1>1, <1>2, <1>3, <1>4, <1>5, <1>6, <1>7, <1>8, <1>9, <1>10, <1>11, <1>12, <1>13
  DEF Next, Job, Hook

LEMMA AnnouncedStep ==
    ASSUME TypeOK, Prepared, Announced, [Next]_vars
    PROVE  Announced'
<1>1. CASE JobStart \/ JobWeek \/ JobEnd
  <2>1. \/ job' = NoJob
        \/ \E k \in {"day", "week"} : Listed(k)
    BY <1>1 DEF JobStart, JobWeek, JobEnd, CutShort
  <2>2. CASE job' = NoJob
    BY <2>2, NoJobIs DEF Announced
  <2>3. ASSUME NEW k \in {"day", "week"}, Listed(k)
        PROVE  Announced'
    <3>1. UNCHANGED <<end, clock>>
      BY <1>1 DEF JobStart, JobWeek, JobEnd, accounts, time
    <3> QED
      BY <2>3, <3>1, ListedIs DEF Announced, Days
  <2> QED
    BY <2>1, <2>2, <2>3
<1>2. ASSUME NEW u \in Users, JobCreate(u)
      PROVE  Announced'
  <2>1. UNCHANGED <<end, clock>>
    BY <1>2 DEF JobCreate, accounts, time
  <2>2. CASE job' = NoJob
    BY <2>2, NoJobIs DEF Announced
  <2>3. ASSUME NEW n \in Ids,
               job' = [job EXCEPT !.pc = "emit", !.user = u, !.note = n, !.list = @ \ {u}]
        PROVE  Announced'
    <3>1. job'.kind = job.kind /\ job'.moved = job.moved /\ job'.list \subseteq job.list
      BY <2>3 DEF TypeOK, Jobs
    <3> QED
      BY <2>1, <3>1 DEF Announced, Days
  <2> QED
    BY <1>2, <2>2, <2>3 DEF JobCreate, CutShort
<1>3. CASE JobEmit
  <2>1. job'.kind = job.kind /\ job'.moved = job.moved /\ job'.list = job.list
    BY <1>3 DEF JobEmit, TypeOK, Jobs
  <2> QED
    BY <1>3, <2>1 DEF JobEmit, Announced, Days, accounts, time
<1>4. ASSUME NEW u \in Users, NEW d \in Dates, Pay(u, d)
      PROVE  Announced'
  <2>1. /\ job'.kind = job.kind /\ job'.list = job.list
        /\ job'.moved = job.moved \cup (IF job = NoJob THEN {} ELSE {u})
    BY <1>4 DEF Pay, TypeOK, Jobs
  <2>2. \A v \in Users : v # u => end'[v] = end[v]
    BY <1>4 DEF Pay, TypeOK
  <2>3. clock' = clock /\ job.list \subseteq Users
    BY <1>4 DEF Pay, time, TypeOK, Jobs
  <2> QED
    BY <2>1, <2>2, <2>3, NoJobIs DEF Announced, Days
<1>5. CASE Crash
  BY <1>5, NoJobIs DEF Crash, Announced
<1>6. CASE Tick
  BY <1>6, NoJobIs DEF Tick, Announced, senders
<1>7. CASE HookCreate \/ HookEmit \/ Mark
  BY <1>7 DEF HookCreate, HookEmit, Mark, MarkFind, MarkWrite, Announced, Days, accounts, senders, time
<1>8. ASSUME NEW c \in Clients, Socket(c)
      PROVE  Announced'
  BY <1>8 DEF Socket, Connect, Connected, Disconnect, Announced, Days, accounts, senders, time
<1>9. CASE UNCHANGED vars
  BY <1>9 DEF vars, accounts, senders, time, Announced, Days
<1>10. CASE Job \/ Hook
  BY <1>1, <1>2, <1>3, <1>4, <1>7, <1>10 DEF Job, Hook
<1> QED
  BY <1>5, <1>6, <1>7, <1>8, <1>9, <1>10 DEF Next

\* Who was told stays told for the day.
LEMMA ToldStays ==
    ASSUME TypeOK, Prepared, [Next]_vars, clock' = clock, NEW u \in Users, NEW k, ToldSo(u, k)
    PROVE  ToldSo(u, k)'
  BY RowsStay DEF ToldSo, NotesOf

\* A step that keeps the day and whom it is due, adds only to what was cut, and
\* drops nothing the job had yet to do without it being done or cut.
LEMMA ServedFrame ==
    ASSUME TypeOK, Prepared, Served, [Next]_vars, ran, clock' = clock,
           steady' \subseteq steady, \A u \in steady' : end'[u] = end[u], cut \subseteq cut',
           \A u \in steady, k \in {"day", "week"} :
               Pending(u, k) => k \in cut' \/ ToldSo(u, k)' \/ Pending(u, k)'
    PROVE  Served'
<1> SUFFICES ASSUME NEW u \in steady', NEW k \in {"day", "week"}, end'[u] = clock' + Days(k)
             PROVE  k \in cut' \/ ToldSo(u, k)' \/ Pending(u, k)'
  BY DEF Served, Days
<1>1. u \in steady /\ u \in Users /\ end[u] = clock + Days(k)
  BY DEF TypeOK
<1>2. k \in cut \/ ToldSo(u, k) \/ Pending(u, k)
  BY <1>1 DEF Served
<1> QED
  BY <1>1, <1>2, ToldStays

LEMMA ServedStep ==
    ASSUME TypeOK, Prepared, Served, [Next]_vars
    PROVE  Served'
<1>1. CASE JobStart
  <2>1. UNCHANGED <<end, clock, steady>>
    BY <1>1 DEF JobStart, accounts
  <2>2. CASE cut' = cut \cup {"day", "week"}
    BY <2>2 DEF Served
  <2>3. CASE Listed("day")
    <3>1. /\ job'.pc = "send" /\ job'.kind = "day"
          /\ job'.list = {u \in Users : end[u] = clock + Days("day")}
      BY <2>3, ListedIs
    <3> QED
      BY <2>1, <3>1 DEF Served, Pending, Days, TypeOK
  <2> QED
    BY <1>1, <2>2, <2>3 DEF JobStart, CutShort
<1>2. CASE JobWeek
  <2>1. UNCHANGED <<end, clock, steady, ran>> /\ ran
    BY <1>2, NoJobIs DEF JobWeek, accounts, time, Prepared, TypeOK
  <2>2. \A u \in steady : ~Pending(u, "day")
    BY <1>2 DEF JobWeek, Pending
  <2>3. cut \subseteq cut'
    BY <1>2 DEF JobWeek, CutShort
  <2>4. CASE "week" \in cut'
    BY <2>1, <2>2, <2>3, <2>4, ServedFrame
  <2>5. CASE Listed("week")
    <3>1. /\ job'.pc = "send" /\ job'.kind = "week"
          /\ job'.list = {u \in Users : end[u] = clock + Days("week")}
      BY <2>5, ListedIs
    <3> SUFFICES ASSUME NEW u \in steady', NEW k \in {"day", "week"}, end'[u] = clock' + Days(k)
                 PROVE  k \in cut' \/ ToldSo(u, k)' \/ Pending(u, k)'
      BY DEF Served, Days
    <3>2. u \in steady /\ u \in Users /\ end[u] = clock + Days(k)
      BY <2>1 DEF TypeOK
    <3>3. CASE k = "week"
      BY <3>1, <3>2, <3>3 DEF Pending
    <3>4. CASE k = "day"
      <4>1. k \in cut \/ ToldSo(u, k)
        BY <2>1, <2>2, <3>2, <3>4 DEF Served
      <4> QED
        BY <2>1, <2>3, <3>2, <4>1, ToldStays
    <3> QED
      BY <3>3, <3>4
  <2> QED
    BY <1>2, <2>4, <2>5 DEF JobWeek, CutShort
<1>3. CASE JobEnd
  <2>1. UNCHANGED <<end, clock, steady, cut>>
    BY <1>3 DEF JobEnd, accounts, time, history
  <2>2. \A u \in steady, k \in {"day", "week"} : ~Pending(u, k)
    BY <1>3 DEF JobEnd, Pending
  <2>3. ran
    BY <1>3, NoJobIs DEF JobEnd, Prepared, TypeOK
  <2> QED
    BY <2>1, <2>2, <2>3, ServedFrame
<1>4. ASSUME NEW u \in Users, JobCreate(u)
      PROVE  Served'
  <2>1. UNCHANGED <<end, clock, steady>> /\ ran
    BY <1>4, NoJobIs DEF JobCreate, accounts, time, Prepared, TypeOK
  <2>2. CASE CutShort({job.kind, "week"})
    BY <2>1, <2>2, ServedFrame DEF CutShort, Pending
  <2>3. ASSUME NEW n \in Ids, Row(n, u, job.kind), UNCHANGED cut,
               job' = [job EXCEPT !.pc = "emit", !.user = u, !.note = n, !.list = @ \ {u}]
        PROVE  Served'
    <3>1. job'.kind = job.kind /\ job'.pc = "emit" /\ job'.list = job.list \ {u}
      BY <2>3 DEF TypeOK, Jobs
    <3>2. ToldSo(u, job.kind)'
      <4>1. job.kind \in Kinds
        BY DEF TypeOK, Jobs, Kinds
      <4>2. n \in NotesOf(u)' /\ note'[n].kind = job.kind /\ note'[n].at = clock
        BY <2>3, <4>1, RowIs
      <4> QED
        BY <2>1, <3>1, <4>2 DEF ToldSo
    <3>3. ASSUME NEW v \in steady, NEW k \in {"day", "week"}, Pending(v, k)
          PROVE  ToldSo(v, k)' \/ Pending(v, k)'
      <4>1. CASE v = u /\ k = job.kind
        BY <3>2, <4>1, <3>1 DEF ToldSo, NotesOf, Used
      <4>2. CASE ~(v = u /\ k = job.kind)
        BY <3>1, <3>3, <4>2 DEF Pending
      <4> QED
        BY <4>1, <4>2
    <3> QED
      BY <2>1, <2>3, <3>3, ServedFrame
  <2> QED
    BY <1>4, <2>2, <2>3 DEF JobCreate
<1>5. CASE JobEmit
  <2>1. job'.kind = job.kind /\ job'.pc # "idle" /\ job'.list = job.list
    BY <1>5 DEF JobEmit, TypeOK, Jobs
  <2>2. \A v \in steady, k \in {"day", "week"} : Pending(v, k) => Pending(v, k)'
    BY <2>1 DEF Pending
  <2>3. UNCHANGED <<end, clock, steady, cut>> /\ ran
    BY <1>5, NoJobIs DEF JobEmit, accounts, time, history, Prepared, TypeOK
  <2> QED
    BY <2>2, <2>3, ServedFrame
<1>6. ASSUME NEW u \in Users, NEW d \in Dates, Pay(u, d)
      PROVE  Served'
  <2>1. job'.kind = job.kind /\ job'.pc = job.pc /\ job'.list = job.list
    BY <1>6 DEF Pay, TypeOK, Jobs
  <2>2. \A v \in steady, k \in {"day", "week"} : Pending(v, k) => Pending(v, k)'
    BY <2>1 DEF Pending
  <2>3. UNCHANGED <<clock, cut, ran>> /\ steady' = steady \ {u}
    BY <1>6 DEF Pay, time
  <2>4. \A v \in steady' : end'[v] = end[v]
    BY <1>6 DEF Pay, TypeOK
  <2>5. CASE ran
    BY <2>2, <2>3, <2>4, <2>5, ServedFrame
  <2> QED
    BY <2>3, <2>5 DEF Served, TypeOK
<1>7. CASE Crash
  <2>1. UNCHANGED <<end, clock, steady, ran>> /\ job' = NoJob /\ cut \subseteq cut'
    BY <1>7 DEF Crash, accounts, time
  <2>2. \A v \in steady, k \in {"day", "week"} : Pending(v, k) => k \in cut'
    BY <1>7, NoJobIs DEF Crash, Pending
  <2>3. CASE ran
    BY <2>1, <2>2, <2>3, ServedFrame
  <2> QED
    BY <2>1, <2>3 DEF Served, TypeOK
<1>8. CASE Tick
  BY <1>8 DEF Tick, Served
<1>9. ASSUME UNCHANGED <<end, clock, ran, steady, cut, job>>
      PROVE  Served'
  <2>1. \A v \in steady, k \in {"day", "week"} : Pending(v, k) => Pending(v, k)'
    BY <1>9 DEF Pending
  <2>2. CASE ran
    BY <1>9, <2>1, <2>2, ServedFrame
  <2> QED
    BY <1>9, <2>2 DEF Served, TypeOK
<1>10. CASE HookCreate \/ HookEmit \/ Mark
  <2>1. UNCHANGED <<end, clock, ran, steady, cut, job>>
    BY <1>10 DEF HookCreate, HookEmit, Mark, MarkFind, MarkWrite, accounts, senders, time, history
  <2> QED
    BY <2>1, <1>9
<1>11. ASSUME NEW c \in Clients, Socket(c)
       PROVE  Served'
  <2>1. UNCHANGED <<end, clock, ran, steady, cut, job>>
    BY <1>11 DEF Socket, Connect, Connected, Disconnect, accounts, senders, time, history
  <2> QED
    BY <2>1, <1>9
<1>12. CASE UNCHANGED vars
  BY <1>12, <1>9 DEF vars, accounts, senders, time, history
<1>13. CASE Job \/ Hook
  BY <1>1, <1>2, <1>3, <1>4, <1>5, <1>6, <1>10, <1>13 DEF Job, Hook
<1> QED
  BY <1>7, <1>8, <1>10, <1>11, <1>12, <1>13 DEF Next

\* Sockets miss nothing in a step that keeps them, the rows' users and what is on its way.
LEMMA MissFrame ==
    ASSUME TypeOK, ConnectedMissNothing, client' = client,
           unheard \subseteq unheard',
           \A n \in Used' : \/ n \in Used /\ note'[n].user = note[n].user
                          \/ n \in {job.note, hook.note}' \cup unheard',
           {job.note, hook.note} \cap Ids \subseteq {job.note, hook.note}'
    PROVE  ConnectedMissNothing'
<1> SUFFICES ASSUME NEW c \in Clients, NEW n \in Ids, client'[c].pc = "on",
                    n \in NotesOf(client[c].user)' \ (client'[c].known \cup unheard')
             PROVE  n \in client'[c].got \cup {job.note, hook.note}'
  BY DEF ConnectedMissNothing, NotesOf
<1>1. n \in Used' /\ note'[n].user = client[c].user
  BY DEF NotesOf
<1>2. CASE n \in Used /\ note'[n].user = note[n].user
  <2>1. n \in NotesOf(client[c].user) \ (client[c].known \cup unheard)
    BY <1>1, <1>2 DEF NotesOf
  <2> QED
    BY <2>1 DEF ConnectedMissNothing
<1> QED
  BY <1>1, <1>2

\* Once pushed, what was on its way need not be any more.
LEMMA MissPush ==
    ASSUME TypeOK, ConnectedMissNothing, UNCHANGED <<note, unheard>>, NEW u \in Users, NEW n \in Ids,
           note[n].user = u, Push(u, n), {job.note, hook.note} \cap Ids \subseteq {n} \cup {job.note, hook.note}'
    PROVE  ConnectedMissNothing'
<1> SUFFICES ASSUME NEW c \in Clients, NEW m \in Ids, client'[c].pc = "on",
                    m \in NotesOf(client[c].user)' \ (client'[c].known \cup unheard')
             PROVE  m \in client'[c].got \cup {job.note, hook.note}'
  BY DEF ConnectedMissNothing, NotesOf
<1>1. /\ client[c].pc = "on" /\ client'[c].user = client[c].user
      /\ client'[c].known = client[c].known /\ client[c].got \subseteq client'[c].got
      /\ client[c].user = u => n \in client'[c].got
  BY PushIs
<1>2. m \in NotesOf(client[c].user) \ (client[c].known \cup unheard)
  BY <1>1 DEF NotesOf, Used
<1>3. m \in client[c].got \cup {job.note, hook.note}
  BY <1>1, <1>2 DEF ConnectedMissNothing
<1>4. m = n => client[c].user = u
  BY <1>2 DEF NotesOf
<1> QED
  BY <1>1, <1>3, <1>4

LEMMA MissNothingStep ==
    ASSUME TypeOK, Prepared, ConnectedMissNothing, [Next]_vars
    PROVE  ConnectedMissNothing'
<1>1. CASE JobStart \/ JobWeek \/ JobEnd
  <2>1. \/ job' = NoJob
        \/ \E k \in {"day", "week"} : Listed(k)
    BY <1>1 DEF JobStart, JobWeek, JobEnd, CutShort
  <2>2. job.note = None
    BY <1>1, NoJobIs DEF JobStart, JobWeek, JobEnd, Prepared
  <2>3. UNCHANGED <<note, unheard, client, hook>>
    BY <1>1 DEF JobStart, JobWeek, JobEnd, sockets, history
  <2> QED
    BY <2>2, <2>3, Bounds, MissFrame DEF Used
<1>2. ASSUME NEW u \in Users, JobCreate(u)
      PROVE  ConnectedMissNothing'
  <2>1. UNCHANGED <<client, hook>> /\ job.note = None
    BY <1>2 DEF JobCreate, Prepared, sockets
  <2>2. CASE RowFails(u, job.kind)
    <3>1. job.kind \in Kinds
      BY DEF TypeOK, Jobs, Kinds
    <3>2. /\ unheard \subseteq unheard' /\ Used' \subseteq Used \cup unheard'
          /\ \A m \in Used : note'[m] = note[m]
      BY <2>2, <3>1, FailsIs
    <3> QED
      BY <2>1, <3>2, Bounds, MissFrame
  <2>3. ASSUME NEW n \in Ids, Row(n, u, job.kind), UNCHANGED unheard,
               job' = [job EXCEPT !.pc = "emit", !.user = u, !.note = n, !.list = @ \ {u}]
        PROVE  ConnectedMissNothing'
    <3>1. job'.note = n
      BY <2>3 DEF TypeOK, Jobs
    <3>2. job.kind \in Kinds
      BY DEF TypeOK, Jobs, Kinds
    <3>3. Used' = Used \cup {n} /\ n \notin Used /\ \A m \in Ids : m # n => note'[m] = note[m]
      BY <2>3, <3>2, RowIs
    <3>4. \A m \in Used' : (m \in Used /\ note'[m].user = note[m].user) \/ m = n
      BY <3>3 DEF Used
    <3> QED
      BY <2>1, <2>3, <3>1, <3>4, Bounds, MissFrame
  <2> QED
    BY <1>2, <2>2, <2>3 DEF JobCreate
<1>3. CASE JobEmit
  <2>1. /\ job.note \in Used /\ note[job.note].user = job.user
    BY <1>3 DEF JobEmit, Prepared
  <2>2. job.note \in Ids /\ job.user \in Users
    BY <2>1 DEF Used, TypeOK, NoteRows
  <2> QED
    BY <1>3, <2>1, <2>2, MissPush DEF JobEmit, history
<1>4. ASSUME NEW u \in Users, NEW d \in Dates, Pay(u, d)
      PROVE  ConnectedMissNothing'
  <2>1. job'.note = job.note
    BY <1>4 DEF Pay, TypeOK, Jobs
  <2>2. hook.note = None /\ UNCHANGED <<note, unheard, client>>
    BY <1>4, NoHookIs DEF Pay, sockets
  <2> QED
    BY <2>1, <2>2, Bounds, MissFrame DEF Used
<1>5. CASE HookCreate
  <2>1. UNCHANGED <<client, job>> /\ hook.note = None /\ hook.user \in Users
    BY <1>5 DEF HookCreate, Prepared, sockets
  <2>2. CASE RowFails(hook.user, "paid")
    <3>1. /\ unheard \subseteq unheard' /\ Used' \subseteq Used \cup unheard'
          /\ \A m \in Used : note'[m] = note[m]
      BY <2>1, <2>2, FailsIs DEF Kinds
    <3> QED
      BY <2>1, <3>1, Bounds, MissFrame
  <2>3. ASSUME NEW n \in Ids, Row(n, hook.user, "paid"), UNCHANGED unheard,
               hook' = [hook EXCEPT !.pc = "emit", !.note = n]
        PROVE  ConnectedMissNothing'
    <3>1. hook'.note = n
      BY <2>3 DEF TypeOK, Hooks
    <3>2. Used' = Used \cup {n} /\ \A m \in Ids : m # n => note'[m] = note[m]
      BY <2>1, <2>3, RowIs DEF Kinds
    <3>3. \A m \in Used' : (m \in Used /\ note'[m].user = note[m].user) \/ m = n
      BY <3>2 DEF Used
    <3> QED
      BY <2>1, <2>3, <3>1, <3>3, Bounds, MissFrame
  <2> QED
    BY <1>5, <2>2, <2>3 DEF HookCreate
<1>6. CASE HookEmit
  <2>1. hook.note \in Used /\ note[hook.note].user = hook.user
    BY <1>6 DEF HookEmit, Prepared
  <2>2. hook.note \in Ids /\ hook.user \in Users
    BY <2>1 DEF Used, TypeOK, NoteRows
  <2> QED
    BY <1>6, <2>1, <2>2, MissPush DEF HookEmit, history
<1>7. CASE Mark
  <2>1. UNCHANGED <<client, job, hook, unheard>>
    BY <1>7 DEF Mark, MarkFind, MarkWrite, senders, sockets, history
  <2>2. \A n \in Used' : n \in Used /\ note'[n].user = note[n].user
    <3>1. CASE MarkWrite
      BY <3>1, MarkIs
    <3>2. CASE UNCHANGED note
      BY <3>2 DEF Used
    <3> QED
      BY <1>7, <3>1, <3>2 DEF Mark, MarkFind
  <2> QED
    BY <2>1, <2>2, MissFrame
<1>8. ASSUME NEW c \in Clients, Socket(c)
      PROVE  ConnectedMissNothing'
  <2>1. UNCHANGED <<note, unheard, job, hook>>
    BY <1>8 DEF Socket, Connect, Connected, Disconnect, senders, history
  <2>2. client[c] \in Sockets /\ \A b \in Clients \ {c} : client'[b] = client[b]
    BY <1>8 DEF Socket, Connect, Connected, Disconnect, TypeOK
  <2>3. client'[c].pc = "on" => client'[c].known = Used
    <3>1. ASSUME NEW u \in Users, Connect(c, u)
          PROVE  client'[c].pc = "asking"
      BY <3>1, <2>2 DEF Connect, TypeOK, Sockets
    <3>2. CASE Connected(c)
      <4>1. [client[c] EXCEPT !.pc = "on", !.known = Used].known = Used
        BY <2>2 DEF Sockets
      <4>2. client'[c] \in {Stale, NewSocket, [client[c] EXCEPT !.pc = "on", !.known = Used]}
        BY <3>2 DEF Connected, TypeOK
      <4> QED
        BY <4>1, <4>2, SocketsAre
    <3>3. CASE Disconnect(c)
      <4>1. [client[c] EXCEPT !.late = TRUE].pc = client[c].pc
        BY <2>2 DEF Sockets
      <4>2. client'[c] = IF client[c].pc = "on" THEN NewSocket ELSE [client[c] EXCEPT !.late = TRUE]
        BY <3>3 DEF Disconnect, TypeOK
      <4> QED
        BY <4>1, <4>2, SocketsAre
    <3> QED
      BY <1>8, <3>1, <3>2, <3>3 DEF Socket
  <2> SUFFICES ASSUME NEW b \in Clients, NEW n \in Ids, client'[b].pc = "on",
                      n \in NotesOf(client[b].user)' \ (client'[b].known \cup unheard')
               PROVE  n \in client'[b].got \cup {job.note, hook.note}'
    BY DEF ConnectedMissNothing, NotesOf
  <2>4. n \in NotesOf(client'[b].user)
    BY <2>1 DEF NotesOf, Used
  <2>5. b # c
    BY <2>3, <2>4 DEF NotesOf
  <2> QED
    BY <2>1, <2>2, <2>4, <2>5 DEF ConnectedMissNothing
<1>9. CASE Crash
  <2>1. \A c \in Clients : client'[c].pc = "new"
    BY <1>9, SocketsAre DEF Crash
  <2> QED
    BY <2>1 DEF ConnectedMissNothing
<1>10. CASE Tick \/ UNCHANGED vars
  <2>1. UNCHANGED <<note, unheard, client, job, hook>>
    BY <1>10 DEF Tick, vars, senders, sockets, history
  <2> QED
    BY <2>1, MissFrame DEF Used
<1>11. CASE Job \/ Hook
  BY <1>1, <1>2, <1>3, <1>4, <1>5, <1>6, <1>11 DEF Job, Hook
<1> QED
  BY <1>7, <1>8, <1>9, <1>10, <1>11 DEF Next

LEMMA NextIInv == IInv /\ [Next]_vars => IInv'
  BY TypeStep, PreparedStep, AnnouncedStep, ServedStep, MissNothingStep DEF IInv

-----------------------------------------------------------------------------
(* Steps *)

LEMMA NoticeStep ==
    ASSUME IInv, [Next]_vars, NEW n \in Ids, note[n] = None, note'[n] # None,
           note'[n].kind \in {"day", "week"}
    PROVE  end[note'[n].user] = clock + Days(note'[n].kind) \/ note'[n].user \in job.moved
<1> USE DEF IInv
<1>1. n \in Used' \ Used
  BY DEF Used
<1>2. ASSUME NEW u \in Users, NEW kind \in Kinds, Row(n, u, kind)
      PROVE  note'[n].user = u /\ note'[n].kind = kind
  BY <1>2, RowIs
<1>3. ASSUME NEW u \in Users, JobCreate(u)
      PROVE  end[note'[n].user] = clock + Days(note'[n].kind) \/ note'[n].user \in job.moved
  <2>1. job.kind \in Kinds /\ u \in job.list
    BY <1>3 DEF JobCreate, TypeOK, Jobs, Kinds
  <2>2. ~UNCHANGED note
    BY <1>1 DEF Used
  <2>3. PICK m \in Ids : Row(m, u, job.kind)
    BY <1>3, <2>2 DEF JobCreate, RowFails
  <2>4. m = n
    BY <2>1, <2>3, <1>1, RowIs
  <2>5. note'[n].user = u /\ note'[n].kind = job.kind
    BY <1>2, <2>1, <2>3, <2>4
  <2> QED
    BY <2>1, <2>5 DEF Announced
<1>4. ~HookCreate
  <2> SUFFICES ASSUME HookCreate PROVE FALSE
    OBVIOUS
  <2>1. hook.user \in Users /\ "paid" \in Kinds
    BY DEF HookCreate, Prepared, Kinds
  <2>2. ~UNCHANGED note
    BY <1>1 DEF Used
  <2>3. PICK m \in Ids : Row(m, hook.user, "paid")
    BY <2>2 DEF HookCreate, RowFails
  <2>4. m = n
    BY <2>1, <2>3, <1>1, RowIs
  <2> QED
    BY <1>2, <2>1, <2>3, <2>4
<1>5. ~Mark
  BY <1>1, MarkIs DEF Mark, MarkFind, Used
<1>6. ~(HookEmit \/ Crash \/ Tick \/ UNCHANGED vars)
  BY DEF HookEmit, Crash, Tick, vars
<1>7. ~(JobStart \/ JobWeek \/ JobEnd \/ JobEmit)
  BY DEF JobStart, JobWeek, JobEnd, JobEmit
<1>8. \A u \in Users, d \in Dates : ~Pay(u, d)
  BY DEF Pay
<1>9. \A c \in Clients : ~Socket(c)
  BY DEF Socket, Connect, Connected, Disconnect
<1> QED
  BY <1>3, <1>4, <1>5, <1>6, <1>7, <1>8, <1>9 DEF Next, Job, Hook

LEMMA TellStep ==
    ASSUME IInv, [Next]_vars, clock' # clock, ran,
           NEW u \in steady, NEW k \in {"day", "week"}, end[u] = clock + Days(k)
    PROVE  k \in cut \/ ToldSo(u, k)
<1>1. Tick
  BY DEF Next, Job, Hook, Mark, Socket, JobStart, JobWeek, JobEnd, JobCreate, JobEmit, Pay,
         HookCreate, HookEmit, MarkFind, MarkWrite, Connect, Connected, Disconnect, Crash,
         vars, time
<1>2. ~Pending(u, k)
  BY <1>1, NoJobIs DEF Tick, Pending
<1> QED
  BY <1>2 DEF IInv, Served

-----------------------------------------------------------------------------
(* Theorems *)

THEOREM Invariant == Spec => []IInv
  BY InitIInv, NextIInv, PTL DEF Spec

\* Users, rows, the job, the hook and the sockets keep their types, and the Map
\* of SocketGatewayService holds the sockets that joined and were not seen to close.
THEOREM TypeCorrect == Spec => []TypeOK
<1>1. IInv => TypeOK
  BY DEF IInv
<1> QED
  BY <1>1, Invariant, PTL

\* A socket that is on has got, or is about to get, every notification of its
\* user that came after it joined, in whatever order the job, payments and
\* sockets move.
THEOREM SocketsMissNothing == Spec => []ConnectedMissNothing
<1>1. IInv => ConnectedMissNothing
  BY DEF IInv
<1> QED
  BY <1>1, Invariant, PTL

\* The job tells nobody of an end that is not his, unless he paid since the job
\* read its list.
THEOREM NoticesAreTrue == Spec => NoticeIsTrue
<1>1. IInv /\ [Next]_vars =>
        [\A n \in Ids : note[n] = None /\ note'[n] # None /\ note'[n].kind \in {"day", "week"} =>
            \/ end[note'[n].user] = clock + Days(note'[n].kind)
            \/ note'[n].user \in job.moved]_vars
  BY NoticeStep
<1> QED
  BY <1>1, Invariant, PTL DEF Spec, NoticeIsTrue

\* When a day ends on which the job was called, whoever was due was told, unless
\* he paid that day or an error cut the job short.
THEOREM EveryoneHears == Spec => EveryoneIsTold
<1>1. IInv /\ [Next]_vars =>
        [clock' # clock /\ ran =>
            \A u \in steady, k \in {"day", "week"} :
                end[u] = clock + Days(k) =>
                    \/ k \in cut
                    \/ \E n \in NotesOf(u) : note[n].kind = k /\ note[n].at = clock]_vars
  BY TellStep DEF ToldSo
<1> QED
  BY <1>1, Invariant, PTL DEF Spec, EveryoneIsTold

=============================================================================
