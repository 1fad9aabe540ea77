---------------------------- MODULE Notifications ----------------------------
(***************************************************************************)
(* Notifications of the gateway: the rows, the daily job that announces    *)
(* the end of subscriptions, the message after a payment, marking as read, *)
(* and the socket clients that get new rows pushed (NotificationsService,  *)
(* SendNotificationsService, SocketGatewayService).  A handler runs until  *)
(* its next await on the database, one action per stretch.                 *)
(***************************************************************************)
EXTENDS Naturals, FiniteSets

CONSTANTS
    Users,
    Clients,    \* sockets; one that is closed connects again as a new one
    Week,       \* days the earlier announcement comes before the end
    MaxClock,   \* last day
    MaxNotes,   \* notifications that are ever created
    MaxMoves,   \* payments and requests to mark as read
    FaultKinds, \* faults that happen, each once ...
    MaxFaults,  \* ... and how many
    None        \* null, or nobody

Faults == {"db", "crash", "down"}

ASSUME NotificationsAssumption ==
    /\ Week \in Nat \ {0, 1}
    /\ MaxClock \in Nat /\ MaxNotes \in Nat /\ MaxMoves \in Nat /\ MaxFaults \in Nat
    /\ FaultKinds \subseteq Faults
    /\ None \notin Users \cup Nat

VARIABLES
    end,      \* endDateOfSubscription of each
    note,     \* notification rows
    job,      \* the daily job
    hook,     \* a payment on its way
    mark,     \* a request to mark notifications as read
    client,   \* the sockets
    clients,  \* those in the Map of the service
    clock,    \* today
    ran,      \* the job was called today
    moves,    \* payments and requests so far
    happened, \* faults that happened
    steady,   \* history: users whose end date is the one of this morning
    cut,      \* history: kinds of which an error cut today's job short
    unheard   \* history: rows that were stored though their insert failed

accounts == <<end, moves>>
senders  == <<job, hook>>
history  == <<steady, cut, unheard>>
sockets  == <<client, clients>>
time     == <<clock, ran>>
vars     == <<accounts, note, senders, history, mark, sockets, time, happened>>

-----------------------------------------------------------------------------
(* Values *)

Ids   == 1 .. MaxNotes
Dates == 0 .. MaxClock + Week
Kinds == {"day", "week", "paid"}

NoteRows == [user : Users, kind : Kinds, at : 0 .. MaxClock, read : BOOLEAN]

ASSUME NoneAssumption == None \notin NoteRows

\* moved: users that changed since the list was read.
Jobs == [pc : {"idle", "send", "emit"}, kind : {"day", "week"}, list : SUBSET Users,
         user : Users \cup {None}, note : Ids \cup {None}, moved : SUBSET Users]

NoJob == [pc |-> "idle", kind |-> "day", list |-> {}, user |-> None, note |-> None,
          moved |-> {}]

Hooks == [pc : {"idle", "create", "emit"}, user : Users \cup {None}, note : Ids \cup {None}]

NoHook == [pc |-> "idle", user |-> None, note |-> None]

Marks == [pc : {"idle", "write"}, user : Users \cup {None}, ids : SUBSET Ids]

NoMark == [pc |-> "idle", user |-> None, ids |-> {}]

\* known: the notifications there were when it joined; late: it disconnected
\* while its user was looked up.
Sockets == [pc : {"new", "asking", "on", "stale"}, user : Users \cup {None},
            got : SUBSET Ids, known : SUBSET Ids, late : BOOLEAN]

NewSocket == [pc |-> "new", user |-> None, got |-> {}, known |-> {}, late |-> FALSE]

\* One that is still in the Map although it closed.
Stale == [NewSocket EXCEPT !.pc = "stale"]

Used    == {n \in Ids : note[n] # None}
Days(k) == IF k = "day" THEN 1 ELSE Week

Fault(f) ==
    /\ f \in FaultKinds \ happened
    /\ Cardinality(happened) < MaxFaults
    /\ happened' = happened \cup {f}

NoFault == UNCHANGED happened

Init ==
    /\ end \in [Users -> Dates \cup {None}]
    /\ note = [n \in Ids |-> None]
    /\ job = NoJob
    /\ hook = NoHook
    /\ mark = NoMark
    /\ client = [c \in Clients |-> NewSocket]
    /\ clients = {}
    /\ clock = 0
    /\ ran = FALSE
    /\ moves = 0
    /\ happened = {}
    /\ steady = Users
    /\ cut = {}
    /\ unheard = {}

-----------------------------------------------------------------------------
(* createNotification: the row, and then the push to the user's sockets *)

\* The row of the next notification.  (A user is never deleted that has one: the
\* administrator's removal only sets a flag nobody here looks at.)
Row(n, u, kind) ==
    /\ n \notin Used /\ 1 .. n - 1 \subseteq Used
    /\ note' = [note EXCEPT ![n] = [user |-> u, kind |-> kind, at |-> clock, read |-> FALSE]]

\* The insert fails, with the row stored and only the answer lost or without one.
RowFails(u, kind) ==
    \/ UNCHANGED <<note, unheard>>
    \/ \E n \in Ids : Row(n, u, kind) /\ unheard' = unheard \cup {n}

\* Mutant: a socket is sent to once.
RoomOnce(u) == {c \in Clients : client[c].pc = "on" /\ client[c].user = u /\ client[c].got = {}}

\* The sockets that joined the room of the user.
Room(u) == {c \in Clients : client[c].pc = "on" /\ client[c].user = u}

\* sendNotificationToUser.
Push(u, n) ==
    client' = [c \in Clients |-> IF c \in Room(u) THEN [client[c] EXCEPT !.got = @ \cup {n}]
                                                  ELSE client[c]]

-----------------------------------------------------------------------------
(* The daily job *)

\* Mutant: only the end of the day is compared.
ExpiringBy(d) == {u \in Users : end[u] # None /\ end[u] <= d}

\* getSubscriptionsExpiringOn.
ExpiringOn(d) == {u \in Users : end[u] = d}

\* Mutant: a list without users ends the job.
ListedOrDone(kind) ==
    LET list == ExpiringOn(clock + Days(kind)) IN
    job' = IF list = {} THEN NoJob ELSE [NoJob EXCEPT !.pc = "send", !.kind = kind, !.list = list]

Listed(kind) ==
    job' = [NoJob EXCEPT !.pc = "send", !.kind = kind, !.list = ExpiringOn(clock + Days(kind))]

\* An error ends the job, whoever else is on the lists: the repository returns
\* the promise unawaited, so that its catch does not apply.
CutShort(kinds) ==
    /\ job' = NoJob
    /\ cut' = cut \cup kinds

\* Seven o'clock: who expires tomorrow is read.
JobStart ==
    /\ ~ran
    /\ ran' = TRUE
    /\ \/ Listed("day") /\ NoFault /\ UNCHANGED cut
       \/ Fault("db") /\ CutShort({"day", "week"})
    /\ UNCHANGED <<accounts, note, hook, steady, unheard, mark, sockets, clock>>

\* Nobody of tomorrow is left: who expires in a week is read.
JobWeek ==
    /\ job.pc = "send" /\ job.list = {} /\ job.kind = "day"
    /\ \/ Listed("week") /\ NoFault /\ UNCHANGED cut
       \/ Fault("db") /\ CutShort({"week"})
    /\ UNCHANGED <<accounts, note, hook, steady, unheard, mark, sockets, time>>

JobEnd ==
    /\ job.pc = "send" /\ job.list = {} /\ job.kind = "week"
    /\ job' = NoJob
    /\ UNCHANGED <<accounts, note, hook, history, mark, sockets, time, happened>>

\* createNotification for one user of the list.
JobCreate(u) ==
    /\ job.pc = "send" /\ u \in job.list
    /\ \/ /\ \E n \in Ids :
               /\ Row(n, u, job.kind)
               /\ job' = [job EXCEPT !.pc = "emit", !.user = u, !.note = n, !.list = @ \ {u}]
          /\ NoFault
          /\ UNCHANGED <<cut, unheard>>
       \/ Fault("db") /\ CutShort({job.kind, "week"}) /\ RowFails(u, job.kind)
    /\ UNCHANGED <<accounts, hook, steady, mark, sockets, time>>

JobEmit ==
    /\ job.pc = "emit"
    /\ Push(job.user, job.note)
    /\ job' = [job EXCEPT !.pc = "send", !.user = None, !.note = None]
    /\ UNCHANGED <<accounts, note, hook, history, mark, clients, time, happened>>

-----------------------------------------------------------------------------
(* A payment *)

\* updateAccountType of the subscription service stores the new end date; the
\* message about it follows.
Pay(u, d) ==
    /\ hook = NoHook
    /\ moves < MaxMoves
    /\ d > clock /\ (end[u] # None => d > end[u])
    /\ end' = [end EXCEPT ![u] = d]
    /\ hook' = [NoHook EXCEPT !.pc = "create", !.user = u]
    /\ moves' = moves + 1
    /\ steady' = steady \ {u}
    /\ job' = [job EXCEPT !.moved = @ \cup (IF job = NoJob THEN {} ELSE {u})]
    /\ UNCHANGED <<note, cut, unheard, mark, sockets, time, happened>>

HookCreate ==
    /\ hook.pc = "create"
    /\ \/ /\ \E n \in Ids : Row(n, hook.user, "paid") /\ hook' = [hook EXCEPT !.pc = "emit", !.note = n]
          /\ NoFault
          /\ UNCHANGED unheard
       \/ Fault("db") /\ hook' = NoHook /\ RowFails(hook.user, "paid")
    /\ UNCHANGED <<accounts, job, steady, cut, mark, sockets, time>>

HookEmit ==
    /\ hook.pc = "emit"
    /\ Push(hook.user, hook.note)
    /\ hook' = NoHook
    /\ UNCHANGED <<accounts, note, job, history, mark, clients, time, happened>>

-----------------------------------------------------------------------------
(* Marking as read *)

NotesOf(u) == {n \in Used : note[n].user = u}

\* All are there, and the user's.
MayMark(u, ids) == ids \subseteq NotesOf(u)

MarkFind(u, ids) ==
    /\ mark = NoMark
    /\ moves < MaxMoves
    /\ ids # {} /\ MayMark(u, ids)
    /\ mark' = [pc |-> "write", user |-> u, ids |-> ids]
    /\ moves' = moves + 1
    /\ UNCHANGED <<end, note, senders, history, sockets, time, happened>>

\* updateMany of the user's rows.
MarkWrite ==
    /\ mark.pc = "write"
    /\ \/ /\ note' = [n \in Ids |->
                       IF n \in mark.ids \cap NotesOf(mark.user)
                       THEN [note[n] EXCEPT !.read = TRUE] ELSE note[n]]
          /\ NoFault \/ Fault("db")
       \/ Fault("db") /\ UNCHANGED note
    /\ mark' = NoMark
    /\ UNCHANGED <<accounts, senders, history, sockets, time>>

-----------------------------------------------------------------------------
(* Sockets *)

\* handleConnection with a valid token looks its user up.
Connect(c, u) ==
    /\ client[c].pc = "new"
    /\ client' = [client EXCEPT ![c].pc = "asking", ![c].user = u]
    /\ UNCHANGED <<accounts, note, senders, history, mark, clients, time, happened>>

\* The user is there: the socket is stored and joins the user's room, open or
\* not.  No answer of the database: it is disconnected.
Connected(c) ==
    /\ client[c].pc = "asking"
    /\ \/ /\ clients' = clients \cup {c}
          /\ client' = [client EXCEPT ![c] = IF @.late THEN Stale
                                             ELSE [@ EXCEPT !.pc = "on", !.known = Used]]
          /\ NoFault
       \/ /\ Fault("db")
          /\ client' = [client EXCEPT ![c] = NewSocket]
          /\ UNCHANGED clients
    /\ UNCHANGED <<accounts, note, senders, history, mark, time>>

\* Mutant: the Map keeps what closed.
UnlistedLate(c) == clients

\* handleDisconnect deletes what is in the Map.
Unlisted(c) == clients \ {c}

Disconnect(c) ==
    /\ client[c].pc = "on" \/ (client[c].pc = "asking" /\ ~client[c].late)
    /\ client' = [client EXCEPT ![c] = IF @.pc = "on" THEN NewSocket
                                       ELSE [@ EXCEPT !.late = TRUE]]
    /\ clients' = Unlisted(c)
    /\ UNCHANGED <<accounts, note, senders, history, mark, time, happened>>

-----------------------------------------------------------------------------
(* The process and the clock *)

Crash ==
    /\ Fault("crash")
    /\ job' = NoJob
    /\ cut' = IF job = NoJob THEN cut ELSE cut \cup {job.kind, "week"}
    /\ hook' = NoHook
    /\ mark' = NoMark
    /\ client' = [c \in Clients |-> NewSocket]
    /\ clients' = {}
    /\ UNCHANGED <<accounts, note, steady, unheard, time>>

\* The day ends; the job is over, or the process was down at seven.
Tick ==
    /\ clock < MaxClock /\ job = NoJob
    /\ (ran /\ NoFault) \/ (~ran /\ Fault("down"))
    /\ clock' = clock + 1
    /\ ran' = FALSE
    /\ steady' = Users
    /\ cut' = {}
    /\ UNCHANGED <<accounts, note, unheard, senders, mark, sockets>>

-----------------------------------------------------------------------------
Job  == JobStart \/ JobWeek \/ JobEnd \/ JobEmit \/ \E u \in Users : JobCreate(u)
Hook == HookCreate \/ HookEmit \/ \E u \in Users, d \in Dates : Pay(u, d)
Mark == MarkWrite \/ \E u \in Users, ids \in SUBSET Ids : MarkFind(u, ids)
Socket(c) == Connected(c) \/ Disconnect(c) \/ \E u \in Users : Connect(c, u)

Next ==
    \/ Job
    \/ Hook
    \/ Mark
    \/ \E c \in Clients : Socket(c)
    \/ Crash
    \/ Tick

Spec == Init /\ [][Next]_vars

-----------------------------------------------------------------------------
(* Properties *)

\* Every variable has its type; and the Map of the service holds exactly the
\* sockets that joined a room, those that closed before they were listed included.
TypeOK ==
    /\ end \in [Users -> Dates \cup {None}]
    /\ note \in [Ids -> NoteRows \cup {None}]
    /\ job \in Jobs
    /\ hook \in Hooks
    /\ mark \in Marks
    /\ client \in [Clients -> Sockets]
    /\ clients = {c \in Clients : client[c].pc \in {"on", "stale"}}
    /\ clock \in 0 .. MaxClock /\ ran \in BOOLEAN
    /\ moves \in 0 .. MaxMoves
    /\ happened \subseteq Faults
    /\ steady \subseteq Users /\ cut \subseteq {"day", "week"}
    /\ unheard \subseteq Ids

\* When a day ends on which the job was called, everybody whose subscription
\* ends tomorrow or in a week was told so, unless the date changed today or an
\* error, of whichever user, cut the job short.
EveryoneIsTold ==
    [][clock' # clock /\ ran =>
          \A u \in steady, k \in {"day", "week"} :
              end[u] = clock + Days(k) =>
                  \/ k \in cut
                  \/ \E n \in NotesOf(u) : note[n].kind = k /\ note[n].at = clock]_vars

\* Nobody is told of an end that is not his, unless it moved while the job went
\* through its list.
NoticeIsTrue ==
    [][\A n \in Ids : note[n] = None /\ note'[n] # None /\ note'[n].kind \in {"day", "week"} =>
          \/ end[note'[n].user] = clock + Days(note'[n].kind)
          \/ note'[n].user \in job.moved]_vars

\* A socket that is on has got, or is about to get, every notification of its
\* user that came after it joined, except one whose insert failed towards the
\* service though the row was stored.
ConnectedMissNothing ==
    \A c \in Clients, n \in Ids :
        /\ client[c].pc = "on"
        /\ n \in NotesOf(client[c].user) \ (client[c].known \cup unheard)
        => n \in client[c].got \cup {job.note, hook.note}

=============================================================================
