------------------------------ MODULE Accounts ------------------------------
(***************************************************************************)
(* Accounts of the instagram gateway: registration and its confirmation,   *)
(* password recovery, login with a password or through a provider, the     *)
(* username of the profile, and removal and bans by the administrator (the *)
(* use cases of features/auth, UsersService and UsersRepository).          *)
(*                                                                         *)
(* A request runs until its next await on the database or the mailer; each *)
(* such stretch is one action, and the first read belongs to the arrival   *)
(* of the request.  Repository writes are transactions, all or nothing,    *)
(* and swallow their errors.                                               *)
(***************************************************************************)
EXTENDS Integers, FiniteSets

CONSTANTS
    Users,      \* user ids (uuid), fresh for each row
    Emails,
    Names,      \* usernames and display names at the providers
    Codes,      \* confirmation and recovery codes, fresh for each use (randomUUID)
    Providers,  \* google and github
    Requests,   \* requests the gateway can have in flight
    CodeLife,   \* time a code is good for
    MaxClock,   \* last instant
    MaxStarts,  \* requests that arrive
    MaxRows,    \* provider rows of a user
    FaultKinds, \* the faults that happen, each once ...
    MaxFaults,  \* ... and how many of them
    None        \* null or undefined

Faults == {"db", "mail", "late", "crash"}

ASSUME ConstantsAssumption ==
    /\ CodeLife \in Nat /\ MaxClock \in Nat /\ MaxStarts \in Nat
    /\ MaxRows \in Nat /\ MaxFaults \in Nat
    /\ FaultKinds \subseteq Faults
    /\ None \notin Users \cup Emails \cup Names \cup Codes \cup Providers

\* Users come through google and github (strategy-type.enum.ts).
ASSUME ProvidersAssumption == IsFiniteSet(Providers) /\ Cardinality(Providers) <= 2

VARIABLES
    user,       \* user rows, by id
    code,       \* confirmation_code rows, by user id
    recovery,   \* password_recovery_code rows, by user id
    providers,  \* user_provider_info rows: how many of each provider, by user id
    banned,     \* users with a user_ban_info row
    loggedIn,   \* users with a device_auth_session row
    mailed,     \* codes that reached a mailbox
    req,        \* requests in flight
    clock,
    started,    \* requests that arrived
    happened,   \* faults that happened
    issued,     \* history: the user each recovery code was stored for
    owed,       \* history: recovery codes stored for a user, less passwords set
    helped,     \* history: users a resend or a provider login wrote to
    overlapped  \* history: users two provider logins merged at the same time

rows    == <<user, code, recovery, providers, banned, loggedIn>>
history == <<issued, owed, helped, overlapped>>
vars    == <<rows, mailed, req, clock, started, happened, history>>

-----------------------------------------------------------------------------
(* Values *)

Rows   == [email : Emails, name : Names, password : BOOLEAN, confirmed : BOOLEAN,
           removed : BOOLEAN]
Stored == [code : Codes, till : Nat]

ASSUME NoneAssumption == None \notin Rows \cup Stored

Operations == {"register", "confirm", "resend", "recover", "again", "reset", "oauth",
               "login", "profile", "ban", "unban"}

\* What a request waits for.
Steps == {"insert", "mail", "undo", "confirm", "update", "create", "retry", "upsert",
          "sessions", "drop", "set", "signup", "providers", "merge", "refresh",
          "device", "name", "rename", "ban", "unban"}

InFlight == [op : Operations, pc : Steps, user : Users \cup {None},
             email : Emails \cup {None}, name : Names \cup {None},
             code : Codes \cup {None}, provider : Providers \cup {None}]

Request(op, pc, u) ==
    [op |-> op, pc |-> pc, user |-> u, email |-> None, name |-> None, code |-> None,
     provider |-> None]

Idle == Request("none", "idle", None)

At(r, pc) == req[r].pc = pc
User(r)   == req[r].user
Exists(u) == u \in Users /\ user[u] # None

GoTo(r, pc) == req' = [req EXCEPT ![r].pc = pc]
Over(r)     == req' = [req EXCEPT ![r] = Idle]

\* The request in slot r begins as q.
Begin(r, q) ==
    /\ req[r] = Idle
    /\ started < MaxStarts
    /\ started' = started + 1
    /\ req' = [req EXCEPT ![r] = q]
    /\ UNCHANGED <<rows, mailed, clock, happened, history>>

Fault(f) ==
    /\ f \in FaultKinds \ happened
    /\ Cardinality(happened) < MaxFaults
    /\ happened' = happened \cup {f}

NoFault == UNCHANGED happened

\* A write that failed, by a fault or because of the rows, and was swallowed.
Swallowed(fails) == \/ fails /\ NoFault
                    \/ Fault("db")

FreshUser(u) == user[u] = None /\ \A q \in Requests : User(q) # u

FreshCode(k) ==
    /\ k \notin mailed
    /\ issued[k] = None
    /\ \A u \in Users : code[u] # None => code[u].code # k
    /\ \A q \in Requests : req[q].code # k

ByEmail(e) == {u \in Users : user[u] # None /\ user[u].email = e}
ByName(n)  == {u \in Users : user[u] # None /\ user[u].name = n}

\* The unique keys of the user table.
Unique(e, n) == ByEmail(e) = {} /\ ByName(n) = {}

Good(k)    == [code |-> k, till |-> clock + CodeLife]
Expired(c) == c.till < clock

-----------------------------------------------------------------------------
Init ==
    /\ user = [u \in Users |-> None]
    /\ code = [u \in Users |-> None]
    /\ recovery = [u \in Users |-> None]
    /\ providers = [u \in Users |-> [p \in Providers |-> 0]]
    /\ banned = {}
    /\ loggedIn = {}
    /\ mailed = {}
    /\ req = [r \in Requests |-> Idle]
    /\ clock = 0
    /\ started = 0
    /\ happened = {}
    /\ issued = [k \in Codes |-> None]
    /\ owed = [u \in Users |-> 0]
    /\ helped = {}
    /\ overlapped = {}

-----------------------------------------------------------------------------
(* Registration *)

\* The validators find neither the email nor the username; a code is drawn.
Register(r, e, n, k) ==
    /\ Unique(e, n)
    /\ FreshCode(k)
    /\ Begin(r, [Request("register", "insert", None) EXCEPT !.email = e, !.name = n, !.code = k])

\* registerUser: the user with its code, or undefined; the mail goes out anyway.
RegisterUser(r) ==
    /\ At(r, "insert")
    /\ LET e == req[r].email  n == req[r].name IN
       \/ \E u \in Users :
            /\ FreshUser(u)
            /\ Unique(e, n)
            /\ user' = [user EXCEPT ![u] = [email |-> e, name |-> n, password |-> TRUE,
                                            confirmed |-> FALSE, removed |-> FALSE]]
            /\ code' = [code EXCEPT ![u] = Good(req[r].code)]
            /\ req' = [req EXCEPT ![r].pc = "mail", ![r].user = u]
            /\ NoFault
       \/ Swallowed(~Unique(e, n)) /\ GoTo(r, "mail") /\ UNCHANGED <<user, code>>
    /\ UNCHANGED <<recovery, providers, banned, loggedIn, mailed, clock, started, history>>

\* Mutant: the account is looked up by the email of the request.
UndoneByEmail(r) == ByEmail(req[r].email)

\* deleteUser(userId); without an id, and of a banned user, the delete fails.
Undone(r) == {u \in {User(r)} \ banned : Exists(u)}

\* The deletion cascades to every row of the user but a ban.
DeleteUser(r) ==
    /\ At(r, "undo")
    /\ \/ /\ user' = [u \in Users |-> IF u \in Undone(r) THEN None ELSE user[u]]
          /\ code' = [u \in Users |-> IF u \in Undone(r) THEN None ELSE code[u]]
          /\ recovery' = [u \in Users |-> IF u \in Undone(r) THEN None ELSE recovery[u]]
          /\ providers' = [u \in Users |-> IF u \in Undone(r) THEN [p \in Providers |-> 0]
                                           ELSE providers[u]]
          /\ loggedIn' = loggedIn \ Undone(r)
          /\ owed' = [u \in Users |-> IF u \in Undone(r) THEN 0 ELSE owed[u]]
          /\ helped' = helped \ Undone(r)
          /\ overlapped' = overlapped \ Undone(r)
          /\ NoFault
       \/ Fault("db") /\ UNCHANGED <<user, code, recovery, providers, loggedIn, owed,
                                     helped, overlapped>>
    /\ Over(r)
    /\ UNCHANGED <<banned, mailed, clock, started, issued>>

\* A user brings a code from a mail; findUserByEmailConfirmationCode.
Confirm(r, k, u) ==
    /\ k \in mailed
    /\ user[u] # None /\ code[u] # None /\ code[u].code = k
    /\ ~user[u].confirmed /\ ~Expired(code[u])
    /\ Begin(r, [Request("confirm", "confirm", u) EXCEPT !.code = k])

\* Mutant: the code is deleted though the user could not be updated.
ConfirmedApart(r) ==
    /\ code' = [code EXCEPT ![User(r)] = None]
    /\ \/ user' = [user EXCEPT ![User(r)].confirmed = TRUE] /\ NoFault
       \/ Fault("db") /\ UNCHANGED user

\* Both writes of the transaction need their row.
Confirmed(r) ==
    /\ user' = [user EXCEPT ![User(r)].confirmed = TRUE]
    /\ code' = [code EXCEPT ![User(r)] = None]
    /\ NoFault

\* confirmUser; a success mail that fails only changes the answer.
ConfirmUser(r) ==
    /\ At(r, "confirm")
    /\ \/ Exists(User(r)) /\ code[User(r)] # None /\ Confirmed(r)
       \/ /\ Swallowed(~Exists(User(r)) \/ code[User(r)] = None)
          /\ UNCHANGED <<user, code>>
    /\ Over(r)
    /\ UNCHANGED <<recovery, providers, banned, loggedIn, mailed, clock, started, history>>

\* RegistrationEmailResendUseCase: somebody asks for a new code.
Resend(r, u, k) ==
    /\ user[u] # None /\ ~user[u].confirmed
    /\ FreshCode(k)
    /\ Begin(r, [Request("resend", "update", u) EXCEPT !.code = k])

\* Mutant: a code that was stored is not mailed.
AfterStoreOnFailure(stored) == IF stored THEN "sessions" ELSE "mail"

\* What follows a code that was or was not stored: the mail, in either case.
AfterStore(stored) == "mail"

\* updateEmailConfirmationCode.
UpdateCode(r) ==
    /\ At(r, "update")
    /\ LET u == User(r) IN
       \/ /\ code[u] # None
          /\ code' = [code EXCEPT ![u] = Good(req[r].code)]
          /\ helped' = helped \cup {u}
          /\ GoTo(r, AfterStore(TRUE))
          /\ NoFault
       \/ /\ Swallowed(code[u] = None)
          /\ GoTo(r, AfterStore(FALSE))
          /\ UNCHANGED <<code, helped>>
    /\ UNCHANGED <<user, recovery, providers, banned, loggedIn, mailed, clock, started,
                   issued, owed, overlapped>>

-----------------------------------------------------------------------------
(* Password recovery *)

\* PasswordRecoveryUseCase and PasswordRecoveryResendingUseCase find the user.
Recover(r, op, u, k) ==
    /\ op \in {"recover", "again"}
    /\ user[u] # None
    /\ FreshCode(k)
    /\ Begin(r, [Request(op, IF op = "recover" THEN "create" ELSE "upsert", u)
                   EXCEPT !.code = k])

Store(r) ==
    /\ recovery' = [recovery EXCEPT ![User(r)] = Good(req[r].code)]
    /\ issued' = [issued EXCEPT ![req[r].code] = User(r)]
    /\ owed' = [owed EXCEPT ![User(r)] = @ + 1]

NoStore == UNCHANGED <<recovery, issued, owed>>

\* createPasswordRecoveryRecord, and once more when it returned false.
CreateRecovery(r) ==
    /\ At(r, "create") \/ At(r, "retry")
    /\ LET fails == ~Exists(User(r)) \/ recovery[User(r)] # None IN
       \/ ~fails /\ Store(r) /\ NoFault /\ GoTo(r, AfterStore(TRUE))
       \/ /\ Swallowed(fails) /\ NoStore
          /\ GoTo(r, IF At(r, "create") THEN "retry" ELSE AfterStore(FALSE))
    /\ UNCHANGED <<user, code, providers, banned, loggedIn, mailed, clock, started,
                   helped, overlapped>>

\* updatePasswordRecoveryRecord, an upsert.
UpsertRecovery(r) ==
    /\ At(r, "upsert")
    /\ \/ Exists(User(r)) /\ Store(r) /\ NoFault /\ GoTo(r, AfterStore(TRUE))
       \/ Swallowed(~Exists(User(r))) /\ NoStore /\ GoTo(r, AfterStore(FALSE))
    /\ UNCHANGED <<user, code, providers, banned, loggedIn, mailed, clock, started,
                   helped, overlapped>>

\* deleteUserSessions.
EndSessions(r) ==
    /\ At(r, "sessions")
    /\ \/ loggedIn' = loggedIn \ {User(r)} /\ NoFault
       \/ Fault("db") /\ UNCHANGED loggedIn
    /\ Over(r)
    /\ UNCHANGED <<user, code, recovery, providers, banned, mailed, clock, started, history>>

\* findPasswordRecoveryRecord.
FindRecovery(k) == {u \in Users : recovery[u] # None /\ recovery[u].code = k}

\* PasswordUpdateUseCase: somebody brings a code and a new password.
Reset(r, k, u) ==
    /\ k \in mailed
    /\ u \in FindRecovery(k)
    /\ Begin(r, [Request("reset", IF Expired(recovery[u]) THEN "drop" ELSE "set", u)
                   EXCEPT !.code = k])

\* deletePasswordRecoveryCode of a code that had expired.
DropRecovery(r) ==
    /\ At(r, "drop")
    /\ \/ recovery' = [recovery EXCEPT ![User(r)] = None] /\ NoFault
       \/ Fault("db") /\ UNCHANGED recovery
    /\ Over(r)
    /\ UNCHANGED <<user, code, providers, banned, loggedIn, mailed, clock, started, history>>

\* Mutant: a row that is gone is no error.
HasRecoveryOrNot(u) == Exists(u)

\* The transaction deletes the user's row, and fails when there is none.
HasRecovery(u) == Exists(u) /\ recovery[u] # None

\* updatePassword.
SetPassword(r) ==
    /\ At(r, "set")
    /\ LET u == User(r) IN
       \/ /\ HasRecovery(u)
          /\ user' = [user EXCEPT ![u].password = TRUE]
          /\ recovery' = [recovery EXCEPT ![u] = None]
          /\ owed' = [owed EXCEPT ![u] = @ - 1]
          /\ NoFault
       \/ Swallowed(~HasRecovery(u)) /\ UNCHANGED <<user, recovery, owed>>
    /\ Over(r)
    /\ UNCHANGED <<code, providers, banned, loggedIn, mailed, clock, started, issued,
                   helped, overlapped>>

-----------------------------------------------------------------------------
(* The mailer *)

\* What a request does when its mail is out, and when the mailer refused.
AfterMail   == [register |-> "idle", resend |-> "idle", recover |-> "sessions", again |-> "sessions"]
AfterNoMail == [AfterMail EXCEPT !.register = "undo"]

Continue(r, pc) == IF pc = "idle" THEN Over(r) ELSE GoTo(r, pc)

\* A code is delivered, or lost with an error, or delivered with an error.
Mail(r) ==
    /\ At(r, "mail")
    /\ \/ mailed' = mailed \cup {req[r].code} /\ NoFault /\ Continue(r, AfterMail[req[r].op])
       \/ Fault("mail") /\ UNCHANGED mailed /\ Continue(r, AfterNoMail[req[r].op])
       \/ /\ Fault("late")
          /\ mailed' = mailed \cup {req[r].code}
          /\ Continue(r, AfterNoMail[req[r].op])
    /\ UNCHANGED <<rows, clock, started, history>>

-----------------------------------------------------------------------------
(* Login through a provider, AuthService.validateUser *)

\* The provider names an email and a display name.
OAuth(r, p, e, n) ==
    Begin(r, [Request("oauth", IF ByEmail(e) = {} THEN "signup" ELSE "providers",
                      IF ByEmail(e) = {} THEN None ELSE CHOOSE u \in ByEmail(e) : TRUE)
                EXCEPT !.email = e, !.name = n, !.provider = p])

\* createUserByOAuth; without a user the guard refuses.
SignUp(r) ==
    /\ At(r, "signup")
    /\ LET e == req[r].email  n == req[r].name IN
       \/ \E u \in Users :
            /\ FreshUser(u)
            /\ Unique(e, n)
            /\ user' = [user EXCEPT ![u] = [email |-> e, name |-> n, password |-> FALSE,
                                            confirmed |-> TRUE, removed |-> FALSE]]
            /\ providers' = [providers EXCEPT ![u][req[r].provider] = 1]
            /\ req' = [req EXCEPT ![r].pc = "device", ![r].user = u]
            /\ NoFault
       \/ Swallowed(~Unique(e, n)) /\ Over(r) /\ UNCHANGED <<user, providers>>
    /\ UNCHANGED <<code, recovery, banned, loggedIn, mailed, clock, started, history>>

Linked(u) == {p \in Providers : providers[u][p] > 0}

\* Mutant: only the first row is looked at.
LookedAtFirst(u) == {S \in SUBSET Linked(u) : Cardinality(S) = 1 \/ S = Linked(u)}

\* findMany gives the rows in no order, and the first two are looked at: the
\* providers that may be among them.
LookedAt(u) ==
    {S \in SUBSET Linked(u) : \/ Cardinality(S) = 2
                              \/ \E p \in Providers : S = {p} /\ providers[u][p] > 1
                              \/ S = Linked(u) /\ Cardinality(S) < 2}

\* findUserProviderInfo: is the provider among those looked at?
FindProviders(r) ==
    /\ At(r, "providers")
    /\ \/ /\ \E S \in LookedAt(User(r)) :
               GoTo(r, IF req[r].provider \in S THEN "refresh" ELSE "merge")
          /\ NoFault
       \/ Fault("db") /\ Over(r)
    /\ UNCHANGED <<rows, mailed, clock, started, history>>

Merging(u) == {q \in Requests : At(q, "merge") /\ User(q) = u}

\* mergeUserProviderInfo adds a row, updateUserProviderInfo rewrites one; both
\* confirm the user, whose confirmation code stays.  Errors are swallowed.
WriteProvider(r) ==
    /\ At(r, "merge") \/ At(r, "refresh")
    /\ LET u == User(r)  p == req[r].provider IN
       \/ /\ Exists(u)
          /\ At(r, "refresh") \/ providers[u][p] < MaxRows
          /\ user' = [user EXCEPT ![u].confirmed = TRUE]
          /\ providers' = IF At(r, "merge") THEN [providers EXCEPT ![u][p] = @ + 1] ELSE providers
          /\ helped' = helped \cup {u}
          /\ overlapped' = IF Merging(u) \subseteq {r} THEN overlapped ELSE overlapped \cup {u}
          /\ NoFault
       \/ Swallowed(~Exists(u)) /\ UNCHANGED <<user, providers, helped, overlapped>>
    /\ GoTo(r, "device")
    /\ UNCHANGED <<code, recovery, banned, loggedIn, mailed, clock, started, issued, owed>>

-----------------------------------------------------------------------------
(* Login with a password, and the device of either login *)

\* Mutant: checkCredentials forgets the confirmation.
MayLoginUnconfirmed(u) == user[u] # None /\ user[u].password

\* checkCredentials: neither a ban nor a removal is looked at.
MayLogin(u) == user[u] # None /\ user[u].password /\ user[u].confirmed

Login(r, u) == MayLogin(u) /\ Begin(r, Request("login", "device", u))

\* createDevice, for a user that still exists.
CreateDevice(r) ==
    /\ At(r, "device")
    /\ \/ Exists(User(r)) /\ loggedIn' = loggedIn \cup {User(r)} /\ NoFault
       \/ Swallowed(~Exists(User(r))) /\ UNCHANGED loggedIn
    /\ Over(r)
    /\ UNCHANGED <<user, code, recovery, providers, banned, mailed, clock, started, history>>

-----------------------------------------------------------------------------
(* The username of the profile *)

\* FillOutProfileUseCase finds the user of the access token ...
FillOut(r, u, n) ==
    /\ u \in loggedIn
    /\ Begin(r, [Request("profile", "name", u) EXCEPT !.name = n])

\* ... and whoever has the name, who must be nobody else.
FindName(r) ==
    /\ At(r, "name")
    /\ IF ByName(req[r].name) \subseteq {User(r)} THEN GoTo(r, "rename") ELSE Over(r)
    /\ UNCHANGED <<rows, mailed, clock, started, happened, history>>

\* fillOutProfile.
Rename(r) ==
    /\ At(r, "rename")
    /\ LET fails == ~Exists(User(r)) \/ ~(ByName(req[r].name) \subseteq {User(r)}) IN
       \/ ~fails /\ user' = [user EXCEPT ![User(r)].name = req[r].name] /\ NoFault
       \/ Swallowed(fails) /\ UNCHANGED user
    /\ Over(r)
    /\ UNCHANGED <<code, recovery, providers, banned, loggedIn, mailed, clock, started, history>>

-----------------------------------------------------------------------------
(* Administration *)

\* removeUser, a single update.
Remove(u) ==
    /\ started < MaxStarts
    /\ started' = started + 1
    /\ user[u] # None
    /\ user' = [user EXCEPT ![u].removed = TRUE]
    /\ UNCHANGED <<code, recovery, providers, banned, loggedIn, mailed, req, clock,
                   happened, history>>

\* banUser and unbanUser find the user first.
Administer(r, op, u) == op \in {"ban", "unban"} /\ user[u] # None /\ Begin(r, Request(op, op, u))

\* A second ban, or none to lift, is an error, and swallowed.
WriteBan(r) ==
    /\ At(r, "ban") \/ At(r, "unban")
    /\ LET u == User(r)
           fails == IF At(r, "ban") THEN ~Exists(u) \/ u \in banned ELSE u \notin banned IN
       \/ /\ ~fails
          /\ banned' = IF At(r, "ban") THEN banned \cup {u} ELSE banned \ {u}
          /\ NoFault
       \/ Swallowed(fails) /\ UNCHANGED banned
    /\ Over(r)
    /\ UNCHANGED <<user, code, recovery, providers, loggedIn, mailed, clock, started, history>>

-----------------------------------------------------------------------------
(* The process and the clock *)

\* The gateway stops and starts again.
Crash ==
    /\ Fault("crash")
    /\ req' = [r \in Requests |-> Idle]
    /\ UNCHANGED <<rows, mailed, clock, started, history>>

Tick ==
    /\ clock < MaxClock
    /\ clock' = clock + 1
    /\ UNCHANGED <<rows, mailed, req, started, happened, history>>

-----------------------------------------------------------------------------
Arriving(r) ==
    \/ \E e \in Emails, n \in Names, k \in Codes : Register(r, e, n, k)
    \/ \E k \in Codes, u \in Users : Confirm(r, k, u) \/ Resend(r, u, k) \/ Reset(r, k, u)
    \/ \E k \in Codes, u \in Users, op \in Operations : Recover(r, op, u, k)
    \/ \E p \in Providers, e \in Emails, n \in Names : OAuth(r, p, e, n)
    \/ \E u \in Users : Login(r, u) \/ (\E n \in Names : FillOut(r, u, n))
    \/ \E u \in Users, op \in Operations : Administer(r, op, u)

Handling(r) ==
    \/ RegisterUser(r)
    \/ DeleteUser(r)
    \/ ConfirmUser(r)
    \/ UpdateCode(r)
    \/ CreateRecovery(r)
    \/ UpsertRecovery(r)
    \/ EndSessions(r)
    \/ DropRecovery(r)
    \/ SetPassword(r)
    \/ Mail(r)
    \/ SignUp(r)
    \/ FindProviders(r)
    \/ WriteProvider(r)
    \/ CreateDevice(r)
    \/ FindName(r)
    \/ Rename(r)
    \/ WriteBan(r)

Next ==
    \/ \E r \in Requests : Arriving(r) \/ Handling(r)
    \/ \E u \in Users : Remove(u)
    \/ Crash
    \/ Tick

Spec == Init /\ [][Next]_vars

-----------------------------------------------------------------------------
(* Properties *)

\* Every variable has its type; in particular only users that exist have codes,
\* sessions, providers and bans.
TypeOK ==
    /\ user \in [Users -> Rows \cup {None}]
    /\ code \in [Users -> Stored \cup {None}]
    /\ recovery \in [Users -> Stored \cup {None}]
    /\ providers \in [Users -> [Providers -> Nat]]
    /\ banned \subseteq Users
    /\ loggedIn \subseteq Users
    /\ mailed \subseteq Codes
    /\ req \in [Requests -> InFlight \cup {Idle}]
    /\ clock \in Nat
    /\ started \in Nat
    /\ happened \subseteq Faults
    /\ issued \in [Codes -> Users \cup {None}]
    /\ owed \in [Users -> Int]
    /\ helped \subseteq Users
    /\ overlapped \subseteq Users
    /\ \A u \in Users : user[u] = None =>
         /\ code[u] = None /\ recovery[u] = None
         /\ u \notin banned \cup loggedIn

\* Nobody is locked out of confirming: an unconfirmed user has a code row, which
\* a resend can renew.
UnconfirmedCanConfirm ==
    \A u \in Users : user[u] # None /\ ~user[u].confirmed => code[u] # None

\* Where nothing fails, a confirmation code that is stored was mailed, or the
\* request that stored it is about to mail it.
StoredCodesAreMailed ==
    \A u \in Users : code[u] # None /\ happened = {} =>
        \/ code[u].code \in mailed
        \/ \E r \in Requests : At(r, "mail") /\ req[r].code = code[u].code

\* A recovery code opens the account it was issued for and no other, and no more
\* passwords are set than codes were stored, even by requests that bring the
\* same code at the same time.
ResetsAreStored ==
    /\ \A u \in Users : owed[u] >= IF recovery[u] # None THEN 1 ELSE 0
    /\ \A r \in Requests : At(r, "set") /\ Exists(User(r)) => issued[req[r].code] = User(r)

\* A user with a session was confirmed, by a code or by a provider, unless the
\* write of a provider login failed.
LoggedInAreConfirmed ==
    \A u \in loggedIn : user[u].confirmed \/ "db" \in happened

\* A provider is linked to a user twice only by logins that merged it at the
\* same time; from then on every login may add a row.
LinkedTwiceNeedsOverlap ==
    \A u \in Users \ overlapped, p \in Providers : providers[u][p] <= 1

Vanishes(u) == user[u] # None /\ user'[u] = None

\* The compensation of a registration whose mail failed takes no account that
\* was confirmed meanwhile, unless the mail arrived all the same or another
\* request had written to the user.
ConfirmedIsKept ==
    [][\A u \in Users : Vanishes(u) /\ user[u].confirmed =>
         "late" \in happened \/ u \in helped]_vars

-----------------------------------------------------------------------------
(* What the repository says and the code does not do *)

\* password-recovery: 'Email should be sent with RecoveryCode inside', which
\* 'Confirm Password recovery' takes: a code that is mailed is stored.
RecoveryMailWorks ==
    [][\A r \in Requests : /\ At(r, "mail") /\ req[r].op = "recover"
                           /\ req[r].code \in mailed' \ mailed
         => \E u \in Users : recovery[u] # None /\ recovery[u].code = req[r].code]_vars

=============================================================================
