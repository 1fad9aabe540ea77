------------------------------ MODULE Sessions ------------------------------
(***************************************************************************)
(* Device sessions of the instagram gateway: login, refreshing the token   *)
(* pair, logout, ending one or all other sessions, and the end of a user's *)
(* sessions by password recovery (AuthController with the use cases of     *)
(* features/auth and UserDevicesRepository).                               *)
(*                                                                         *)
(* A session is a row per device id; a refresh token is accepted while its *)
(* device has a row whose lastActiveDate is not after the token's iat.  A  *)
(* handler runs until its next await that reads or writes a row; each such *)
(* stretch is one action.  One tick of clock is one second, the grain of   *)
(* iat and of lastActiveDate.                                              *)
(***************************************************************************)
EXTENDS Integers

CONSTANTS
    Users,      \* confirmed users
    Devices,    \* device ids, fresh for each login (randomUUID)
    Clients,    \* browsers, with one cookie each and any number of tabs
    Requests,   \* requests the gateway can have in flight
    TTL,        \* life of a refresh token in seconds
    MaxClock,   \* last second
    FaultKinds, \* the faults that happen ...
    MaxFaults,  \* ... and how many of them
    None        \* null, undefined or no cookie

Rows   == [user : Users, lastActiveDate : Nat]
Tokens == [user : Users, dev : Devices, iat : Nat]

\* What a request does.
Operations == {"login", "refresh", "logout", "others", "terminate", "recover"}

ASSUME ConstantsAssumption ==
    /\ TTL \in Nat \ {0}
    /\ MaxClock \in Nat
    /\ FaultKinds \subseteq {"db", "lost", "crash"}
    /\ MaxFaults \in Nat
    /\ None \notin Nat \cup Operations \cup Users \cup Devices \cup Clients \cup Rows \cup Tokens

VARIABLES
    row,       \* device_auth_session rows, by device id
    given,     \* history: refresh tokens that reached a browser
    jar,       \* the refresh cookie of each browser
    req,       \* requests in flight
    clock,     \* now, in seconds
    faults,    \* faults that happened
    ended,     \* history: devices whose row was deleted
    disturbed  \* history: devices whose refreshes overlapped or were cut short

history == <<given, ended, disturbed>>
vars    == <<row, jar, req, clock, faults, history>>

-----------------------------------------------------------------------------
(* Values *)

\* Where a request is: it passes the guard, signs, looks up, writes, responds.
Steps == {"guard", "sign", "create", "lookup", "find", "own", "update", "delete",
          "respond"}

InFlight == [op : Operations, pc : Steps, client : Clients \cup {None},
             user : Users, dev : Devices \cup {None}, old : Nat \cup {None},
             new : Nat \cup {None}, target : Devices \cup {None},
             owner : Users \cup {None}]

\* A request of user u with operation op, about to do step pc.
Request(op, pc, c, u, d) ==
    [op |-> op, pc |-> pc, client |-> c, user |-> u, dev |-> d, old |-> None,
     new |-> None, target |-> None, owner |-> None]

Idle == Request(None, "idle", None, None, None)

At(r, pc) == req[r].pc = pc
Dev(r)    == req[r].dev
GoTo(r, pc) == req' = [req EXCEPT ![r].pc = pc]

\* The handler is over: it threw, or there is nothing to send back.
Over(r) == req' = [req EXCEPT ![r] = Idle]

Fault(f) == f \in FaultKinds /\ faults < MaxFaults /\ faults' = faults + 1

\* Mutant: a token of the second of the last activity is refused.
AcceptedStrictly(dev, iat) == row[dev] # None /\ iat > row[dev].lastActiveDate

\* ValidateRefreshTokenUseCase.
Accepted(dev, iat) == row[dev] # None /\ ~(iat < row[dev].lastActiveDate)

\* jsonwebtoken: a token is expired from the second of its exp on.
Expired(iat) == clock >= iat + TTL

-----------------------------------------------------------------------------
Init ==
    /\ row = [d \in Devices |-> None]
    /\ given = {}
    /\ jar = [c \in Clients |-> None]
    /\ req = [r \in Requests |-> Idle]
    /\ clock = 0
    /\ faults = 0
    /\ ended = {}
    /\ disturbed = {}

-----------------------------------------------------------------------------
(* Login, with a password or through a provider *)

Fresh(d) ==
    /\ row[d] = None
    /\ d \notin ended
    /\ \A t \in given : t.dev # d
    /\ \A q \in Requests : Dev(q) # d /\ req[q].target # d

\* The credentials are right; the tokens are signed for a device id nobody has.
Login(r, c, u, d) ==
    /\ req[r] = Idle
    /\ Fresh(d)
    /\ req' = [req EXCEPT ![r] = [Request("login", "create", c, u, d) EXCEPT !.new = clock]]
    /\ UNCHANGED <<row, jar, clock, faults, history>>

\* createDevice; its error is swallowed and the tokens are sent all the same.
CreateDevice(r) ==
    /\ At(r, "create")
    /\ \/ /\ row' = [row EXCEPT ![Dev(r)] = [user |-> req[r].user,
                                             lastActiveDate |-> req[r].new]]
          /\ UNCHANGED faults
       \/ Fault("db") /\ UNCHANGED row
    /\ GoTo(r, "respond")
    /\ UNCHANGED <<jar, clock, history>>

-----------------------------------------------------------------------------
(* Requests with the refresh cookie, behind JwtRefreshGuard *)

\* A tab sends the cookie the browser has; a device id to end may be any.
Start(r, c, op, target) ==
    /\ req[r] = Idle
    /\ jar[c] # None
    /\ op \in {"refresh", "logout", "others", "terminate"}
    /\ (target # None) <=> (op = "terminate")
    /\ req' = [req EXCEPT ![r] =
                 [Request(op, "guard", c, jar[c].user, jar[c].dev)
                    EXCEPT !.old = jar[c].iat, !.target = target]]
    /\ UNCHANGED <<row, jar, clock, faults, history>>

AfterGuard == [refresh |-> "sign", logout |-> "find", others |-> "delete",
               terminate |-> "find"]

\* The token's signature is right; it must not be expired, and its device's row
\* must accept it.  A failed query finds no row.
Guard(r) ==
    /\ At(r, "guard")
    /\ \/ /\ IF ~Expired(req[r].old) /\ Accepted(Dev(r), req[r].old)
             THEN GoTo(r, AfterGuard[req[r].op])
             ELSE Over(r)
          /\ UNCHANGED faults
       \/ Fault("db") /\ Over(r)
    /\ UNCHANGED <<row, jar, clock, history>>

\* A refresh that is past the guard and whose answer has not arrived.
Refreshing(q) == req[q].pc \in {"sign", "lookup", "update", "respond"} /\ req[q].op = "refresh"

\* AuthController.refreshTokens signs a new pair for the same device.
Sign(r) ==
    /\ At(r, "sign")
    /\ req' = [req EXCEPT ![r].pc = "lookup", ![r].new = clock]
    /\ disturbed' = disturbed \cup
         {d \in Devices : d = Dev(r) /\ \E q \in Requests \ {r} : Refreshing(q) /\ Dev(q) = d}
    /\ UNCHANGED <<row, jar, clock, faults, given, ended>>

\* UpdateTokensUseCase finds the row, or the request is unauthorized.
Lookup(r) ==
    /\ At(r, "lookup")
    /\ \/ /\ IF row[Dev(r)] # None THEN GoTo(r, "update") ELSE Over(r)
          /\ UNCHANGED faults
       \/ Fault("db") /\ Over(r)
    /\ UNCHANGED <<row, jar, clock, history>>

Active(r, iat) == row' = [row EXCEPT ![Dev(r)].lastActiveDate = iat]

\* Mutants: the row keeps the date of the old token; a row that is gone is
\* created anew.
UpdatedToOld(r)  == row[Dev(r)] # None /\ Active(r, req[r].old)
UpdatedAgain(r)  == row' = [row EXCEPT ![Dev(r)] = [user |-> req[r].user,
                                                    lastActiveDate |-> req[r].new]]

\* The update by primary key fails when the row is gone.
Updated(r) == row[Dev(r)] # None /\ Active(r, req[r].new)

\* updateDevice; its error is swallowed and the new tokens are sent all the same.
UpdateDevice(r) ==
    /\ At(r, "update")
    /\ GoTo(r, "respond")
    /\ \/ Updated(r) /\ UNCHANGED <<faults, disturbed>>
       \/ row[Dev(r)] = None /\ UNCHANGED <<row, faults, disturbed>>
       \/ Fault("db") /\ disturbed' = disturbed \cup {Dev(r)} /\ UNCHANGED row
    /\ UNCHANGED <<jar, clock, given, ended>>

\* Mutant: the old token is sent again.
SignedBefore(r) == [user |-> req[r].user, dev |-> Dev(r), iat |-> req[r].old]

\* The token signed for the request, which the answer carries as a cookie.
Signed(r) == [user |-> req[r].user, dev |-> Dev(r), iat |-> req[r].new]

\* The browser stores the new cookie.
Respond(r) ==
    /\ At(r, "respond")
    /\ jar' = [jar EXCEPT ![req[r].client] = Signed(r)]
    /\ given' = given \cup {Signed(r)}
    /\ Over(r)
    /\ UNCHANGED <<row, clock, faults, ended, disturbed>>

\* The answer does not reach the browser.
Lose(r) ==
    /\ At(r, "respond")
    /\ Fault("lost")
    /\ Over(r)
    /\ disturbed' = disturbed \cup {Dev(r)}
    /\ UNCHANGED <<row, jar, clock, given, ended>>

-----------------------------------------------------------------------------
(* Ending sessions *)

\* LogoutDeviceUseCase looks for its own row, TerminateSessionUseCase for the
\* one to end.
Find(r) ==
    /\ At(r, "find")
    /\ LET found == IF req[r].op = "logout" THEN Dev(r) ELSE req[r].target IN
       \/ /\ IF row[found] = None THEN Over(r)
             ELSE req' = [req EXCEPT ![r].owner = row[found].user,
                                     ![r].pc = IF req[r].op = "logout" THEN "delete" ELSE "own"]
          /\ UNCHANGED faults
       \/ Fault("db") /\ Over(r)
    /\ UNCHANGED <<row, jar, clock, history>>

\* Mutant: a session of another user is not refused.
MayEndAnyone(r) == TRUE

\* The session to end belongs to the user of the token, or ForbiddenException.
MayEnd(r) == req[r].owner = req[r].user

\* TerminateSessionUseCase needs some row of the user, and compares the users.
FindOwn(r) ==
    /\ At(r, "own")
    /\ \/ /\ IF (\E d \in Devices : row[d] # None /\ row[d].user = req[r].user) /\ MayEnd(r)
             THEN GoTo(r, "delete")
             ELSE Over(r)
          /\ UNCHANGED faults
       \/ Fault("db") /\ Over(r)
    /\ UNCHANGED <<row, jar, clock, history>>

\* PasswordRecoveryUseCase ends the sessions of a user without a guard.
Recover(r, u) ==
    /\ req[r] = Idle
    /\ req' = [req EXCEPT ![r] = Request("recover", "delete", None, u, None)]
    /\ UNCHANGED <<row, jar, clock, faults, history>>

\* The rows deleteUserDevices, deleteDevice, deleteOthers and deleteUserSessions
\* delete.  deleteOthers names no user.
Doomed(r) ==
    CASE req[r].op = "logout"    -> {d \in {Dev(r)} : row[d] # None /\ row[d].user = req[r].user}
      [] req[r].op = "terminate" -> {d \in {req[r].target} : row[d] # None}
      [] req[r].op = "others"    -> {d \in Devices \ {Dev(r)} : row[d] # None}
      [] req[r].op = "recover"   -> {d \in Devices : row[d] # None /\ row[d].user = req[r].user}

\* Errors are swallowed, and the answer says nothing of the rows.
Delete(r) ==
    /\ At(r, "delete")
    /\ \/ /\ row' = [d \in Devices |-> IF d \in Doomed(r) THEN None ELSE row[d]]
          /\ ended' = ended \cup Doomed(r)
          /\ UNCHANGED faults
       \/ Fault("db") /\ UNCHANGED <<row, ended>>
    /\ Over(r)
    /\ UNCHANGED <<jar, clock, given, disturbed>>

-----------------------------------------------------------------------------
(* The process and the clock *)

\* The gateway stops and starts again; answers that were ready are lost.
Crash ==
    /\ Fault("crash")
    /\ req' = [r \in Requests |-> Idle]
    /\ disturbed' = disturbed \cup {d \in Devices : \E r \in Requests : At(r, "respond") /\ Dev(r) = d}
    /\ UNCHANGED <<row, jar, clock, given, ended>>

Tick ==
    /\ clock < MaxClock
    /\ clock' = clock + 1
    /\ UNCHANGED <<row, jar, req, faults, history>>

-----------------------------------------------------------------------------
Arriving(r) ==
    \/ \E c \in Clients, u \in Users, d \in Devices : Login(r, c, u, d)
    \/ \E c \in Clients, op \in Operations, target \in Devices \cup {None} :
         Start(r, c, op, target)
    \/ \E u \in Users : Recover(r, u)

Handling(r) ==
    \/ CreateDevice(r)
    \/ Guard(r)
    \/ Sign(r)
    \/ Lookup(r)
    \/ UpdateDevice(r)
    \/ Respond(r)
    \/ Lose(r)
    \/ Find(r)
    \/ FindOwn(r)
    \/ Delete(r)

Next ==
    \/ \E r \in Requests : Arriving(r) \/ Handling(r)
    \/ Crash
    \/ Tick

Spec == Init /\ [][Next]_vars

-----------------------------------------------------------------------------
(* Properties *)

\* Every variable has its type.
TypeOK ==
    /\ row \in [Devices -> Rows \cup {None}]
    /\ given \subseteq Tokens
    /\ jar \in [Clients -> Tokens \cup {None}]
    /\ req \in [Requests -> InFlight \cup {Idle}]
    /\ clock \in Nat
    /\ faults \in Nat
    /\ ended \subseteq Devices
    /\ disturbed \subseteq Devices

Answering(t) ==
    \E r \in Requests : At(r, "respond") /\ Dev(r) = t.dev /\ req[r].client # None

\* A browser that refreshes from one tab at a time and gets its answers is not
\* logged out: until its session ends, its cookie is accepted, or the answer
\* with the accepted one is on its way.
HolderIsAccepted ==
    \A c \in Clients : jar[c] # None /\ row[jar[c].dev] # None /\ jar[c].dev \notin disturbed
        => Accepted(jar[c].dev, jar[c].iat) \/ Answering(jar[c])

\* A device has one generation of tokens at a time: where refreshes neither
\* overlap nor are cut short, every token a browser ever got that is still
\* accepted was signed in the second of the last activity.  (Of that second there
\* may be two: the guard cannot tell a token from one refreshed right away.)
OneGeneration ==
    \A t \in given : row[t.dev] # None /\ t.dev \notin disturbed /\ Accepted(t.dev, t.iat)
        => t.iat = row[t.dev].lastActiveDate

Ends(d)       == row[d] # None /\ row'[d] = None
Deletes(r)    == At(r, "delete") /\ ~At(r, "delete")'

\* A session is ended by a request of its own user, or by 'all other devices'.
EndedByOwner ==
    [][\A d \in Devices : Ends(d) =>
         \E r \in Requests : /\ Deletes(r)
                             /\ req[r].op = "others" \/ req[r].user = row[d].user]_vars

\* How far the session of a device is in the abstract lifecycle.
Stage(d) ==
    IF row[d] # None THEN [state |-> "live", user |-> row[d].user]
    ELSE [state |-> IF d \in ended THEN "ended" ELSE "none"]

sessions == [d \in Devices |-> Stage(d)]

Lifecycle == INSTANCE SessionLifecycle WITH session <- sessions

\* The feature implements SessionLifecycle: no refresh, however late, brings
\* back a session that was ended, and none changes hands.
ImplementsLifecycle == Lifecycle!Spec

-----------------------------------------------------------------------------
(* What the repository says and the code does not do *)

\* devices: 'Terminate all other (exclude current) devices sessions', of the
\* user who asks.
OthersAreOwn ==
    [][\A r \in Requests, d \in Devices :
         Deletes(r) /\ req[r].op = "others" /\ Ends(d) => row[d].user = req[r].user]_vars

=============================================================================
