-------------------------- MODULE Accounts_proofs --------------------------
(***************************************************************************)
(* Proofs about Accounts for any number of users, codes and requests: its  *)
(* types, that nobody is locked out of confirming, that sessions belong to *)
(* confirmed users, and whose password a recovery code sets.               *)
(***************************************************************************)
EXTENDS Accounts, FiniteSetTheorems, TLAPS

\* The steps at which a request acts on a user, and holds a code.
Acting  == {"confirm", "update", "create", "retry", "upsert", "sessions", "drop", "set",
            "providers", "merge", "refresh", "device", "name", "rename", "ban", "unban"}
Storing == {"create", "retry", "upsert"}
Holding == {"insert", "update", "mail", "undo", "set"} \cup Storing

\* What a request knows at each step.
Sound ==
    {q \in InFlight \cup {Idle} :
        /\ q.pc \in Acting => q.user \in Users
        /\ q.pc \in Holding => q.code \in Codes
        /\ q.pc \in {"insert", "signup"} => q.email \in Emails /\ q.name \in Names
        /\ q.pc \in {"name", "rename"} => q.name \in Names
        /\ q.pc \in {"signup", "providers", "merge", "refresh"} => q.provider \in Providers
        /\ q.pc \in {"insert", "undo"} => q.op = "register"
        /\ q.pc = "insert" => q.user = None
        /\ q.pc = "update" => q.op = "resend"
        /\ q.pc \in Storing => q.op \in {"recover", "again"}
        /\ q.pc = "mail" => q.op \in {"register", "resend", "recover", "again"}
        /\ q.pc = "mail" /\ q.op # "register" => q.user \in Users}

Prepared == req \in [Requests -> Sound]

\* The types of the rows and the histories.
Typed ==
    /\ user \in [Users -> Rows \cup {None}]
    /\ code \in [Users -> Stored \cup {None}]
    /\ recovery \in [Users -> Stored \cup {None}]
    /\ providers \in [Users -> [Providers -> Nat]]
    /\ banned \subseteq Users
    /\ loggedIn \subseteq Users
    /\ mailed \subseteq Codes
    /\ clock \in Nat
    /\ started \in Nat
    /\ happened \subseteq Faults
    /\ issued \in [Codes -> Users \cup {None}]
    /\ owed \in [Users -> Int]
    /\ helped \subseteq Users
    /\ overlapped \subseteq Users

\* Only users that exist have rows elsewhere.
Kept ==
    \A u \in Users : user[u] = None =>
        /\ code[u] = None /\ recovery[u] = None
        /\ u \notin banned \cup loggedIn

-----------------------------------------------------------------------------
(* The requests *)

\* No request, and what there is of one.
LEMMA IdleIs ==
    /\ Idle \in Sound
    /\ Idle.pc = "idle" /\ Idle.user = None /\ Idle.code = None
  BY DEF Sound, Idle, Request, Acting, Holding, Storing

\* A new request, and what is filled in.
LEMMA RequestIs ==
    ASSUME NEW op \in Operations, NEW pc \in Steps, NEW u \in Users \cup {None}
    PROVE  LET q == Request(op, pc, u) IN
           q \in InFlight /\ q.op = op /\ q.pc = pc /\ q.user = u
  BY DEF InFlight, Request

LEMMA WithCode ==
    ASSUME NEW q \in InFlight, NEW k \in Codes
    PROVE  LET x == [q EXCEPT !.code = k] IN
           x \in InFlight /\ x.op = q.op /\ x.pc = q.pc /\ x.user = q.user /\ x.code = k
  BY DEF InFlight

LEMMA WithUser ==
    ASSUME NEW q \in InFlight, NEW u \in Users
    PROVE  LET x == [q EXCEPT !.user = u] IN
           x \in InFlight /\ x.op = q.op /\ x.pc = q.pc /\ x.user = u /\ x.code = q.code
  BY DEF InFlight

LEMMA WithName ==
    ASSUME NEW q \in InFlight, NEW n \in Names
    PROVE  LET x == [q EXCEPT !.name = n] IN
           x \in InFlight /\ x.op = q.op /\ x.pc = q.pc /\ x.user = q.user /\ x.name = n
  BY DEF InFlight

\* A request that goes on keeps all but its step.
LEMMA GoToIs ==
    ASSUME Prepared, NEW r \in Requests, NEW pc \in Steps, GoTo(r, pc), ~At(r, "idle")
    PROVE  /\ req'[r] = [req[r] EXCEPT !.pc = pc] /\ req'[r] \in InFlight
           /\ req'[r].pc = pc /\ req'[r].op = req[r].op /\ req'[r].user = req[r].user
           /\ req'[r].email = req[r].email /\ req'[r].name = req[r].name
           /\ req'[r].code = req[r].code /\ req'[r].provider = req[r].provider
           /\ \A q \in Requests \ {r} : req'[q] = req[q]
<1>1. req[r] \in InFlight
  BY IdleIs DEF Prepared, Sound, At
<1>2. req'[r] = [req[r] EXCEPT !.pc = pc] /\ \A q \in Requests \ {r} : req'[q] = req[q]
  BY DEF GoTo, Prepared
<1> QED
  BY <1>1, <1>2 DEF InFlight

\* The values a request has while it is on its way.
LEMMA PreparedIs ==
    ASSUME Prepared, NEW r \in Requests
    PROVE  /\ req[r] \in InFlight \cup {Idle}
           /\ req[r].pc \in Acting => User(r) \in Users
           /\ req[r].pc \in Holding => req[r].code \in Codes
           /\ req[r].pc \in {"insert", "signup"} => req[r].email \in Emails /\ req[r].name \in Names
           /\ req[r].pc \in {"name", "rename"} => req[r].name \in Names
           /\ req[r].pc \in {"signup", "providers", "merge", "refresh"} =>
                  req[r].provider \in Providers
           /\ req[r].pc \in {"insert", "undo"} => req[r].op = "register"
           /\ req[r].pc = "insert" => User(r) = None
           /\ req[r].pc = "update" => req[r].op = "resend"
           /\ req[r].pc \in Storing => req[r].op \in {"recover", "again"}
           /\ req[r].pc = "mail" => req[r].op \in {"register", "resend", "recover", "again"}
           /\ req[r].pc = "mail" /\ req[r].op # "register" => User(r) \in Users
  BY DEF Prepared, Sound, User

\* A request is over, begins or goes on.
LEMMA OverPrepared ==
    ASSUME Prepared, NEW r \in Requests, Over(r)
    PROVE  Prepared'
  BY IdleIs DEF Prepared, Over

LEMMA BegunPrepared ==
    ASSUME Prepared, NEW r \in Requests, NEW q \in Sound, req' = [req EXCEPT ![r] = q]
    PROVE  Prepared'
  BY DEF Prepared

LEMMA GoToPrepared ==
    ASSUME Prepared, NEW r \in Requests, NEW pc \in Steps, GoTo(r, pc), ~At(r, "idle"),
           pc \in Acting => User(r) \in Users,
           pc \in Holding => req[r].code \in Codes,
           pc = "rename" => req[r].name \in Names,
           pc \in {"merge", "refresh"} => req[r].provider \in Providers,
           pc = "undo" => req[r].op = "register",
           pc = "retry" => req[r].op \in {"recover", "again"},
           pc = "mail" => /\ req[r].op \in {"register", "resend", "recover", "again"}
                          /\ req[r].op # "register" => User(r) \in Users,
           pc \notin {"insert", "signup", "name", "providers", "update", "create", "upsert"}
    PROVE  Prepared'
<1>1. req'[r] \in Sound
  BY GoToIs DEF Sound, User, Storing
<1> QED
  BY <1>1, GoToIs DEF Prepared, GoTo

\* What a new request has found.
Reason(q) ==
    /\ q.pc \in {"insert", "update", "create", "upsert"} => FreshCode(q.code)
    /\ q.pc = "confirm" => /\ code[q.user] # None /\ code[q.user].code = q.code
                           /\ q.code \in mailed
    /\ q.pc = "set" => q.user \in FindRecovery(q.code)
    /\ q.pc = "device" => MayLogin(q.user)

\* Requests arrive with what they need.
LEMMA ArrivingPrepared ==
    ASSUME Prepared, NEW r \in Requests, Arriving(r)
    PROVE  /\ Prepared' /\ req[r] = Idle
           /\ \E q \in Sound : /\ req' = [req EXCEPT ![r] = q]
                              /\ q.pc \in {"insert", "confirm", "update", "create", "upsert",
                                           "drop", "set", "signup", "providers", "device",
                                           "name", "ban", "unban"}
                              /\ Reason(q)
           /\ UNCHANGED <<rows, mailed, clock, happened, history>> /\ started' = started + 1
<1> DEFINE Arrives(q) ==
      /\ req[r] = Idle /\ req' = [req EXCEPT ![r] = q]
      /\ UNCHANGED <<rows, mailed, clock, happened, history>> /\ started' = started + 1
<1> DEFINE First == {"insert", "confirm", "update", "create", "upsert", "drop", "set", "signup",
                     "providers", "device", "name", "ban", "unban"}
<1>1. SUFFICES \E q \in Sound : q.pc \in First /\ Reason(q) /\ Arrives(q)
  BY BegunPrepared
<1>2. ASSUME NEW e \in Emails, NEW n \in Names, NEW k \in Codes, Register(r, e, n, k)
      PROVE  \E q \in Sound : q.pc \in First /\ Reason(q) /\ Arrives(q)
  <2> DEFINE b == Request("register", "insert", None)
             q == [b EXCEPT !.email = e, !.name = n, !.code = k]
  <2>1. b \in InFlight /\ b.op = "register" /\ b.pc = "insert" /\ b.user = None
    BY RequestIs DEF Operations, Steps
  <2> HIDE DEF b
  <2>2. q \in Sound /\ q.pc \in First /\ Reason(q)
    <3>1. q \in InFlight /\ q.op = "register" /\ q.pc = "insert" /\ q.user = None
          /\ q.email = e /\ q.name = n /\ q.code = k
      BY <2>1 DEF InFlight
    <3> HIDE DEF q
    <3> QED
      BY <1>2, <3>1 DEF Sound, Acting, Holding, Storing, Reason, Register
  <2> USE DEF b
  <2>3. Arrives(q)
    BY <1>2 DEF Register, Begin
  <2> QED
    BY <2>2, <2>3
<1>3. ASSUME NEW k \in Codes, NEW u \in Users, Confirm(r, k, u)
      PROVE  \E q \in Sound : q.pc \in First /\ Reason(q) /\ Arrives(q)
  <2> DEFINE b == Request("confirm", "confirm", u)
             q == [b EXCEPT !.code = k]
  <2>1. b \in InFlight /\ b.op = "confirm" /\ b.pc = "confirm" /\ b.user = u
    BY RequestIs DEF Operations, Steps
  <2> HIDE DEF b
  <2>2. q \in Sound /\ q.pc \in First /\ Reason(q)
    <3>1. q \in InFlight /\ q.op = "confirm" /\ q.pc = "confirm" /\ q.user = u /\ q.code = k
      BY <2>1, WithCode
    <3> HIDE DEF q
    <3> QED
      BY <1>3, <3>1 DEF Sound, Acting, Holding, Storing, Reason, Confirm
  <2> USE DEF b
  <2>3. Arrives(q)
    BY <1>3 DEF Confirm, Begin
  <2> QED
    BY <2>2, <2>3
<1>4. ASSUME NEW k \in Codes, NEW u \in Users, Resend(r, u, k)
      PROVE  \E q \in Sound : q.pc \in First /\ Reason(q) /\ Arrives(q)
  <2> DEFINE b == Request("resend", "update", u)
             q == [b EXCEPT !.code = k]
  <2>1. b \in InFlight /\ b.op = "resend" /\ b.pc = "update" /\ b.user = u
    BY RequestIs DEF Operations, Steps
  <2> HIDE DEF b
  <2>2. q \in Sound /\ q.pc \in First /\ Reason(q)
    <3>1. q \in InFlight /\ q.op = "resend" /\ q.pc = "update" /\ q.user = u /\ q.code = k
      BY <2>1, WithCode
    <3> HIDE DEF q
    <3> QED
      BY <1>4, <3>1 DEF Sound, Acting, Holding, Storing, Reason, Resend
  <2> USE DEF b
  <2>3. Arrives(q)
    BY <1>4 DEF Resend, Begin
  <2> QED
    BY <2>2, <2>3
<1>5. ASSUME NEW k \in Codes, NEW u \in Users, Reset(r, k, u)
      PROVE  \E q \in Sound : q.pc \in First /\ Reason(q) /\ Arrives(q)
  <2>1. ASSUME NEW pc \in {"drop", "set"}
        PROVE  LET q == [Request("reset", pc, u) EXCEPT !.code = k] IN q \in Sound /\ q.pc = pc /\ q.user = u /\ q.code = k
    <3> DEFINE b == Request("reset", pc, u)
               q == [b EXCEPT !.code = k]
    <3>1. b \in InFlight /\ b.op = "reset" /\ b.pc = pc /\ b.user = u
      BY RequestIs DEF Operations, Steps
    <3> HIDE DEF b
    <3>2. q \in InFlight /\ q.op = "reset" /\ q.pc = pc /\ q.user = u /\ q.code = k
      BY <3>1, WithCode
    <3> HIDE DEF q
    <3>3. q \in Sound
      BY <3>2 DEF Sound, Acting, Holding, Storing
    <3> USE DEF q, b
    <3> QED
      BY <3>2, <3>3
  <2> DEFINE pc == IF Expired(recovery[u]) THEN "drop" ELSE "set"
             q  == [Request("reset", pc, u) EXCEPT !.code = k]
  <2>2. Arrives(q)
    BY <1>5 DEF Reset, Begin
  <2>3. q \in Sound /\ q.pc = pc /\ q.user = u /\ q.code = k
    BY <2>1
  <2> HIDE DEF q
  <2>4. Reason(q)
    BY <1>5, <2>3 DEF Reason, Reset
  <2> QED
    BY <2>2, <2>3, <2>4
<1>6. ASSUME NEW k \in Codes, NEW u \in Users, NEW op \in Operations, Recover(r, op, u, k)
      PROVE  \E q \in Sound : q.pc \in First /\ Reason(q) /\ Arrives(q)
  <2>1. op \in {"recover", "again"}
    BY <1>6 DEF Recover
  <2>2. ASSUME NEW pc \in {"create", "upsert"}
        PROVE  LET q == [Request(op, pc, u) EXCEPT !.code = k] IN q \in Sound /\ q.pc = pc /\ q.user = u /\ q.code = k
    <3> DEFINE b == Request(op, pc, u)
               q == [b EXCEPT !.code = k]
    <3>1. b \in InFlight /\ b.op = op /\ b.pc = pc /\ b.user = u
      BY <2>1, RequestIs DEF Operations, Steps
    <3> HIDE DEF b
    <3>2. q \in InFlight /\ q.op = op /\ q.pc = pc /\ q.user = u /\ q.code = k
      BY <3>1, WithCode
    <3> HIDE DEF q
    <3>3. q \in Sound
      BY <2>1, <3>2 DEF Sound, Acting, Holding, Storing
    <3> USE DEF q, b
    <3> QED
      BY <3>2, <3>3
  <2> DEFINE pc == IF op = "recover" THEN "create" ELSE "upsert"
             q  == [Request(op, pc, u) EXCEPT !.code = k]
  <2>3. Arrives(q)
    BY <1>6 DEF Recover, Begin
  <2>4. q \in Sound /\ q.pc = pc /\ q.user = u /\ q.code = k
    BY <2>2
  <2> HIDE DEF q
  <2>5. Reason(q)
    BY <1>6, <2>4 DEF Reason, Recover
  <2> QED
    BY <2>3, <2>4, <2>5
<1>7. ASSUME NEW p \in Providers, NEW e \in Emails, NEW n \in Names, OAuth(r, p, e, n)
      PROVE  \E q \in Sound : q.pc \in First /\ Reason(q) /\ Arrives(q)
  <2>1. ASSUME NEW pc \in {"signup", "providers"}, NEW u \in Users \cup {None},
               pc = "providers" => u \in Users
        PROVE  LET q == [Request("oauth", pc, u) EXCEPT !.email = e, !.name = n, !.provider = p]
               IN  q \in Sound /\ q.pc = pc /\ q.user = u
    <3> DEFINE b == Request("oauth", pc, u)
               q == [b EXCEPT !.email = e, !.name = n, !.provider = p]
    <3>1. b \in InFlight /\ b.op = "oauth" /\ b.pc = pc /\ b.user = u
      BY <2>1, RequestIs DEF Operations, Steps
    <3> HIDE DEF b
    <3>2. q \in InFlight /\ q.op = "oauth" /\ q.pc = pc /\ q.user = u
          /\ q.email = e /\ q.name = n /\ q.provider = p
      BY <3>1 DEF InFlight
    <3> HIDE DEF q
    <3>3. q \in Sound
      BY <2>1, <3>2 DEF Sound, Acting, Holding, Storing
    <3> USE DEF q, b
    <3> QED
      BY <3>2, <3>3
  <2> DEFINE pc == IF ByEmail(e) = {} THEN "signup" ELSE "providers"
             u  == IF ByEmail(e) = {} THEN None ELSE CHOOSE v \in ByEmail(e) : TRUE
             q  == [Request("oauth", pc, u) EXCEPT !.email = e, !.name = n, !.provider = p]
  <2>2. pc \in {"signup", "providers"} /\ u \in Users \cup {None}
        /\ (pc = "providers" => u \in Users)
    BY DEF ByEmail
  <2>3. Arrives(q)
    BY <1>7 DEF OAuth, Begin
  <2> HIDE DEF pc, u
  <2>4. q \in Sound /\ q.pc = pc /\ q.user = u
    BY <2>1, <2>2
  <2>5. Reason(q)
    BY <2>2, <2>4 DEF Reason
  <2> QED
    BY <2>2, <2>3, <2>4, <2>5
<1>8. ASSUME NEW u \in Users, Login(r, u)
      PROVE  \E q \in Sound : q.pc \in First /\ Reason(q) /\ Arrives(q)
  <2> DEFINE q == Request("login", "device", u)
  <2>2. q \in Sound /\ q.pc \in First /\ Reason(q)
    <3>1. q \in InFlight /\ q.op = "login" /\ q.pc = "device" /\ q.user = u
      BY RequestIs DEF Operations, Steps
    <3> HIDE DEF q
    <3> QED
      BY <1>8, <3>1 DEF Sound, Acting, Holding, Storing, Reason, Login
  <2>3. Arrives(q)
    BY <1>8 DEF Login, Begin
  <2> QED
    BY <2>2, <2>3
<1>9. ASSUME NEW u \in Users, NEW n \in Names, FillOut(r, u, n)
      PROVE  \E q \in Sound : q.pc \in First /\ Reason(q) /\ Arrives(q)
  <2> DEFINE b == Request("profile", "name", u)
             q == [b EXCEPT !.name = n]
  <2>1. b \in InFlight /\ b.op = "profile" /\ b.pc = "name" /\ b.user = u
    BY RequestIs DEF Operations, Steps
  <2> HIDE DEF b
  <2>2. q \in Sound /\ q.pc \in First /\ Reason(q)
    <3>1. q \in InFlight /\ q.op = "profile" /\ q.pc = "name" /\ q.user = u /\ q.name = n
      BY <2>1, WithName
    <3> HIDE DEF q
    <3> QED
      BY <1>9, <3>1 DEF Sound, Acting, Holding, Storing, Reason, FillOut
  <2> USE DEF b
  <2>3. Arrives(q)
    BY <1>9 DEF FillOut, Begin
  <2> QED
    BY <2>2, <2>3
<1>10. ASSUME NEW u \in Users, NEW op \in Operations, Administer(r, op, u)
      PROVE  \E q \in Sound : q.pc \in First /\ Reason(q) /\ Arrives(q)
  <2> DEFINE q == Request(op, op, u)
  <2>1. op \in {"ban", "unban"}
    BY <1>10 DEF Administer
  <2>2. q \in Sound /\ q.pc \in First /\ Reason(q)
    <3>1. q \in InFlight /\ q.op = op /\ q.pc = op /\ q.user = u
      BY <2>1, RequestIs DEF Operations, Steps
    <3> HIDE DEF q
    <3> QED
      BY <1>10, <2>1, <3>1 DEF Sound, Acting, Holding, Storing, Reason, Administer
  <2>3. Arrives(q)
    BY <1>10 DEF Administer, Begin
  <2> QED
    BY <2>2, <2>3
<1> QED
  BY <1>2, <1>3, <1>4, <1>5, <1>6, <1>7, <1>8, <1>9, <1>10 DEF Arriving

\* A request that finds its user, and goes on.
LEMMA FoundPrepared ==
    ASSUME Prepared, NEW r \in Requests, NEW pc \in {"mail", "device"}, NEW u \in Users,
           ~At(r, "idle"), pc = "mail" => req[r].op = "register" /\ req[r].code \in Codes,
           req' = [req EXCEPT ![r].pc = pc, ![r].user = u]
    PROVE  /\ Prepared'
           /\ req'[r].pc = pc /\ req'[r].user = u /\ req'[r].code = req[r].code
           /\ req'[r].op = req[r].op
           /\ \A q \in Requests \ {r} : req'[q] = req[q]
<1>1. req[r] \in InFlight
  BY IdleIs DEF Prepared, Sound, At
<1>2. /\ req'[r] = [[req[r] EXCEPT !.pc = pc] EXCEPT !.user = u]
      /\ \A q \in Requests \ {r} : req'[q] = req[q]
  BY DEF Prepared
<1>3. /\ req'[r] \in InFlight /\ req'[r].pc = pc /\ req'[r].user = u
      /\ req'[r].code = req[r].code /\ req'[r].op = req[r].op
  <2> DEFINE x == [req[r] EXCEPT !.pc = pc]
  <2>1. pc \in Steps
    BY DEF Steps
  <2>2. x \in InFlight /\ x.pc = pc /\ x.code = req[r].code /\ x.op = req[r].op
    BY <1>1, <2>1 DEF InFlight
  <2>3. req'[r] = [x EXCEPT !.user = u]
    BY <1>2
  <2> HIDE DEF x
  <2>4. /\ [x EXCEPT !.user = u] \in InFlight /\ [x EXCEPT !.user = u].op = x.op
        /\ [x EXCEPT !.user = u].pc = x.pc /\ [x EXCEPT !.user = u].user = u
        /\ [x EXCEPT !.user = u].code = x.code
    BY <2>2, WithUser
  <2>5. req'[r] \in InFlight
    BY <2>3, <2>4
  <2>6. req'[r].user = u
    BY <2>3, <2>4
  <2>7. req'[r].pc = pc
    BY <2>2, <2>3, <2>4
  <2>8. req'[r].code = req[r].code
    BY <2>2, <2>3, <2>4
  <2>9. req'[r].op = req[r].op
    BY <2>2, <2>3, <2>4
  <2> QED
    BY <2>5, <2>6, <2>7, <2>8, <2>9
<1>4. req'[r] \in Sound
  BY <1>3 DEF Sound, Acting, Holding, Storing
<1>5. Prepared'
  BY <1>2, <1>4 DEF Prepared
<1> QED
  BY <1>2, <1>3, <1>5

\* A mail leads on, to an end or to what the request owes.
LEMMA MailPrepared ==
    ASSUME Prepared, NEW r \in Requests, Mail(r)
    PROVE  /\ Prepared'
           /\ \/ Over(r)
              \/ GoTo(r, "sessions")
              \/ GoTo(r, "undo") /\ req[r].op = "register"
<1>1. At(r, "mail") /\ req[r].op \in {"register", "resend", "recover", "again"}
  BY PreparedIs DEF Mail, At
<1>2. \/ Continue(r, AfterMail[req[r].op])
      \/ Continue(r, AfterNoMail[req[r].op])
  BY DEF Mail
<1>3. /\ AfterMail["register"] = "idle" /\ AfterMail["resend"] = "idle"
      /\ AfterMail["recover"] = "sessions" /\ AfterMail["again"] = "sessions"
      /\ AfterNoMail["register"] = "undo" /\ AfterNoMail["resend"] = "idle"
      /\ AfterNoMail["recover"] = "sessions" /\ AfterNoMail["again"] = "sessions"
  BY DEF AfterMail, AfterNoMail
<1>4. \/ Over(r)
      \/ GoTo(r, "sessions") /\ req[r].op # "register"
      \/ GoTo(r, "undo") /\ req[r].op = "register"
  BY <1>1, <1>2, <1>3 DEF Continue
<1>5. req[r].op # "register" => User(r) \in Users
  BY <1>1, PreparedIs DEF At
<1>6. req[r].code \in Codes
  BY <1>1, PreparedIs DEF At, Holding
<1>7. Prepared'
  BY <1>1, <1>4, <1>5, <1>6, OverPrepared, GoToPrepared DEF At, Steps, Acting, Holding, Storing
<1> QED
  BY <1>4, <1>7

\* Every step keeps what requests know.
LEMMA HandlingPrepared ==
    ASSUME Prepared, NEW r \in Requests, Handling(r)
    PROVE  Prepared'
<1>1. CASE RegisterUser(r)
  <2>1. At(r, "insert") /\ req[r].op = "register" /\ req[r].code \in Codes
    BY <1>1, PreparedIs DEF RegisterUser, At, Holding
  <2>2. \/ \E u \in Users : req' = [req EXCEPT ![r].pc = "mail", ![r].user = u]
        \/ GoTo(r, "mail")
    BY <1>1 DEF RegisterUser
  <2> QED
    BY <2>1, <2>2, FoundPrepared, GoToPrepared DEF At, Steps, Acting, Holding, Storing
<1>2. CASE SignUp(r)
  <2>1. ~At(r, "idle")
    BY <1>2 DEF SignUp, At
  <2>2. \/ \E u \in Users : req' = [req EXCEPT ![r].pc = "device", ![r].user = u]
        \/ Over(r)
    BY <1>2 DEF SignUp
  <2> QED
    BY <2>1, <2>2, FoundPrepared, OverPrepared
<1>3. CASE \/ DeleteUser(r) \/ ConfirmUser(r) \/ EndSessions(r) \/ DropRecovery(r)
           \/ SetPassword(r) \/ CreateDevice(r) \/ Rename(r) \/ WriteBan(r)
  <2>1. Over(r)
    BY <1>3 DEF DeleteUser, ConfirmUser, EndSessions, DropRecovery, SetPassword, CreateDevice,
                Rename, WriteBan
  <2> QED
    BY <2>1, OverPrepared
<1>4. CASE UpdateCode(r)
  <2>1. At(r, "update") /\ GoTo(r, "mail")
    BY <1>4 DEF UpdateCode, AfterStore
  <2> QED
    BY <2>1, PreparedIs, GoToPrepared DEF At, Steps, Acting, Holding, Storing
<1>5. CASE CreateRecovery(r)
  <2>1. (At(r, "create") \/ At(r, "retry")) /\ (GoTo(r, "mail") \/ GoTo(r, "retry"))
    BY <1>5 DEF CreateRecovery, AfterStore
  <2> QED
    BY <2>1, PreparedIs, GoToPrepared DEF At, Steps, Acting, Holding, Storing
<1>6. CASE UpsertRecovery(r)
  <2>1. At(r, "upsert") /\ GoTo(r, "mail")
    BY <1>6 DEF UpsertRecovery, AfterStore
  <2> QED
    BY <2>1, PreparedIs, GoToPrepared DEF At, Steps, Acting, Holding, Storing
<1>7. CASE Mail(r)
  BY <1>7, MailPrepared
<1>8. CASE FindProviders(r)
  <2>1. At(r, "providers") /\ (GoTo(r, "refresh") \/ GoTo(r, "merge") \/ Over(r))
    BY <1>8 DEF FindProviders
  <2> QED
    BY <2>1, PreparedIs, GoToPrepared, OverPrepared DEF At, Steps, Acting, Holding, Storing
<1>9. CASE WriteProvider(r)
  <2>1. (At(r, "merge") \/ At(r, "refresh")) /\ GoTo(r, "device")
    BY <1>9 DEF WriteProvider
  <2> QED
    BY <2>1, PreparedIs, GoToPrepared DEF At, Steps, Acting, Holding, Storing
<1>10. CASE FindName(r)
  <2>1. At(r, "name") /\ (GoTo(r, "rename") \/ Over(r))
    BY <1>10 DEF FindName
  <2> QED
    BY <2>1, PreparedIs, GoToPrepared, OverPrepared DEF At, Steps, Acting, Holding, Storing
<1> QED
  BY <1>1, <1>2, <1>3, <1>4, <1>5, <1>6, <1>7, <1>8, <1>9, <1>10 DEF Handling

-----------------------------------------------------------------------------
(* The rows *)

\* What the updates of a user row do.
LEMMA RowIs ==
    ASSUME NEW w \in Rows
    PROVE  /\ w # None
           /\ [w EXCEPT !.confirmed = TRUE] \in Rows /\ [w EXCEPT !.confirmed = TRUE].confirmed
           /\ [w EXCEPT !.password = TRUE] \in Rows
           /\ [w EXCEPT !.password = TRUE].confirmed = w.confirmed
           /\ [w EXCEPT !.removed = TRUE] \in Rows
           /\ [w EXCEPT !.removed = TRUE].confirmed = w.confirmed
           /\ \A n \in Names : /\ [w EXCEPT !.name = n] \in Rows
                               /\ [w EXCEPT !.name = n].confirmed = w.confirmed
  BY NoneAssumption DEF Rows

\* A code that is stored.
LEMMA GoodIs ==
    ASSUME Typed, NEW k \in Codes
    PROVE  Good(k) \in Stored /\ Good(k) # None /\ Good(k).code = k
<1>1. clock + CodeLife \in Nat
  BY ConstantsAssumption DEF Typed
<1>2. Good(k) \in Stored /\ Good(k).code = k
  BY <1>1 DEF Good, Stored
<1> QED
  BY <1>2, NoneAssumption

\* How the user rows may change, as far as the others depend on them.
UserSet(u, w) == user' = [user EXCEPT ![u] = w]

LEMMA UserSetIs ==
    ASSUME Typed, NEW u \in Users, NEW w \in Rows, UserSet(u, w)
    PROVE  /\ user' \in [Users -> Rows \cup {None}]
           /\ user'[u] = w /\ user'[u] # None
           /\ \A v \in Users \ {u} : user'[v] = user[v]
  BY RowIs DEF Typed, UserSet

\* The row each handler writes.
LEMMA RegisterUserIs ==
    ASSUME Typed, Prepared, NEW r \in Requests, RegisterUser(r)
    PROVE  /\ At(r, "insert") /\ req[r].op = "register" /\ req[r].code \in Codes
           /\ \/ \E u \in Users, w \in Rows :
                   /\ FreshUser(u) /\ UserSet(u, w) /\ ~w.confirmed
                   /\ code' = [code EXCEPT ![u] = Good(req[r].code)]
                   /\ req' = [req EXCEPT ![r].pc = "mail", ![r].user = u]
              \/ GoTo(r, "mail") /\ UNCHANGED <<user, code>>
                 /\ (UNCHANGED happened \/ happened' = happened \cup {"db"})
<1>1. /\ At(r, "insert") /\ req[r].op = "register" /\ req[r].code \in Codes
      /\ req[r].email \in Emails /\ req[r].name \in Names
  BY PreparedIs DEF RegisterUser, At, Holding
<1> DEFINE w == [email |-> req[r].email, name |-> req[r].name, password |-> TRUE,
                 confirmed |-> FALSE, removed |-> FALSE]
<1>2. w \in Rows /\ ~w.confirmed
  BY <1>1 DEF Rows
<1>3. \/ \E u \in Users :
            /\ FreshUser(u) /\ UserSet(u, w)
            /\ code' = [code EXCEPT ![u] = Good(req[r].code)]
            /\ req' = [req EXCEPT ![r].pc = "mail", ![r].user = u]
      \/ GoTo(r, "mail") /\ UNCHANGED <<user, code>>
         /\ (UNCHANGED happened \/ happened' = happened \cup {"db"})
  BY DEF RegisterUser, UserSet, Swallowed, Fault, NoFault
<1> HIDE DEF w
<1> QED
  BY <1>1, <1>2, <1>3

LEMMA SignUpIs ==
    ASSUME Typed, Prepared, NEW r \in Requests, SignUp(r)
    PROVE  /\ At(r, "signup") /\ req[r].provider \in Providers
           /\ \/ \E u \in Users, w \in Rows :
                   /\ FreshUser(u) /\ UserSet(u, w) /\ w.confirmed
                   /\ providers' = [providers EXCEPT ![u][req[r].provider] = 1]
                   /\ req' = [req EXCEPT ![r].pc = "device", ![r].user = u]
              \/ Over(r) /\ UNCHANGED <<user, providers>>
<1>1. /\ At(r, "signup") /\ req[r].provider \in Providers
      /\ req[r].email \in Emails /\ req[r].name \in Names
  BY PreparedIs DEF SignUp, At
<1> DEFINE w == [email |-> req[r].email, name |-> req[r].name, password |-> FALSE,
                 confirmed |-> TRUE, removed |-> FALSE]
<1>2. w \in Rows /\ w.confirmed
  BY <1>1 DEF Rows
<1>3. \/ \E u \in Users :
            /\ FreshUser(u) /\ UserSet(u, w)
            /\ providers' = [providers EXCEPT ![u][req[r].provider] = 1]
            /\ req' = [req EXCEPT ![r].pc = "device", ![r].user = u]
      \/ Over(r) /\ UNCHANGED <<user, providers>>
  BY DEF SignUp, UserSet
<1> HIDE DEF w
<1> QED
  BY <1>1, <1>2, <1>3

LEMMA ConfirmUserIs ==
    ASSUME Typed, Prepared, NEW r \in Requests, ConfirmUser(r)
    PROVE  /\ At(r, "confirm") /\ User(r) \in Users /\ Over(r)
           /\ \/ \E w \in Rows : /\ Exists(User(r)) /\ UserSet(User(r), w) /\ w.confirmed
                                 /\ code[User(r)] # None
                                 /\ code' = [code EXCEPT ![User(r)] = None]
                                 /\ UNCHANGED happened
              \/ UNCHANGED <<user, code>>
<1>1. At(r, "confirm") /\ User(r) \in Users /\ Over(r)
  BY PreparedIs DEF ConfirmUser, At, Acting
<1>2. CASE UNCHANGED <<user, code>>
  BY <1>1, <1>2
<1>3. CASE ~UNCHANGED <<user, code>>
  <2> DEFINE u == User(r)
             w == [user[u] EXCEPT !.confirmed = TRUE]
  <2>1. /\ Exists(u) /\ code[u] # None /\ code' = [code EXCEPT ![u] = None]
        /\ user' = [user EXCEPT ![u].confirmed = TRUE] /\ UNCHANGED happened
    BY <1>3 DEF ConfirmUser, Confirmed, NoFault
  <2>2. user[u] \in Rows
    BY <1>1, <2>1 DEF Typed, Exists
  <2>3. w \in Rows /\ w.confirmed
    BY <2>2, RowIs
  <2>4. UserSet(u, w)
    BY <2>1 DEF UserSet
  <2> HIDE DEF w
  <2> QED
    BY <1>1, <2>1, <2>3, <2>4
<1> QED
  BY <1>2, <1>3

LEMMA SetPasswordIs ==
    ASSUME Typed, Prepared, NEW r \in Requests, SetPassword(r)
    PROVE  /\ At(r, "set") /\ User(r) \in Users /\ Over(r)
           /\ \/ \E w \in Rows : /\ Exists(User(r)) /\ UserSet(User(r), w)
                                 /\ w.confirmed = user[User(r)].confirmed
                                 /\ recovery[User(r)] # None
                                 /\ recovery' = [recovery EXCEPT ![User(r)] = None]
                                 /\ owed' = [owed EXCEPT ![User(r)] = @ - 1]
              \/ UNCHANGED <<user, recovery, owed>>
<1>1. At(r, "set") /\ User(r) \in Users /\ Over(r)
  BY PreparedIs DEF SetPassword, At, Acting
<1>2. CASE UNCHANGED <<user, recovery, owed>>
  BY <1>1, <1>2
<1>3. CASE ~UNCHANGED <<user, recovery, owed>>
  <2> DEFINE u == User(r)
             w == [user[u] EXCEPT !.password = TRUE]
  <2>1. /\ HasRecovery(u) /\ user' = [user EXCEPT ![u].password = TRUE]
        /\ recovery' = [recovery EXCEPT ![u] = None]
        /\ owed' = [owed EXCEPT ![u] = @ - 1]
    BY <1>3 DEF SetPassword
  <2>2. user[u] \in Rows /\ Exists(u) /\ recovery[u] # None
    BY <1>1, <2>1 DEF Typed, Exists, HasRecovery
  <2>3. w \in Rows /\ w.confirmed = user[u].confirmed
    BY <2>2, RowIs
  <2>4. UserSet(u, w)
    BY <2>1 DEF UserSet
  <2> HIDE DEF w
  <2> QED
    BY <1>1, <2>1, <2>2, <2>3, <2>4
<1> QED
  BY <1>2, <1>3

LEMMA WriteProviderIs ==
    ASSUME Typed, Prepared, NEW r \in Requests, WriteProvider(r)
    PROVE  /\ At(r, "merge") \/ At(r, "refresh")
           /\ User(r) \in Users /\ GoTo(r, "device")
           /\ providers' \in [Users -> [Providers -> Nat]]
           /\ overlapped' \subseteq Users
           /\ \/ \E w \in Rows : /\ Exists(User(r)) /\ UserSet(User(r), w) /\ w.confirmed
                                 /\ helped' = helped \cup {User(r)}
                                 /\ UNCHANGED happened
              \/ /\ UNCHANGED <<user, helped>>
                 /\ (~Exists(User(r)) /\ UNCHANGED happened) \/ happened' = happened \cup {"db"}
<1>1. (At(r, "merge") \/ At(r, "refresh")) /\ User(r) \in Users /\ GoTo(r, "device")
  BY PreparedIs DEF WriteProvider, At, Acting
<1>2. req[r].provider \in Providers
  BY <1>1, PreparedIs DEF At
<1>3. providers' \in [Users -> [Providers -> Nat]]
  BY <1>1, <1>2 DEF WriteProvider, Typed
<1>4. overlapped' \subseteq Users
  BY <1>1 DEF WriteProvider, Typed
<1>5. CASE /\ UNCHANGED <<user, helped>>
           /\ (~Exists(User(r)) /\ UNCHANGED happened) \/ happened' = happened \cup {"db"}
  BY <1>1, <1>3, <1>4, <1>5
<1>6. CASE ~ /\ UNCHANGED <<user, helped>>
             /\ (~Exists(User(r)) /\ UNCHANGED happened) \/ happened' = happened \cup {"db"}
  <2> DEFINE u == User(r)
             w == [user[u] EXCEPT !.confirmed = TRUE]
  <2>1. /\ Exists(u) /\ user' = [user EXCEPT ![u].confirmed = TRUE]
        /\ helped' = helped \cup {u} /\ UNCHANGED happened
    BY <1>6 DEF WriteProvider, Swallowed, Fault, NoFault
  <2>2. user[u] \in Rows
    BY <1>1, <2>1 DEF Typed, Exists
  <2>3. w \in Rows /\ w.confirmed
    BY <2>2, RowIs
  <2>4. UserSet(u, w)
    BY <2>1 DEF UserSet
  <2> HIDE DEF w
  <2> QED
    BY <1>1, <1>3, <1>4, <2>1, <2>3, <2>4
<1> QED
  BY <1>5, <1>6

LEMMA RenameIs ==
    ASSUME Typed, Prepared, NEW r \in Requests, Rename(r)
    PROVE  /\ Over(r)
           /\ \/ \E u \in Users, w \in Rows : /\ Exists(u) /\ UserSet(u, w)
                                             /\ w.confirmed = user[u].confirmed
              \/ UNCHANGED user
<1>1. User(r) \in Users /\ req[r].name \in Names /\ Over(r)
  BY PreparedIs DEF Rename, At, Acting
<1>2. CASE UNCHANGED user
  BY <1>1, <1>2
<1>3. CASE ~UNCHANGED user
  <2> DEFINE u == User(r)
             w == [user[u] EXCEPT !.name = req[r].name]
  <2>1. Exists(u) /\ user' = [user EXCEPT ![u].name = req[r].name]
    BY <1>3 DEF Rename
  <2>2. user[u] \in Rows
    BY <1>1, <2>1 DEF Typed, Exists
  <2>3. w \in Rows /\ w.confirmed = user[u].confirmed
    BY <1>1, <2>2, RowIs
  <2>4. UserSet(u, w)
    BY <2>1 DEF UserSet
  <2> HIDE DEF w
  <2> QED
    BY <1>1, <2>1, <2>3, <2>4
<1> QED
  BY <1>2, <1>3

LEMMA RemoveIs ==
    ASSUME Typed, NEW u \in Users, Remove(u)
    PROVE  \E w \in Rows : Exists(u) /\ UserSet(u, w) /\ w.confirmed = user[u].confirmed
<1> DEFINE w == [user[u] EXCEPT !.removed = TRUE]
<1>1. Exists(u) /\ user' = [user EXCEPT ![u].removed = TRUE]
  BY DEF Remove, Exists
<1>2. user[u] \in Rows
  BY <1>1 DEF Typed, Exists
<1>3. w \in Rows /\ w.confirmed = user[u].confirmed
  BY <1>2, RowIs
<1>4. UserSet(u, w)
  BY <1>1 DEF UserSet
<1> HIDE DEF w
<1> QED
  BY <1>1, <1>3, <1>4

\* The rows keep their types, and belong to users that exist.
LEMMA HandlingRows ==
    ASSUME Typed, Kept, Prepared, NEW r \in Requests, Handling(r)
    PROVE  Typed' /\ Kept'
<1>1. CASE RegisterUser(r)
  <2>0. happened' \subseteq Faults
    BY <1>1 DEF RegisterUser, Swallowed, Fault, NoFault, Typed, Faults
  <2>1. CASE UNCHANGED <<user, code>>
    BY <1>1, <2>0, <2>1 DEF RegisterUser, Typed, Kept, history
  <2>2. ASSUME NEW u \in Users, NEW w \in Rows, UserSet(u, w),
               code' = [code EXCEPT ![u] = Good(req[r].code)]
        PROVE  Typed' /\ Kept'
    <3>1. Good(req[r].code) \in Stored
      BY <1>1, GoodIs, RegisterUserIs
    <3>2. Typed'
      BY <1>1, <2>0, <2>2, <3>1, UserSetIs DEF RegisterUser, Typed, history
    <3>3. Kept'
      BY <1>1, <2>2, UserSetIs DEF RegisterUser, Kept, Typed
    <3> QED
      BY <3>2, <3>3
  <2> QED
    BY <1>1, <2>1, <2>2, RegisterUserIs
<1>2. CASE SignUp(r)
  <2>1. happened' \subseteq Faults
    BY <1>2 DEF SignUp, Swallowed, Fault, NoFault, Typed, Faults
  <2>2. CASE UNCHANGED <<user, providers>>
    BY <1>2, <2>1, <2>2 DEF SignUp, Typed, Kept, history
  <2>3. ASSUME NEW u \in Users, NEW w \in Rows, UserSet(u, w),
               providers' = [providers EXCEPT ![u][req[r].provider] = 1]
        PROVE  Typed' /\ Kept'
    <3>1. providers' \in [Users -> [Providers -> Nat]]
      BY <1>2, <2>3, SignUpIs DEF Typed
    <3>2. Typed'
      BY <1>2, <2>1, <2>3, <3>1, UserSetIs DEF SignUp, Typed, history
    <3>3. Kept'
      BY <1>2, <2>3, UserSetIs DEF SignUp, Kept, Typed
    <3> QED
      BY <3>2, <3>3
  <2> QED
    BY <1>2, <2>2, <2>3, SignUpIs
<1>3. CASE DeleteUser(r)
  <2>1. happened' \subseteq Faults
    BY <1>3 DEF DeleteUser, Fault, NoFault, Typed, Faults
  <2>2. Typed'
    BY <1>3, <2>1 DEF DeleteUser, Typed
  <2>3. Undone(r) \cap banned = {}
    BY DEF Undone
  <2>4. banned' = banned
    BY <1>3 DEF DeleteUser
  <2>5. CASE UNCHANGED <<user, code, recovery, providers, loggedIn, owed, helped, overlapped>>
    BY <2>2, <2>5, <2>4 DEF Kept
  <2>6. CASE /\ user' = [u \in Users |-> IF u \in Undone(r) THEN None ELSE user[u]]
             /\ code' = [u \in Users |-> IF u \in Undone(r) THEN None ELSE code[u]]
             /\ recovery' = [u \in Users |-> IF u \in Undone(r) THEN None ELSE recovery[u]]
             /\ loggedIn' = loggedIn \ Undone(r)
    <3>1. ASSUME NEW u \in Users, user'[u] = None
          PROVE  /\ code'[u] = None /\ recovery'[u] = None
                 /\ u \notin banned' \cup loggedIn'
      <4>1. CASE u \in Undone(r)
        BY <2>3, <2>6, <2>4, <4>1
      <4>2. CASE u \notin Undone(r)
        BY <2>6, <2>4, <3>1, <4>2 DEF Kept
      <4> QED
        BY <4>1, <4>2
    <3> QED
      BY <2>2, <3>1 DEF Kept
  <2> QED
    BY <1>3, <2>2, <2>5, <2>6 DEF DeleteUser
<1>4. CASE ConfirmUser(r)
  <2>1. happened' \subseteq Faults
    BY <1>4 DEF ConfirmUser, Confirmed, Swallowed, Fault, NoFault, Typed, Faults
  <2>2. CASE UNCHANGED <<user, code>>
    BY <1>4, <2>1, <2>2 DEF ConfirmUser, Typed, Kept, history
  <2>3. ASSUME NEW w \in Rows, UserSet(User(r), w), code' = [code EXCEPT ![User(r)] = None]
        PROVE  Typed' /\ Kept'
    <3>1. User(r) \in Users
      BY <1>4, ConfirmUserIs
    <3>2. Typed'
      BY <1>4, <2>1, <2>3, <3>1, UserSetIs DEF ConfirmUser, Typed, history
    <3>3. Kept'
      BY <1>4, <2>3, <3>1, UserSetIs DEF ConfirmUser, Kept, Typed
    <3> QED
      BY <3>2, <3>3
  <2> QED
    BY <1>4, <2>2, <2>3, ConfirmUserIs
<1>5. CASE SetPassword(r)
  <2>1. happened' \subseteq Faults
    BY <1>5 DEF SetPassword, Swallowed, Fault, NoFault, Typed, Faults
  <2>2. CASE UNCHANGED <<user, recovery, owed>>
    BY <1>5, <2>1, <2>2 DEF SetPassword, Typed, Kept
  <2>3. ASSUME NEW w \in Rows, UserSet(User(r), w),
               recovery' = [recovery EXCEPT ![User(r)] = None],
               owed' = [owed EXCEPT ![User(r)] = @ - 1]
        PROVE  Typed' /\ Kept'
    <3>1. User(r) \in Users
      BY <1>5, SetPasswordIs
    <3>2. owed' \in [Users -> Int]
      BY <2>3, <3>1 DEF Typed
    <3>3. Typed'
      BY <1>5, <2>1, <2>3, <3>1, <3>2, UserSetIs DEF SetPassword, Typed
    <3>4. Kept'
      BY <1>5, <2>3, <3>1, UserSetIs DEF SetPassword, Kept, Typed
    <3> QED
      BY <3>3, <3>4
  <2> QED
    BY <1>5, <2>2, <2>3, SetPasswordIs
<1>6. CASE WriteProvider(r)
  <2>1. happened' \subseteq Faults
    BY <1>6 DEF WriteProvider, Swallowed, Fault, NoFault, Typed, Faults
  <2>2. providers' \in [Users -> [Providers -> Nat]] /\ overlapped' \subseteq Users
    BY <1>6, WriteProviderIs
  <2>3. CASE UNCHANGED <<user, helped>>
    BY <1>6, <2>1, <2>2, <2>3 DEF WriteProvider, Typed, Kept
  <2>4. ASSUME NEW w \in Rows, UserSet(User(r), w), helped' = helped \cup {User(r)}
        PROVE  Typed' /\ Kept'
    <3>1. User(r) \in Users
      BY <1>6, WriteProviderIs
    <3>2. Typed'
      BY <1>6, <2>1, <2>2, <2>4, <3>1, UserSetIs DEF WriteProvider, Typed
    <3>3. Kept'
      BY <1>6, <2>4, <3>1, UserSetIs DEF WriteProvider, Kept, Typed
    <3> QED
      BY <3>2, <3>3
  <2> QED
    BY <1>6, <2>3, <2>4, WriteProviderIs
<1>7. CASE Rename(r)
  <2>1. happened' \subseteq Faults
    BY <1>7 DEF Rename, Swallowed, Fault, NoFault, Typed, Faults
  <2>2. CASE UNCHANGED user
    BY <1>7, <2>1, <2>2 DEF Rename, Typed, Kept, history
  <2>3. ASSUME NEW u \in Users, NEW w \in Rows, UserSet(u, w)
        PROVE  Typed' /\ Kept'
    <3>1. Typed'
      BY <1>7, <2>1, <2>3, UserSetIs DEF Rename, Typed, history
    <3>2. Kept'
      BY <1>7, <2>3, UserSetIs DEF Rename, Kept, Typed
    <3> QED
      BY <3>1, <3>2
  <2> QED
    BY <1>7, <2>2, <2>3, RenameIs
<1>8. CASE UpdateCode(r)
  <2>1. User(r) \in Users /\ Good(req[r].code) \in Stored
    BY <1>8, PreparedIs, GoodIs DEF UpdateCode, At, Acting, Holding
  <2>2. happened' \subseteq Faults
    BY <1>8 DEF UpdateCode, Swallowed, Fault, NoFault, Typed, Faults
  <2>3. Typed'
    BY <1>8, <2>1, <2>2 DEF UpdateCode, Typed
  <2>4. Kept'
    BY <1>8, <2>1 DEF UpdateCode, Typed, Kept
  <2> QED
    BY <2>3, <2>4
<1>9. CASE CreateRecovery(r) \/ UpsertRecovery(r)
  <2>1. User(r) \in Users /\ req[r].code \in Codes /\ Good(req[r].code) \in Stored
    BY <1>9, PreparedIs, GoodIs DEF CreateRecovery, UpsertRecovery, At, Acting, Holding, Storing
  <2>2. happened' \subseteq Faults
    BY <1>9 DEF CreateRecovery, UpsertRecovery, Swallowed, Fault, NoFault, Typed, Faults
  <2>3. /\ (Exists(User(r)) /\ Store(r)) \/ NoStore
        /\ UNCHANGED <<user, code, providers, banned, loggedIn, mailed, clock, started,
                       helped, overlapped>>
    BY <1>9 DEF CreateRecovery, UpsertRecovery
  <2>4. CASE NoStore
    BY <2>2, <2>3, <2>4 DEF NoStore, Typed, Kept
  <2>5. CASE Exists(User(r)) /\ Store(r)
    <3>1. owed' \in [Users -> Int]
      BY <2>1, <2>5 DEF Store, Typed
    <3>2. recovery' \in [Users -> Stored \cup {None}] /\ issued' \in [Codes -> Users \cup {None}]
      BY <2>1, <2>5 DEF Store, Typed
    <3>3. Typed'
      BY <2>2, <2>3, <3>1, <3>2 DEF Typed
    <3>4. Kept'
      BY <2>1, <2>3, <2>5 DEF Store, Typed, Kept, Exists
    <3> QED
      BY <3>3, <3>4
  <2> QED
    BY <2>3, <2>4, <2>5
<1>10. CASE \/ EndSessions(r) \/ DropRecovery(r) \/ Mail(r) \/ FindProviders(r)
            \/ CreateDevice(r) \/ FindName(r) \/ WriteBan(r)
  <2>1. happened' \subseteq Faults
    BY <1>10 DEF EndSessions, DropRecovery, Mail, FindProviders, CreateDevice, FindName, WriteBan,
                 Swallowed, Fault, NoFault, Typed, Faults
  <2>2. CASE EndSessions(r)
    BY <2>1, <2>2 DEF EndSessions, Typed, Kept, history
  <2>3. CASE DropRecovery(r)
    BY <2>1, <2>3 DEF DropRecovery, Typed, Kept, history
  <2>4. CASE Mail(r)
    <3>1. mailed' \subseteq Codes
      BY <2>4, PreparedIs DEF Mail, Typed, At, Holding
    <3> QED
      BY <2>1, <2>4, <3>1 DEF Mail, Typed, Kept, history, rows
  <2>5. CASE FindProviders(r) \/ FindName(r)
    BY <2>1, <2>5 DEF FindProviders, FindName, Typed, Kept, history, rows
  <2>6. CASE CreateDevice(r)
    BY <2>1, <2>6 DEF CreateDevice, Typed, Kept, history, Exists
  <2>7. CASE WriteBan(r)
    <3>1. User(r) \in Users
      BY <2>7, PreparedIs DEF WriteBan, At, Acting
    <3> QED
      BY <2>1, <2>7, <3>1 DEF WriteBan, Typed, Kept, history, Exists
  <2> QED
    BY <1>10, <2>2, <2>3, <2>4, <2>5, <2>6, <2>7
<1> QED
  BY <1>1, <1>2, <1>3, <1>4, <1>5, <1>6, <1>7, <1>8, <1>9, <1>10 DEF Handling

-----------------------------------------------------------------------------
(* Types *)

Base == Prepared /\ Typed /\ Kept

LEMMA InitBase == Init => Base
<1> SUFFICES ASSUME Init PROVE Base
  OBVIOUS
<1>1. Prepared
  BY IdleIs DEF Init, Prepared
<1>2. Typed
  BY DEF Init, Typed, Faults
<1>3. Kept
  BY DEF Init, Kept
<1> QED
  BY <1>1, <1>2, <1>3 DEF Base

LEMMA NextBase == Base /\ [Next]_vars => Base'
<1> SUFFICES ASSUME Base, [Next]_vars PROVE Base'
  OBVIOUS
<1> USE DEF Base
<1>1. CASE UNCHANGED vars
  BY <1>1 DEF vars, rows, history, Prepared, Typed, Kept
<1>2. ASSUME NEW r \in Requests, Arriving(r) PROVE Base'
  <2>1. /\ Prepared' /\ started' = started + 1
        /\ UNCHANGED <<rows, mailed, clock, happened, history>>
    BY <1>2, ArrivingPrepared
  <2>2. Typed' /\ Kept'
    BY <2>1 DEF rows, history, Typed, Kept
  <2> QED
    BY <2>1, <2>2
<1>3. ASSUME NEW r \in Requests, Handling(r) PROVE Base'
  BY <1>3, HandlingPrepared, HandlingRows
<1>4. ASSUME NEW u \in Users, Remove(u) PROVE Base'
  <2>1. PICK w \in Rows : UserSet(u, w)
    BY <1>4, RemoveIs
  <2>2. /\ UNCHANGED <<code, recovery, providers, banned, loggedIn, mailed, req, clock,
                        happened, history>>
        /\ started' = started + 1
    BY <1>4 DEF Remove
  <2>3. Typed'
    BY <2>1, <2>2, UserSetIs DEF Typed, history
  <2>4. Kept' /\ Prepared'
    BY <2>1, <2>2, UserSetIs DEF Typed, Kept, Prepared
  <2> QED
    BY <2>3, <2>4
<1>5. CASE Crash
  <2>1. Prepared'
    BY <1>5, IdleIs DEF Crash, Prepared
  <2>2. Typed' /\ Kept'
    BY <1>5 DEF Crash, Fault, Faults, rows, history, Typed, Kept
  <2> QED
    BY <2>1, <2>2
<1>6. CASE Tick
  BY <1>6 DEF Tick, rows, history, Prepared, Typed, Kept
<1> QED
  BY <1>1, <1>2, <1>3, <1>4, <1>5, <1>6 DEF Next

\* Rows and requests keep their types, whatever overlaps and fails.
LEMMA BaseAlways == Spec => []Base
  BY InitBase, NextBase, PTL DEF Spec

LEMMA BaseTypes == Base => TypeOK
  BY DEF Base, Prepared, Sound, Typed, Kept, TypeOK

-----------------------------------------------------------------------------
(* Steps of requests *)

\* From one step of a request to another.
Passed(r, from, to) ==
    /\ req[r].pc \in from /\ req'[r].pc \in to
    /\ req'[r].op = req[r].op /\ req'[r].code = req[r].code
    /\ req'[r].user = req[r].user

LEMMA GoToPasses ==
    ASSUME Prepared, NEW r \in Requests, NEW pc \in Steps, GoTo(r, pc), NEW from,
           req[r].pc \in from, "idle" \notin from, NEW to, pc \in to
    PROVE  Passed(r, from, to)
  BY GoToIs DEF Passed, At

\* What a request may have done, and where it is now.
LEMMA HandlingIs ==
    ASSUME Prepared, Typed, NEW r \in Requests, Handling(r)
    PROVE  \/ Over(r)
           \/ RegisterUser(r) /\ req'[r].op = "register"
              /\ req[r].pc = "insert" /\ req'[r].pc = "mail" /\ req'[r].code = req[r].code
           \/ SignUp(r) /\ req'[r].pc = "device"
           \/ UpdateCode(r) /\ Passed(r, {"update"}, {"mail"})
           \/ CreateRecovery(r) /\ Passed(r, {"create", "retry"}, {"retry", "mail"})
           \/ UpsertRecovery(r) /\ Passed(r, {"upsert"}, {"mail"})
           \/ Mail(r) /\ Passed(r, {"mail"}, {"sessions"})
           \/ Mail(r) /\ Passed(r, {"mail"}, {"undo"}) /\ req[r].op = "register"
           \/ FindProviders(r) /\ Passed(r, {"providers"}, {"refresh", "merge"})
           \/ WriteProvider(r) /\ Passed(r, {"merge", "refresh"}, {"device"})
           \/ FindName(r) /\ Passed(r, {"name"}, {"rename"})
<1>1. CASE RegisterUser(r)
  <2>1. At(r, "insert") /\ req[r].op = "register" /\ req[r].code \in Codes /\ ~At(r, "idle")
    BY <1>1, RegisterUserIs DEF At
  <2>2. CASE GoTo(r, "mail")
    BY <1>1, <2>1, <2>2, GoToIs DEF At, Steps
  <2>3. ASSUME NEW u \in Users, req' = [req EXCEPT ![r].pc = "mail", ![r].user = u]
        PROVE  req'[r].op = "register" /\ req'[r].pc = "mail" /\ req'[r].code = req[r].code
    BY <2>1, <2>3, FoundPrepared
  <2> QED
    BY <1>1, <2>1, <2>2, <2>3, RegisterUserIs DEF At
<1>2. CASE SignUp(r)
  <2>1. ~At(r, "idle")
    BY <1>2 DEF SignUp, At
  <2>2. ASSUME NEW u \in Users, req' = [req EXCEPT ![r].pc = "device", ![r].user = u]
        PROVE  req'[r].pc = "device"
    BY <2>1, <2>2, FoundPrepared
  <2> QED
    BY <1>2, <2>2, SignUpIs
<1>3. CASE \/ DeleteUser(r) \/ ConfirmUser(r) \/ EndSessions(r) \/ DropRecovery(r)
           \/ SetPassword(r) \/ CreateDevice(r) \/ Rename(r) \/ WriteBan(r)
  BY <1>3 DEF DeleteUser, ConfirmUser, EndSessions, DropRecovery, SetPassword, CreateDevice,
              Rename, WriteBan
<1>4. CASE UpdateCode(r)
  <2>1. req[r].pc = "update" /\ GoTo(r, "mail")
    BY <1>4 DEF UpdateCode, AfterStore, At
  <2> QED
    BY <1>4, <2>1, GoToPasses DEF Steps
<1>5. CASE CreateRecovery(r)
  <2>1. req[r].pc \in {"create", "retry"} /\ (GoTo(r, "mail") \/ GoTo(r, "retry"))
    BY <1>5 DEF CreateRecovery, AfterStore, At
  <2> QED
    BY <1>5, <2>1, GoToPasses DEF Steps
<1>6. CASE UpsertRecovery(r)
  <2>1. req[r].pc = "upsert" /\ GoTo(r, "mail")
    BY <1>6 DEF UpsertRecovery, AfterStore, At
  <2> QED
    BY <1>6, <2>1, GoToPasses DEF Steps
<1>7. CASE Mail(r)
  <2>1. req[r].pc = "mail"
    BY <1>7 DEF Mail, At
  <2> QED
    BY <1>7, <2>1, MailPrepared, GoToPasses DEF Steps
<1>8. CASE FindProviders(r)
  <2>1. req[r].pc = "providers" /\ (GoTo(r, "refresh") \/ GoTo(r, "merge") \/ Over(r))
    BY <1>8 DEF FindProviders, At
  <2> QED
    BY <1>8, <2>1, GoToPasses DEF Steps
<1>9. CASE WriteProvider(r)
  <2>1. req[r].pc \in {"merge", "refresh"} /\ GoTo(r, "device")
    BY <1>9 DEF WriteProvider, At
  <2> QED
    BY <1>9, <2>1, GoToPasses DEF Steps
<1>10. CASE FindName(r)
  <2>1. req[r].pc = "name" /\ (GoTo(r, "rename") \/ Over(r))
    BY <1>10 DEF FindName, At
  <2> QED
    BY <1>10, <2>1, GoToPasses DEF Steps
<1> QED
  BY <1>1, <1>2, <1>3, <1>4, <1>5, <1>6, <1>7, <1>8, <1>9, <1>10 DEF Handling

\* A handler leaves the other requests alone.
LEMMA HandlingOthers ==
    ASSUME Prepared, Typed, NEW r \in Requests, Handling(r), NEW q \in Requests \ {r}
    PROVE  req'[q] = req[q]
<1>1. ASSUME NEW pc, GoTo(r, pc) PROVE req'[q] = req[q]
  BY <1>1 DEF GoTo, Prepared
<1>2. CASE Over(r)
  BY <1>2 DEF Over, Prepared
<1>3. ASSUME NEW pc, NEW u, req' = [req EXCEPT ![r].pc = pc, ![r].user = u]
      PROVE  req'[q] = req[q]
  BY <1>3 DEF Prepared
<1>4. CASE RegisterUser(r)
  BY <1>1, <1>3, <1>4, RegisterUserIs
<1>5. CASE SignUp(r)
  BY <1>2, <1>3, <1>5, SignUpIs
<1>6. CASE Mail(r)
  BY <1>1, <1>2, <1>6, MailPrepared
<1> QED
  BY <1>1, <1>2, <1>4, <1>5, <1>6
  DEF Handling, DeleteUser, ConfirmUser, EndSessions, DropRecovery, SetPassword, CreateDevice,
      Rename, WriteBan, UpdateCode, CreateRecovery, UpsertRecovery, FindProviders, WriteProvider,
      FindName

\* A request that changes does so by a step of its own, or a crash ends it.
LEMMA Changed ==
    ASSUME Base, [Next]_vars, NEW r \in Requests, req'[r] # req[r]
    PROVE  Arriving(r) \/ Handling(r) \/ (Crash /\ req'[r] = Idle)
<1>1. ASSUME NEW q \in Requests \ {r}, Arriving(q) PROVE req'[r] = req[r]
  BY <1>1, ArrivingPrepared DEF Base, Prepared
<1>2. ASSUME NEW q \in Requests \ {r}, Handling(q) PROVE req'[r] = req[r]
  BY <1>2, HandlingOthers DEF Base
<1>3. CASE Crash
  BY <1>3 DEF Crash
<1>4. UNCHANGED vars \/ Tick \/ (\E u \in Users : Remove(u)) => req' = req
  BY DEF vars, Tick, Remove
<1> QED
  BY <1>1, <1>2, <1>3, <1>4 DEF Next

\* A step from the outside leaves the rows alone.
LEMMA Quiet ==
    ASSUME Base, [Next]_vars
    PROVE  \/ \E r \in Requests : Handling(r)
           \/ \E u \in Users : Remove(u)
           \/ UNCHANGED <<rows, mailed, history>> /\ happened \subseteq happened'
<1>1. ASSUME NEW r \in Requests, Arriving(r)
      PROVE  UNCHANGED <<rows, mailed, history>> /\ happened \subseteq happened'
  BY <1>1, ArrivingPrepared DEF Base
<1>2. UNCHANGED vars \/ Tick \/ Crash =>
        UNCHANGED <<rows, mailed, history>> /\ happened \subseteq happened'
  BY DEF vars, Tick, Crash, Fault
<1> QED
  BY <1>1, <1>2 DEF Next

\* Faults that happened stay.
LEMMA FaultsStay ==
    ASSUME Base, [Next]_vars
    PROVE  happened \subseteq happened'
<1>1. ASSUME NEW r \in Requests, Handling(r) PROVE happened \subseteq happened'
  BY <1>1
  DEF Handling, RegisterUser, DeleteUser, ConfirmUser, Confirmed, UpdateCode, CreateRecovery,
      UpsertRecovery, EndSessions, DropRecovery, SetPassword, Mail, SignUp, FindProviders,
      WriteProvider, CreateDevice, FindName, Rename, WriteBan, Swallowed, Fault, NoFault
<1>2. ASSUME NEW u \in Users, Remove(u) PROVE happened \subseteq happened'
  BY <1>2 DEF Remove
<1> QED
  BY <1>1, <1>2, Quiet

\* A user that exists was there before, at least as confirmed, or is new, and
\* known to no request.
LEMMA UserStep ==
    ASSUME Base, [Next]_vars, NEW u \in Users, user'[u] # None
    PROVE  \/ user[u] # None /\ (user[u].confirmed => user'[u].confirmed)
           \/ user[u] = None /\ FreshUser(u)
<1> USE DEF Base
<1>1. CASE user'[u] = user[u]
  BY <1>1
<1>2. ASSUME NEW v \in Users, NEW w \in Rows, UserSet(v, w),
             w.confirmed \/ (user[v] # None /\ w.confirmed = user[v].confirmed),
             user[v] # None \/ FreshUser(v)
      PROVE  \/ user[u] # None /\ (user[u].confirmed => user'[u].confirmed)
             \/ user[u] = None /\ FreshUser(u)
  BY <1>2, UserSetIs
<1>3. ASSUME NEW r \in Requests, Handling(r)
      PROVE  \/ user[u] # None /\ (user[u].confirmed => user'[u].confirmed)
             \/ user[u] = None /\ FreshUser(u)
  <2>1. CASE RegisterUser(r)
    <3>1. CASE user' = user
      BY <3>1
    <3>2. ASSUME NEW v \in Users, NEW w \in Rows, UserSet(v, w), FreshUser(v)
          PROVE  \/ user[u] # None /\ (user[u].confirmed => user'[u].confirmed)
                 \/ user[u] = None /\ FreshUser(u)
      BY <3>2, UserSetIs DEF FreshUser
    <3> QED
      BY <2>1, <3>1, <3>2, RegisterUserIs
  <2>2. CASE SignUp(r)
    BY <1>1, <1>2, <2>2, SignUpIs
  <2>3. CASE DeleteUser(r)
    BY <2>3 DEF DeleteUser
  <2>4. CASE ConfirmUser(r)
    BY <1>1, <1>2, <2>4, ConfirmUserIs DEF Exists
  <2>5. CASE SetPassword(r)
    BY <1>1, <1>2, <2>5, SetPasswordIs DEF Exists
  <2>6. CASE WriteProvider(r)
    BY <1>1, <1>2, <2>6, WriteProviderIs DEF Exists
  <2>7. CASE Rename(r)
    BY <1>1, <1>2, <2>7, RenameIs DEF Exists
  <2>8. CASE user' = user
    BY <2>8
  <2> QED
    BY <1>3, <2>1, <2>2, <2>3, <2>4, <2>5, <2>6, <2>7, <2>8
    DEF Handling, UpdateCode, CreateRecovery, UpsertRecovery, EndSessions, DropRecovery, Mail,
        FindProviders, CreateDevice, FindName, WriteBan, rows
<1>4. ASSUME NEW v \in Users, Remove(v)
      PROVE  \/ user[u] # None /\ (user[u].confirmed => user'[u].confirmed)
             \/ user[u] = None /\ FreshUser(u)
  BY <1>2, <1>4, RemoveIs DEF Exists
<1> QED
  BY <1>1, <1>3, <1>4, Quiet DEF rows

-----------------------------------------------------------------------------
(* Confirmation and sessions *)

\* A login is of a user that was confirmed, or a fault hid that he is not.
DevicesAreConfirmed ==
    \A r \in Requests : At(r, "device") /\ Exists(User(r)) =>
        user[User(r)].confirmed \/ "db" \in happened

\* What a request found that begins.
LEMMA BeganWith ==
    ASSUME Prepared, NEW r \in Requests, Arriving(r)
    PROVE  req'[r] \in Sound /\ Reason(req'[r]) /\ UNCHANGED rows
  BY ArrivingPrepared DEF Prepared

\* What a request at the device came from.
LEMMA ToDevice ==
    ASSUME Base, NEW r \in Requests, Arriving(r), req'[r].pc = "device"
    PROVE  /\ req'[r].user \in Users /\ user[req'[r].user] # None
           /\ user[req'[r].user].confirmed /\ UNCHANGED user
  BY BeganWith DEF Base, Reason, MayLogin, Sound, Acting, rows

LEMMA DevicesStep ==
    Base /\ DevicesAreConfirmed /\ [Next]_vars => DevicesAreConfirmed'
<1> SUFFICES ASSUME Base, DevicesAreConfirmed, [Next]_vars, NEW r \in Requests,
                    req'[r].pc = "device", req'[r].user \in Users, user'[req'[r].user] # None
             PROVE  user'[req'[r].user].confirmed \/ "db" \in happened'
  BY DEF DevicesAreConfirmed, At, Exists, User
<1> DEFINE u == req'[r].user
<1>1. happened \subseteq happened'
  BY FaultsStay
<1>2. CASE req'[r] = req[r]
  <2>1. ~FreshUser(u)
    BY <1>2 DEF FreshUser, User
  <2>2. user[u] # None /\ (user[u].confirmed => user'[u].confirmed)
    BY <2>1, UserStep
  <2> QED
    BY <1>1, <1>2, <2>2 DEF DevicesAreConfirmed, At, Exists, User
<1>3. CASE req'[r] # req[r]
  <2>1. req'[r] # Idle
    BY IdleIs
  <2>2. CASE Arriving(r)
    BY <2>2, ToDevice
  <2>3. CASE Handling(r)
    <3>1. SignUp(r) \/ (WriteProvider(r) /\ Passed(r, {"merge", "refresh"}, {"device"}))
      <4>1. ~Over(r)
        BY <2>1 DEF Over, Base, Prepared
      <4> QED
        BY <2>3, <4>1, HandlingIs DEF Base, Passed
    <3>2. CASE SignUp(r)
      <4>1. ~Over(r) /\ ~At(r, "idle")
        BY <2>1, <3>2 DEF Over, Base, Prepared, SignUp, At
      <4>2. PICK v \in Users, w \in Rows : /\ UserSet(v, w) /\ w.confirmed
                                           /\ req' = [req EXCEPT ![r].pc = "device", ![r].user = v]
        BY <3>2, <4>1, SignUpIs DEF Base
      <4>3. req'[r].user = v
        BY <4>1, <4>2, FoundPrepared DEF Base
      <4> QED
        BY <4>2, <4>3, UserSetIs DEF Base
    <3>3. CASE WriteProvider(r) /\ Passed(r, {"merge", "refresh"}, {"device"})
      <4>1. u = User(r)
        BY <3>3 DEF Passed, User
      <4> QED
        BY <3>3, <4>1, WriteProviderIs, UserSetIs DEF Base, Exists
    <3> QED
      BY <3>1, <3>2, <3>3
  <2> QED
    BY <1>3, <2>1, <2>2, <2>3, Changed
<1> QED
  BY <1>2, <1>3

LEMMA LoggedInStep ==
    Base /\ DevicesAreConfirmed /\ LoggedInAreConfirmed /\ [Next]_vars => LoggedInAreConfirmed'
<1> SUFFICES ASSUME Base, DevicesAreConfirmed, LoggedInAreConfirmed, [Next]_vars,
                    NEW u \in loggedIn'
             PROVE  user'[u].confirmed \/ "db" \in happened'
  BY DEF LoggedInAreConfirmed
<1>1. Base'
  BY NextBase
<1>2. u \in Users /\ user'[u] # None
  BY <1>1 DEF Base, Typed, Kept
<1>3. happened \subseteq happened'
  BY FaultsStay
<1>4. CASE u \in loggedIn
  <2>1. user[u] # None
    BY <1>2, <1>4 DEF Base, Kept
  <2> QED
    BY <1>2, <1>3, <1>4, <2>1, UserStep DEF LoggedInAreConfirmed
<1>5. CASE u \notin loggedIn
  <2>1. PICK r \in Requests : CreateDevice(r) /\ u = User(r)
    BY <1>5, Quiet
    DEF Handling, RegisterUser, DeleteUser, ConfirmUser, UpdateCode, CreateRecovery,
        UpsertRecovery, EndSessions, DropRecovery, SetPassword, Mail, SignUp, FindProviders,
        WriteProvider, CreateDevice, FindName, Rename, WriteBan, rows, Remove
  <2>2. At(r, "device") /\ user' = user
    BY <2>1 DEF CreateDevice
  <2> QED
    BY <1>2, <1>3, <2>1, <2>2 DEF DevicesAreConfirmed, Exists
<1> QED
  BY <1>4, <1>5

\* An unconfirmed user keeps a code.
LEMMA UnconfirmedStep ==
    Base /\ UnconfirmedCanConfirm /\ [Next]_vars => UnconfirmedCanConfirm'
<1> SUFFICES ASSUME Base, UnconfirmedCanConfirm, [Next]_vars, NEW u \in Users,
                    user'[u] # None, ~user'[u].confirmed
             PROVE  code'[u] # None
  BY DEF UnconfirmedCanConfirm
<1> USE DEF Base
<1>1. CASE code'[u] = code[u]
  <2>1. CASE user[u] # None /\ (user[u].confirmed => user'[u].confirmed)
    BY <1>1, <2>1 DEF UnconfirmedCanConfirm
  <2>2. CASE user[u] = None
    <3>1. PICK r \in Requests : RegisterUser(r) \/ SignUp(r)
      <4>1. \A r \in Requests : ConfirmUser(r) \/ SetPassword(r) \/ WriteProvider(r) \/ Rename(r)
                => user'[u] = None
        BY <2>2, ConfirmUserIs, SetPasswordIs, WriteProviderIs, RenameIs, UserSetIs DEF Exists
      <4>2. \A r \in Requests : DeleteUser(r) => user'[u] = None
        BY <2>2 DEF DeleteUser
      <4>3. \A v \in Users : Remove(v) => user'[u] = None
        BY <2>2, RemoveIs, UserSetIs DEF Exists
      <4> QED
        BY <2>2, <4>1, <4>2, <4>3, Quiet
        DEF Handling, UpdateCode, CreateRecovery, UpsertRecovery, EndSessions, DropRecovery,
            Mail, FindProviders, CreateDevice, FindName, WriteBan, rows
    <3>2. CASE SignUp(r)
      <4>1. PICK v \in Users, w \in Rows : UserSet(v, w) /\ w.confirmed
        BY <2>2, <3>2, SignUpIs
      <4> QED
        BY <2>2, <4>1, UserSetIs
    <3>3. CASE RegisterUser(r)
      <4>1. PICK v \in Users, w \in Rows : /\ UserSet(v, w)
                                           /\ code' = [code EXCEPT ![v] = Good(req[r].code)]
        BY <2>2, <3>3, RegisterUserIs
      <4>2. u = v
        BY <2>2, <4>1, UserSetIs
      <4> QED
        BY <3>3, <4>1, <4>2, RegisterUserIs, GoodIs DEF Typed
    <3> QED
      BY <3>1, <3>2, <3>3
  <2> QED
    BY <2>1, <2>2, UserStep
<1>2. CASE code'[u] # code[u]
  <2>1. PICK r \in Requests : RegisterUser(r) \/ DeleteUser(r) \/ ConfirmUser(r) \/ UpdateCode(r)
    BY <1>2, Quiet
    DEF Handling, CreateRecovery, UpsertRecovery, EndSessions, DropRecovery, SetPassword, Mail,
        SignUp, FindProviders, WriteProvider, CreateDevice, FindName, Rename, WriteBan, rows,
        Remove
  <2>2. CASE RegisterUser(r)
    <3>1. Good(req[r].code) # None
      BY <2>2, RegisterUserIs, GoodIs
    <3>2. PICK v \in Users : code' = [code EXCEPT ![v] = Good(req[r].code)]
      BY <1>2, <2>2, RegisterUserIs
    <3> QED
      BY <1>2, <3>1, <3>2 DEF Typed
  <2>3. CASE DeleteUser(r)
    <3>1. u \in Undone(r) => user'[u] = None
      BY <1>2, <2>3 DEF DeleteUser
    <3> QED
      BY <1>2, <2>3, <3>1 DEF DeleteUser
  <2>4. CASE ConfirmUser(r)
    <3>1. PICK w \in Rows : /\ User(r) \in Users /\ UserSet(User(r), w) /\ w.confirmed
                            /\ code' = [code EXCEPT ![User(r)] = None]
      BY <1>2, <2>4, ConfirmUserIs
    <3> QED
      BY <1>2, <3>1, UserSetIs DEF Typed
  <2>5. CASE UpdateCode(r)
    <3>1. Good(req[r].code) # None
      BY <2>5, PreparedIs, GoodIs DEF UpdateCode, At, Holding
    <3> QED
      BY <1>2, <2>5, <3>1 DEF UpdateCode, Typed
  <2> QED
    BY <2>1, <2>2, <2>3, <2>4, <2>5
<1> QED
  BY <1>1, <1>2

-----------------------------------------------------------------------------
(* The codes *)

\* The steps at which a request holds a code it has drawn.
Drawn == {"insert", "update", "mail", "undo"} \cup Storing

CodesAreDistinct ==
    \A r, s \in Requests : r # s /\ req[r].pc \in Drawn /\ req[s].pc \in Drawn =>
        req[r].code # req[s].code

\* A drawn code is in no mailbox, unless its mail failed and came all the same.
CodesAreUnread ==
    \A r \in Requests : req[r].pc \in Drawn /\ req[r].code \in mailed =>
        At(r, "undo") /\ "late" \in happened

CodesAreUnissued ==
    \A r \in Requests : req[r].pc \in Storing => issued[req[r].code] = None

Fresh == CodesAreDistinct /\ CodesAreUnread /\ CodesAreUnissued

\* A request that holds a code has just drawn it or had it before.
LEMMA DrawnStep ==
    ASSUME Base, [Next]_vars, NEW r \in Requests, req'[r].pc \in Drawn
    PROVE  \/ /\ FreshCode(req'[r].code) /\ UNCHANGED <<mailed, issued>>
              /\ \A q \in Requests \ {r} : req'[q] = req[q]
           \/ /\ req[r].pc \in Drawn /\ req'[r].code = req[r].code
              /\ req'[r].pc \in Storing => req[r].pc \in Storing
<1>1. CASE req'[r] = req[r]
  BY <1>1
<1>2. CASE req'[r] # req[r]
  <2>1. req'[r].pc # "idle"
    BY DEF Drawn, Storing
  <2>2. CASE Arriving(r)
    <3>1. PICK q \in Sound : /\ req' = [req EXCEPT ![r] = q] /\ Reason(q)
                             /\ q.pc \in {"insert", "confirm", "update", "create", "upsert",
                                          "drop", "set", "signup", "providers", "device",
                                          "name", "ban", "unban"}
      BY <2>2, ArrivingPrepared DEF Base
    <3>2. req'[r] = q /\ \A s \in Requests \ {r} : req'[s] = req[s]
      BY <3>1 DEF Base, Prepared
    <3>3. UNCHANGED <<mailed, issued>>
      BY <2>2, ArrivingPrepared DEF Base, history
    <3> QED
      BY <3>1, <3>2, <3>3 DEF Reason, Drawn, Storing
  <2>3. CASE Handling(r)
    <3>1. ~Over(r)
      BY <2>1, IdleIs DEF Over, Base, Prepared
    <3> QED
      BY <2>3, <3>1, HandlingIs DEF Base, Passed, Drawn, Storing
  <2> QED
    BY <1>2, <2>1, <2>2, <2>3, Changed, IdleIs
<1> QED
  BY <1>1, <1>2

\* Only mail fills a mailbox.
LEMMA MailedIs ==
    ASSUME Base, [Next]_vars
    PROVE  \/ UNCHANGED mailed
           \/ \E r \in Requests : /\ Mail(r) /\ mailed' = mailed \cup {req[r].code}
                                  /\ req'[r].pc \in Drawn => At(r, "mail") /\ req'[r].pc = "undo"
                                                             /\ "late" \in happened'
<1>1. ASSUME NEW r \in Requests, Mail(r), ~UNCHANGED mailed
      PROVE  /\ mailed' = mailed \cup {req[r].code}
             /\ req'[r].pc \in Drawn => At(r, "mail") /\ req'[r].pc = "undo"
                                        /\ "late" \in happened'
  <2>1. /\ At(r, "mail") /\ ~At(r, "idle")
        /\ req[r].op \in {"register", "resend", "recover", "again"}
    BY <1>1, PreparedIs DEF Mail, At, Base
  <2>2. mailed' = mailed \cup {req[r].code}
    BY <1>1 DEF Mail
  <2>3. Over(r) \/ GoTo(r, "sessions") \/ (GoTo(r, "undo") /\ "late" \in happened')
    BY <1>1, <2>1 DEF Mail, Continue, AfterMail, AfterNoMail, Fault
  <2>4. Over(r) => req'[r].pc \notin Drawn
    BY IdleIs DEF Over, Base, Prepared, Drawn, Storing
  <2>5. GoTo(r, "sessions") => req'[r].pc \notin Drawn
    BY <2>1, GoToIs DEF Base, Drawn, Storing, Steps
  <2>6. GoTo(r, "undo") => req'[r].pc = "undo"
    BY <2>1, GoToIs DEF Base, Steps
  <2> QED
    BY <2>1, <2>2, <2>3, <2>4, <2>5, <2>6
<1>2. ASSUME NEW r \in Requests, Handling(r), ~Mail(r)
      PROVE  UNCHANGED mailed
  BY <1>2 DEF Handling, RegisterUser, DeleteUser, ConfirmUser, UpdateCode, CreateRecovery,
      UpsertRecovery, EndSessions, DropRecovery, SetPassword, SignUp, FindProviders,
      WriteProvider, CreateDevice, FindName, Rename, WriteBan
<1> QED
  BY <1>1, <1>2, Quiet DEF Remove

\* Only a recovery issues a code.
LEMMA IssuedIs ==
    ASSUME Base, [Next]_vars
    PROVE  \/ UNCHANGED issued
           \/ \E r \in Requests : /\ req[r].pc \in Storing /\ Store(r)
                                  /\ req'[r].pc \notin Storing
<1>1. ASSUME NEW r \in Requests, CreateRecovery(r) \/ UpsertRecovery(r), ~UNCHANGED issued
      PROVE  req[r].pc \in Storing /\ Store(r) /\ req'[r].pc \notin Storing
  <2>1. req[r].pc \in Storing /\ Store(r) /\ GoTo(r, AfterStore(TRUE))
    BY <1>1 DEF CreateRecovery, UpsertRecovery, NoStore, At, Storing
  <2>2. req'[r].pc = "mail"
    BY <2>1, GoToIs DEF AfterStore, Base, Steps, Storing, At
  <2> QED
    BY <2>1, <2>2 DEF Storing
<1>2. ASSUME NEW r \in Requests, Handling(r), ~CreateRecovery(r), ~UpsertRecovery(r)
      PROVE  UNCHANGED issued
  BY <1>2 DEF Handling, RegisterUser, DeleteUser, ConfirmUser, UpdateCode,
      EndSessions, DropRecovery, SetPassword, Mail, SignUp, FindProviders,
      WriteProvider, CreateDevice, FindName, Rename, WriteBan, history
<1> QED
  BY <1>1, <1>2, Quiet DEF Remove, history

LEMMA FreshStep ==
    Base /\ Fresh /\ [Next]_vars => Fresh'
<1> SUFFICES ASSUME Base, Fresh, [Next]_vars PROVE Fresh'
  OBVIOUS
<1>1. CodesAreDistinct'
  <2> SUFFICES ASSUME NEW r \in Requests, NEW s \in Requests, r # s,
                      req'[r].pc \in Drawn, req'[s].pc \in Drawn
               PROVE  req'[r].code # req'[s].code
    BY DEF CodesAreDistinct
  <2>1. ASSUME NEW a \in Requests, NEW b \in Requests, a # b, FreshCode(req'[a].code),
               req'[b] = req[b]
        PROVE  req'[a].code # req'[b].code
    BY <2>1 DEF FreshCode
  <2> QED
    BY <2>1, DrawnStep DEF Fresh, CodesAreDistinct
<1>2. CodesAreUnread'
  <2> SUFFICES ASSUME NEW r \in Requests, req'[r].pc \in Drawn, req'[r].code \in mailed'
               PROVE  req'[r].pc = "undo" /\ "late" \in happened'
    BY DEF CodesAreUnread, At
  <2>1. happened \subseteq happened'
    BY FaultsStay
  <2>2. req[r].pc \in Drawn /\ req'[r].code = req[r].code
    BY DrawnStep DEF FreshCode
  <2>3. CASE req[r].code \in mailed
    <3>1. At(r, "undo") /\ "late" \in happened
      BY <2>2, <2>3 DEF Fresh, CodesAreUnread
    <3>2. req'[r] = req[r]
      <4>1. ~Arriving(r)
        BY <3>1, ArrivingPrepared, IdleIs DEF Base, At
      <4>2. ASSUME Handling(r) PROVE FALSE
        <5>1. Over(r)
          BY <3>1, <4>2, HandlingIs DEF Base, Passed, At, CreateRecovery, UpdateCode,
             UpsertRecovery, Mail, FindProviders, WriteProvider, FindName, SignUp
        <5> QED
          BY <5>1, IdleIs DEF Over, Base, Prepared, Drawn, Storing
      <4> QED
        BY <4>1, <4>2, Changed, IdleIs DEF Drawn, Storing
    <3> QED
      BY <2>1, <3>1, <3>2 DEF At
  <2>4. CASE req[r].code \notin mailed
    <3>1. PICK q \in Requests : /\ Mail(q) /\ mailed' = mailed \cup {req[q].code}
                                /\ req'[q].pc \in Drawn => At(q, "mail") /\ req'[q].pc = "undo"
                                                           /\ "late" \in happened'
      BY <2>2, <2>4, MailedIs
    <3>2. q = r
      BY <2>2, <2>4, <3>1 DEF Fresh, CodesAreDistinct, Mail, At, Drawn
    <3> QED
      BY <3>1, <3>2
  <2> QED
    BY <2>3, <2>4
<1>3. CodesAreUnissued'
  <2> SUFFICES ASSUME NEW r \in Requests, req'[r].pc \in Storing
               PROVE  issued'[req'[r].code] = None
    BY DEF CodesAreUnissued
  <2>1. CASE FreshCode(req'[r].code) /\ UNCHANGED <<mailed, issued>>
    BY <2>1 DEF FreshCode
  <2>2. CASE req[r].pc \in Storing /\ req'[r].code = req[r].code
    <3>1. issued[req[r].code] = None
      BY <2>2 DEF Fresh, CodesAreUnissued
    <3>2. ASSUME NEW q \in Requests, req[q].pc \in Storing, Store(q), req'[q].pc \notin Storing
          PROVE  issued'[req[r].code] = issued[req[r].code]
      <4>1. q # r
        BY <3>2
      <4>2. req[q].code # req[r].code
        BY <2>2, <3>2, <4>1 DEF Fresh, CodesAreDistinct, Drawn
      <4> QED
        BY <3>2, <4>2 DEF Store, Base, Typed
    <3> QED
      BY <2>2, <3>1, <3>2, IssuedIs
  <2> QED
    BY <2>1, <2>2, DrawnStep DEF Drawn
<1> QED
  BY <1>1, <1>2, <1>3 DEF Fresh

\* A code that is stored in a row of a user was issued for him, and so was the
\* one a request is about to set his password for.
CodesAreOwn ==
    /\ \A u \in Users : recovery[u] # None => issued[recovery[u].code] = u
    /\ \A r \in Requests : At(r, "set") => issued[req[r].code] = User(r)

\* A row in the table was paid for: a code was stored since the last password.
RowsAreOwed == \A u \in Users : owed[u] >= IF recovery[u] # None THEN 1 ELSE 0

\* How the recovery rows change.
LEMMA RecoveryIs ==
    ASSUME Base, [Next]_vars
    PROVE  \/ UNCHANGED <<recovery, owed>>
           \/ \E r \in Requests : /\ req[r].pc \in Storing /\ Store(r) /\ User(r) \in Users
                                  /\ req[r].code \in Codes
           \/ /\ UNCHANGED issued
              /\ \A u \in Users :
                   \/ UNCHANGED <<recovery[u], owed[u]>>
                   \/ recovery'[u] = None /\ owed'[u] \in {0, owed[u]}
                   \/ recovery[u] # None /\ recovery'[u] = None /\ owed'[u] = owed[u] - 1
<1>1. ASSUME NEW r \in Requests, CreateRecovery(r) \/ UpsertRecovery(r)
      PROVE  \/ UNCHANGED <<recovery, owed>>
             \/ /\ req[r].pc \in Storing /\ Store(r) /\ User(r) \in Users
                /\ req[r].code \in Codes
  BY <1>1, PreparedIs
  DEF CreateRecovery, UpsertRecovery, NoStore, At, Storing, Base, Acting, Holding
<1>2. ASSUME NEW r \in Requests, DeleteUser(r)
      PROVE  /\ UNCHANGED issued
             /\ \A u \in Users : \/ UNCHANGED <<recovery[u], owed[u]>>
                                 \/ recovery'[u] = None /\ owed'[u] \in {0, owed[u]}
  BY <1>2 DEF DeleteUser
<1>3. ASSUME NEW r \in Requests, DropRecovery(r)
      PROVE  /\ UNCHANGED issued
             /\ \A u \in Users : \/ UNCHANGED <<recovery[u], owed[u]>>
                                 \/ recovery'[u] = None /\ owed'[u] \in {0, owed[u]}
  BY <1>3 DEF DropRecovery, history, Base, Typed
<1>4. ASSUME NEW r \in Requests, SetPassword(r)
      PROVE  /\ UNCHANGED issued
             /\ \A u \in Users :
                  \/ UNCHANGED <<recovery[u], owed[u]>>
                  \/ recovery[u] # None /\ recovery'[u] = None /\ owed'[u] = owed[u] - 1
  <2>1. UNCHANGED issued
    BY <1>4 DEF SetPassword
  <2> QED
    BY <1>4, <2>1, SetPasswordIs DEF Base, Typed
<1>5. ASSUME NEW r \in Requests, Handling(r), ~CreateRecovery(r), ~UpsertRecovery(r),
             ~DeleteUser(r), ~DropRecovery(r), ~SetPassword(r)
      PROVE  UNCHANGED <<recovery, owed>>
  BY <1>5 DEF Handling, RegisterUser, ConfirmUser, UpdateCode, EndSessions, Mail, SignUp,
      FindProviders, WriteProvider, CreateDevice, FindName, Rename, WriteBan, history, rows
<1> QED
  BY <1>1, <1>2, <1>3, <1>4, <1>5, Quiet DEF Remove, history, rows

LEMMA OwedStep ==
    Base /\ RowsAreOwed /\ [Next]_vars => RowsAreOwed'
<1> SUFFICES ASSUME Base, RowsAreOwed, [Next]_vars, NEW u \in Users
             PROVE  owed'[u] >= IF recovery'[u] # None THEN 1 ELSE 0
  BY DEF RowsAreOwed
<1>1. owed[u] \in Int /\ owed[u] >= IF recovery[u] # None THEN 1 ELSE 0
  BY DEF RowsAreOwed, Base, Typed
<1>2. ASSUME NEW r \in Requests, Store(r), User(r) \in Users
      PROVE  (owed'[u] = owed[u] /\ recovery'[u] = recovery[u]) \/ owed'[u] = owed[u] + 1
  BY <1>2 DEF Store, Base, Typed
<1>3. ASSUME NEW r \in Requests, Store(r), User(r) \in Users
      PROVE  owed'[u] >= IF recovery'[u] # None THEN 1 ELSE 0
  BY <1>1, <1>2, <1>3
<1> QED
  BY <1>1, <1>3, RecoveryIs

LEMMA OwnStep ==
    Base /\ Fresh /\ CodesAreOwn /\ [Next]_vars => CodesAreOwn'
<1> SUFFICES ASSUME Base, Fresh, CodesAreOwn, [Next]_vars PROVE CodesAreOwn'
  OBVIOUS
\* Whatever was issued to somebody stays his.
<1>1. ASSUME NEW k \in Codes, issued[k] # None
      PROVE  issued'[k] = issued[k]
  <2>1. ASSUME NEW r \in Requests, req[r].pc \in Storing, Store(r)
        PROVE  issued'[k] = issued[k]
    <3>1. req[r].code # k
      BY <1>1, <2>1 DEF Fresh, CodesAreUnissued
    <3> QED
      BY <2>1, <3>1 DEF Store, Base, Typed
  <2> QED
    BY <2>1, IssuedIs
<1>2. ASSUME NEW u \in Users, recovery'[u] # None
      PROVE  issued'[recovery'[u].code] = u
  <2>1. CASE recovery'[u] = recovery[u]
    <3>1. issued[recovery[u].code] = u /\ recovery[u].code \in Codes /\ u # None
      BY <1>2, <2>1, ConstantsAssumption DEF CodesAreOwn, Base, Typed, Stored
    <3> QED
      BY <1>1, <2>1, <3>1
  <2>2. CASE recovery'[u] # recovery[u]
    <3>1. PICK r \in Requests : /\ req[r].pc \in Storing /\ Store(r) /\ User(r) \in Users
                                /\ req[r].code \in Codes
      BY <1>2, <2>2, RecoveryIs
    <3>2. recovery' = [recovery EXCEPT ![User(r)] = Good(req[r].code)]
          /\ issued' = [issued EXCEPT ![req[r].code] = User(r)]
      BY <3>1 DEF Store
    <3>3. u = User(r)
      BY <2>2, <3>1, <3>2 DEF Base, Typed
    <3>4. recovery'[u] = Good(req[r].code) /\ Good(req[r].code).code = req[r].code
      BY <3>1, <3>2, <3>3 DEF Base, Typed, Good
    <3>5. issued'[req[r].code] = User(r)
      BY <3>1, <3>2 DEF Base, Typed
    <3> QED
      BY <3>3, <3>4, <3>5
  <2> QED
    BY <2>1, <2>2
<1>3. ASSUME NEW r \in Requests, req'[r].pc = "set"
      PROVE  issued'[req'[r].code] = req'[r].user
  <2>1. CASE req'[r] = req[r]
    <3>1. /\ issued[req[r].code] = req[r].user
          /\ req[r].code \in Codes /\ req[r].user \in Users
      BY <1>3, <2>1, PreparedIs DEF CodesAreOwn, At, User, Base, Holding, Acting
    <3> QED
      BY <1>1, <2>1, <3>1, ConstantsAssumption
  <2>2. CASE Arriving(r)
    <3>1. req'[r].user \in FindRecovery(req'[r].code) /\ UNCHANGED issued
      BY <1>3, <2>2, BeganWith, ArrivingPrepared DEF Reason, Base, history
    <3> QED
      BY <3>1 DEF FindRecovery, CodesAreOwn
  <2>3. CASE Handling(r)
    <3>1. Over(r)
      BY <1>3, <2>3, HandlingIs DEF Base, Passed
    <3> QED
      BY <1>3, <3>1, IdleIs DEF Over, Base, Prepared
  <2> QED
    BY <1>3, <2>1, <2>2, <2>3, Changed, IdleIs
<1> QED
  BY <1>2, <1>3 DEF CodesAreOwn, At, User

-----------------------------------------------------------------------------
(* The mails of the confirmation *)

LEMMA StoredStep ==
    Base /\ StoredCodesAreMailed /\ [Next]_vars => StoredCodesAreMailed'
<1> SUFFICES ASSUME Base, StoredCodesAreMailed, [Next]_vars, NEW u \in Users,
                    code'[u] # None, happened' = {}
             PROVE  \/ code'[u].code \in mailed'
                    \/ \E r \in Requests : req'[r].pc = "mail" /\ req'[r].code = code'[u].code
  BY DEF StoredCodesAreMailed, At
<1>1. happened = {} /\ mailed \subseteq mailed'
  BY FaultsStay, MailedIs
<1>2. CASE code'[u] = code[u]
  <2>1. CASE code[u].code \in mailed
    BY <1>1, <1>2, <2>1
  <2>2. ASSUME NEW r \in Requests, req[r].pc = "mail", req[r].code = code[u].code
        PROVE  \/ code'[u].code \in mailed'
               \/ req'[r].pc = "mail" /\ req'[r].code = code'[u].code
    <3>1. CASE req'[r] = req[r]
      BY <1>2, <2>2, <3>1
    <3>2. ~Arriving(r) /\ ~Crash
      BY <2>2, ArrivingPrepared, IdleIs DEF Base, Crash, Fault
    <3>3. ASSUME Handling(r) PROVE Mail(r)
      BY <2>2, <3>3
      DEF Handling, RegisterUser, DeleteUser, ConfirmUser, UpdateCode, CreateRecovery,
          UpsertRecovery, EndSessions, DropRecovery, SetPassword, Mail, SignUp, FindProviders,
          WriteProvider, CreateDevice, FindName, Rename, WriteBan, At
    <3>4. Mail(r) => req[r].code \in mailed'
      BY DEF Mail, Fault
    <3> QED
      BY <1>2, <2>2, <3>1, <3>2, <3>3, <3>4, Changed
  <2> QED
    BY <1>1, <1>2, <2>1, <2>2 DEF StoredCodesAreMailed, At
<1>3. CASE code'[u] # code[u]
  <2>1. PICK r \in Requests : RegisterUser(r) \/ DeleteUser(r) \/ ConfirmUser(r) \/ UpdateCode(r)
    BY <1>3, Quiet
    DEF Handling, CreateRecovery, UpsertRecovery, EndSessions, DropRecovery, SetPassword, Mail,
        SignUp, FindProviders, WriteProvider, CreateDevice, FindName, Rename, WriteBan, rows,
        Remove
  <2>2. ASSUME code' = [code EXCEPT ![u] = Good(req[r].code)], req'[r].pc = "mail",
               req'[r].code = req[r].code
        PROVE  req'[r].pc = "mail" /\ req'[r].code = code'[u].code
    BY <2>2 DEF Good, Base, Typed
  <2>3. CASE RegisterUser(r)
    <3>1. PICK v \in Users : code' = [code EXCEPT ![v] = Good(req[r].code)]
      BY <1>3, <2>3, RegisterUserIs DEF Base
    <3>2. v = u
      BY <1>3, <3>1 DEF Base, Typed
    <3>3. ~Over(r)
      <4>1. At(r, "insert") /\ (GoTo(r, "mail") \/ \E w \in Users :
                                  req' = [req EXCEPT ![r].pc = "mail", ![r].user = w])
        BY <2>3 DEF RegisterUser
      <4>2. GoTo(r, "mail") => req'[r].pc = "mail"
        BY <4>1, GoToIs DEF Base, Steps, At
      <4>3. ASSUME NEW w \in Users, req' = [req EXCEPT ![r].pc = "mail", ![r].user = w]
            PROVE  req'[r].pc = "mail"
        BY <2>3, <4>1, <4>3, RegisterUserIs, FoundPrepared DEF Base, At
      <4> QED
        BY <4>1, <4>2, <4>3, IdleIs DEF Over, Base, Prepared
    <3>4. req'[r].pc = "mail" /\ req'[r].code = req[r].code
      BY <2>3, <3>3, HandlingIs
      DEF Base, Handling, Passed, RegisterUser, SignUp, UpdateCode, CreateRecovery,
          UpsertRecovery, Mail, FindProviders, WriteProvider, FindName, At
    <3> QED
      BY <2>2, <3>1, <3>2, <3>4
  <2>4. CASE DeleteUser(r)
    BY <1>3, <2>4 DEF DeleteUser
  <2>5. CASE ConfirmUser(r)
    <3>1. code' = [code EXCEPT ![User(r)] = None]
      BY <1>3, <2>5, ConfirmUserIs DEF Base
    <3> QED
      BY <1>3, <3>1 DEF Base, Typed
  <2>6. CASE UpdateCode(r)
    <3>1. At(r, "update") /\ GoTo(r, "mail")
          /\ code' = [code EXCEPT ![User(r)] = Good(req[r].code)]
      BY <1>3, <2>6 DEF UpdateCode, AfterStore
    <3>2. User(r) = u
      BY <1>3, <3>1 DEF Base, Typed
    <3>3. req'[r].pc = "mail" /\ req'[r].code = req[r].code
      BY <3>1, GoToIs DEF Base, Steps, At
    <3> QED
      BY <2>2, <3>1, <3>2, <3>3
  <2> QED
    BY <2>1, <2>3, <2>4, <2>5, <2>6
<1> QED
  BY <1>2, <1>3


-----------------------------------------------------------------------------
(* The compensation of a registration *)

\* A registration on its way to its mail, or to the deletion after it.
Undoing(r) == req[r].op = "register" /\ req[r].pc \in {"mail", "undo"}

\* While nobody else wrote to its user, he is unconfirmed, with the code that
\* the registration drew, and nobody is about to confirm him.
Pledge(r, u) ==
    Undoing(r) /\ User(r) = u /\ user[u] # None /\ u \notin helped /\ "late" \notin happened =>
        /\ ~user[u].confirmed
        /\ code[u] # None /\ code[u].code = req[r].code
        /\ \A q \in Requests : ~(At(q, "confirm") /\ User(q) = u)

Pledged == \A r \in Requests, u \in Users : Pledge(r, u)

\* A registration that has begun keeps its user and its code.
LEMMA UndoingIs ==
    ASSUME Base, [Next]_vars, NEW r \in Requests, Undoing(r)'
    PROVE  \/ /\ Undoing(r) /\ req'[r].user = req[r].user /\ req'[r].code = req[r].code
              /\ ~RegisterUser(r)
           \/ RegisterUser(r)
<1>1. CASE req'[r] = req[r]
  <2>1. Undoing(r)
    BY <1>1 DEF Undoing
  <2> QED
    BY <1>1, <2>1 DEF RegisterUser, At, Undoing
<1>2. CASE req'[r] # req[r]
  <2>1. req'[r] # Idle
    BY IdleIs DEF Undoing
  <2>2. ~Arriving(r)
    BY ArrivingPrepared DEF Undoing, Base, Prepared
  <2>3. ~Over(r)
    BY <2>1 DEF Over, Base, Prepared
  <2>4. CASE RegisterUser(r)
    BY <2>4
  <2>5. CASE Mail(r) /\ Passed(r, {"mail"}, {"undo"})
    BY <2>5 DEF Undoing, Passed, RegisterUser, At
  <2>6. ASSUME UpdateCode(r) \/ CreateRecovery(r) \/ UpsertRecovery(r),
               req'[r].op = req[r].op
        PROVE  FALSE
    BY <2>6, PreparedIs DEF UpdateCode, CreateRecovery, UpsertRecovery, At, Undoing, Base, Storing
  <2> QED
    BY <1>2, <2>1, <2>2, <2>3, <2>4, <2>5, <2>6, HandlingIs, Changed DEF Undoing, Base, Passed
<1> QED
  BY <1>1, <1>2

\* Nobody comes to confirm a user whose code was not read.
LEMMA NobodyConfirms ==
    ASSUME Base, [Next]_vars, NEW u \in Users, code[u] # None, code[u].code \notin mailed,
           NEW q \in Requests, req'[q].pc = "confirm", req'[q].user = u
    PROVE  At(q, "confirm") /\ User(q) = u
<1>1. CASE req'[q] = req[q]
  BY <1>1 DEF At, User
<1>2. ~Arriving(q)
  BY BeganWith DEF Reason, Base
<1>3. CASE Handling(q)
  <2>1. Over(q)
    BY <1>3, HandlingIs DEF Base, Passed
  <2> QED
    BY <2>1, IdleIs DEF Over, Base, Prepared
<1> QED
  BY <1>1, <1>2, <1>3, Changed, IdleIs

\* A user is confirmed, and his code replaced, by somebody at "confirm" or by
\* somebody who helps.
LEMMA UserChanges ==
    ASSUME Base, [Next]_vars, NEW u \in Users, user[u] # None, user'[u] # None
    PROVE  \/ u \in helped'
           \/ \E q \in Requests : At(q, "confirm") /\ User(q) = u
           \/ UNCHANGED code[u] /\ user'[u].confirmed = user[u].confirmed
<1> USE DEF Base
<1>1. ASSUME NEW v \in Users, NEW w \in Rows, UserSet(v, w), Exists(v),
             w.confirmed = user[v].confirmed
      PROVE  user'[u].confirmed = user[u].confirmed
  BY <1>1, UserSetIs
<1>2. ASSUME NEW v \in Users, NEW w \in Rows, UserSet(v, w), FreshUser(v)
      PROVE  user'[u].confirmed = user[u].confirmed
  BY <1>2, UserSetIs DEF FreshUser
<1>3. ASSUME NEW r \in Requests, Handling(r)
      PROVE  \/ u \in helped'
             \/ \E q \in Requests : At(q, "confirm") /\ User(q) = u
             \/ UNCHANGED code[u] /\ user'[u].confirmed = user[u].confirmed
  <2>1. CASE RegisterUser(r)
    <3>1. CASE UNCHANGED <<user, code>>
      BY <3>1
    <3>2. ASSUME NEW v \in Users, NEW w \in Rows, UserSet(v, w), FreshUser(v),
                 code' = [code EXCEPT ![v] = Good(req[r].code)]
          PROVE  UNCHANGED code[u] /\ user'[u].confirmed = user[u].confirmed
      BY <1>2, <3>2 DEF FreshUser, Typed
    <3> QED
      BY <2>1, <3>1, <3>2, RegisterUserIs
  <2>2. CASE SignUp(r)
    BY <1>2, <2>2, SignUpIs DEF SignUp
  <2>3. CASE DeleteUser(r)
    BY <2>3 DEF DeleteUser
  <2>4. CASE ConfirmUser(r)
    <3>1. CASE UNCHANGED <<user, code>>
      BY <3>1
    <3>2. ASSUME NEW w \in Rows, UserSet(User(r), w), User(r) \in Users, User(r) # u,
                 code' = [code EXCEPT ![User(r)] = None]
          PROVE  UNCHANGED code[u] /\ user'[u].confirmed = user[u].confirmed
      BY <3>2, UserSetIs DEF Typed
    <3> QED
      BY <2>4, <3>1, <3>2, ConfirmUserIs
  <2>5. CASE UpdateCode(r)
    BY <2>5 DEF UpdateCode, Typed
  <2>6. CASE SetPassword(r)
    BY <1>1, <2>6, SetPasswordIs DEF SetPassword
  <2>7. CASE WriteProvider(r)
    <3>1. CASE UNCHANGED <<user, helped>>
      BY <2>7, <3>1 DEF WriteProvider
    <3>2. ASSUME NEW w \in Rows, UserSet(User(r), w), User(r) \in Users,
                 helped' = helped \cup {User(r)}
          PROVE  u \in helped' \/ user'[u] = user[u]
      BY <3>2, UserSetIs
    <3>3. UNCHANGED code
      BY <2>7 DEF WriteProvider
    <3> QED
      BY <2>7, <3>1, <3>2, <3>3, WriteProviderIs
  <2>8. CASE Rename(r)
    BY <1>1, <2>8, RenameIs DEF Rename
  <2>9. CASE UNCHANGED <<user, code>>
    BY <2>9
  <2> QED
    BY <1>3, <2>1, <2>2, <2>3, <2>4, <2>5, <2>6, <2>7, <2>8, <2>9
    DEF Handling, CreateRecovery, UpsertRecovery, EndSessions, DropRecovery, Mail,
        FindProviders, CreateDevice, FindName, WriteBan, rows
<1>4. ASSUME NEW v \in Users, Remove(v)
      PROVE  UNCHANGED code[u] /\ user'[u].confirmed = user[u].confirmed
  BY <1>1, <1>4, RemoveIs DEF Remove
<1> QED
  BY <1>3, <1>4, Quiet DEF rows

\* Only a user that is deleted is no longer counted as helped.
LEMMA HelpedStay ==
    ASSUME Base, [Next]_vars, NEW u \in Users, u \in helped, user'[u] # None, user[u] # None
    PROVE  u \in helped'
<1>1. ASSUME NEW r \in Requests, DeleteUser(r) PROVE u \in helped'
  BY <1>1 DEF DeleteUser
<1>2. ASSUME NEW r \in Requests, Handling(r), ~DeleteUser(r) PROVE u \in helped'
  BY <1>2 DEF Handling, RegisterUser, ConfirmUser, UpdateCode, CreateRecovery, UpsertRecovery,
      EndSessions, DropRecovery, SetPassword, Mail, SignUp, FindProviders, WriteProvider,
      CreateDevice, FindName, Rename, WriteBan, history
<1> QED
  BY <1>1, <1>2, Quiet DEF Remove, history

LEMMA PledgedStep ==
    Base /\ Fresh /\ Pledged /\ [Next]_vars => Pledged'
<1> SUFFICES ASSUME Base, Fresh, Pledged, [Next]_vars, NEW r \in Requests, NEW u \in Users,
                    Undoing(r)', req'[r].user = u, user'[u] # None, u \notin helped',
                    "late" \notin happened'
             PROVE  /\ ~user'[u].confirmed
                    /\ code'[u] # None /\ code'[u].code = req'[r].code
                    /\ \A q \in Requests : ~(req'[q].pc = "confirm" /\ req'[q].user = u)
  BY DEF Pledged, Pledge, User, At
<1>1. CASE /\ Undoing(r) /\ req'[r].user = req[r].user /\ req'[r].code = req[r].code
           /\ ~RegisterUser(r)
  <2>1. user[u] # None
    BY <1>1, UserStep DEF FreshUser, User
  <2>2. u \notin helped /\ "late" \notin happened
    BY <2>1, HelpedStay, FaultsStay
  <2>3. /\ ~user[u].confirmed /\ code[u] # None /\ code[u].code = req[r].code
        /\ \A q \in Requests : ~(At(q, "confirm") /\ User(q) = u)
    BY <1>1, <2>1, <2>2 DEF Pledged, Pledge, User
  <2>4. UNCHANGED code[u] /\ user'[u].confirmed = user[u].confirmed
    BY <2>1, <2>3, UserChanges
  <2>5. code[u].code \notin mailed
    BY <1>1, <2>2, <2>3 DEF Fresh, CodesAreUnread, Undoing, Drawn
  <2> QED
    BY <1>1, <2>3, <2>4, <2>5, NobodyConfirms
<1>2. CASE RegisterUser(r)
  <2>1. /\ At(r, "insert") /\ User(r) = None /\ ~At(r, "idle")
        /\ req[r].op = "register" /\ req[r].code \in Codes
    BY <1>2, RegisterUserIs, PreparedIs DEF Base, At
  <2>2. ~GoTo(r, "mail")
    <3>1. GoTo(r, "mail") => req'[r].user = None
      BY <2>1, GoToIs DEF Base, User, At, Steps
    <3> QED
      BY <3>1, ConstantsAssumption
  <2>3. PICK v \in Users, w \in Rows :
              /\ FreshUser(v) /\ UserSet(v, w) /\ ~w.confirmed
              /\ code' = [code EXCEPT ![v] = Good(req[r].code)]
              /\ req' = [req EXCEPT ![r].pc = "mail", ![r].user = v]
    BY <1>2, <2>2, RegisterUserIs DEF Base
  <2>4. /\ req'[r].user = v /\ req'[r].code = req[r].code /\ req'[r].pc = "mail"
        /\ \A q \in Requests \ {r} : req'[q] = req[q]
    BY <2>1, <2>3, FoundPrepared DEF Base
  <2>5. ~user'[u].confirmed
    BY <2>3, <2>4, UserSetIs DEF Base
  <2>6. code'[u] = Good(req[r].code) /\ Good(req[r].code) # None
    BY <1>2, <2>3, <2>4, RegisterUserIs, GoodIs DEF Base, Typed
  <2>7. \A q \in Requests : ~(req'[q].pc = "confirm" /\ req'[q].user = u)
    BY <2>3, <2>4 DEF FreshUser, User
  <2> QED
    BY <2>4, <2>5, <2>6, <2>7 DEF Good
<1> QED
  BY <1>1, <1>2, UndoingIs

\* A user who vanishes was undone by his registration.
LEMMA VanishedIs ==
    ASSUME Base, [Next]_vars, NEW u \in Users, Vanishes(u)
    PROVE  \E r \in Requests : At(r, "undo") /\ User(r) = u
<1> USE DEF Base, Vanishes
<1>1. \A r \in Requests : RegisterUser(r) \/ SignUp(r) \/ ConfirmUser(r) \/ SetPassword(r)
                            \/ WriteProvider(r) \/ Rename(r) => user'[u] # None
  BY RegisterUserIs, SignUpIs, ConfirmUserIs, SetPasswordIs, WriteProviderIs, RenameIs, UserSetIs
<1>2. \A v \in Users : Remove(v) => user'[u] # None
  BY RemoveIs, UserSetIs
<1>3. PICK r \in Requests : DeleteUser(r)
  BY <1>1, <1>2, Quiet
  DEF Handling, UpdateCode, CreateRecovery, UpsertRecovery, EndSessions, DropRecovery, Mail,
      FindProviders, CreateDevice, FindName, WriteBan, rows
<1> QED
  BY <1>3 DEF DeleteUser, Undone

-----------------------------------------------------------------------------
(* Providers *)

\* A request that merges found the provider missing, and where logins did not
\* overlap it still is.
MissingIsMerged ==
    \A r \in Requests : At(r, "merge") /\ Exists(User(r)) /\ User(r) \notin overlapped =>
        providers[User(r)][req[r].provider] = 0

\* With two providers each linked once, the rows looked at are all there are.
LEMMA LookedAtAll ==
    ASSUME Typed, NEW u \in Users, \A p \in Providers : providers[u][p] <= 1,
           NEW S \in LookedAt(u)
    PROVE  S = Linked(u)
<1>1. CASE Cardinality(S) = 2
  <2>1. S \subseteq Linked(u) /\ Linked(u) \subseteq Providers
    BY DEF LookedAt, Linked
  <2>2. Cardinality(Providers) = Cardinality(S)
    BY <1>1, <2>1, ProvidersAssumption, FS_Subset, FS_CardinalityType
  <2> QED
    BY <2>1, <2>2, ProvidersAssumption, FS_Subset
<1>2. ASSUME NEW p \in Providers, providers[u][p] > 1 PROVE FALSE
  BY <1>2 DEF Typed
<1> QED
  BY <1>1, <1>2 DEF LookedAt

\* How the rows of the providers change.
LEMMA ProvidersAre ==
    ASSUME Base, [Next]_vars
    PROVE  \/ UNCHANGED providers /\ overlapped \subseteq overlapped'
           \/ \E r \in Requests, u \in Users :
                /\ SignUp(r) /\ FreshUser(u) /\ UNCHANGED overlapped
                /\ providers' = [providers EXCEPT ![u][req[r].provider] = 1]
           \/ \E r \in Requests : DeleteUser(r)
           \/ \E r \in Requests :
                /\ WriteProvider(r) /\ At(r, "merge") /\ User(r) \in Users /\ Exists(User(r))
                /\ overlapped' = IF Merging(User(r)) \subseteq {r} THEN overlapped
                                 ELSE overlapped \cup {User(r)}
                /\ providers' = [providers EXCEPT ![User(r)][req[r].provider] = @ + 1]
<1>1. ASSUME NEW r \in Requests, SignUp(r)
      PROVE  \/ UNCHANGED <<providers, overlapped>>
             \/ \E u \in Users :
                  /\ FreshUser(u) /\ UNCHANGED overlapped
                  /\ providers' = [providers EXCEPT ![u][req[r].provider] = 1]
  BY <1>1 DEF SignUp, history
<1>2. ASSUME NEW r \in Requests, WriteProvider(r)
      PROVE  \/ UNCHANGED providers /\ overlapped \subseteq overlapped'
             \/ /\ At(r, "merge") /\ User(r) \in Users /\ Exists(User(r))
                /\ overlapped' = IF Merging(User(r)) \subseteq {r} THEN overlapped
                                 ELSE overlapped \cup {User(r)}
                /\ providers' = [providers EXCEPT ![User(r)][req[r].provider] = @ + 1]
  BY <1>2 DEF WriteProvider, Exists
<1>3. ASSUME NEW r \in Requests, Handling(r), ~SignUp(r), ~DeleteUser(r), ~WriteProvider(r)
      PROVE  UNCHANGED <<providers, overlapped>>
  BY <1>3 DEF Handling, RegisterUser, ConfirmUser, UpdateCode, CreateRecovery, UpsertRecovery,
      EndSessions, DropRecovery, SetPassword, Mail, FindProviders, CreateDevice, FindName,
      Rename, WriteBan, rows, history
<1>4. \A u \in Users : Remove(u) => UNCHANGED <<providers, overlapped>>
  BY DEF Remove, history
<1> QED
  BY <1>1, <1>2, <1>3, <1>4, Quiet DEF rows, history

LEMMA LinkedStep ==
    Base /\ LinkedTwiceNeedsOverlap /\ MissingIsMerged /\ [Next]_vars => LinkedTwiceNeedsOverlap'
<1> SUFFICES ASSUME Base, LinkedTwiceNeedsOverlap, MissingIsMerged, [Next]_vars,
                    NEW v \in Users, v \notin overlapped', NEW p \in Providers
             PROVE  providers'[v][p] <= 1
  BY DEF LinkedTwiceNeedsOverlap
<1> USE DEF Base, Typed
<1>1. v \notin overlapped => providers[v][p] <= 1
  BY DEF LinkedTwiceNeedsOverlap
<1>2. ASSUME NEW r \in Requests, DeleteUser(r)
      PROVE  providers'[v][p] <= 1
  BY <1>1, <1>2 DEF DeleteUser
<1>3. ASSUME NEW u \in Users, NEW q \in Providers, UNCHANGED overlapped,
             providers' = [providers EXCEPT ![u][q] = 1]
      PROVE  providers'[v][p] <= 1
  BY <1>1, <1>3
<1>4. ASSUME NEW r \in Requests, At(r, "merge"), User(r) \in Users, Exists(User(r)),
             req[r].provider \in Providers,
             overlapped' = IF Merging(User(r)) \subseteq {r} THEN overlapped
                           ELSE overlapped \cup {User(r)},
             providers' = [providers EXCEPT ![User(r)][req[r].provider] = @ + 1]
      PROVE  providers'[v][p] <= 1
  <2>1. v \notin overlapped
    BY <1>4
  <2>2. CASE User(r) = v /\ req[r].provider = p
    <3>1. providers[v][p] = 0
      BY <1>4, <2>1, <2>2 DEF MissingIsMerged
    <3> QED
      BY <1>4, <2>2, <3>1
  <2>3. CASE User(r) # v \/ req[r].provider # p
    BY <1>1, <1>4, <2>1, <2>3
  <2> QED
    BY <2>2, <2>3
<1>5. \A r \in Requests : SignUp(r) => req[r].provider \in Providers
  BY SignUpIs
<1>6. \A r \in Requests : At(r, "merge") => req[r].provider \in Providers
  BY PreparedIs DEF At
<1>7. CASE UNCHANGED providers /\ overlapped \subseteq overlapped'
  BY <1>1, <1>7
<1> QED
  BY <1>2, <1>3, <1>4, <1>5, <1>6, <1>7, ProvidersAre

LEMMA MissingStep ==
    Base /\ LinkedTwiceNeedsOverlap /\ MissingIsMerged /\ [Next]_vars => MissingIsMerged'
<1> SUFFICES ASSUME Base, LinkedTwiceNeedsOverlap, MissingIsMerged, [Next]_vars,
                    NEW s \in Requests, req'[s].pc = "merge", req'[s].user \in Users,
                    user'[req'[s].user] # None, req'[s].user \notin overlapped'
             PROVE  providers'[req'[s].user][req'[s].provider] = 0
  BY DEF MissingIsMerged, At, User, Exists
<1> DEFINE v == req'[s].user
           p == req'[s].provider
<1>0. p \in Providers
  <2>1. Prepared'
    BY NextBase DEF Base
  <2> QED
    BY <2>1 DEF Prepared, Sound
<1>1. CASE req'[s] = req[s]
  <2>1. user[v] # None
    BY <1>1, UserStep DEF FreshUser, User
  <2>2. At(s, "merge") /\ Exists(v) /\ User(s) = v
    BY <1>1, <2>1 DEF At, Exists, User
  <2>3. v \notin overlapped => providers[v][p] = 0
    BY <1>1, <2>2 DEF MissingIsMerged, User
  <2>4. CASE UNCHANGED providers /\ overlapped \subseteq overlapped'
    BY <2>3, <2>4
  <2>5. ASSUME NEW u \in Users, FreshUser(u), UNCHANGED overlapped, NEW q \in Providers,
               providers' = [providers EXCEPT ![u][q] = 1]
        PROVE  providers'[v][p] = 0
    <3>1. u # v
      BY <2>1, <2>5 DEF FreshUser
    <3> QED
      BY <2>3, <2>5, <3>1 DEF Base, Typed
  <2>6. ASSUME NEW r \in Requests, DeleteUser(r)
        PROVE  providers'[v][p] = 0
    BY <1>0, <2>3, <2>6 DEF DeleteUser
  <2>7. ASSUME NEW r \in Requests, WriteProvider(r), At(r, "merge"), User(r) \in Users,
               overlapped' = IF Merging(User(r)) \subseteq {r} THEN overlapped
                             ELSE overlapped \cup {User(r)},
               providers' = [providers EXCEPT ![User(r)][req[r].provider] = @ + 1]
        PROVE  providers'[v][p] = 0
    <3>1. r # s
      <4>1. req'[r].pc = "device"
        <5>1. GoTo(r, "device")
          BY <2>7 DEF WriteProvider
        <5> QED
          BY <2>7, <5>1, GoToIs DEF Base, At, Steps
      <4> QED
        BY <4>1
    <3>2. User(r) # v
      <4>1. s \in Merging(v)
        BY <2>2 DEF Merging
      <4> QED
        BY <2>7, <3>1, <4>1
    <3> QED
      BY <2>3, <2>7, <3>2 DEF Base, Typed
  <2>8. \A r \in Requests : SignUp(r) => req[r].provider \in Providers
    BY SignUpIs DEF Base
  <2> QED
    BY <2>4, <2>5, <2>6, <2>7, <2>8, ProvidersAre
<1>2. CASE req'[s] # req[s]
  <2>1. ~Arriving(s) /\ ~Over(s)
    BY ArrivingPrepared, IdleIs DEF Base, Prepared, Over
  <2>2. FindProviders(s)
    BY <1>2, <2>1, Changed, IdleIs, HandlingIs DEF Base, Passed
  <2>3. PICK S \in LookedAt(User(s)) :
               GoTo(s, IF req[s].provider \in S THEN "refresh" ELSE "merge")
    BY <2>1, <2>2 DEF FindProviders
  <2>4. At(s, "providers") /\ ~At(s, "idle") /\ UNCHANGED rows /\ UNCHANGED overlapped
    BY <2>2 DEF FindProviders, At, history
  <2>5. req[s].provider \notin S
    <3>1. ASSUME req[s].provider \in S PROVE FALSE
      <4>1. req'[s].pc = "refresh"
        BY <2>3, <2>4, <3>1, GoToIs DEF Base, Steps
      <4> QED
        BY <4>1
    <3> QED
      BY <3>1
  <2>6. req'[s].user = User(s) /\ req'[s].provider = req[s].provider
    BY <2>3, <2>4, <2>5, GoToIs DEF Base, Steps, User
  <2>7. S = Linked(v)
    <3>1. v \notin overlapped /\ S \in LookedAt(v)
      BY <2>3, <2>4, <2>6
    <3>2. \A q \in Providers : providers[v][q] <= 1
      BY <3>1 DEF LinkedTwiceNeedsOverlap
    <3> QED
      BY <3>1, <3>2, LookedAtAll DEF Base
  <2>8. providers[v][p] = 0
    BY <1>0, <2>5, <2>6, <2>7 DEF Linked, Base, Typed
  <2> QED
    BY <2>4, <2>8 DEF rows
<1> QED
  BY <1>1, <1>2


-----------------------------------------------------------------------------
(* The theorems *)

\* The inductive invariant: the types and what requests know, the codes they
\* have drawn, and what the properties say.
IInv ==
    /\ Base /\ Fresh
    /\ DevicesAreConfirmed /\ LoggedInAreConfirmed /\ UnconfirmedCanConfirm
    /\ RowsAreOwed /\ CodesAreOwn
    /\ StoredCodesAreMailed
    /\ Pledged
    /\ LinkedTwiceNeedsOverlap /\ MissingIsMerged

LEMMA InitIInv == Init => IInv
<1> SUFFICES ASSUME Init PROVE IInv
  OBVIOUS
<1>1. Base
  BY InitBase
<1>2. \A r \in Requests : req[r].pc = "idle"
  BY IdleIs DEF Init
<1>3. \A u \in Users : user[u] = None /\ code[u] = None /\ recovery[u] = None /\ owed[u] = 0
  BY DEF Init
<1>4. loggedIn = {}
  BY DEF Init
<1>5. Fresh
  BY <1>2 DEF Fresh, CodesAreDistinct, CodesAreUnread, CodesAreUnissued, Drawn, Storing
<1>6. DevicesAreConfirmed /\ LoggedInAreConfirmed /\ UnconfirmedCanConfirm
  BY <1>2, <1>3, <1>4 DEF DevicesAreConfirmed, LoggedInAreConfirmed, UnconfirmedCanConfirm, At
<1>7. RowsAreOwed
  BY <1>3 DEF RowsAreOwed
<1>8. CodesAreOwn /\ StoredCodesAreMailed
  BY <1>2, <1>3 DEF CodesAreOwn, StoredCodesAreMailed, At
<1>9. Pledged
  BY <1>3 DEF Pledged, Pledge
<1>10. LinkedTwiceNeedsOverlap /\ MissingIsMerged
  <2>1. \A u \in Users, p \in Providers : providers[u][p] = 0
    BY DEF Init
  <2> QED
    BY <1>2, <2>1 DEF LinkedTwiceNeedsOverlap, MissingIsMerged, At
<1> QED
  BY <1>1, <1>5, <1>6, <1>7, <1>8, <1>9, <1>10 DEF IInv

LEMMA NextIInv == IInv /\ [Next]_vars => IInv'
  BY NextBase, FreshStep, DevicesStep, LoggedInStep, UnconfirmedStep, OwedStep, OwnStep,
     StoredStep, PledgedStep, LinkedStep, MissingStep DEF IInv

LEMMA IInvAlways == Spec => []IInv
  BY InitIInv, NextIInv, PTL DEF Spec

\* Only users that exist have codes, sessions and bans, and every variable keeps
\* its type, for any number of users, codes and requests.
THEOREM TypeCorrect == Spec => []TypeOK
  BY BaseAlways, BaseTypes, PTL

\* Nobody is locked out of confirming, whatever fails and however requests
\* interleave: a user that exists unconfirmed has a code that can be renewed.
THEOREM NobodyIsLockedOut == Spec => []UnconfirmedCanConfirm
<1>1. IInv => UnconfirmedCanConfirm
  BY DEF IInv
<1> QED
  BY <1>1, IInvAlways, PTL

\* Where nothing fails, a code that is stored was mailed or is about to be, of
\* any number of users and requests.
THEOREM CodesReachTheirUsers == Spec => []StoredCodesAreMailed
<1>1. IInv => StoredCodesAreMailed
  BY DEF IInv
<1> QED
  BY <1>1, IInvAlways, PTL

\* A recovery code sets the password of the user it was issued for, and at most
\* once for each code that was stored.
THEOREM PasswordsAreTheirOwners == Spec => []ResetsAreStored
<1>1. IInv => ResetsAreStored
  BY DEF IInv, RowsAreOwed, CodesAreOwn, ResetsAreStored
<1> QED
  BY <1>1, IInvAlways, PTL

\* Sessions are of confirmed users, unless a write failed.
THEOREM SessionsAreConfirmed == Spec => []LoggedInAreConfirmed
<1>1. IInv => LoggedInAreConfirmed
  BY DEF IInv
<1> QED
  BY <1>1, IInvAlways, PTL

\* With two providers, one is linked to a user twice only by logins that merged
\* it at the same time: whichever rows findMany returns first.
THEOREM LinksOverlap == Spec => []LinkedTwiceNeedsOverlap
<1>1. IInv => LinkedTwiceNeedsOverlap
  BY DEF IInv
<1> QED
  BY <1>1, IInvAlways, PTL

\* The compensation of a registration takes no account that was confirmed
\* meanwhile.
THEOREM CompensationIsSafe == Spec => ConfirmedIsKept
<1>1. ASSUME IInv, [Next]_vars, NEW u \in Users, Vanishes(u), user[u].confirmed
      PROVE  "late" \in happened \/ u \in helped
  <2>1. PICK r \in Requests : At(r, "undo") /\ User(r) = u
    BY <1>1, VanishedIs DEF IInv
  <2>2. Undoing(r)
    BY <1>1, <2>1, PreparedIs DEF Undoing, At, IInv, Base
  <2> QED
    BY <1>1, <2>1, <2>2 DEF IInv, Pledged, Pledge, Vanishes
<1>2. IInv /\ [Next]_vars =>
        [\A u \in Users : Vanishes(u) /\ user[u].confirmed =>
           "late" \in happened \/ u \in helped]_vars
  BY <1>1
<1> QED
  BY <1>2, IInvAlways, PTL DEF Spec, ConfirmedIsKept

=============================================================================
