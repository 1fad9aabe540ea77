-------------------------- MODULE Sessions_proofs --------------------------
(***************************************************************************)
(* Proofs about Sessions for any number of users, devices, browsers and    *)
(* requests: its types, the implementation of SessionLifecycle, who ends a *)
(* session, and which refresh tokens are accepted: who holds a session is  *)
(* not logged out of it, no generation of tokens outlives the next, and    *)
(* tokens without a session are the price of faults.                       *)
(***************************************************************************)
EXTENDS Sessions, FiniteSetTheorems, TLAPS

Guarded == {"refresh", "logout", "others", "terminate"}

\* What the handlers know of a request at each step.
Prepared ==
    \A r \in Requests :
      /\ req[r].op \in Operations \ {"recover"} => Dev(r) \in Devices
      /\ req[r].op = "terminate" => req[r].target \in Devices
      /\ req[r].pc = "guard" => req[r].op \in Guarded
      /\ req[r].pc \in {"sign", "lookup", "update"} => req[r].op = "refresh"
      /\ req[r].pc \in {"create", "respond"} => req[r].op \in {"login", "refresh"}
      /\ req[r].pc \in {"create", "lookup", "update", "respond"} => req[r].new \in Nat
      /\ req[r].pc = "find" => req[r].op \in {"logout", "terminate"}
      /\ req[r].pc = "own" => req[r].op = "terminate"
      /\ req[r].pc = "delete" => req[r].op \in {"logout", "others", "terminate", "recover"}

\* A device about to be created was never seen, and is created by one request.
Unborn ==
    \A r \in Requests : At(r, "create") =>
      /\ row[Dev(r)] = None
      /\ Dev(r) \notin ended
      /\ \A q \in Requests : At(q, "create") /\ Dev(q) = Dev(r) => q = r

\* A session that ended has no row.
Buried == \A d \in ended : row[d] = None

\* The owner TerminateSessionUseCase read is still the owner of the row, or the
\* session has ended meanwhile; and it is the caller when the row is deleted.
Judged ==
    \A r \in Requests : req[r].op = "terminate" =>
      /\ req[r].pc \in {"own", "delete"} =>
           \/ req[r].target \in ended
           \/ row[req[r].target] # None /\ row[req[r].target].user = req[r].owner
      /\ req[r].pc = "delete" => req[r].owner = req[r].user

IInv == TypeOK /\ Prepared /\ Unborn /\ Buried /\ Judged

-----------------------------------------------------------------------------
(* The invariant is inductive *)

\* Nobody is logged in at first.
LEMMA InitIInv == Init => IInv
<1> SUFFICES ASSUME Init PROVE IInv
  OBVIOUS
<1>1. None \notin Operations
  BY ConstantsAssumption
<1>2. TypeOK
  BY DEF Init, TypeOK
<1>3. \A r \in Requests : req[r].op = None /\ req[r].pc = "idle"
  BY DEF Init, Idle, Request
<1>4. Prepared
  BY <1>1, <1>3 DEF Prepared, Operations
<1>5. Unborn /\ Buried
  BY <1>3 DEF Init, Unborn, Buried, At
<1>6. Judged
  BY <1>1, <1>3 DEF Judged, Operations
<1> QED
  BY <1>2, <1>4, <1>5, <1>6 DEF IInv

\* A request that moves on keeps its type.
LEMMA MoveType ==
    ASSUME TypeOK, NEW r \in Requests, NEW pc \in Steps, req[r].pc # "idle", GoTo(r, pc)
    PROVE  req' \in [Requests -> InFlight \cup {Idle}]
  BY DEF TypeOK, GoTo, InFlight, Idle, Request

LEMMA OverType ==
    ASSUME TypeOK, NEW r \in Requests, Over(r)
    PROVE  req' \in [Requests -> InFlight \cup {Idle}]
  BY DEF TypeOK, Over

\* Every step keeps the types.
LEMMA TypeStep == TypeOK /\ Prepared /\ [Next]_vars => TypeOK'
<1> SUFFICES ASSUME TypeOK, Prepared, [Next]_vars PROVE TypeOK'
  OBVIOUS
<1> USE ConstantsAssumption
<1>1. ASSUME NEW r \in Requests, NEW c \in Clients, NEW u \in Users, NEW d \in Devices,
             Login(r, c, u, d)
      PROVE  TypeOK'
  BY <1>1 DEF Login, TypeOK, Request, InFlight, Idle, Operations, Steps, history
<1>2. ASSUME NEW r \in Requests, NEW c \in Clients, NEW op \in Operations,
             NEW target \in Devices \cup {None}, Start(r, c, op, target)
      PROVE  TypeOK'
  <2>1. jar[c] \in Tokens
    BY <1>2 DEF Start, TypeOK
  <2>2. [Request(op, "guard", c, jar[c].user, jar[c].dev)
           EXCEPT !.old = jar[c].iat, !.target = target] \in InFlight
    BY <2>1 DEF Request, InFlight, Tokens, Steps
  <2> QED
    BY <1>2, <2>2 DEF Start, TypeOK, history
<1>3. ASSUME NEW r \in Requests, NEW u \in Users, Recover(r, u) PROVE TypeOK'
  BY <1>3 DEF Recover, TypeOK, Request, InFlight, Idle, Operations, Steps, history
<1>4. ASSUME NEW r \in Requests, CreateDevice(r) PROVE TypeOK'
  <2>1. Dev(r) \in Devices /\ req[r].new \in Nat /\ req[r].user \in Users
    BY <1>4 DEF CreateDevice, At, Prepared, TypeOK, InFlight, Idle, Request, Operations
  <2>2. req' \in [Requests -> InFlight \cup {Idle}]
    BY <1>4, MoveType DEF CreateDevice, At, Steps
  <2> QED
    BY <1>4, <2>1, <2>2 DEF CreateDevice, Fault, TypeOK, Rows, history
<1>5. ASSUME NEW r \in Requests, Guard(r) PROVE TypeOK'
  <2>1. AfterGuard[req[r].op] \in Steps
    BY <1>5 DEF Guard, At, Prepared, Guarded, AfterGuard, Steps
  <2>2. req' \in [Requests -> InFlight \cup {Idle}]
    BY <1>5, <2>1, MoveType, OverType DEF Guard, At
  <2> QED
    BY <1>5, <2>2 DEF Guard, Fault, TypeOK, history
<1>6. ASSUME NEW r \in Requests, Sign(r) PROVE TypeOK'
  <2>1. req' \in [Requests -> InFlight \cup {Idle}]
    <3>1. req[r] \in InFlight
      BY <1>6 DEF Sign, At, TypeOK, Idle, Request
    <3>2. [req[r] EXCEPT !.pc = "lookup", !.new = clock] \in InFlight
      BY <3>1 DEF TypeOK, InFlight, Steps
    <3> QED
      BY <1>6, <3>2 DEF Sign, TypeOK
  <2>2. disturbed' \subseteq Devices
    BY <1>6 DEF Sign, TypeOK
  <2> QED
    BY <1>6, <2>1, <2>2 DEF Sign, TypeOK
<1>7. ASSUME NEW r \in Requests, Lookup(r) PROVE TypeOK'
  <2>1. req' \in [Requests -> InFlight \cup {Idle}]
    BY <1>7, MoveType, OverType DEF Lookup, At, Steps
  <2> QED
    BY <1>7, <2>1 DEF Lookup, Fault, TypeOK, history
<1>8. ASSUME NEW r \in Requests, UpdateDevice(r) PROVE TypeOK'
  <2>1. Dev(r) \in Devices /\ req[r].new \in Nat
    BY <1>8 DEF UpdateDevice, At, Prepared, Operations
  <2>2. req' \in [Requests -> InFlight \cup {Idle}]
    BY <1>8, MoveType DEF UpdateDevice, At, Steps
  <2>3. row' \in [Devices -> Rows \cup {None}]
    BY <1>8, <2>1 DEF UpdateDevice, Updated, Active, TypeOK, Rows
  <2> QED
    BY <1>8, <2>1, <2>2, <2>3 DEF UpdateDevice, Updated, Fault, TypeOK
<1>9. ASSUME NEW r \in Requests, Respond(r) PROVE TypeOK'
  <2>1. Signed(r) \in Tokens
    BY <1>9 DEF Respond, At, Prepared, Signed, Tokens, TypeOK, InFlight, Idle, Request,
                Operations, Dev
  <2>2. req' \in [Requests -> InFlight \cup {Idle}]
    BY <1>9, OverType DEF Respond
  <2> QED
    BY <1>9, <2>1, <2>2 DEF Respond, TypeOK
<1>10. ASSUME NEW r \in Requests, Lose(r) PROVE TypeOK'
  <2>1. Dev(r) \in Devices
    BY <1>10 DEF Lose, At, Prepared, Operations
  <2>2. req' \in [Requests -> InFlight \cup {Idle}]
    BY <1>10, OverType DEF Lose
  <2> QED
    BY <1>10, <2>1, <2>2 DEF Lose, Fault, TypeOK
<1>11. ASSUME NEW r \in Requests, Find(r) PROVE TypeOK'
  <2> DEFINE found == IF req[r].op = "logout" THEN Dev(r) ELSE req[r].target
  <2>1. found \in Devices
    BY <1>11 DEF Find, At, Prepared, Operations
  <2>2. CASE row[found] # None /\ UNCHANGED faults
    <3>1. row[found].user \in Users
      BY <2>1, <2>2 DEF TypeOK, Rows
    <3>2. CASE Over(r)
      BY <1>11, <2>2, <3>2, OverType DEF Find, TypeOK, history
    <3>3. CASE req' = [req EXCEPT ![r].owner = row[found].user,
                       ![r].pc = IF req[r].op = "logout" THEN "delete" ELSE "own"]
      BY <1>11, <2>2, <3>1, <3>3
      DEF Find, At, TypeOK, InFlight, Idle, Request, Steps, history
    <3> QED
      BY <1>11, <2>2, <3>2, <3>3 DEF Find
  <2>3. CASE Over(r)
    BY <1>11, <2>3, OverType DEF Find, Fault, TypeOK, history
  <2> QED
    BY <1>11, <2>2, <2>3 DEF Find
<1>12. ASSUME NEW r \in Requests, FindOwn(r) PROVE TypeOK'
  <2>1. req' \in [Requests -> InFlight \cup {Idle}]
    BY <1>12, MoveType, OverType DEF FindOwn, At, Steps
  <2> QED
    BY <1>12, <2>1 DEF FindOwn, Fault, TypeOK, history
<1>13. ASSUME NEW r \in Requests, Delete(r) PROVE TypeOK'
  <2>1. Doomed(r) \subseteq Devices
    BY <1>13 DEF Delete, At, Doomed, Prepared, Operations
  <2>2. req' \in [Requests -> InFlight \cup {Idle}]
    BY <1>13, OverType DEF Delete
  <2>3. row' \in [Devices -> Rows \cup {None}]
    BY <1>13 DEF Delete, TypeOK
  <2> QED
    BY <1>13, <2>1, <2>2, <2>3 DEF Delete, Fault, TypeOK
<1>14. ASSUME Crash PROVE TypeOK'
  BY <1>14 DEF Crash, Fault, TypeOK
<1>15. ASSUME Tick PROVE TypeOK'
  BY <1>15 DEF Tick, TypeOK, history
<1>16. ASSUME UNCHANGED vars PROVE TypeOK'
  BY <1>16 DEF vars, history, TypeOK
<1> QED
  BY <1>1, <1>2, <1>3, <1>4, <1>5, <1>6, <1>7, <1>8, <1>9, <1>10, <1>11, <1>12, <1>13,
     <1>14, <1>15, <1>16 DEF Next, Arriving, Handling

\* A request that is over keeps what the handlers know of the others.
LEMMA OverPrepared ==
    ASSUME TypeOK, Prepared, NEW r \in Requests, Over(r)
    PROVE  Prepared'
<1>1. \A q \in Requests : req'[q] = IF q = r THEN Idle ELSE req[q]
  BY DEF TypeOK, Over
<1>2. Idle.op \notin Operations /\ Idle.pc = "idle"
  BY ConstantsAssumption DEF Idle, Request
<1>3. \A q \in Requests : q # r => req'[q] = req[q]
  BY <1>1
<1>4. req'[r].op \notin Operations /\ req'[r].pc = "idle"
  BY <1>1, <1>2
<1> QED
  BY <1>3, <1>4 DEF Prepared, Dev, Operations

\* Every step keeps what the handlers know.
LEMMA PreparedStep == TypeOK /\ Prepared /\ [Next]_vars => Prepared'
<1> SUFFICES ASSUME TypeOK, Prepared, [Next]_vars PROVE Prepared'
  OBVIOUS
<1> USE ConstantsAssumption
<1>1. ASSUME NEW r \in Requests, NEW c \in Clients, NEW u \in Users, NEW d \in Devices,
             Login(r, c, u, d)
      PROVE  Prepared'
  BY <1>1 DEF Login, TypeOK, Prepared, Dev, Request, Operations
<1>2. ASSUME NEW r \in Requests, NEW c \in Clients, NEW op \in Operations,
             NEW target \in Devices \cup {None}, Start(r, c, op, target)
      PROVE  Prepared'
  <2>1. jar[c].dev \in Devices
    BY <1>2 DEF Start, TypeOK, Tokens
  <2> QED
    BY <1>2, <2>1 DEF Start, TypeOK, Prepared, Dev, Request, Operations, Guarded
<1>3. ASSUME NEW r \in Requests, NEW u \in Users, Recover(r, u) PROVE Prepared'
  BY <1>3 DEF Recover, TypeOK, Prepared, Dev, Request, Operations
<1>4. ASSUME NEW r \in Requests, CreateDevice(r) PROVE Prepared'
  BY <1>4 DEF CreateDevice, TypeOK, Prepared, At, GoTo, Over, Dev, Idle, Request, Operations
<1>5. ASSUME NEW r \in Requests, Guard(r) PROVE Prepared'
  <2>1. CASE GoTo(r, AfterGuard[req[r].op])
    BY <1>5, <2>1 DEF Guard, AfterGuard, TypeOK, Prepared, Guarded, At, GoTo, Dev, Operations
  <2>2. CASE Over(r)
    BY <2>2, OverPrepared
  <2> QED
    BY <1>5, <2>1, <2>2 DEF Guard
<1>6. ASSUME NEW r \in Requests, Sign(r) PROVE Prepared'
  BY <1>6 DEF Sign, TypeOK, Prepared, At, GoTo, Over, Dev, Idle, Request, Operations
<1>7. ASSUME NEW r \in Requests, Lookup(r) PROVE Prepared'
  <2>1. CASE GoTo(r, "update")
    BY <1>7, <2>1 DEF Lookup, TypeOK, Prepared, At, GoTo, Dev, Operations
  <2> QED
    BY <1>7, <2>1, OverPrepared DEF Lookup
<1>8. ASSUME NEW r \in Requests, UpdateDevice(r) PROVE Prepared'
  BY <1>8 DEF UpdateDevice, TypeOK, Prepared, At, GoTo, Over, Dev, Idle, Request, Operations
<1>9. ASSUME NEW r \in Requests, Respond(r) PROVE Prepared'
  BY <1>9, OverPrepared DEF Respond
<1>10. ASSUME NEW r \in Requests, Lose(r) PROVE Prepared'
  BY <1>10, OverPrepared DEF Lose
<1>11. ASSUME NEW r \in Requests, Find(r) PROVE Prepared'
  <2>1. CASE Over(r)
    BY <2>1, OverPrepared
  <2>2. CASE ~Over(r)
    <3>1. PICK o : req' = [req EXCEPT ![r].owner = o,
                    ![r].pc = IF req[r].op = "logout" THEN "delete" ELSE "own"]
      BY <1>11, <2>2 DEF Find
    <3>2. req[r].op \in {"logout", "terminate"}
      BY <1>11 DEF Find, At, Prepared
    <3> QED
      BY <3>1, <3>2 DEF TypeOK, Prepared, Dev, Operations
  <2> QED
    BY <2>1, <2>2
<1>12. ASSUME NEW r \in Requests, FindOwn(r) PROVE Prepared'
  <2>1. CASE GoTo(r, "delete")
    BY <1>12, <2>1 DEF FindOwn, TypeOK, Prepared, At, GoTo, Dev, Operations
  <2> QED
    BY <1>12, <2>1, OverPrepared DEF FindOwn
<1>13. ASSUME NEW r \in Requests, Delete(r) PROVE Prepared'
  BY <1>13, OverPrepared DEF Delete
<1>14. ASSUME Crash PROVE Prepared'
  BY <1>14 DEF Crash, TypeOK, Prepared, Dev, Idle, Request, Operations
<1>15. ASSUME Tick PROVE Prepared'
  BY <1>15 DEF Tick, Prepared, Dev
<1>16. ASSUME UNCHANGED vars PROVE Prepared'
  BY <1>16 DEF vars, Prepared, Dev
<1> QED
  BY <1>1, <1>2, <1>3, <1>4, <1>5, <1>6, <1>7, <1>8, <1>9,
     <1>10, <1>11, <1>12, <1>13, <1>14, <1>15, <1>16 DEF Next, Arriving, Handling

\* A step that writes no row and starts no login changes nothing of this.
LEMMA BirthFrame ==
    ASSUME Unborn, Buried, UNCHANGED <<row, ended>>,
           \A q \in Requests : At(q, "create")' => At(q, "create") /\ Dev(q)' = Dev(q)
    PROVE  Unborn' /\ Buried'
  BY DEF Unborn, Buried

LEMMA MoveBirth ==
    ASSUME TypeOK, Unborn, Buried, UNCHANGED <<row, ended>>, NEW r \in Requests,
           \/ Over(r)
           \/ \E pc \in Steps \ {"create"} : GoTo(r, pc)
    PROVE  Unborn' /\ Buried'
<1>1. CASE Over(r)
  <2>1. \A q \in Requests : req'[q] = IF q = r THEN Idle ELSE req[q]
    BY <1>1 DEF TypeOK, Over
  <2>2. Idle.pc # "create"
    BY DEF Idle, Request
  <2>3. \A q \in Requests : At(q, "create")' => At(q, "create") /\ Dev(q)' = Dev(q)
    BY <2>1, <2>2 DEF At, Dev
  <2> QED
    BY <2>3, BirthFrame
<1>2. ASSUME NEW pc \in Steps \ {"create"}, GoTo(r, pc) PROVE Unborn' /\ Buried'
  <2>1. \A q \in Requests : At(q, "create")' => At(q, "create") /\ Dev(q)' = Dev(q)
    BY <1>2 DEF TypeOK, At, GoTo, Dev
  <2> QED
    BY <2>1, BirthFrame
<1> QED
  BY <1>1, <1>2

\* Every step keeps device ids unique, and an ended session without a row.
LEMMA BirthStep ==
    TypeOK /\ Prepared /\ Unborn /\ Buried /\ [Next]_vars => Unborn' /\ Buried'
<1> SUFFICES ASSUME TypeOK, Prepared, Unborn, Buried, [Next]_vars PROVE Unborn' /\ Buried'
  OBVIOUS
<1> USE ConstantsAssumption
<1>1. ASSUME NEW r \in Requests, NEW c \in Clients, NEW u \in Users, NEW d \in Devices,
             Login(r, c, u, d)
      PROVE  Unborn' /\ Buried'
  BY <1>1 DEF Login, Fresh, TypeOK, Unborn, Buried, At, Dev, Request, history
<1>2. ASSUME NEW r \in Requests, NEW c \in Clients, NEW op \in Operations,
             NEW target \in Devices \cup {None}, Start(r, c, op, target)
      PROVE  Unborn' /\ Buried'
  BY <1>2 DEF Start, TypeOK, Unborn, Buried, At, Dev, Request, history
<1>3. ASSUME NEW r \in Requests, NEW u \in Users, Recover(r, u)
      PROVE  Unborn' /\ Buried'
  BY <1>3 DEF Recover, TypeOK, Unborn, Buried, At, Dev, Request, history
<1>4. ASSUME NEW r \in Requests, CreateDevice(r) PROVE Unborn' /\ Buried'
  <2>1. At(r, "create") /\ Dev(r) \in Devices
    BY <1>4 DEF CreateDevice, At, Prepared, Operations
  <2>2. \A q \in Requests :
          At(q, "create")' => q # r /\ At(q, "create") /\ Dev(q)' = Dev(q)
    BY <1>4 DEF CreateDevice, TypeOK, At, GoTo, Dev
  <2>3. \A d \in Devices : d # Dev(r) => row'[d] = row[d]
    BY <1>4, <2>1 DEF CreateDevice, TypeOK
  <2>4. Dev(r) \notin ended /\ ended' = ended
    BY <1>4, <2>1 DEF CreateDevice, Unborn, history
  <2>5. \A q \in Requests : At(q, "create") => Dev(q) \in Devices
    BY DEF At, Prepared, Operations
  <2>6. Buried'
    BY <2>3, <2>4 DEF Buried, TypeOK
  <2>7. Unborn'
    BY <2>1, <2>2, <2>3, <2>4, <2>5 DEF Unborn
  <2> QED
    BY <2>6, <2>7
<1>5. ASSUME NEW r \in Requests, Guard(r) PROVE Unborn' /\ Buried'
  <2>1. AfterGuard[req[r].op] \in Steps \ {"create"}
    BY <1>5 DEF Guard, At, Prepared, Guarded, AfterGuard, Steps
  <2> QED
    BY <1>5, <2>1, MoveBirth DEF Guard, history
<1>6. ASSUME NEW r \in Requests, Sign(r) PROVE Unborn' /\ Buried'
  <2>1. \A q \in Requests : At(q, "create")' => At(q, "create") /\ Dev(q)' = Dev(q)
    BY <1>6 DEF Sign, TypeOK, At, Dev
  <2> QED
    BY <1>6, <2>1, BirthFrame DEF Sign
<1>7. ASSUME NEW r \in Requests, Lookup(r) PROVE Unborn' /\ Buried'
  BY <1>7, MoveBirth DEF Lookup, Steps, history
<1>8. ASSUME NEW r \in Requests, UpdateDevice(r) PROVE Unborn' /\ Buried'
  <2>1. \A d \in Devices : row[d] = None => row'[d] = None
    BY <1>8 DEF UpdateDevice, Updated, Active, TypeOK
  <2>2. \A q \in Requests : At(q, "create") => Dev(q) \in Devices
    BY DEF At, Prepared, Operations
  <2> QED
    BY <1>8, <2>1, <2>2 DEF UpdateDevice, TypeOK, Unborn, Buried, At, GoTo, Dev
<1>9. ASSUME NEW r \in Requests, Respond(r) PROVE Unborn' /\ Buried'
  BY <1>9, MoveBirth DEF Respond
<1>10. ASSUME NEW r \in Requests, Lose(r) PROVE Unborn' /\ Buried'
  BY <1>10, MoveBirth DEF Lose
<1>11. ASSUME NEW r \in Requests, Find(r) PROVE Unborn' /\ Buried'
  <2>1. CASE Over(r)
    BY <1>11, <2>1, MoveBirth DEF Find, history
  <2>2. CASE ~Over(r)
    <3>1. PICK o : req' = [req EXCEPT ![r].owner = o,
                    ![r].pc = IF req[r].op = "logout" THEN "delete" ELSE "own"]
      BY <1>11, <2>2 DEF Find
    <3>2. \A q \in Requests : At(q, "create")' => At(q, "create") /\ Dev(q)' = Dev(q)
      BY <3>1 DEF TypeOK, At, Dev
    <3> QED
      BY <1>11, <3>2, BirthFrame DEF Find, history
  <2> QED
    BY <2>1, <2>2
<1>12. ASSUME NEW r \in Requests, FindOwn(r) PROVE Unborn' /\ Buried'
  BY <1>12, MoveBirth DEF FindOwn, Steps, history
<1>13. ASSUME NEW r \in Requests, Delete(r) PROVE Unborn' /\ Buried'
  <2>1. \A d \in Doomed(r) : row[d] # None
    BY <1>13 DEF Delete, At, Prepared, Doomed
  <2>2. \A d \in Devices : d \in ended' => d \in ended \/ (d \in Doomed(r) /\ row'[d] = None)
    <3>1. CASE row' = [d \in Devices |-> IF d \in Doomed(r) THEN None ELSE row[d]]
                 /\ ended' = ended \cup Doomed(r)
      BY <3>1
    <3>2. CASE UNCHANGED <<row, ended>>
      BY <3>2
    <3> QED
      BY <1>13, <3>1, <3>2 DEF Delete
  <2>3. \A d \in Devices : row[d] = None => row'[d] = None
    BY <1>13 DEF Delete, TypeOK
  <2>4. \A q \in Requests : At(q, "create")' => At(q, "create") /\ Dev(q)' = Dev(q)
    BY <1>13 DEF Delete, TypeOK, At, Over, Dev, Idle, Request
  <2>5. \A q \in Requests : At(q, "create") => Dev(q) \in Devices
    BY DEF At, Prepared, Operations
  <2>6. ended' \subseteq Devices
    BY TypeStep DEF TypeOK
  <2>7. Buried'
    BY <2>2, <2>3, <2>6 DEF Buried, TypeOK
  <2>8. Unborn'
    BY <2>1, <2>2, <2>3, <2>4, <2>5 DEF Unborn
  <2> QED
    BY <2>7, <2>8
<1>14. ASSUME Crash PROVE Unborn' /\ Buried'
  BY <1>14 DEF Crash, TypeOK, Unborn, Buried, At, Dev, Idle, Request
<1>15. ASSUME Tick PROVE Unborn' /\ Buried'
  BY <1>15 DEF Tick, Unborn, Buried, At, Dev, history
<1>16. ASSUME UNCHANGED vars PROVE Unborn' /\ Buried'
  BY <1>16 DEF vars, history, Unborn, Buried, At, Dev
<1> QED
  BY <1>1, <1>2, <1>3, <1>4, <1>5, <1>6, <1>7, <1>8, <1>9,
     <1>10, <1>11, <1>12, <1>13, <1>14, <1>15, <1>16 DEF Next, Arriving, Handling

-----------------------------------------------------------------------------
(* What a step does to the rows *)

Creates(r) ==
    /\ At(r, "create")
    /\ Dev(r) \in Devices
    /\ req[r].user \in Users
    /\ row' = [row EXCEPT ![Dev(r)] = [user |-> req[r].user, lastActiveDate |-> req[r].new]]
    /\ ended' = ended

Touches(r) ==
    /\ Dev(r) \in Devices
    /\ req[r].new \in Nat
    /\ Updated(r)
    /\ ended' = ended

Drops(r) ==
    /\ Deletes(r)
    /\ req[r].op \in {"logout", "others", "terminate", "recover"}
    /\ row' = [d \in Devices |-> IF d \in Doomed(r) THEN None ELSE row[d]]
    /\ ended' = ended \cup Doomed(r)

\* A step creates one row, touches one, drops some, or leaves them all.
LEMMA RowShape ==
    ASSUME TypeOK, Prepared, [Next]_vars
    PROVE  \/ UNCHANGED <<row, ended>>
           \/ \E r \in Requests : Creates(r) \/ Touches(r) \/ Drops(r)
<1>1. ASSUME NEW r \in Requests, CreateDevice(r)
      PROVE  UNCHANGED <<row, ended>> \/ Creates(r)
  <2>1. Dev(r) \in Devices /\ req[r].user \in Users
    BY <1>1 DEF CreateDevice, At, Prepared, TypeOK, InFlight, Idle, Request, Operations
  <2> QED
    BY <1>1, <2>1 DEF CreateDevice, Creates, history
<1>2. ASSUME NEW r \in Requests, UpdateDevice(r)
      PROVE  UNCHANGED <<row, ended>> \/ Touches(r)
  <2>1. Dev(r) \in Devices /\ req[r].new \in Nat
    BY <1>2 DEF UpdateDevice, At, Prepared, Operations
  <2> QED
    BY <1>2, <2>1 DEF UpdateDevice, Touches
<1>3. ASSUME NEW r \in Requests, Delete(r)
      PROVE  UNCHANGED <<row, ended>> \/ Drops(r)
  <2>1. Deletes(r)
    BY <1>3 DEF Delete, Deletes, At, Over, TypeOK, Idle, Request
  <2>2. req[r].op \in {"logout", "others", "terminate", "recover"}
    BY <1>3 DEF Delete, At, Prepared
  <2> QED
    BY <1>3, <2>1, <2>2 DEF Delete, Drops
<1>4. ASSUME NEW r \in Requests,
             \/ Arriving(r) \/ Guard(r) \/ Sign(r) \/ Lookup(r) \/ Respond(r)
             \/ Lose(r) \/ Find(r) \/ FindOwn(r)
      PROVE  UNCHANGED <<row, ended>>
  BY <1>4 DEF Arriving, Login, Start, Recover, Guard, Sign, Lookup, Respond, Lose, Find,
              FindOwn, history
<1>5. ASSUME Crash \/ Tick \/ UNCHANGED vars PROVE UNCHANGED <<row, ended>>
  BY <1>5 DEF Crash, Tick, vars, history
<1> QED
  BY <1>1, <1>2, <1>3, <1>4, <1>5 DEF Next, Handling

\* A row keeps its user until the session ends, and an ended session stays so.
LEMMA RowKept ==
    ASSUME TypeOK, Prepared, Unborn, [Next]_vars, NEW d \in Devices
    PROVE  /\ d \in ended => d \in ended'
           /\ row[d] # None =>
                \/ row'[d] # None /\ row'[d].user = row[d].user
                \/ d \in ended'
<1>1. CASE UNCHANGED <<row, ended>>
  BY <1>1
<1>2. ASSUME NEW r \in Requests, Creates(r)
      PROVE  ended' = ended /\ (row[d] # None => row'[d] = row[d])
  BY <1>2 DEF Creates, Unborn, TypeOK
<1>3. ASSUME NEW r \in Requests, Touches(r)
      PROVE  ended' = ended /\ (row[d] # None => row'[d] # None /\ row'[d].user = row[d].user)
  <2>1. ended' = ended /\ row[Dev(r)] # None /\ Dev(r) \in Devices /\ req[r].new \in Nat
    BY <1>3 DEF Touches, Updated
  <2>2. CASE d = Dev(r)
    <3>1. row'[d] = [row[d] EXCEPT !.lastActiveDate = req[r].new]
      BY <1>3, <2>2 DEF Touches, Updated, Active, TypeOK
    <3>2. row[d] \in Rows
      BY <2>1, <2>2 DEF TypeOK
    <3>3. [row[d] EXCEPT !.lastActiveDate = req[r].new] \in Rows
      BY <2>1, <3>2 DEF Rows
    <3> QED
      BY <2>1, <3>1, <3>2, <3>3, ConstantsAssumption DEF Rows
  <2>3. CASE d # Dev(r)
    BY <1>3, <2>3 DEF Touches, Updated, Active, TypeOK
  <2> QED
    BY <2>1, <2>2, <2>3
<1>4. ASSUME NEW r \in Requests, Drops(r)
      PROVE  ended \subseteq ended' /\ (row[d] # None => row'[d] = row[d] \/ d \in ended')
  BY <1>4 DEF Drops
<1> QED
  BY <1>1, <1>2, <1>3, <1>4, RowShape

\* A terminating request was already as far, or it has just found the row, or
\* its user was just found to be the owner.
LEMMA TerminateShape ==
    ASSUME TypeOK, Prepared, [Next]_vars, NEW r \in Requests,
           req'[r].op = "terminate", req'[r].pc \in {"own", "delete"}
    PROVE  \/ req'[r] = req[r]
           \/ /\ req[r].op = "terminate" /\ req[r].target = req'[r].target
              /\ req'[r].pc = "own"
              /\ row[req[r].target] # None /\ req'[r].owner = row[req[r].target].user
           \/ /\ req[r].op = "terminate" /\ req[r].target = req'[r].target
              /\ req[r].pc = "own" /\ req[r].owner = req[r].user
              /\ req'[r].owner = req[r].owner /\ req'[r].user = req[r].user
<1>1. Idle.op # "terminate"
  BY ConstantsAssumption DEF Idle, Request, Operations
<1>2. ASSUME NEW q \in Requests, q # r, Arriving(q) \/ Handling(q) PROVE req'[r] = req[r]
  BY <1>2 DEF Arriving, Handling, Login, Start, Recover, CreateDevice, Guard, Sign, Lookup,
              UpdateDevice, Respond, Lose, Find, FindOwn, Delete, GoTo, Over, TypeOK
<1>3. ASSUME Arriving(r) PROVE FALSE
  <2>1. req'[r].pc \in {"create", "guard"} \/ req'[r].op = "recover"
    <3>1. ASSUME NEW c \in Clients, NEW u \in Users, NEW d \in Devices, Login(r, c, u, d)
          PROVE  req'[r].pc = "create"
      BY <3>1 DEF Login, TypeOK, Request
    <3>2. ASSUME NEW c \in Clients, NEW op \in Operations, NEW target \in Devices \cup {None},
                 Start(r, c, op, target)
          PROVE  req'[r].pc = "guard"
      BY <3>2 DEF Start, TypeOK, Request
    <3>3. ASSUME NEW u \in Users, Recover(r, u) PROVE req'[r].op = "recover"
      BY <3>3 DEF Recover, TypeOK, Request
    <3> QED
      BY <1>3, <3>1, <3>2, <3>3 DEF Arriving
  <2> QED
    BY <2>1
<1>4. ASSUME CreateDevice(r) \/ Sign(r) \/ Lookup(r) \/ UpdateDevice(r) PROVE FALSE
  <2>1. req[r].op \in {"login", "refresh"}
    BY <1>4 DEF CreateDevice, Sign, Lookup, UpdateDevice, At, Prepared
  <2>2. req'[r] = Idle \/ req'[r].op = req[r].op
    <3>1. CASE Over(r)
      BY <3>1 DEF Over, TypeOK
    <3>2. ASSUME NEW pc \in Steps, GoTo(r, pc) PROVE req'[r].op = req[r].op
      BY <3>2 DEF GoTo, TypeOK, InFlight, Idle, Request
    <3>3. CASE Sign(r)
      BY <3>3 DEF Sign, TypeOK, InFlight, Idle, Request
    <3> QED
      BY <1>4, <3>1, <3>2, <3>3 DEF CreateDevice, Lookup, UpdateDevice, Steps
  <2> QED
    BY <1>1, <2>1, <2>2
<1>5. ASSUME Over(r) PROVE FALSE
  BY <1>1, <1>5 DEF Over, TypeOK
<1>6. ASSUME Guard(r) PROVE FALSE
  <2>1. GoTo(r, AfterGuard[req[r].op])
    BY <1>5, <1>6 DEF Guard
  <2>2. req[r].op = "terminate" /\ req'[r].pc = AfterGuard[req[r].op]
    BY <2>1 DEF GoTo, TypeOK
  <2> QED
    BY <2>2 DEF AfterGuard
<1>7. ASSUME Find(r)
      PROVE  /\ req[r].op = "terminate" /\ req[r].target = req'[r].target
             /\ req'[r].pc = "own"
             /\ row[req[r].target] # None /\ req'[r].owner = row[req[r].target].user
  <2> DEFINE found == IF req[r].op = "logout" THEN Dev(r) ELSE req[r].target
  <2>1. /\ row[found] # None
        /\ req' = [req EXCEPT ![r].owner = row[found].user,
                     ![r].pc = IF req[r].op = "logout" THEN "delete" ELSE "own"]
    BY <1>5, <1>7 DEF Find
  <2>2. req[r].op = "terminate"
    BY <2>1 DEF TypeOK
  <2> QED
    BY <2>1, <2>2 DEF TypeOK
<1>8. ASSUME FindOwn(r)
      PROVE  /\ req[r].op = "terminate" /\ req[r].target = req'[r].target
             /\ req[r].pc = "own" /\ req[r].owner = req[r].user
             /\ req'[r].owner = req[r].owner /\ req'[r].user = req[r].user
  <2>1. At(r, "own") /\ MayEnd(r) /\ GoTo(r, "delete")
    BY <1>5, <1>8 DEF FindOwn
  <2> QED
    BY <2>1 DEF At, MayEnd, GoTo, TypeOK
<1>9. ASSUME Crash PROVE FALSE
  BY <1>1, <1>9 DEF Crash
<1>10. ASSUME Tick \/ UNCHANGED vars PROVE req'[r] = req[r]
  BY <1>10 DEF Tick, vars
<1> QED
  BY <1>2, <1>3, <1>4, <1>5, <1>6, <1>7, <1>8, <1>9, <1>10
  DEF Next, Handling, Respond, Lose, Delete

\* Every step keeps what TerminateSessionUseCase judged.
LEMMA JudgedStep ==
    TypeOK /\ Prepared /\ Unborn /\ Judged /\ [Next]_vars => Judged'
<1> SUFFICES ASSUME TypeOK, Prepared, Unborn, Judged, [Next]_vars,
                    NEW r \in Requests, req'[r].op = "terminate",
                    req'[r].pc \in {"own", "delete"}
             PROVE  /\ \/ req'[r].target \in ended'
                       \/ /\ row'[req'[r].target] # None
                          /\ row'[req'[r].target].user = req'[r].owner
                    /\ req'[r].pc = "delete" => req'[r].owner = req'[r].user
  BY DEF Judged
<1>1. req[r].op = "terminate" /\ req'[r].target = req[r].target /\ req[r].target \in Devices
  BY TerminateShape DEF Prepared
<1> DEFINE d == req[r].target
<1>2. /\ d \in ended \/ (row[d] # None /\ row[d].user = req'[r].owner)
      /\ req'[r].pc = "delete" => req'[r].owner = req'[r].user
  BY TerminateShape DEF Judged
<1>3. /\ d \in ended => d \in ended'
      /\ row[d] # None => \/ row'[d] # None /\ row'[d].user = row[d].user
                          \/ d \in ended'
  BY <1>1, RowKept
<1> QED
  BY <1>1, <1>2, <1>3

-----------------------------------------------------------------------------
(* The theorems *)

\* The invariant is inductive.
LEMMA IInvStep == IInv /\ [Next]_vars => IInv'
  BY TypeStep, PreparedStep, BirthStep, JudgedStep DEF IInv

\* In every reachable state the invariant holds, with the device ids unique and
\* the owners TerminateSessionUseCase read still right.
THEOREM Invariant == Spec => []IInv
<1>1. Init => IInv
  BY InitIInv
<1>2. IInv /\ [Next]_vars => IInv'
  BY IInvStep
<1> QED
  BY <1>1, <1>2, PTL DEF Spec

\* Every variable has its type: no handler stores, sends or keeps anything but
\* what the rows, the tokens and the requests may hold.
THEOREM TypeCorrect == Spec => []TypeOK
<1>1. IInv => TypeOK
  BY DEF IInv
<1> QED
  BY <1>1, Invariant, PTL

\* The rows a step deletes are of the user who asks, unless all other devices
\* were to be ended.
LEMMA DropsOwn ==
    ASSUME IInv, NEW r \in Requests, Drops(r), req[r].op # "others", NEW d \in Doomed(r)
    PROVE  row[d] # None /\ req[r].user = row[d].user
<1>1. CASE req[r].op \in {"logout", "recover"}
  BY <1>1 DEF Doomed
<1>2. CASE req[r].op = "terminate"
  <2>1. d = req[r].target /\ row[d] # None
    BY <1>2 DEF Doomed
  <2>2. req[r].pc = "delete"
    BY DEF Drops, Deletes, At
  <2>3. d \notin ended
    BY <2>1 DEF IInv, Buried
  <2> QED
    BY <1>2, <2>1, <2>2, <2>3 DEF IInv, Judged
<1> QED
  BY <1>1, <1>2 DEF Drops

\* No session is ended by a request of another user, except by 'all other
\* devices', however the reads of TerminateSessionUseCase and its delete
\* interleave with other requests.
THEOREM OwnersEnd == Spec => EndedByOwner
<1> DEFINE Owned == \A d \in Devices : Ends(d) =>
                      \E r \in Requests : /\ Deletes(r)
                                          /\ req[r].op = "others" \/ req[r].user = row[d].user
<1>1. IInv /\ [Next]_vars => Owned
  <2> SUFFICES ASSUME IInv, [Next]_vars, NEW d \in Devices, Ends(d)
               PROVE  \E r \in Requests : /\ Deletes(r)
                                          /\ req[r].op = "others" \/ req[r].user = row[d].user
    OBVIOUS
  <2>1. ASSUME NEW r \in Requests, Creates(r) PROVE FALSE
    BY <2>1 DEF Creates, Ends, IInv, Unborn, TypeOK
  <2>2. ASSUME NEW r \in Requests, Touches(r) PROVE FALSE
    BY <2>2, RowKept, IInvStep DEF Touches, Ends, IInv, Buried
  <2>3. ASSUME NEW r \in Requests, Drops(r)
        PROVE  Deletes(r) /\ (req[r].op = "others" \/ req[r].user = row[d].user)
    BY <2>3, DropsOwn DEF Drops, Ends
  <2> QED
    BY <2>1, <2>2, <2>3, RowShape DEF IInv, Ends
<1>2. IInv /\ [Next]_vars => [Owned]_vars
  BY <1>1
<1> QED
  BY <1>2, Invariant, PTL DEF Spec, EndedByOwner

\* The sessions of Sessions, seen through its rows, follow SessionLifecycle: one
\* user for life, and no late refresh brings back what was ended.
THEOREM Implements == Spec => ImplementsLifecycle
<1>1. Init => Lifecycle!Init
  BY DEF Init, Lifecycle!Init, sessions, Stage
<1>2. IInv /\ [Next]_vars => [Lifecycle!Next]_sessions
  <2> SUFFICES ASSUME IInv, [Next]_vars PROVE Lifecycle!Next \/ sessions' = sessions
    OBVIOUS
  <2>1. CASE UNCHANGED <<row, ended>>
    BY <2>1 DEF sessions, Stage
  <2>2. ASSUME NEW r \in Requests, Creates(r), NEW d \in Devices, d = Dev(r)
        PROVE  Lifecycle!Open(d, req[r].user)
    <3>1. row[d] = None /\ d \notin ended /\ ended' = ended
      BY <2>2 DEF Creates, IInv, Unborn
    <3>2. row'[d] = [user |-> req[r].user, lastActiveDate |-> req[r].new]
      BY <2>2, <3>1 DEF Creates, IInv, TypeOK
    <3>3. row'[d] # None
      BY <2>2, <3>2, ConstantsAssumption DEF Creates, Rows, IInv, Prepared, At
    <3>4. \A e \in Devices \ {d} : row'[e] = row[e]
      BY <2>2 DEF Creates, IInv, TypeOK
    <3>5. Stage(d) = [state |-> "none"]
      BY <3>1 DEF Stage
    <3>6. Stage(d)' = [state |-> "live", user |-> req[r].user]
      BY <3>2, <3>3 DEF Stage
    <3>7. \A e \in Devices \ {d} : Stage(e)' = Stage(e)
      BY <3>1, <3>4 DEF Stage
    <3>8. sessions' = [sessions EXCEPT ![d] = [state |-> "live", user |-> req[r].user]]
      BY <3>6, <3>7 DEF sessions
    <3> QED
      BY <3>5, <3>8 DEF Lifecycle!Open, sessions
  <2>3. ASSUME NEW r \in Requests, Touches(r) PROVE sessions' = sessions
    <3>1. ended' = ended
      BY <2>3 DEF Touches
    <3>2. \A d \in Devices : row[d] # None => row'[d] # None /\ row'[d].user = row[d].user
      BY <3>1, RowKept DEF IInv, Buried
    <3>3. \A d \in Devices : row[d] = None => row'[d] = None
      BY <2>3 DEF Touches, Updated, Active, IInv, TypeOK
    <3> QED
      BY <3>1, <3>2, <3>3 DEF sessions, Stage
  <2>4. ASSUME NEW r \in Requests, Drops(r)
        PROVE  Lifecycle!Next \/ sessions' = sessions
    <3>1. Doomed(r) \subseteq Devices /\ \A d \in Doomed(r) : row[d] # None
      BY <2>4 DEF Drops, Doomed, Deletes, At, IInv, Prepared, Operations
    <3>2. /\ \A d \in Devices : row'[d] = IF d \in Doomed(r) THEN None ELSE row[d]
          /\ ended' = ended \cup Doomed(r)
      BY <2>4 DEF Drops
    <3>3. \A d \in Devices : Stage(d)' = IF d \in Doomed(r) THEN [state |-> "ended"] ELSE Stage(d)
      BY <3>1, <3>2 DEF Stage
    <3>4. CASE Doomed(r) = {}
      BY <3>3, <3>4 DEF sessions
    <3>5. CASE Doomed(r) # {}
      <4>1. Lifecycle!End(Doomed(r))
        BY <3>1, <3>3, <3>5 DEF Lifecycle!End, sessions, Stage
      <4> QED
        BY <3>1, <4>1 DEF Lifecycle!Next
    <3> QED
      BY <3>4, <3>5
  <2> QED
    BY <2>1, <2>2, <2>3, <2>4, RowShape DEF Lifecycle!Next, Creates, IInv
<1> QED
  BY <1>1, <1>2, Invariant, PTL DEF Spec, ImplementsLifecycle, Lifecycle!Spec

-----------------------------------------------------------------------------
(* Tokens that are accepted *)

\* A refresh whose new pair is signed and has not reached the browser.
Signing(r) == req[r].op = "refresh" /\ req[r].pc \in {"lookup", "update", "respond"}

\* A session whose refreshes neither overlapped nor were cut short.
Orderly(d) == row[d] # None /\ d \notin disturbed

\* Nothing is dated later than now.
Dated ==
    /\ \A t \in given : t.iat <= clock
    /\ \A d \in Devices : row[d] # None => row[d].lastActiveDate <= clock
    /\ \A r \in Requests : req[r].new # None => req[r].new <= clock

\* The device of a login is nobody else's until the answer arrives.
Unshared ==
    \A r \in Requests :
      /\ At(r, "create") => req[r].op = "login"
      /\ req[r].op = "login" =>
           /\ \A t \in given : t.dev # Dev(r)
           /\ \A q \in Requests : Dev(q) = Dev(r) => q = r

\* One refresh of an orderly session is between signing and answering, and no
\* row or token of the device is later than what it signed.
Lone ==
    \A r \in Requests : Signing(r) /\ Orderly(Dev(r)) =>
      /\ \A q \in Requests : Signing(q) /\ Dev(q) = Dev(r) => q = r
      /\ row[Dev(r)].lastActiveDate <= req[r].new
      /\ \A t \in given : t.dev = Dev(r) => t.iat <= req[r].new

\* What is about to be sent is what the row says.
Written ==
    \A r \in Requests : At(r, "respond") /\ Orderly(Dev(r)) =>
        row[Dev(r)].lastActiveDate = req[r].new

\* No token is later than the last activity of its device.
NoneLater ==
    \A t \in given : Orderly(t.dev) => t.iat <= row[t.dev].lastActiveDate

\* A device belongs to one browser.
Owned ==
    /\ \A c \in Clients : jar[c] # None => jar[c] \in given
    /\ \A r \in Requests : Dev(r) # None => req[r].client \in Clients
    /\ \A r, q \in Requests : Dev(r) # None /\ Dev(r) = Dev(q) => req[r].client = req[q].client
    /\ \A c \in Clients, r \in Requests : jar[c] # None /\ Dev(r) = jar[c].dev => req[r].client = c
    /\ \A b, c \in Clients : jar[b] # None /\ jar[c] # None /\ jar[b].dev = jar[c].dev => b = c

\* The cookie of an orderly session is of its last activity, or the answer is on
\* its way.
Kept ==
    \A c \in Clients : jar[c] # None /\ Orderly(jar[c].dev) =>
        \/ jar[c].iat = row[jar[c].dev].lastActiveDate
        \/ \E r \in Requests : At(r, "respond") /\ Dev(r) = jar[c].dev

TokenInv == Dated /\ Unshared /\ Lone /\ Written /\ NoneLater /\ Owned /\ Kept

-----------------------------------------------------------------------------
(* The invariant at first *)

LEMMA InitTokenInv == Init => TokenInv
<1> SUFFICES ASSUME Init PROVE TokenInv
  OBVIOUS
<1>1. \A r \in Requests : req[r] = Idle
  BY DEF Init
<1>2. Idle.op # "login" /\ Idle.op # "refresh" /\ Idle.pc = "idle" /\ Idle.dev = None /\ Idle.new = None
  BY ConstantsAssumption DEF Idle, Request, Operations
<1>3. Dated /\ Unshared
  BY <1>1, <1>2 DEF Init, Dated, Unshared, At
<1>4. Lone /\ Written
  BY <1>1, <1>2 DEF Lone, Written, Signing, At
<1>5. NoneLater /\ Owned /\ Kept
  BY <1>1, <1>2 DEF Init, NoneLater, Owned, Kept, Dev
<1> QED
  BY <1>3, <1>4, <1>5 DEF TokenInv

-----------------------------------------------------------------------------
(* Steps that write no date and send no token *)

\* A request that is over, or that has no device.
Vacant(q) ==
    /\ req[q].op \notin {"login", "refresh"} /\ req[q].pc \notin {"create", "respond"}
    /\ req[q].new = None /\ Dev(q) = None

\* A request goes on with the same token.
GoesOn(q) ==
    /\ req'[q].op = req[q].op /\ req'[q].dev = req[q].dev
    /\ req'[q].new = req[q].new /\ req'[q].client = req[q].client
    /\ \/ req'[q].pc = req[q].pc
       \/ req'[q].pc \in {"sign", "find", "own", "delete"}
       \/ req[q].pc = "lookup" /\ req'[q].pc = "update"
       \/ /\ req[q].pc \in {"create", "update"} /\ req'[q].pc = "respond"
          /\ row'[Dev(q)] = None \/ Dev(q) \in disturbed'

Quiet ==
    /\ UNCHANGED <<given, jar>>
    /\ clock' >= clock
    /\ disturbed \subseteq disturbed'
    /\ \A d \in Devices : row'[d] = row[d] \/ row'[d] = None
    /\ \A q \in Requests : Vacant(q)' \/ GoesOn(q)
    /\ \A q \in Requests : At(q, "respond") =>
          (At(q, "respond")' /\ Dev(q)' = Dev(q)) \/ Dev(q) \in disturbed'

LEMMA QuietKeeps ==
    ASSUME TypeOK, TypeOK', Prepared, TokenInv, Quiet
    PROVE  TokenInv'
<1> USE DEF TokenInv
<1>1. \A q \in Requests : Vacant(q)' \/ GoesOn(q)
  BY DEF Quiet
<1>2. \A d \in Devices : Orderly(d)' => Orderly(d) /\ row'[d] = row[d]
  BY DEF Quiet, Orderly
<1>3. Dated'
  <2>1. /\ given \subseteq Tokens /\ clock \in Nat /\ clock' \in Nat /\ clock' >= clock
        /\ \A d \in Devices : row[d] # None => row[d].lastActiveDate \in Nat
    BY DEF TypeOK, Rows, Quiet
  <2>2. \A r \in Requests : req[r].new # None => req[r].new \in Nat
    BY DEF TypeOK, InFlight, Idle, Request
  <2>3. \A t \in given' : t.iat <= clock'
    BY <2>1 DEF Dated, Quiet, Tokens
  <2>4. \A d \in Devices : row'[d] # None => row'[d].lastActiveDate <= clock'
    BY <2>1 DEF Dated, Quiet
  <2>5. \A r \in Requests : req'[r].new # None => req'[r].new <= clock'
    BY <1>1, <2>1, <2>2 DEF Dated, Vacant, GoesOn
  <2> QED
    BY <2>3, <2>4, <2>5 DEF Dated
<1>4. Unshared'
  <2>1. given' = given
    BY DEF Quiet
  <2>2. \A r \in Requests : Dev(r)' = Dev(r) \/ (Dev(r)' = None /\ req'[r].op # "login")
    BY <1>1 DEF Vacant, GoesOn, Dev
  <2>3. \A r \in Requests : req'[r].op = "login" => req[r].op = "login" /\ Dev(r)' = Dev(r)
    BY <1>1 DEF Vacant, GoesOn, Dev
  <2>4. \A r \in Requests : req'[r].op = "login" => Dev(r) # None
    BY <2>3, ConstantsAssumption DEF Prepared, Operations
  <2>5. \A r \in Requests : At(r, "create")' => req'[r].op = "login"
    BY <1>1 DEF Vacant, GoesOn, At, Unshared
  <2> QED
    BY <2>1, <2>2, <2>3, <2>4, <2>5 DEF Unshared
<1>5. \A r \in Requests : Signing(r)' => Dev(r)' = Dev(r) /\ req'[r].new = req[r].new /\
                                         (Signing(r) \/ ~Orderly(Dev(r))')
  <2>1. \A r \in Requests : req[r].pc = "create" => req[r].op = "login"
    BY DEF Unshared, At
  <2> QED
    BY <1>1, <2>1 DEF Signing, Vacant, GoesOn, Dev, Orderly
<1>6. Lone'
  <2> SUFFICES ASSUME NEW r \in Requests, Signing(r)', Orderly(Dev(r))'
               PROVE  /\ \A q \in Requests : Signing(q)' /\ Dev(q)' = Dev(r)' => q = r
                      /\ row'[Dev(r)'].lastActiveDate <= req'[r].new
                      /\ \A t \in given' : t.dev = Dev(r)' => t.iat <= req'[r].new
    BY DEF Lone
  <2>1. Dev(r)' = Dev(r) /\ req'[r].new = req[r].new /\ Signing(r)
    BY <1>5
  <2>2. Dev(r) \in Devices
    BY <2>1 DEF Prepared, Signing, Operations
  <2>3. Orderly(Dev(r)) /\ row'[Dev(r)] = row[Dev(r)]
    BY <1>2, <2>1, <2>2 DEF Orderly
  <2>4. \A q \in Requests : Signing(q)' /\ Dev(q)' = Dev(r)' => Signing(q) /\ Dev(q) = Dev(r)
    BY <1>5, <2>1 DEF Orderly
  <2>5. given' = given
    BY DEF Quiet
  <2> QED
    BY <2>1, <2>3, <2>4, <2>5 DEF Lone
<1>7. Written'
  <2> SUFFICES ASSUME NEW r \in Requests, At(r, "respond")', Orderly(Dev(r))'
               PROVE  row'[Dev(r)'].lastActiveDate = req'[r].new
    BY DEF Written
  <2>1. GoesOn(r) /\ Dev(r)' = Dev(r)
    BY <1>1 DEF Vacant, At, GoesOn, Dev
  <2>2. At(r, "respond")
    BY <2>1 DEF GoesOn, At, Orderly
  <2>3. Dev(r) \in Devices
    BY <2>2 DEF Prepared, At, Operations
  <2> QED
    BY <1>2, <2>1, <2>2, <2>3 DEF Written, GoesOn, Orderly
<1>8. NoneLater'
  <2>1. given' = given /\ \A t \in given : t.dev \in Devices
    BY DEF Quiet, TypeOK, Tokens
  <2> QED
    BY <1>2, <2>1 DEF NoneLater, Orderly
<1>9. Owned'
  <2>1. jar' = jar /\ given' = given
    BY DEF Quiet
  <2>2. \A r \in Requests : Dev(r)' = None \/ (Dev(r)' = Dev(r) /\ req'[r].client = req[r].client)
    BY <1>1 DEF Vacant, GoesOn, Dev
  <2>3. \A c \in Clients : jar[c] # None => jar[c].dev # None
    BY ConstantsAssumption DEF TypeOK, Tokens
  <2> QED
    BY <2>1, <2>2, <2>3 DEF Owned
<1>10. Kept'
  <2> SUFFICES ASSUME NEW c \in Clients, jar[c] # None, Orderly(jar[c].dev)'
               PROVE  \/ jar[c].iat = row'[jar[c].dev].lastActiveDate
                      \/ \E r \in Requests : At(r, "respond")' /\ Dev(r)' = jar[c].dev
    BY DEF Kept, Quiet
  <2>1. jar[c].dev \in Devices /\ jar' = jar
    BY DEF TypeOK, Tokens, Quiet
  <2>2. Orderly(jar[c].dev) /\ row'[jar[c].dev] = row[jar[c].dev] /\ jar[c].dev \notin disturbed'
    BY <1>2, <2>1 DEF Orderly
  <2> QED
    BY <2>2 DEF Kept, Quiet
<1> QED
  BY <1>3, <1>4, <1>6, <1>7, <1>8, <1>9, <1>10

\* A request r moved as GoTo or Over say; the others did not move.
LEMMA MovesQuietly ==
    ASSUME TypeOK, NEW r \in Requests, UNCHANGED <<given, jar, clock>>,
           disturbed \subseteq disturbed',
           \A d \in Devices : row'[d] = row[d] \/ row'[d] = None,
           \/ Over(r) /\ (At(r, "respond") => Dev(r) \in disturbed')
           \/ /\ ~At(r, "respond")
              /\ \E pc \in Steps : GoTo(r, pc) /\ GoesOn(r)
    PROVE  Quiet
<1>1. \A q \in Requests : q # r => req'[q] = req[q]
  BY DEF Over, GoTo, TypeOK
<1>2. \A q \in Requests : q # r => GoesOn(q) /\ Dev(q)' = Dev(q) /\ (At(q, "respond") => At(q, "respond")')
  BY <1>1 DEF GoesOn, Dev, At
<1>3. clock' >= clock
  BY DEF TypeOK
<1>4. CASE Over(r) /\ (At(r, "respond") => Dev(r) \in disturbed')
  <2>1. req'[r] = Idle
    BY <1>4 DEF Over, TypeOK
  <2>2. Vacant(r)'
    BY <2>1, ConstantsAssumption DEF Vacant, Idle, Request, Operations, Dev
  <2> QED
    BY <1>2, <1>3, <1>4, <2>2 DEF Quiet
<1>5. CASE ~At(r, "respond") /\ GoesOn(r)
  BY <1>2, <1>3, <1>5 DEF Quiet
<1> QED
  BY <1>4, <1>5

LEMMA GoesTo ==
    ASSUME TypeOK, NEW r \in Requests, NEW pc \in Steps, ~At(r, "idle"), GoTo(r, pc),
           \/ pc \in {"sign", "find", "own", "delete"}
           \/ req[r].pc = "lookup" /\ pc = "update"
           \/ /\ req[r].pc \in {"create", "update"} /\ pc = "respond"
              /\ row'[Dev(r)] = None \/ Dev(r) \in disturbed'
    PROVE  GoesOn(r)
<1>1. req[r] \in InFlight
  BY DEF TypeOK, At, Idle, Request
<1>2. req'[r] = [req[r] EXCEPT !.pc = pc]
  BY DEF GoTo, TypeOK
<1> QED
  BY <1>1, <1>2 DEF GoesOn, InFlight

\* The steps that write no date and send no token.
LEMMA QuietSteps ==
    ASSUME IInv, NEW r \in Requests,
           Guard(r) \/ Lookup(r) \/ Lose(r) \/ Find(r) \/ FindOwn(r) \/ Delete(r)
    PROVE  Quiet
<1> USE DEF IInv
<1>1. CASE Guard(r)
  <2>1. AfterGuard[req[r].op] \in {"sign", "find", "delete"}
    BY <1>1 DEF Guard, At, Prepared, Guarded, AfterGuard
  <2>2. CASE GoTo(r, AfterGuard[req[r].op])
    <3>1. GoesOn(r)
      BY <1>1, <2>1, <2>2, GoesTo DEF Guard, At, Steps
    <3> QED
      BY <1>1, <2>1, <2>2, <3>1, MovesQuietly DEF Guard, At, Steps, history
  <2>3. CASE Over(r)
    BY <1>1, <2>3, MovesQuietly DEF Guard, At, history
  <2> QED
    BY <1>1, <2>2, <2>3 DEF Guard
<1>2. CASE Lookup(r)
  <2>1. CASE GoTo(r, "update")
    <3>1. GoesOn(r)
      BY <1>2, <2>1, GoesTo DEF Lookup, At, Steps
    <3> QED
      BY <1>2, <2>1, <3>1, MovesQuietly DEF Lookup, At, Steps, history
  <2>2. CASE Over(r)
    BY <1>2, <2>2, MovesQuietly DEF Lookup, At, history
  <2> QED
    BY <1>2, <2>1, <2>2 DEF Lookup
<1>3. CASE Lose(r)
  BY <1>3, MovesQuietly DEF Lose
<1>4. CASE Find(r)
  <2>1. CASE Over(r)
    BY <1>4, <2>1, MovesQuietly DEF Find, At, history
  <2>2. CASE ~Over(r)
    <3>1. PICK o : req' = [req EXCEPT ![r].owner = o,
                    ![r].pc = IF req[r].op = "logout" THEN "delete" ELSE "own"]
      BY <1>4, <2>2 DEF Find
    <3>2. req[r] \in InFlight /\ ~At(r, "respond")
      BY <1>4 DEF Find, At, TypeOK, Idle, Request
    <3>3. GoesOn(r)
      BY <3>1, <3>2 DEF TypeOK, GoesOn, InFlight
    <3>4. \A q \in Requests : q # r => req'[q] = req[q]
      BY <3>1 DEF TypeOK
    <3>5. \A q \in Requests : GoesOn(q) /\ (At(q, "respond") => At(q, "respond")' /\ Dev(q)' = Dev(q))
      BY <3>2, <3>3, <3>4 DEF GoesOn, At, Dev
    <3> QED
      BY <1>4, <3>5 DEF Quiet, Find, history, TypeOK
  <2> QED
    BY <2>1, <2>2
<1>5. CASE FindOwn(r)
  <2>1. CASE GoTo(r, "delete")
    <3>1. GoesOn(r)
      BY <1>5, <2>1, GoesTo DEF FindOwn, At, Steps
    <3> QED
      BY <1>5, <2>1, <3>1, MovesQuietly DEF FindOwn, At, Steps, history
  <2>2. CASE Over(r)
    BY <1>5, <2>2, MovesQuietly DEF FindOwn, At, history
  <2> QED
    BY <1>5, <2>1, <2>2 DEF FindOwn
<1>6. CASE Delete(r)
  <2>1. \A d \in Devices : row'[d] = row[d] \/ row'[d] = None
    BY <1>6 DEF Delete
  <2> QED
    BY <1>6, <2>1, MovesQuietly DEF Delete, At
<1> QED
  BY <1>1, <1>2, <1>3, <1>4, <1>5, <1>6

\* An update that finds no row, or fails, is quiet, too; and so is the creation
\* that fails.
LEMMA QuietWrites ==
    ASSUME IInv, NEW r \in Requests,
           \/ UpdateDevice(r) /\ ~Updated(r)
           \/ CreateDevice(r) /\ UNCHANGED row
    PROVE  Quiet
<1> USE DEF IInv
<1>1. CASE UpdateDevice(r) /\ ~Updated(r)
  <2>1. row'[Dev(r)] = None \/ Dev(r) \in disturbed'
    BY <1>1 DEF UpdateDevice
  <2>2. GoesOn(r)
    BY <1>1, <2>1, GoesTo DEF UpdateDevice, At, Steps
  <2> QED
    BY <1>1, <2>2, MovesQuietly DEF UpdateDevice, At, Steps
<1>2. CASE CreateDevice(r) /\ UNCHANGED row
  <2>1. row'[Dev(r)] = None
    BY <1>2 DEF CreateDevice, Unborn
  <2>2. GoesOn(r)
    BY <1>2, <2>1, GoesTo DEF CreateDevice, At, Steps
  <2> QED
    BY <1>2, <2>2, MovesQuietly DEF CreateDevice, At, Steps, history
<1> QED
  BY <1>1, <1>2

LEMMA QuietRest ==
    ASSUME IInv, [Next]_vars,
           \/ Crash \/ Tick \/ UNCHANGED vars
           \/ \E r \in Requests, u \in Users : Recover(r, u)
    PROVE  Quiet
<1> USE DEF IInv
<1>1. CASE Crash
  <2>1. \A q \in Requests : req'[q] = Idle
    BY <1>1 DEF Crash
  <2>2. \A q \in Requests : Vacant(q)'
    BY <2>1, ConstantsAssumption DEF Vacant, Idle, Request, Operations, Dev
  <2>3. \A q \in Requests : At(q, "respond") => Dev(q) \in Devices
    BY DEF Prepared, At, Operations
  <2>4. \A q \in Requests : At(q, "respond") => Dev(q) \in disturbed'
    BY <1>1, <2>3 DEF Crash
  <2> QED
    BY <1>1, <2>2, <2>4 DEF Crash, Quiet, TypeOK
<1>2. CASE Tick \/ UNCHANGED vars
  BY <1>2 DEF Tick, vars, history, Quiet, GoesOn, At, Dev, TypeOK
<1>3. ASSUME NEW r \in Requests, NEW u \in Users, Recover(r, u)
      PROVE  Quiet
  <2>1. \A q \in Requests : q # r => req'[q] = req[q]
    BY <1>3 DEF Recover, TypeOK
  <2>2. req'[r] = Request("recover", "delete", None, u, None)
    BY <1>3 DEF Recover, TypeOK
  <2>3. Vacant(r)'
    BY <2>2 DEF Vacant, Request, Dev
  <2>4. ~At(r, "respond")
    BY <1>3 DEF Recover, At, Idle, Request
  <2>5. \A q \in Requests : q # r => GoesOn(q) /\ (At(q, "respond") => At(q, "respond")' /\ Dev(q)' = Dev(q))
    BY <2>1 DEF GoesOn, At, Dev
  <2> QED
    BY <1>3, <2>3, <2>4, <2>5 DEF Recover, history, Quiet, TypeOK
<1> QED
  BY <1>1, <1>2, <1>3

-----------------------------------------------------------------------------
(* Requests that arrive *)

\* A new request that is not a refresh past its guard, of a device no login is
\* at work on, and of the browser the device belongs to.
LEMMA ArrivalKeeps ==
    ASSUME IInv, TokenInv, UNCHANGED <<row, given, jar, clock, disturbed>>,
           NEW r \in Requests, req[r] = Idle,
           \A q \in Requests : q # r => req'[q] = req[q],
           req'[r].pc \in {"create", "guard"}, req'[r].client \in Clients,
           req'[r].new # None => req'[r].new <= clock,
           req'[r].pc = "create" => req'[r].op = "login",
           req'[r].op = "login" => /\ \A t \in given : t.dev # req'[r].dev
                                   /\ \A q \in Requests : q # r => Dev(q) # req'[r].dev,
           \A q \in Requests : req[q].op = "login" => Dev(q) # req'[r].dev,
           \A q \in Requests : q # r /\ Dev(q) = req'[r].dev => req[q].client = req'[r].client,
           \A c \in Clients : jar[c] # None /\ jar[c].dev = req'[r].dev => req'[r].client = c
    PROVE  TokenInv'
<1> USE DEF TokenInv
<1>1. ~At(r, "respond") /\ ~At(r, "respond")' /\ ~Signing(r)'
  BY DEF At, Idle, Request, Signing
<1>2. \A q \in Requests : q # r => Dev(q)' = Dev(q) /\ Signing(q)' = Signing(q)
                                   /\ At(q, "respond")' = At(q, "respond")
                                   /\ At(q, "create")' = At(q, "create")
  BY DEF Dev, Signing, At
<1>3. \A d : Orderly(d)' = Orderly(d)
  BY DEF Orderly
<1>4. Dev(r)' = req'[r].dev
  BY DEF Dev
<1>5. Dated'
  BY DEF Dated
<1>6. Unshared'
  BY <1>2, <1>4 DEF Unshared, At
<1>7. Lone'
  BY <1>1, <1>2, <1>3 DEF Lone
<1>8. Written'
  BY <1>1, <1>2, <1>3 DEF Written
<1>9. NoneLater' /\ Kept'
  BY <1>1, <1>2, <1>3 DEF NoneLater, Kept
<1>10. Owned'
  <2>1. \A c \in Clients : jar'[c] # None => jar'[c] \in given'
    BY DEF Owned
  <2>2. \A q \in Requests : Dev(q)' # None => req'[q].client \in Clients
    BY <1>2 DEF Owned
  <2>3. \A p, q \in Requests : Dev(p)' # None /\ Dev(p)' = Dev(q)' => req'[p].client = req'[q].client
    BY <1>2, <1>4 DEF Owned
  <2>4. \A c \in Clients, q \in Requests : jar'[c] # None /\ Dev(q)' = jar'[c].dev => req'[q].client = c
    BY <1>2, <1>4 DEF Owned
  <2>5. \A b, c \in Clients : jar'[b] # None /\ jar'[c] # None /\ jar'[b].dev = jar'[c].dev => b = c
    BY DEF Owned
  <2> QED
    BY <2>1, <2>2, <2>3, <2>4, <2>5 DEF Owned
<1> QED
  BY <1>5, <1>6, <1>7, <1>8, <1>9, <1>10

LEMMA LoginKeeps ==
    ASSUME IInv, TokenInv, NEW r \in Requests, NEW c \in Clients, NEW u \in Users,
           NEW d \in Devices, Login(r, c, u, d)
    PROVE  TokenInv'
<1> USE DEF IInv
<1>1. \A q \in Requests : q # r => req'[q] = req[q]
  BY DEF Login, TypeOK
<1>2. req'[r] = [Request("login", "create", c, u, d) EXCEPT !.new = clock]
  BY DEF Login, TypeOK
<1>3. /\ req'[r].pc = "create" /\ req'[r].op = "login" /\ req'[r].client = c
      /\ req'[r].dev = d /\ req'[r].new = clock
  BY <1>2 DEF Request
<1>4. /\ \A t \in given : t.dev # d
      /\ \A q \in Requests : Dev(q) # d
      /\ \A b \in Clients : jar[b] # None => jar[b].dev # d
  BY DEF Login, Fresh, TokenInv, Owned
<1>5. clock <= clock
  BY DEF TypeOK
<1> QED
  BY <1>1, <1>3, <1>4, <1>5, ArrivalKeeps DEF Login, history

LEMMA StartKeeps ==
    ASSUME IInv, TokenInv, NEW r \in Requests, NEW c \in Clients, NEW op \in Operations,
           NEW target \in Devices \cup {None}, Start(r, c, op, target)
    PROVE  TokenInv'
<1> USE DEF IInv
<1>1. \A q \in Requests : q # r => req'[q] = req[q]
  BY DEF Start, TypeOK
<1>2. req'[r] = [Request(op, "guard", c, jar[c].user, jar[c].dev)
                   EXCEPT !.old = jar[c].iat, !.target = target]
  BY DEF Start, TypeOK
<1>3. /\ req'[r].pc = "guard" /\ req'[r].op # "login" /\ req'[r].client = c
      /\ req'[r].dev = jar[c].dev /\ req'[r].new = None
  <2>1. op # "login"
    BY DEF Start
  <2> QED
    BY <1>2, <2>1 DEF Request
<1>4. jar[c] # None /\ jar[c] \in given
  BY DEF Start, TokenInv, Owned
<1>5. \A q \in Requests : req[q].op = "login" => Dev(q) # jar[c].dev
  BY <1>4 DEF TokenInv, Unshared
<1>6. /\ \A q \in Requests : q # r /\ Dev(q) = jar[c].dev => req[q].client = c
      /\ \A b \in Clients : jar[b] # None /\ jar[b].dev = jar[c].dev => c = b
  BY <1>4 DEF TokenInv, Owned
<1> QED
  BY <1>1, <1>3, <1>5, <1>6, ArrivalKeeps DEF Start, history

-----------------------------------------------------------------------------
(* Requests that write a date *)

\* What stays when one request moves on with its device and browser.
LEMMA OwnedFrame ==
    ASSUME TokenInv, UNCHANGED <<given, jar>>,
           \A q \in Requests : /\ Dev(q)' = Dev(q) /\ req'[q].op = req[q].op
                               /\ req'[q].client = req[q].client
                               /\ At(q, "create")' => At(q, "create")
    PROVE  Unshared' /\ Owned'
<1>1. Unshared'
  BY DEF TokenInv, Unshared
<1>2. Owned'
  BY DEF TokenInv, Owned
<1> QED
  BY <1>1, <1>2

LEMMA MoveOwned ==
    ASSUME IInv, TokenInv, UNCHANGED <<given, jar>>, NEW r \in Requests, req[r] \in InFlight,
           NEW pc \in Steps \ {"create"}, NEW new,
           req' = [req EXCEPT ![r].pc = pc, ![r].new = new]
    PROVE  /\ \A q \in Requests : q # r => req'[q] = req[q]
           /\ req'[r].pc = pc /\ req'[r].new = new /\ req'[r].op = req[r].op
           /\ \A q \in Requests : Dev(q)' = Dev(q)
           /\ Unshared' /\ Owned'
<1>1. \A q \in Requests : q # r => req'[q] = req[q]
  BY DEF IInv, TypeOK
<1>2. /\ req'[r].pc = pc /\ req'[r].new = new /\ req'[r].op = req[r].op
      /\ req'[r].dev = req[r].dev /\ req'[r].client = req[r].client
  BY DEF IInv, TypeOK, InFlight
<1>3. \A q \in Requests : Dev(q)' = Dev(q) /\ req'[q].op = req[q].op /\ req'[q].client = req[q].client
  BY <1>1, <1>2 DEF Dev
<1>4. \A q \in Requests : At(q, "create")' => At(q, "create")
  BY <1>1, <1>2 DEF At
<1>5. Unshared' /\ Owned'
  BY <1>3, <1>4, OwnedFrame
<1> QED
  BY <1>1, <1>2, <1>3, <1>5

LEMMA CreateKeeps ==
    ASSUME IInv, TokenInv, NEW r \in Requests, CreateDevice(r), ~UNCHANGED row
    PROVE  TokenInv'
<1> USE DEF IInv
<1> DEFINE d == Dev(r)
<1>1. At(r, "create") /\ d \in Devices /\ req[r].new \in Nat /\ req[r].op = "login"
  BY DEF CreateDevice, At, Prepared, Operations, TokenInv, Unshared
<1>2. req[r] \in InFlight
  BY <1>1 DEF At, TypeOK, Idle, Request
<1>3. req' = [req EXCEPT ![r].pc = "respond", ![r].new = req[r].new]
  BY <1>2 DEF CreateDevice, GoTo, TypeOK, InFlight
<1>4. /\ \A q \in Requests : q # r => req'[q] = req[q]
      /\ req'[r].pc = "respond" /\ req'[r].new = req[r].new /\ req'[r].op = "login"
      /\ \A q \in Requests : Dev(q)' = Dev(q)
      /\ Unshared' /\ Owned'
  <2>1. "respond" \in Steps \ {"create"}
    BY DEF Steps
  <2>2. UNCHANGED <<given, jar>>
    BY DEF CreateDevice, history
  <2> QED
    BY <1>1, <1>2, <1>3, <2>1, <2>2, MoveOwned
<1>5. row'[d].lastActiveDate = req[r].new /\ \A e \in Devices : e # d => row'[e] = row[e]
  BY <1>1 DEF CreateDevice, TypeOK
<1>6. UNCHANGED <<given, jar, clock, disturbed>>
  BY DEF CreateDevice, history
<1>7. /\ \A t \in given : t.dev # d /\ t.dev \in Devices
      /\ \A q \in Requests : q # r => Dev(q) # d
  BY <1>1 DEF TokenInv, Unshared, TypeOK, Tokens
<1>8. \A e \in Devices : e # d => Orderly(e)' = Orderly(e)
  BY <1>5, <1>6 DEF Orderly
<1>9. req[r].new <= clock
  BY <1>1, ConstantsAssumption DEF TokenInv, Dated
<1>10. Dated'
  BY <1>4, <1>5, <1>6, <1>9 DEF TokenInv, Dated
<1>11. Lone'
  <2>1. \A q \in Requests : Signing(q)' => q # r /\ Signing(q) /\ Dev(q) \in Devices
    BY <1>4 DEF Signing, Prepared, Operations
  <2> QED
    BY <1>4, <1>5, <1>6, <1>7, <1>8, <2>1 DEF TokenInv, Lone
<1>12. Written'
  <2>1. \A q \in Requests : q # r /\ At(q, "respond")' => At(q, "respond") /\ Dev(q) \in Devices
    BY <1>4 DEF At, Prepared, Operations
  <2> QED
    BY <1>4, <1>5, <1>7, <1>8, <2>1 DEF TokenInv, Written
<1>13. NoneLater'
  BY <1>5, <1>6, <1>7, <1>8 DEF TokenInv, NoneLater
<1>14. Kept'
  <2>1. \A c \in Clients : jar[c] # None => jar[c].dev \in Devices /\ jar[c].dev # d
    BY <1>7 DEF TokenInv, Owned
  <2>2. \A q \in Requests : At(q, "respond") => At(q, "respond")'
    BY <1>4 DEF At
  <2> QED
    BY <1>4, <1>5, <1>6, <1>8, <2>1, <2>2 DEF TokenInv, Kept
<1> QED
  BY <1>4, <1>10, <1>11, <1>12, <1>13, <1>14 DEF TokenInv

LEMMA SignKeeps ==
    ASSUME IInv, TokenInv, NEW r \in Requests, Sign(r)
    PROVE  TokenInv'
<1> USE DEF IInv
<1> DEFINE d == Dev(r)
<1>1. At(r, "sign") /\ d \in Devices /\ req[r].op = "refresh"
  BY DEF Sign, At, Prepared, Operations
<1>2. req[r] \in InFlight
  BY <1>1 DEF At, TypeOK, Idle, Request
<1>3. /\ \A q \in Requests : q # r => req'[q] = req[q]
      /\ req'[r].pc = "lookup" /\ req'[r].new = clock /\ req'[r].op = "refresh"
      /\ \A q \in Requests : Dev(q)' = Dev(q)
      /\ Unshared' /\ Owned'
  <2>1. "lookup" \in Steps \ {"create"}
    BY DEF Steps
  <2>2. PICK new : new = clock
    OBVIOUS
  <2>3. UNCHANGED <<given, jar>> /\ req' = [req EXCEPT ![r].pc = "lookup", ![r].new = new]
    BY <2>2 DEF Sign
  <2>4. /\ \A q \in Requests : q # r => req'[q] = req[q]
        /\ req'[r].pc = "lookup" /\ req'[r].new = new /\ req'[r].op = req[r].op
        /\ \A q \in Requests : Dev(q)' = Dev(q)
        /\ Unshared' /\ Owned'
    BY <1>2, <2>1, <2>3, MoveOwned
  <2> QED
    BY <1>1, <2>2, <2>4
<1>4. UNCHANGED <<row, given, jar, clock>> /\ disturbed \subseteq disturbed'
  BY DEF Sign
<1>5. \A e : Orderly(e)' => Orderly(e)
  BY <1>4 DEF Orderly
<1>6. \A q \in Requests : Orderly(d)' /\ q # r /\ Dev(q) = d => ~Signing(q)
  <2>1. disturbed' = disturbed \cup
          {e \in Devices : e = d /\ \E q \in Requests \ {r} : Refreshing(q) /\ Dev(q) = e}
    BY DEF Sign
  <2>2. \A q \in Requests : Signing(q) => Refreshing(q)
    BY DEF Signing, Refreshing
  <2> QED
    BY <1>1, <1>3, <2>1, <2>2 DEF Orderly
<1>7. \A q \in Requests : q # r => Signing(q)' = Signing(q)
  BY <1>3 DEF Signing
<1>8. clock <= clock
  BY DEF TypeOK
<1>9. Dated'
  BY <1>3, <1>4, <1>8 DEF TokenInv, Dated
<1>10. Lone'
  <2>1. Orderly(d)' => /\ row'[d].lastActiveDate <= clock
                       /\ \A t \in given' : t.dev = d => t.iat <= clock
    BY <1>1, <1>3, <1>4 DEF TokenInv, Dated, Orderly
  <2> SUFFICES ASSUME NEW q \in Requests, Signing(q)', Orderly(Dev(q))'
               PROVE  /\ \A p \in Requests : Signing(p)' /\ Dev(p)' = Dev(q)' => p = q
                      /\ row'[Dev(q)'].lastActiveDate <= req'[q].new
                      /\ \A t \in given' : t.dev = Dev(q)' => t.iat <= req'[q].new
    BY DEF Lone
  <2>2. CASE q = r
    BY <1>3, <1>6, <1>7, <2>1, <2>2
  <2>3. CASE q # r
    <3>1. Signing(q) /\ Orderly(Dev(q)) /\ Dev(q) # d
      BY <1>3, <1>5, <1>6, <1>7, <2>3
    <3> QED
      BY <1>3, <1>4, <1>7, <2>3, <3>1 DEF TokenInv, Lone
  <2> QED
    BY <2>2, <2>3
<1>11. Written'
  <2>1. \A q \in Requests : At(q, "respond")' => q # r /\ At(q, "respond")
    BY <1>3 DEF At
  <2> QED
    BY <1>3, <1>4, <1>5, <2>1 DEF TokenInv, Written
<1>12. NoneLater'
  BY <1>4, <1>5 DEF TokenInv, NoneLater
<1>13. Kept'
  <2>1. \A q \in Requests : At(q, "respond") => At(q, "respond")'
    BY <1>1, <1>3 DEF At
  <2> QED
    BY <1>3, <1>4, <1>5, <2>1 DEF TokenInv, Kept
<1> QED
  BY <1>3, <1>9, <1>10, <1>11, <1>12, <1>13 DEF TokenInv

LEMMA UpdateKeeps ==
    ASSUME IInv, TokenInv, NEW r \in Requests, UpdateDevice(r), Updated(r)
    PROVE  TokenInv'
<1> USE DEF IInv
<1> DEFINE d == Dev(r)
<1>1. At(r, "update") /\ d \in Devices /\ req[r].op = "refresh" /\ req[r].new \in Nat
  BY DEF UpdateDevice, At, Prepared, Operations
<1>2. req[r] \in InFlight
  BY <1>1 DEF At, TypeOK, Idle, Request
<1>3. req' = [req EXCEPT ![r].pc = "respond", ![r].new = req[r].new]
  BY <1>2 DEF UpdateDevice, GoTo, TypeOK, InFlight
<1>4. UNCHANGED <<given, jar, clock>>
  BY DEF UpdateDevice
<1>5. /\ \A q \in Requests : q # r => req'[q] = req[q]
      /\ req'[r].pc = "respond" /\ req'[r].new = req[r].new /\ req'[r].op = "refresh"
      /\ \A q \in Requests : Dev(q)' = Dev(q)
      /\ Unshared' /\ Owned'
  <2>1. "respond" \in Steps \ {"create"}
    BY DEF Steps
  <2> QED
    BY <1>1, <1>2, <1>3, <1>4, <2>1, MoveOwned
<1>6. row[d] # None /\ row[d] \in Rows /\ row'[d].lastActiveDate = req[r].new
  BY <1>1 DEF Updated, Active, TypeOK, Rows
<1>7. \A e \in Devices : e # d => row'[e] = row[e]
  BY <1>1 DEF Updated, Active, TypeOK
<1>8. disturbed \subseteq disturbed'
  BY DEF UpdateDevice
<1>9. \A e \in Devices : Orderly(e)' => Orderly(e)
  BY <1>6, <1>7, <1>8 DEF Orderly
<1>10. Signing(r)
  BY <1>1 DEF Signing, At
<1>11. \A q \in Requests : Signing(q)' => Signing(q) /\ req'[q].new = req[q].new /\ Dev(q) \in Devices
  BY <1>5, <1>10 DEF Signing, Prepared, Operations
<1>12. Orderly(d)' => /\ \A q \in Requests : Signing(q) /\ Dev(q) = d => q = r
                      /\ \A t \in given : t.dev = d => t.iat <= req[r].new
  BY <1>1, <1>5, <1>9, <1>10 DEF TokenInv, Lone
<1>13. \A q \in Requests : At(q, "respond")' /\ q # r => At(q, "respond") /\ Dev(q) \in Devices
  BY <1>5 DEF At, Prepared, Operations
<1>14. Dated'
  BY <1>1, <1>4, <1>5, <1>6, <1>7, ConstantsAssumption DEF TokenInv, Dated
<1>15. Lone'
  BY <1>1, <1>4, <1>5, <1>6, <1>7, <1>9, <1>11, <1>12 DEF TokenInv, Lone
<1>16. Written'
  <2>1. \A q \in Requests : Orderly(d)' /\ At(q, "respond")' /\ Dev(q) = d => q = r
    <3> SUFFICES ASSUME NEW q \in Requests, Orderly(d)', At(q, "respond")', Dev(q) = d, q # r
                 PROVE  FALSE
      OBVIOUS
    <3>1. req[q].op \in {"login", "refresh"} /\ At(q, "respond")
      BY <1>13 DEF At, Prepared
    <3>2. req[q].op # "login"
      BY <1>1 DEF TokenInv, Unshared
    <3> QED
      BY <1>12, <3>1, <3>2 DEF Signing, At
  <2> QED
    BY <1>5, <1>6, <1>7, <1>9, <1>13, <2>1 DEF TokenInv, Written
<1>17. NoneLater'
  <2>1. \A t \in given : t.dev \in Devices
    BY DEF TypeOK, Tokens
  <2> QED
    BY <1>1, <1>4, <1>5, <1>6, <1>7, <1>9, <1>12, <2>1 DEF TokenInv, NoneLater
<1>18. Kept'
  <2>1. \A c \in Clients : jar[c] # None => jar[c].dev \in Devices
    BY DEF TypeOK, Tokens
  <2>2. At(r, "respond")' /\ \A q \in Requests : At(q, "respond") => At(q, "respond")'
    BY <1>1, <1>5 DEF At
  <2> QED
    BY <1>4, <1>5, <1>7, <1>9, <2>1, <2>2 DEF TokenInv, Kept
<1> QED
  BY <1>5, <1>14, <1>15, <1>16, <1>17, <1>18 DEF TokenInv

LEMMA RespondKeeps ==
    ASSUME IInv, TokenInv, NEW r \in Requests, Respond(r)
    PROVE  TokenInv'
<1> USE DEF IInv
<1> DEFINE c == req[r].client
           d == Dev(r)
           t == Signed(r)
<1>1. At(r, "respond") /\ d \in Devices /\ req[r].new \in Nat /\ d # None
  BY ConstantsAssumption DEF Respond, At, Prepared, Operations
<1>2. c \in Clients
  BY <1>1 DEF TokenInv, Owned
<1>3. t.dev = d /\ t.iat = req[r].new
  BY DEF Signed
<1>4. /\ given' = given \cup {t}
      /\ jar'[c] = t /\ \A b \in Clients : b # c => jar'[b] = jar[b]
      /\ UNCHANGED <<row, clock, disturbed>>
  BY <1>2 DEF Respond, TypeOK
<1>5. req'[r] = Idle /\ \A q \in Requests : q # r => req'[q] = req[q]
  BY DEF Respond, Over, TypeOK
<1>6. Dev(r)' = None /\ ~Signing(r)' /\ ~At(r, "respond")' /\ ~At(r, "create")'
      /\ req'[r].op # "login" /\ req'[r].new = None
  BY <1>5, ConstantsAssumption DEF Dev, Signing, At, Idle, Request, Operations
<1>7. \A q \in Requests : q # r => Dev(q)' = Dev(q) /\ Signing(q)' = Signing(q)
                                   /\ At(q, "respond")' = At(q, "respond")
                                   /\ At(q, "create")' = At(q, "create")
  BY <1>5 DEF Dev, Signing, At
<1>8. \A e : Orderly(e)' = Orderly(e)
  BY <1>4 DEF Orderly
<1>9. \A q \in Requests : q # r /\ req[q].op = "login" => Dev(q) # d
  BY DEF TokenInv, Unshared
<1>10. \A q \in Requests : q # r /\ Signing(q) /\ Orderly(Dev(q)) => Dev(q) # d
  <2>1. req[r].op \in {"login", "refresh"}
    BY <1>1 DEF Prepared, At
  <2>2. CASE req[r].op = "login"
    BY <2>2 DEF TokenInv, Unshared
  <2>3. CASE req[r].op = "refresh"
    <3>1. Signing(r)
      BY <1>1, <2>3 DEF Signing, At
    <3> QED
      BY <3>1 DEF TokenInv, Lone
  <2> QED
    BY <2>1, <2>2, <2>3
<1>11. t.iat <= clock
  BY <1>1, <1>3, ConstantsAssumption DEF TokenInv, Dated
<1>12. Orderly(d) => t.iat = row[d].lastActiveDate /\ t.iat <= row[d].lastActiveDate
  BY <1>1, <1>3 DEF TokenInv, Written
<1> HIDE DEF t, c, d
<1>13. Dated'
  BY <1>4, <1>5, <1>6, <1>11 DEF TokenInv, Dated
<1>14. Unshared'
  <2>1. ASSUME NEW q \in Requests, req'[q].op = "login"
        PROVE  q # r /\ req[q].op = "login" /\ Dev(q)' = Dev(q) /\ Dev(q) # d /\ Dev(q) # None
    <3>1. q # r /\ req[q].op = "login"
      BY <1>5, <1>6, <2>1
    <3> QED
      BY <1>7, <1>9, <3>1, ConstantsAssumption DEF Prepared, Operations
  <2>2. \A q \in Requests : At(q, "create")' => req'[q].op = "login"
    BY <1>5, <1>6, <1>7 DEF TokenInv, Unshared
  <2>3. ASSUME NEW q \in Requests, req'[q].op = "login"
        PROVE  /\ \A s \in given' : s.dev # Dev(q)'
               /\ \A p \in Requests : Dev(p)' = Dev(q)' => p = q
    BY <1>3, <1>4, <1>6, <1>7, <2>1, <2>3 DEF TokenInv, Unshared
  <2> QED
    BY <2>2, <2>3 DEF Unshared
<1>15. Lone'
  <2> SUFFICES ASSUME NEW q \in Requests, Signing(q)', Orderly(Dev(q))'
               PROVE  /\ \A p \in Requests : Signing(p)' /\ Dev(p)' = Dev(q)' => p = q
                      /\ row'[Dev(q)'].lastActiveDate <= req'[q].new
                      /\ \A s \in given' : s.dev = Dev(q)' => s.iat <= req'[q].new
    BY DEF Lone
  <2>1. q # r /\ Signing(q) /\ Dev(q)' = Dev(q) /\ Orderly(Dev(q)) /\ req'[q] = req[q]
    BY <1>5, <1>6, <1>7, <1>8
  <2>2. Dev(q) # d
    BY <1>10, <2>1
  <2>3. \A p \in Requests : Signing(p)' => p # r
    BY <1>6
  <2> QED
    BY <1>3, <1>4, <1>7, <2>1, <2>2, <2>3 DEF TokenInv, Lone
<1>16. Written'
  <2>1. \A q \in Requests : At(q, "respond")' => q # r
    BY <1>6
  <2> QED
    BY <1>4, <1>5, <1>7, <1>8, <2>1 DEF TokenInv, Written
<1>17. NoneLater'
  BY <1>3, <1>4, <1>8, <1>12 DEF TokenInv, NoneLater
<1>18. Owned'
  <2>1. \A b \in Clients : jar'[b] # None => jar'[b] \in given'
    BY <1>4 DEF TokenInv, Owned
  <2>2. \A q \in Requests : Dev(q)' # None => req'[q].client \in Clients
    BY <1>5, <1>6, <1>7 DEF TokenInv, Owned
  <2>3. \A p, q \in Requests : Dev(p)' # None /\ Dev(p)' = Dev(q)' => req'[p].client = req'[q].client
    BY <1>5, <1>6, <1>7 DEF TokenInv, Owned
  <2>4. \A q \in Requests : Dev(q) = d => req[q].client = c
    BY <1>1 DEF TokenInv, Owned, d, c
  <2>5. \A b \in Clients : jar[b] # None /\ jar[b].dev = d => b = c
    BY DEF TokenInv, Owned, d, c
  <2>6. \A b \in Clients : jar'[b] # None => jar'[b].dev # None
    <3>1. \A b \in Clients : jar[b] # None => jar[b].dev # None
      BY ConstantsAssumption DEF TypeOK, Tokens
    <3> QED
      BY <1>1, <1>3, <1>4, <3>1
  <2>7. \A b \in Clients, q \in Requests : jar'[b] # None /\ Dev(q)' = jar'[b].dev => req'[q].client = b
    <3> SUFFICES ASSUME NEW b \in Clients, NEW q \in Requests, jar'[b] # None, Dev(q)' = jar'[b].dev
                 PROVE  req'[q].client = b
      OBVIOUS
    <3>1. q # r /\ Dev(q)' = Dev(q) /\ req'[q] = req[q]
      BY <1>5, <1>6, <1>7, <2>6
    <3>2. CASE b = c
      BY <1>3, <1>4, <2>4, <3>1, <3>2
    <3>3. CASE b # c
      BY <1>4, <3>1, <3>3 DEF TokenInv, Owned
    <3> QED
      BY <3>2, <3>3
  <2>8. \A a, b \in Clients : jar'[a] # None /\ jar'[b] # None /\ jar'[a].dev = jar'[b].dev => a = b
    BY <1>3, <1>4, <2>5 DEF TokenInv, Owned
  <2> QED
    BY <2>1, <2>2, <2>3, <2>7, <2>8 DEF Owned
<1>19. Kept'
  <2> SUFFICES ASSUME NEW b \in Clients, jar'[b] # None, Orderly(jar'[b].dev)
               PROVE  \/ jar'[b].iat = row[jar'[b].dev].lastActiveDate
                      \/ \E q \in Requests : At(q, "respond")' /\ Dev(q)' = jar'[b].dev
    BY <1>4, <1>8 DEF Kept
  <2>1. CASE b = c
    BY <1>3, <1>4, <1>12, <2>1
  <2>2. CASE b # c
    <3>1. jar'[b] = jar[b]
      BY <1>4, <2>2
    <3>2. jar[b].dev # d
      BY <2>2, <3>1 DEF TokenInv, Owned, d, c
    <3>3. \A q \in Requests : At(q, "respond") /\ Dev(q) = jar[b].dev => q # r
      BY <3>2 DEF d
    <3> QED
      BY <1>7, <3>1, <3>3 DEF TokenInv, Kept
  <2> QED
    BY <2>1, <2>2
<1> QED
  BY <1>13, <1>14, <1>15, <1>16, <1>17, <1>18, <1>19 DEF TokenInv

-----------------------------------------------------------------------------
(* The theorems *)

LEMMA TokenStep ==
    ASSUME IInv, TokenInv, [Next]_vars
    PROVE  TokenInv'
<1>1. TypeOK' /\ TypeOK /\ Prepared
  BY IInvStep DEF IInv
<1>2. Quiet => TokenInv'
  BY <1>1, QuietKeeps
<1>3. ASSUME NEW r \in Requests, Arriving(r)
      PROVE  TokenInv'
  <2>1. ASSUME NEW u \in Users, Recover(r, u) PROVE TokenInv'
    BY <1>2, <2>1, QuietRest
  <2> QED
    BY <1>3, <2>1, LoginKeeps, StartKeeps DEF Arriving
<1>4. ASSUME NEW r \in Requests, Handling(r)
      PROVE  TokenInv'
  <2>1. CASE UpdateDevice(r)
    BY <1>2, <2>1, UpdateKeeps, QuietWrites
  <2>2. CASE CreateDevice(r)
    BY <1>2, <2>2, CreateKeeps, QuietWrites
  <2> QED
    BY <1>2, <1>4, <2>1, <2>2, SignKeeps, RespondKeeps, QuietSteps DEF Handling
<1> QED
  BY <1>2, <1>3, <1>4, QuietRest DEF Next

\* In every reachable state the tokens given, sent and signed are as TokenInv says.
THEOREM TokenInvariant == Spec => [](IInv /\ TokenInv)
<1>1. Init => IInv /\ TokenInv
  BY InitIInv, InitTokenInv
<1>2. (IInv /\ TokenInv) /\ [Next]_vars => (IInv /\ TokenInv)'
  BY IInvStep, TokenStep
<1> QED
  BY <1>1, <1>2, PTL DEF Spec

\* Who refreshes from one tab at a time and gets the answers is not logged out:
\* until the session ends the guard accepts the browser's cookie, or the answer
\* with the accepted one is on its way.
THEOREM HoldersStayIn == Spec => []HolderIsAccepted
<1>1. IInv /\ TokenInv => HolderIsAccepted
  <2> SUFFICES ASSUME IInv, TokenInv, NEW c \in Clients, jar[c] # None,
                      row[jar[c].dev] # None, jar[c].dev \notin disturbed
               PROVE  Accepted(jar[c].dev, jar[c].iat) \/ Answering(jar[c])
    BY DEF HolderIsAccepted
  <2>1. Orderly(jar[c].dev) /\ jar[c].iat \in Nat /\ jar[c].dev # None
    BY ConstantsAssumption DEF Orderly, IInv, TypeOK, Tokens
  <2>2. CASE jar[c].iat = row[jar[c].dev].lastActiveDate
    BY <2>1, <2>2 DEF Accepted
  <2>3. ASSUME NEW r \in Requests, At(r, "respond"), Dev(r) = jar[c].dev
        PROVE  Answering(jar[c])
    BY <2>1, <2>3, ConstantsAssumption DEF Answering, TokenInv, Owned
  <2> QED
    BY <2>1, <2>2, <2>3 DEF TokenInv, Kept
<1> QED
  BY <1>1, TokenInvariant, PTL

\* Where refreshes of a device neither overlap nor are cut short, a token that is
\* still accepted is of the second of the last activity: the pair before it is
\* worth nothing any more.
THEOREM GenerationsEnd == Spec => []OneGeneration
<1>1. IInv /\ TokenInv => OneGeneration
  <2> SUFFICES ASSUME IInv, TokenInv, NEW t \in given, row[t.dev] # None,
                      t.dev \notin disturbed, Accepted(t.dev, t.iat)
               PROVE  t.iat = row[t.dev].lastActiveDate
    BY DEF OneGeneration
  <2>1. t.iat \in Nat /\ row[t.dev].lastActiveDate \in Nat
    BY DEF IInv, TypeOK, Tokens, Rows
  <2>2. t.iat <= row[t.dev].lastActiveDate
    BY DEF TokenInv, NoneLater, Orderly
  <2> QED
    BY <2>1, <2>2 DEF Accepted
<1> QED
  BY <1>1, TokenInvariant, PTL


-----------------------------------------------------------------------------
(* Tokens without a session *)

\* The device has no row, and nobody ended its session.
Vanished(d) == row[d] = None /\ d \notin ended

\* A browser gets tokens of a session that was never stored only where the
\* insert of its row failed: each such device stands for a fault of its own, and
\* no refresh, crash or lost answer makes another.
StrayTokensNeedFaults ==
    Cardinality({d \in Devices : Vanished(d) /\ \E t \in given : t.dev = d}) <= faults

\* A refresh that passed the guard found a row, which stands or was ended.
Seated == \A r \in Requests : Refreshing(r) => ~Vanished(Dev(r))

\* The devices without a session whose tokens a browser has or is about to get.
Adrift ==
    {d \in Devices : /\ Vanished(d)
                     /\ \/ \E t \in given : t.dev = d
                        \/ \E r \in Requests : At(r, "respond") /\ Dev(r) = d}

AdriftInv == IsFiniteSet(Adrift) /\ Cardinality(Adrift) <= faults

StrayInv == IInv /\ TokenInv /\ Seated /\ AdriftInv

\* No row vanishes: it goes with the end of its session.
LEMMA NoneVanishes ==
    ASSUME IInv, [Next]_vars, NEW d \in Devices, Vanished(d)'
    PROVE  Vanished(d)
BY RowKept DEF IInv, Vanished

\* Who gets to a later step of a login or a refresh.
LEMMA WhoComes ==
    ASSUME IInv, [Next]_vars, NEW r \in Requests, req'[r] # req[r],
           req'[r].pc \in {"sign", "lookup", "update", "respond"}
    PROVE  CreateDevice(r) \/ Guard(r) \/ Sign(r) \/ Lookup(r) \/ UpdateDevice(r)
<1>1. req \in [Requests -> InFlight \cup {Idle}]
  BY DEF IInv, TypeOK
<1>2. req'[r] # Idle
  BY DEF Idle, Request
<1>3. ASSUME NEW q \in Requests, Arriving(q) PROVE FALSE
  <2>1. PICK x : req' = [req EXCEPT ![q] = x] /\ x.pc \in {"create", "guard", "delete"}
    <3>1. ASSUME NEW c \in Clients, NEW u \in Users, NEW d \in Devices, Login(q, c, u, d)
          PROVE  \E x : req' = [req EXCEPT ![q] = x] /\ x.pc \in {"create", "guard", "delete"}
      <4>1. [Request("login", "create", c, u, d) EXCEPT !.new = clock].pc = "create"
        BY DEF Request
      <4> QED
        BY <3>1, <4>1 DEF Login
    <3>2. ASSUME NEW c \in Clients, NEW op \in Operations, NEW target \in Devices \cup {None},
                 Start(q, c, op, target)
          PROVE  \E x : req' = [req EXCEPT ![q] = x] /\ x.pc \in {"create", "guard", "delete"}
      <4>1. [Request(op, "guard", c, jar[c].user, jar[c].dev)
               EXCEPT !.old = jar[c].iat, !.target = target].pc = "guard"
        BY DEF Request
      <4> QED
        BY <3>2, <4>1 DEF Start
    <3>3. ASSUME NEW u \in Users, Recover(q, u)
          PROVE  \E x : req' = [req EXCEPT ![q] = x] /\ x.pc \in {"create", "guard", "delete"}
      <4>1. Request("recover", "delete", None, u, None).pc = "delete"
        BY DEF Request
      <4> QED
        BY <3>3, <4>1 DEF Recover
    <3> QED
      BY <1>3, <3>1, <3>2, <3>3 DEF Arriving
  <2> QED
    BY <1>1, <2>1
<1>4. ASSUME NEW q \in Requests, Handling(q)
      PROVE  q = r /\ (CreateDevice(r) \/ Guard(r) \/ Sign(r) \/ Lookup(r) \/ UpdateDevice(r))
  <2>1. ~Over(q)
    BY <1>1, <1>2 DEF Over
  <2>2. CASE Find(q)
    <3>1. PICK o : req' = [req EXCEPT ![q].owner = o,
                    ![q].pc = IF req[q].op = "logout" THEN "delete" ELSE "own"]
      BY <2>1, <2>2 DEF Find
    <3>2. req[q] \in InFlight
      BY <1>1, <2>2 DEF Find, At, Idle, Request
    <3> QED
      BY <1>1, <3>1, <3>2 DEF InFlight
  <2>3. CASE FindOwn(q)
    <3>1. GoTo(q, "delete")
      BY <2>1, <2>3 DEF FindOwn
    <3>2. req[q] \in InFlight
      BY <1>1, <2>3 DEF FindOwn, At, Idle, Request
    <3> QED
      BY <1>1, <3>1, <3>2 DEF GoTo, InFlight
  <2>4. CASE CreateDevice(q) \/ Guard(q) \/ Sign(q) \/ Lookup(q) \/ UpdateDevice(q)
    <3>1. \A p \in Requests : p # q => req'[p] = req[p]
      BY <1>1, <2>4 DEF CreateDevice, Guard, Sign, Lookup, UpdateDevice, GoTo, Over
    <3> QED
      BY <2>4, <3>1
  <2> QED
    BY <1>4, <2>1, <2>2, <2>3, <2>4 DEF Handling, Respond, Lose, Delete
<1>5. CASE Crash
  BY <1>2, <1>5 DEF Crash
<1>6. CASE Tick \/ UNCHANGED vars
  BY <1>6 DEF Tick, vars
<1> QED
  BY <1>3, <1>4, <1>5, <1>6 DEF Next

\* It comes with its device, and passes the guard only if the device has a row.
LEMMA ComesWithDevice ==
    ASSUME IInv, TokenInv, [Next]_vars, NEW r \in Requests, req'[r] # req[r],
           req'[r].pc \in {"sign", "lookup", "update", "respond"}
    PROVE  /\ Dev(r)' = Dev(r) /\ req'[r].op = req[r].op /\ Dev(r) \in Devices
           /\ req[r].op = "refresh" => Refreshing(r) \/ row[Dev(r)] # None
           /\ req'[r].pc = "respond" => CreateDevice(r) \/ UpdateDevice(r)
<1>1. req \in [Requests -> InFlight \cup {Idle}] /\ Prepared
  BY DEF IInv, TypeOK
<1>2. req'[r] # Idle
  BY DEF Idle, Request
<1>3. ~Over(r)
  BY <1>1, <1>2 DEF Over
<1>4. CreateDevice(r) \/ Guard(r) \/ Sign(r) \/ Lookup(r) \/ UpdateDevice(r)
  BY WhoComes
<1>5. req[r] \in InFlight
  BY <1>1, <1>4 DEF CreateDevice, Guard, Sign, Lookup, UpdateDevice, At, Idle, Request
<1>6. req[r].op \in Operations \ {"recover"}
  BY <1>1, <1>4 DEF CreateDevice, Guard, Sign, Lookup, UpdateDevice, At, Prepared, Guarded,
                    Operations
<1>7. Dev(r) \in Devices
  BY <1>1, <1>6 DEF Prepared
<1>8. Dev(r)' = Dev(r) /\ req'[r].op = req[r].op
  <2>1. \/ req' = [req EXCEPT ![r].pc = "lookup", ![r].new = clock]
        \/ \E pc : GoTo(r, pc)
    BY <1>3, <1>4 DEF CreateDevice, Guard, Sign, Lookup, UpdateDevice
  <2> QED
    BY <1>1, <1>5, <2>1 DEF GoTo, Dev, InFlight
<1>9. CASE Guard(r)
  <2>1. row[Dev(r)] # None /\ GoTo(r, AfterGuard[req[r].op])
    BY <1>3, <1>9 DEF Guard, Accepted
  <2>2. AfterGuard[req[r].op] # "respond"
    BY <1>1, <1>9 DEF Guard, At, Prepared, Guarded, AfterGuard
  <2>3. req'[r].pc # "respond"
    BY <1>1, <1>5, <2>1, <2>2 DEF GoTo, InFlight
  <2> QED
    BY <1>7, <1>8, <2>1, <2>3
<1>10. CASE Sign(r) \/ Lookup(r)
  <2>1. Refreshing(r)
    BY <1>1, <1>10 DEF Sign, Lookup, At, Prepared, Refreshing
  <2>2. \/ req' = [req EXCEPT ![r].pc = "lookup", ![r].new = clock]
        \/ GoTo(r, "update")
    BY <1>3, <1>10 DEF Sign, Lookup
  <2>3. req'[r].pc # "respond"
    BY <1>1, <1>5, <2>2 DEF GoTo, InFlight
  <2> QED
    BY <1>7, <1>8, <2>1, <2>3
<1>11. CASE UpdateDevice(r)
  BY <1>1, <1>7, <1>8, <1>11 DEF UpdateDevice, At, Prepared, Refreshing
<1>12. CASE CreateDevice(r)
  <2>1. req[r].op = "login"
    BY <1>12 DEF CreateDevice, TokenInv, Unshared
  <2> QED
    BY <1>7, <1>8, <1>12, <2>1
<1> QED
  BY <1>4, <1>9, <1>10, <1>11, <1>12


LEMMA SeatedStep ==
    ASSUME IInv, TokenInv, Seated, [Next]_vars
    PROVE  Seated'
<1> SUFFICES ASSUME NEW r \in Requests, Refreshing(r)', Vanished(Dev(r))' PROVE FALSE
  BY DEF Seated
<1>1. CASE req'[r] = req[r]
  <2>1. Refreshing(r) /\ Dev(r)' = Dev(r)
    BY <1>1 DEF Refreshing, Dev
  <2>2. Dev(r) \in Devices
    BY <2>1 DEF Refreshing, IInv, Prepared, Operations
  <2>3. Vanished(Dev(r))
    BY <2>1, <2>2, NoneVanishes DEF Vanished
  <2> QED
    BY <2>1, <2>3 DEF Seated
<1>2. CASE req'[r] # req[r]
  <2>1. /\ Dev(r)' = Dev(r) /\ Dev(r) \in Devices /\ req'[r].op = req[r].op
        /\ req[r].op = "refresh" => Refreshing(r) \/ row[Dev(r)] # None
    BY <1>2, ComesWithDevice DEF Refreshing
  <2>2. Refreshing(r) \/ row[Dev(r)] # None
    BY <2>1 DEF Refreshing
  <2>3. Vanished(Dev(r))
    BY <2>1, NoneVanishes DEF Vanished
  <2> QED
    BY <2>2, <2>3 DEF Seated, Vanished
<1> QED
  BY <1>1, <1>2

\* Only the login whose insert fails leaves its device without a session.
LEMMA AdriftFrom ==
    ASSUME IInv, TokenInv, Seated, [Next]_vars, NEW d \in Adrift', d \notin Adrift
    PROVE  \E r \in Requests : /\ CreateDevice(r) /\ Dev(r) = d
                               /\ faults' = faults + 1
<1>1. d \in Devices /\ Vanished(d)
  BY NoneVanishes DEF Adrift
<1>2. /\ ~\E t \in given : t.dev = d
      /\ ~\E r \in Requests : At(r, "respond") /\ Dev(r) = d
  BY <1>1 DEF Adrift
<1>3. ASSUME NEW t \in given', t.dev = d PROVE FALSE
  <2>1. t \notin given
    BY <1>2, <1>3
  <2>2. PICK r \in Requests : Respond(r)
    <3>1. ASSUME NEW q \in Requests, Arriving(q) PROVE given' = given
      BY <3>1 DEF Arriving, Login, Start, Recover, history
    <3>2. ASSUME NEW q \in Requests, Handling(q), ~Respond(q) PROVE given' = given
      BY <3>2 DEF Handling, CreateDevice, Guard, Sign, Lookup, UpdateDevice, Lose, Find,
                  FindOwn, Delete, history
    <3>3. ASSUME Crash \/ Tick \/ UNCHANGED vars PROVE given' = given
      BY <3>3 DEF Crash, Tick, vars, history
    <3> QED
      BY <2>1, <3>1, <3>2, <3>3 DEF Next
  <2>3. t = Signed(r) /\ At(r, "respond")
    BY <2>1, <2>2 DEF Respond
  <2>4. Dev(r) = d
    BY <1>3, <2>3 DEF Signed
  <2> QED
    BY <1>2, <2>3, <2>4
<1>4. PICK r \in Requests : At(r, "respond")' /\ Dev(r)' = d
  BY <1>3 DEF Adrift
<1>5. req'[r] # req[r] /\ req'[r].pc = "respond"
  BY <1>2, <1>4 DEF At, Dev
<1>6. Dev(r) = d /\ (CreateDevice(r) \/ UpdateDevice(r))
  BY <1>4, <1>5, ComesWithDevice
<1>7. ~UpdateDevice(r)
  <2>1. SUFFICES ASSUME UpdateDevice(r) PROVE FALSE
    OBVIOUS
  <2>2. Refreshing(r)
    BY <2>1 DEF UpdateDevice, At, IInv, Prepared, Refreshing
  <2> QED
    BY <1>1, <1>6, <2>2 DEF Seated
<1>8. CreateDevice(r)
  BY <1>6, <1>7
<1>9. row'[d] = None /\ row \in [Devices -> Rows \cup {None}]
  BY DEF Adrift, Vanished, IInv, TypeOK
<1>10. row' # [row EXCEPT ![Dev(r)] = [user |-> req[r].user, lastActiveDate |-> req[r].new]]
  <2>1. SUFFICES ASSUME row' = [row EXCEPT ![Dev(r)] = [user |-> req[r].user,
                                                      lastActiveDate |-> req[r].new]]
                 PROVE  FALSE
    OBVIOUS
  <2>2. [user |-> req[r].user, lastActiveDate |-> req[r].new] = None
    BY <1>1, <1>6, <1>9, <2>1
  <2>3. req[r].user \in Users /\ req[r].new \in Nat
    BY <1>8 DEF CreateDevice, At, IInv, TypeOK, Prepared, InFlight, Idle, Request
  <2>4. [user |-> req[r].user, lastActiveDate |-> req[r].new] \in Rows
    BY <2>3 DEF Rows
  <2> QED
    BY <2>2, <2>4, ConstantsAssumption
<1> QED
  BY <1>6, <1>8, <1>10 DEF CreateDevice, Fault

LEMMA FaultsGrow ==
    ASSUME IInv, [Next]_vars
    PROVE  faults \in Nat /\ (faults' = faults \/ faults' = faults + 1)
<1>1. faults \in Nat
  BY DEF IInv, TypeOK
<1>2. ASSUME NEW r \in Requests, Arriving(r) PROVE faults' = faults
  BY <1>2 DEF Arriving, Login, Start, Recover
<1>3. ASSUME NEW r \in Requests, Handling(r) PROVE faults' = faults \/ faults' = faults + 1
  BY <1>3 DEF Handling, CreateDevice, Guard, Sign, Lookup, UpdateDevice, Respond, Lose, Find,
              FindOwn, Delete, Fault
<1>4. ASSUME Crash \/ Tick \/ UNCHANGED vars PROVE faults' = faults \/ faults' = faults + 1
  BY <1>4 DEF Crash, Tick, vars, Fault
<1> QED
  BY <1>1, <1>2, <1>3, <1>4 DEF Next

LEMMA AdriftStep ==
    ASSUME IInv, TokenInv, Seated, AdriftInv, [Next]_vars
    PROVE  AdriftInv'
<1>1. IsFiniteSet(Adrift) /\ Cardinality(Adrift) \in Nat /\ Cardinality(Adrift) <= faults
  BY FS_CardinalityType DEF AdriftInv
<1>2. faults \in Nat /\ faults' \in Nat /\ faults <= faults'
  BY FaultsGrow
<1>3. CASE Adrift' \subseteq Adrift
  <2>1. IsFiniteSet(Adrift') /\ Cardinality(Adrift') <= Cardinality(Adrift)
    BY <1>1, <1>3, FS_Subset
  <2>2. Cardinality(Adrift') \in Nat
    BY <2>1, FS_CardinalityType
  <2> QED
    BY <1>1, <1>2, <2>1, <2>2 DEF AdriftInv
<1>4. CASE ~(Adrift' \subseteq Adrift)
  <2>1. PICK d \in Adrift' : d \notin Adrift
    BY <1>4
  <2>2. PICK r \in Requests : CreateDevice(r) /\ Dev(r) = d /\ faults' = faults + 1
    BY <2>1, AdriftFrom
  <2>3. Adrift' \subseteq Adrift \cup {d}
    <3> SUFFICES ASSUME NEW e \in Adrift', e \notin Adrift PROVE e = d
      OBVIOUS
    <3>1. PICK q \in Requests : CreateDevice(q) /\ Dev(q) = e
      BY AdriftFrom
    <3>2. At(q, "create") /\ At(q, "respond")' /\ At(r, "create") /\ At(r, "respond")'
      BY <2>2, <3>1 DEF CreateDevice, GoTo, At, IInv, TypeOK, Idle, Request, InFlight
    <3>3. q = r
      BY <2>2, <3>2 DEF CreateDevice, GoTo, At, IInv, TypeOK
    <3> QED
      BY <2>2, <3>1, <3>3
  <2>4. IsFiniteSet(Adrift \cup {d}) /\ Cardinality(Adrift \cup {d}) = Cardinality(Adrift) + 1
    BY <1>1, <2>1, FS_AddElement
  <2>5. IsFiniteSet(Adrift') /\ Cardinality(Adrift') <= Cardinality(Adrift) + 1
    BY <2>3, <2>4, FS_Subset
  <2>6. Cardinality(Adrift') \in Nat
    BY <2>5, FS_CardinalityType
  <2> QED
    BY <1>1, <1>2, <2>2, <2>5, <2>6 DEF AdriftInv
<1> QED
  BY <1>3, <1>4

LEMMA InitStray == Init => Seated /\ AdriftInv
<1> SUFFICES ASSUME Init PROVE Seated /\ AdriftInv
  OBVIOUS
<1>1. \A r \in Requests : ~Refreshing(r) /\ ~At(r, "respond")
  BY DEF Init, Idle, Request, Refreshing, At
<1>2. Adrift = {}
  BY <1>1 DEF Init, Adrift
<1> QED
  BY <1>1, <1>2, FS_EmptySet DEF Seated, AdriftInv, Init

\* Each device whose tokens a browser has although no session stands or was ended
\* is the price of a fault of its own, for any number of logins and refreshes.
THEOREM StraysAreFaults == Spec => []StrayTokensNeedFaults
<1>1. Init => StrayInv
  BY InitIInv, InitTokenInv, InitStray DEF StrayInv
<1>2. StrayInv /\ [Next]_vars => StrayInv'
  BY IInvStep, TokenStep, SeatedStep, AdriftStep DEF StrayInv
<1>3. StrayInv => StrayTokensNeedFaults
  <2> SUFFICES ASSUME StrayInv PROVE StrayTokensNeedFaults
    OBVIOUS
  <2> DEFINE Strays == {d \in Devices : Vanished(d) /\ \E t \in given : t.dev = d}
  <2>1. Strays \subseteq Adrift
    BY DEF Adrift
  <2>2. /\ IsFiniteSet(Adrift) /\ Cardinality(Adrift) \in Nat
        /\ Cardinality(Adrift) <= faults /\ faults \in Nat
    BY FS_CardinalityType DEF StrayInv, AdriftInv, IInv, TypeOK
  <2>3. IsFiniteSet(Strays) /\ Cardinality(Strays) <= Cardinality(Adrift)
    BY <2>1, <2>2, FS_Subset
  <2>4. Cardinality(Strays) \in Nat
    BY <2>3, FS_CardinalityType
  <2>5. Cardinality(Strays) <= faults
    BY <2>2, <2>3, <2>4
  <2> QED
    BY <2>5 DEF StrayTokensNeedFaults
<1> QED
  BY <1>1, <1>2, <1>3, PTL DEF Spec

=============================================================================
