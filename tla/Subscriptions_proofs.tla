------------------------ MODULE Subscriptions_proofs ------------------------
(***************************************************************************)
(* Theorems about Subscriptions: its type invariant, that what can be paid *)
(* has its rows at the gateway, that no day is given away and that it      *)
(* implements PurchaseLifecycle, for any users, purchases, requests in     *)
(* flight, prices, days and faults.                                        *)
(***************************************************************************)
EXTENDS Subscriptions, TLAPS

-----------------------------------------------------------------------------
(* The inductive invariant.  Each conjunct is what one part of the system  *)
(* knows of another: a request of its rows, an event of its purchase, a    *)
(* hook of the order it found.                                             *)

\* A request that has begun has its input.
BuyInv ==
    \A p \in Purchases : buy[p].pc # "idle" =>
        buy[p].user \in Users /\ buy[p].time \in Times /\ buy[p].system \in Systems

\* The session, the transaction and the order are stored in this order, each
\* at the price of the request, and nobody pays before the last.
RowsOK(p) ==
    /\ buy[p].pc \in {"updateTx", "createOrder", "done"} => session[p].amount = Cost(p)
    /\ buy[p].pc \in {"createOrder", "done"} =>
         tx[p] \in [status : Statuses, price : {Cost(p)}]
    /\ buy[p].pc = "done" =>
         order[p] = [paymentId |-> p, user |-> buy[p].user,
                     price |-> Cost(p), time |-> buy[p].time]
    /\ session[p].status \in {"approved", "paid"} => buy[p].pc = "done"

RowsInv == \A p \in Purchases : RowsOK(p)

\* An event is about a purchase that was offered; a webhook, about one charged.
EventInv ==
    \A e \in emitted : /\ buy[e.p].pc = "done"
                       /\ e.type # "capture" => Charged(e.p)

Steps(t) ==
    CASE t = "checkout"  -> {"find", "mark", "read", "write", "mail", "notify", "respond"}
      [] t = "sale"      -> {"find", "mark", "read", "write", "mail", "notify", "respond"}
      [] t = "capture"   -> {"capture", "find", "mark", "read", "write", "mail", "respond"}
      [] t = "activated" -> {"find", "read", "write", "subscribe", "debit", "respond"}
      [] t = "created"   -> {"subscribe", "debit", "respond"}

OrderSteps == {"read", "write", "mail", "notify"}

\* A hook in flight is at a step of its event's route, the purchase is charged
\* once it is past the capture, and from the account's update on it holds the
\* order of that purchase.
HookOK(h) ==
    hook[h].pc # "idle" =>
        /\ hook[h].ev \in emitted
        /\ hook[h].pc \in Steps(hook[h].ev.type)
        /\ hook[h].pc # "capture" => Charged(P(h))
        /\ hook[h].order \in {order[P(h)], None}
        /\ hook[h].pc \in OrderSteps => hook[h].order = order[P(h)]
        /\ hook[h].pc = "write" => hook[h].end \in Nat

HookInv == \A h \in Handlers : HookOK(h)

IInv == TypeOK /\ BuyInv /\ RowsInv /\ EventInv /\ HookInv

-----------------------------------------------------------------------------
(* Lemmas about the operators *)

\* What the date arithmetic returns are numbers of days.
LEMMA ExtensionNat == ASSUME NEW o \in Orders PROVE Extension(o) \in Nat
<1>1. o.price \in Nat /\ o.time \in Times  BY DEF Orders
<1>2. Price[o.time] \in Nat \ {0}  BY <1>1, ConstantsAssumption
<1>3. o.price \div Price[o.time] \in Nat  BY <1>1, <1>2, SMT
<1>4. Days[o.time] \in Nat  BY <1>1, ConstantsAssumption DEF Days
<1>5. \A x, y \in Nat : x * y \in Nat  BY SMT
<1> QED  BY <1>3, <1>4, <1>5 DEF Extension

LEMMA EndDateNat ==
    ASSUME NEW o \in Orders, NEW c \in Nat \cup {None}, clock \in Nat
    PROVE  EndDate(o, c) \in Nat
BY ExtensionNat DEF EndDate

LEMMA CostNat ==
    ASSUME NEW p \in Purchases, TypeOK, buy[p].time \in Times
    PROVE  Cost(p) \in Nat
<1>1. Price[buy[p].time] \in Nat  BY ConstantsAssumption
<1>2. buy[p].count \in Nat  BY DEF TypeOK, Requests
<1>3. \A x, y \in Nat : x * y \in Nat  BY SMT
<1> QED  BY <1>1, <1>2, <1>3 DEF Cost

\* Route stays within Steps, and reaches a step only from the one before it.
LEMMA RouteStart == \A t \in EventTypes :
    /\ Route[t].start \in Steps(t) \cap HookSteps
    /\ Route[t].start = "capture" <=> t = "capture"
    /\ Route[t].start \notin OrderSteps
BY SMTT(60) DEF Route, CheckoutRoute, CreatedRoute, SaleRoute, ActivatedRoute, CaptureRoute,
   Steps, EventTypes, HookSteps, OrderSteps

LEMMA RouteStep == \A t \in EventTypes : \A s \in Steps(t) \ {"respond"} :
    /\ Route[t][s] \in Steps(t) \cap HookSteps
    /\ Route[t][s] # "capture"
    /\ Route[t][s] = "write" => s = "read"
    /\ Route[t][s] = "read" => s = "mark" \/ (s = "find" /\ t = "activated")
    /\ Route[t][s] = "mail" => s = "write"
    /\ Route[t][s] = "notify" => s = "mail"
BY SMTT(60) DEF Route, CheckoutRoute, CreatedRoute, SaleRoute, ActivatedRoute, CaptureRoute,
   Steps, EventTypes, HookSteps

-----------------------------------------------------------------------------
(* What leaves a conjunct of the invariant alone *)

\* Nothing an event or a hook in flight relies on is taken back.
Kept ==
    /\ emitted \subseteq emitted'
    /\ \A p \in Purchases : Charged(p) => Charged(p)'
    /\ \A p \in Purchases : buy[p].pc = "done" =>
         buy'[p] = buy[p] /\ order'[p] = order[p]

LEMMA HookFrame ==
    ASSUME IInv, Kept, NEW h \in Handlers, hook'[h] = hook[h]
    PROVE  HookOK(h)'
<1> SUFFICES ASSUME hook[h].pc # "idle" PROVE HookOK(h)'  BY DEF HookOK
<1>1. hook[h].ev \in emitted /\ P(h) \in Purchases
  BY DEF IInv, HookInv, HookOK, TypeOK, Events, P
<1>2. buy[P(h)].pc = "done"  BY <1>1 DEF IInv, EventInv, P
<1>3. HookOK(h)  BY DEF IInv, HookInv
<1> QED  BY <1>1, <1>2, <1>3 DEF Kept, HookOK, P

LEMMA EventFrame ==
    ASSUME IInv, Kept, emitted' = emitted
    PROVE  EventInv'
<1>1. \A e \in emitted : e.p \in Purchases  BY DEF IInv, TypeOK, Events
<1> QED  BY <1>1 DEF IInv, EventInv, Kept

LEMMA RowsFrame ==
    ASSUME RowsInv, UNCHANGED <<buy, session, tx, order>>
    PROVE  RowsInv'
BY DEF RowsInv, RowsOK, Cost

LEMMA Unchanged ==
    ASSUME IInv, UNCHANGED <<buy, order, session, emitted>>
    PROVE  Kept /\ BuyInv' /\ EventInv'
<1>1. Kept  BY DEF Kept, Charged
<1> QED  BY <1>1, EventFrame DEF IInv, BuyInv

-----------------------------------------------------------------------------
(* How a hook leaves a step *)

LEMMA HookTyped ==
    ASSUME IInv, NEW h \in Handlers, hook[h].pc # "idle"
    PROVE  /\ hook[h] \in HookStates
           /\ hook[h].ev \in emitted /\ hook[h].ev \in Events
           /\ P(h) \in Purchases /\ hook[h].ev.type \in EventTypes
           /\ buy[P(h)].pc = "done" /\ buy[P(h)].user \in Users
           /\ buy[P(h)].time \in Times
           /\ order[P(h)] \in Orders /\ order[P(h)].paymentId = P(h)
           /\ hook[h].pc # "capture" => Charged(P(h))
<1>1. hook[h] \in HookStates  BY DEF IInv, TypeOK, Idle
<1>2. hook[h].ev \in emitted  BY DEF IInv, HookInv, HookOK
<1>3. hook[h].ev \in Events  BY <1>2 DEF IInv, TypeOK
<1>4. P(h) \in Purchases /\ hook[h].ev.type \in EventTypes  BY <1>3 DEF Events, P
<1>5. buy[P(h)].pc = "done"  BY <1>2 DEF IInv, EventInv, P
<1>6. buy[P(h)].user \in Users /\ buy[P(h)].time \in Times
  BY <1>4, <1>5 DEF IInv, BuyInv
<1>7. Cost(P(h)) \in Nat  BY <1>4, <1>6, CostNat DEF IInv
<1>8. order[P(h)] = [paymentId |-> P(h), user |-> buy[P(h)].user,
                     price |-> Cost(P(h)), time |-> buy[P(h)].time]
  BY <1>4, <1>5 DEF IInv, RowsInv, RowsOK
<1>9. order[P(h)] \in Orders /\ order[P(h)].paymentId = P(h)
  BY <1>4, <1>6, <1>7, <1>8 DEF Orders
<1>10. hook[h].pc # "capture" => Charged(P(h))  BY DEF IInv, HookInv, HookOK
<1> QED  BY <1>1, <1>2, <1>3, <1>4, <1>5, <1>6, <1>9, <1>10

\* What every way out of a step owes the rest of the proof.
HookMoved(h) ==
    /\ hook' \in [Handlers -> HookStates \cup {Idle}]
    /\ closed' \subseteq Events
    /\ HookInv'

LEMMA OneHookMoves ==
    ASSUME IInv, Kept, NEW h \in Handlers, HookOK(h)',
           hook'[h] \in HookStates \cup {Idle}, hook' = [hook EXCEPT ![h] = hook'[h]],
           closed' \subseteq Events
    PROVE  HookMoved(h)
<1>1. hook \in [Handlers -> HookStates \cup {Idle}]  BY DEF IInv, TypeOK
<1>2. hook' \in [Handlers -> HookStates \cup {Idle}]  BY <1>1
<1>3. \A i \in Handlers \ {h} : hook'[i] = hook[i]  BY <1>1
<1>4. \A i \in Handlers : HookOK(i)'  BY <1>3, HookFrame
<1> QED  BY <1>2, <1>4 DEF HookInv, HookMoved

LEMMA Throws ==
    ASSUME IInv, Kept, NEW h \in Handlers, hook[h].pc # "idle", Throw(h)
    PROVE  HookMoved(h)
<1>1. hook \in [Handlers -> HookStates \cup {Idle}]  BY DEF IInv, TypeOK
<1>2. hook'[h].pc = "idle"  BY <1>1 DEF Throw, Idle
<1>3. HookOK(h)'  BY <1>2 DEF HookOK
<1>4. closed' \subseteq Events  BY HookTyped DEF Throw, IInv, TypeOK
<1> QED  BY <1>1, <1>3, <1>4, OneHookMoves DEF Throw

LEMMA Advances ==
    ASSUME IInv, Kept, NEW h \in Handlers, Advance(h),
           hook[h].pc \notin {"idle", "read", "find", "respond"},
           hook[h].pc = "mark" => hook[h].order # None,
           NEW p \in Purchases, p = P(h), Charged(p)'
    PROVE  HookMoved(h)
<1> DEFINE t == hook[h].ev.type
           s == hook[h].pc
           g == [hook[h] EXCEPT !.pc = Forward(h)]
<1>1. hook \in [Handlers -> HookStates \cup {Idle}]  BY DEF IInv, TypeOK
<1>2. /\ hook[h] \in HookStates /\ hook[h].ev \in emitted
      /\ t \in EventTypes /\ P(h) \in Purchases /\ buy[P(h)].pc = "done"
  BY HookTyped
<1>3. HookOK(h)  BY DEF IInv, HookInv
<1>4. s \in Steps(t) \ {"respond"}  BY <1>3 DEF HookOK
<1>5. /\ Route[t][s] \in Steps(t) \cap HookSteps
      /\ Route[t][s] # "write" /\ Route[t][s] # "capture"
      /\ Route[t][s] = "read" => s = "mark"
      /\ Route[t][s] \in {"mail", "notify"} => s \in {"write", "mail"}
  BY <1>2, <1>4, RouteStep
<1>6. g \in HookStates  BY <1>2, <1>5 DEF HookStates, Forward
<1>7. hook' = [hook EXCEPT ![h] = g]  BY <1>1 DEF Advance
<1>8. hook'[h] = g /\ g.pc = Route[t][s] /\ g.ev = hook[h].ev /\ g.order = hook[h].order
  BY <1>1, <1>2, <1>7 DEF Forward, HookStates
<1>9. order'[P(h)] = order[P(h)] /\ P(h)' = P(h)
  BY <1>2, <1>8 DEF Kept, P
<1>10. HookOK(h)'
  BY <1>2, <1>3, <1>5, <1>8, <1>9 DEF HookOK, OrderSteps, Kept
<1>11. closed' \subseteq Events  BY DEF Advance, IInv, TypeOK
<1> QED  BY <1>6, <1>7, <1>8, <1>10, <1>11, OneHookMoves

-----------------------------------------------------------------------------
(* The purchase request *)

\* What a step of p's request that is not the last owes the rest of the proof:
\* no event is about p yet, and the rows of the other requests are untouched.
Before(p) == buy[p].pc \in {"idle", "createTx", "openSession", "updateTx", "createOrder"}

OnlyRowsOf(p) ==
    /\ buy' \in [Purchases -> Requests]
    /\ \A q \in Purchases \ {p} :
         /\ buy'[q] = buy[q] /\ session'[q] = session[q]
         /\ tx'[q] = tx[q] /\ order'[q] = order[q]
    /\ session'[p].status \notin {"approved", "paid"}
    /\ UNCHANGED <<emitted, hook>>

LEMMA RequestMoves ==
    ASSUME IInv, NEW p \in Purchases, Before(p), OnlyRowsOf(p), RowsOK(p)',
           buy'[p].user \in Users /\ buy'[p].time \in Times /\ buy'[p].system \in Systems
    PROVE  BuyInv' /\ RowsInv' /\ EventInv' /\ HookInv'
<1>1. ~Charged(p)  BY DEF IInv, RowsInv, RowsOK, Charged, Before
<1>2. Kept  BY <1>1 DEF Kept, Charged, OnlyRowsOf, Before
<1>3. BuyInv'  BY DEF IInv, BuyInv, OnlyRowsOf
<1>4. \A q \in Purchases \ {p} : RowsOK(q)'
  BY DEF IInv, RowsInv, RowsOK, Cost, OnlyRowsOf
<1>5. RowsInv'  BY <1>4 DEF RowsInv
<1>6. EventInv'  BY <1>2, EventFrame DEF OnlyRowsOf
<1>7. HookInv'  BY <1>2, HookFrame DEF HookInv, OnlyRowsOf
<1> QED  BY <1>3, <1>5, <1>6, <1>7

LEMMA StartBuyStep ==
    ASSUME IInv, NEW p \in Purchases, NEW u \in Users, NEW t \in Times,
           NEW m \in Methods, NEW n \in 1..MaxCount, StartBuy(p, u, t, m, n)
    PROVE  IInv'
<1>1. m[1] \in Systems /\ m[2] \in BOOLEAN /\ n \in Nat
  BY ConstantsAssumption DEF Systems
<1>2. PICK r \in Requests :
        /\ buy' = [buy EXCEPT ![p] = r]
        /\ r.pc \in {"createTx", "failed"}
        /\ r.user = u /\ r.time = t /\ r.system = m[1]
  <2>1. PICK pc \in {"createTx", "failed"} :
          buy' = [buy EXCEPT ![p] = [pc |-> pc, user |-> u, time |-> t,
                                     system |-> m[1], auto |-> m[2], count |-> n]]
    BY DEF StartBuy
  <2>2. [pc |-> pc, user |-> u, time |-> t, system |-> m[1], auto |-> m[2],
         count |-> n] \in Requests
    BY <1>1 DEF Requests
  <2> QED  BY <2>1, <2>2
<1>3. buy \in [Purchases -> Requests]  BY DEF IInv, TypeOK
<1>4. TypeOK'  BY <1>2, <1>3 DEF StartBuy, IInv, TypeOK, db, provider, history
<1>5. Before(p) /\ session[p].status \notin {"approved", "paid"}
  BY DEF StartBuy, Before, IInv, RowsInv, RowsOK
<1>6. OnlyRowsOf(p)
  BY <1>2, <1>3, <1>5 DEF StartBuy, OnlyRowsOf, db, provider
<1>7. RowsOK(p)'  BY <1>2, <1>3, <1>5 DEF StartBuy, RowsOK, db, provider
<1>8. buy'[p].user \in Users /\ buy'[p].time \in Times /\ buy'[p].system \in Systems
  BY <1>1, <1>2, <1>3
<1> QED  BY <1>4, <1>5, <1>6, <1>7, <1>8, RequestMoves DEF IInv

\* What the other steps of a request start from.
LEMMA RequestStarted ==
    ASSUME IInv, NEW p \in Purchases, Before(p), buy[p].pc # "idle"
    PROVE  /\ buy \in [Purchases -> Requests] /\ buy[p] \in Requests
           /\ buy[p].user \in Users /\ buy[p].time \in Times /\ buy[p].system \in Systems
           /\ session \in [Purchases -> Sessions]
           /\ session[p].status \notin {"approved", "paid"}
           /\ Cost(p) \in Nat /\ RowsOK(p)
<1>1. buy \in [Purchases -> Requests] /\ session \in [Purchases -> Sessions]
  BY DEF IInv, TypeOK
<1>2. buy[p].user \in Users /\ buy[p].time \in Times /\ buy[p].system \in Systems
  BY DEF IInv, BuyInv
<1>3. RowsOK(p)  BY DEF IInv, RowsInv
<1>4. session[p].status \notin {"approved", "paid"}  BY <1>3 DEF RowsOK, Before
<1>5. Cost(p) \in Nat  BY <1>2, CostNat DEF IInv
<1> QED  BY <1>1, <1>2, <1>3, <1>4, <1>5

\* The request moves on, the rest of its record as it was.
LEMMA RequestTo ==
    ASSUME IInv, NEW p \in Purchases, Before(p), buy[p].pc # "idle",
           NEW pc \in {"openSession", "updateTx", "createOrder", "done", "failed"},
           BuyTo(p, pc)
    PROVE  /\ buy' \in [Purchases -> Requests]
           /\ \A q \in Purchases \ {p} : buy'[q] = buy[q]
           /\ buy'[p].pc = pc
           /\ buy'[p].user = buy[p].user /\ buy'[p].time = buy[p].time
           /\ buy'[p].system = buy[p].system
           /\ Cost(p)' = Cost(p)
<1>1. buy \in [Purchases -> Requests] /\ buy[p] \in Requests  BY RequestStarted
<1>2. [buy[p] EXCEPT !.pc = pc] \in Requests  BY <1>1 DEF Requests
<1>3. buy' = [buy EXCEPT ![p] = [buy[p] EXCEPT !.pc = pc]]  BY <1>1 DEF BuyTo
<1>4. buy'[p] = [buy[p] EXCEPT !.pc = pc]  BY <1>1, <1>3
<1>5. /\ buy'[p].pc = pc /\ buy'[p].user = buy[p].user /\ buy'[p].time = buy[p].time
      /\ buy'[p].system = buy[p].system /\ buy'[p].count = buy[p].count
  BY <1>1, <1>4 DEF Requests
<1>6. Cost(p)' = Cost(p)  BY <1>5 DEF Cost
<1> QED  BY <1>1, <1>2, <1>3, <1>5, <1>6

LEMMA UsedTyped ==
    ASSUME IInv, NEW f \in Faults, Fault(f)
    PROVE  used' \in [Faults -> Nat]
BY DEF IInv, TypeOK, Fault

LEMMA CreateTransactionStep ==
    ASSUME IInv, NEW p \in Purchases, CreateTransaction(p)
    PROVE  IInv'
<1> DEFINE r == [buy[p] EXCEPT !.pc = "openSession",
                               !.count = IF buy[p].auto THEN 1 ELSE @]
<1>1. Before(p) /\ buy[p].pc # "idle"  BY DEF CreateTransaction, Before
<1>2. /\ buy \in [Purchases -> Requests] /\ buy[p] \in Requests
      /\ buy[p].user \in Users /\ buy[p].time \in Times /\ buy[p].system \in Systems
      /\ session[p].status \notin {"approved", "paid"}
  BY <1>1, RequestStarted
<1>3. r \in Requests /\ r.pc = "openSession" /\ r.user = buy[p].user
      /\ r.time = buy[p].time /\ r.system = buy[p].system
  BY <1>2 DEF Requests
<1>4. buy' = [buy EXCEPT ![p] = r]  BY <1>2 DEF CreateTransaction
<1> HIDE DEF r
<1>5. tx' \in [Purchases -> Transactions \cup {None}]
  <2>1. [status |-> "", price |-> 0] \in Transactions  BY DEF Transactions, Statuses
  <2>2. tx' = tx \/ tx' = [tx EXCEPT ![p] = [status |-> "", price |-> 0]]
    BY DEF CreateTransaction
  <2> QED  BY <2>1, <2>2 DEF IInv, TypeOK
<1>6. used' \in [Faults -> Nat]
  BY UsedTyped DEF CreateTransaction, IInv, TypeOK, Faults
<1>7. TypeOK'
  BY <1>2, <1>3, <1>4, <1>5, <1>6
     DEF CreateTransaction, IInv, TypeOK, provider, history
<1>8. \A q \in Purchases \ {p} : tx'[q] = tx[q]
  BY DEF CreateTransaction, IInv, TypeOK
<1>9. OnlyRowsOf(p)
  BY <1>2, <1>3, <1>4, <1>8 DEF CreateTransaction, OnlyRowsOf, provider
<1>10. RowsOK(p)'
  BY <1>2, <1>3, <1>4 DEF CreateTransaction, RowsOK, provider
<1> QED  BY <1>1, <1>2, <1>3, <1>4, <1>7, <1>9, <1>10, RequestMoves DEF IInv

LEMMA OpenSessionStep ==
    ASSUME IInv, NEW p \in Purchases, OpenSession(p)
    PROVE  IInv'
<1>1. Before(p) /\ buy[p].pc = "openSession"  BY DEF OpenSession, Before
<1>2. /\ session \in [Purchases -> Sessions] /\ session[p].status \notin {"approved", "paid"}
      /\ buy[p].user \in Users /\ buy[p].time \in Times /\ buy[p].system \in Systems
      /\ Cost(p) \in Nat
  BY <1>1, RequestStarted
<1>3. PICK pc \in {"updateTx", "failed"} :
        /\ BuyTo(p, pc)
        /\ pc = "updateTx" =>
             session' = [session EXCEPT ![p].status = "open", ![p].amount = Cost(p)]
  BY DEF OpenSession
<1>4. /\ buy' \in [Purchases -> Requests]
      /\ \A q \in Purchases \ {p} : buy'[q] = buy[q]
      /\ buy'[p].pc = pc
      /\ buy'[p].user = buy[p].user /\ buy'[p].time = buy[p].time
      /\ buy'[p].system = buy[p].system
      /\ Cost(p)' = Cost(p)
  BY <1>1, <1>3, RequestTo
<1>5. /\ session' \in [Purchases -> Sessions]
      /\ \A q \in Purchases \ {p} : session'[q] = session[q]
      /\ session'[p].status \notin {"approved", "paid"}
      /\ pc = "updateTx" => session'[p].amount = Cost(p)
  BY <1>2, <1>3 DEF OpenSession, Sessions
<1>6. used' \in [Faults -> Nat]  BY UsedTyped DEF OpenSession, IInv, TypeOK, Faults
<1>7. TypeOK'
  BY <1>4, <1>5, <1>6 DEF OpenSession, IInv, TypeOK, db, history
<1>8. OnlyRowsOf(p)  BY <1>4, <1>5 DEF OpenSession, OnlyRowsOf, db
<1>9. RowsOK(p)'  BY <1>3, <1>4, <1>5 DEF RowsOK
<1> QED  BY <1>1, <1>2, <1>4, <1>7, <1>8, <1>9, RequestMoves DEF IInv

LEMMA UpdateTransactionStep ==
    ASSUME IInv, NEW p \in Purchases, UpdateTransaction(p)
    PROVE  IInv'
<1>1. Before(p) /\ buy[p].pc = "updateTx"  BY DEF UpdateTransaction, Before
<1>2. /\ session[p].status \notin {"approved", "paid"}
      /\ buy[p].user \in Users /\ buy[p].time \in Times /\ buy[p].system \in Systems
      /\ Cost(p) \in Nat /\ RowsOK(p)
  BY <1>1, RequestStarted
<1>3. PICK pc \in {"createOrder", "failed"} :
        /\ BuyTo(p, pc)
        /\ pc = "createOrder" =>
             tx' = [tx EXCEPT ![p] = [status |-> "open", price |-> Cost(p)]]
        /\ pc = "failed" => UNCHANGED tx
  BY DEF UpdateTransaction, AfterUpdate
<1>4. /\ buy' \in [Purchases -> Requests]
      /\ \A q \in Purchases \ {p} : buy'[q] = buy[q]
      /\ buy'[p].pc = pc
      /\ buy'[p].user = buy[p].user /\ buy'[p].time = buy[p].time
      /\ buy'[p].system = buy[p].system
      /\ Cost(p)' = Cost(p)
  BY <1>1, <1>3, RequestTo
<1>5. tx \in [Purchases -> Transactions \cup {None}]  BY DEF IInv, TypeOK
<1>6. /\ tx' \in [Purchases -> Transactions \cup {None}]
      /\ \A q \in Purchases \ {p} : tx'[q] = tx[q]
      /\ pc = "createOrder" => tx'[p] \in [status : Statuses, price : {Cost(p)}]
  <2> DEFINE x == [status |-> "open", price |-> Cost(p)]
  <2>1. x \in Transactions /\ x \in [status : Statuses, price : {Cost(p)}]
    BY <1>2 DEF Transactions, Statuses
  <2> HIDE DEF x
  <2> QED  BY <1>3, <1>5, <2>1 DEF x
<1>7. used' \in [Faults -> Nat]  BY UsedTyped DEF UpdateTransaction, IInv, TypeOK, Faults
<1>8. TypeOK'
  BY <1>4, <1>6, <1>7 DEF UpdateTransaction, IInv, TypeOK, provider, history
<1>9. OnlyRowsOf(p)  BY <1>2, <1>4, <1>6 DEF UpdateTransaction, OnlyRowsOf, provider
<1>10. session'[p] = session[p]  BY DEF UpdateTransaction, provider
<1>11. RowsOK(p)'  BY <1>1, <1>2, <1>3, <1>4, <1>6, <1>10 DEF RowsOK
<1> QED  BY <1>1, <1>2, <1>4, <1>8, <1>9, <1>11, RequestMoves DEF IInv

LEMMA CreateOrderStep ==
    ASSUME IInv, NEW p \in Purchases, CreateOrder(p)
    PROVE  IInv'
<1> DEFINE o == [paymentId |-> p, user |-> buy[p].user, price |-> Cost(p),
                 time |-> buy[p].time]
<1>1. Before(p) /\ buy[p].pc = "createOrder"  BY DEF CreateOrder, Before
<1>2. /\ session[p].status \notin {"approved", "paid"}
      /\ buy[p].user \in Users /\ buy[p].time \in Times /\ buy[p].system \in Systems
      /\ Cost(p) \in Nat /\ RowsOK(p)
  BY <1>1, RequestStarted
<1>3. PICK pc \in {"done", "failed"} :
        /\ BuyTo(p, pc)
        /\ pc = "done" => order' = [order EXCEPT ![p] = o]
        /\ pc = "failed" => UNCHANGED order
  BY DEF CreateOrder, AfterOrder
<1>4. /\ buy' \in [Purchases -> Requests]
      /\ \A q \in Purchases \ {p} : buy'[q] = buy[q]
      /\ buy'[p].pc = pc
      /\ buy'[p].user = buy[p].user /\ buy'[p].time = buy[p].time
      /\ buy'[p].system = buy[p].system
      /\ Cost(p)' = Cost(p)
  BY <1>1, <1>3, RequestTo
<1>5. order \in [Purchases -> Orders \cup {None}]  BY DEF IInv, TypeOK
<1>6. o \in Orders  BY <1>2 DEF Orders
<1>7. /\ order' \in [Purchases -> Orders \cup {None}]
      /\ \A q \in Purchases \ {p} : order'[q] = order[q]
      /\ pc = "done" => order'[p] = o
  BY <1>3, <1>5, <1>6
<1>8. used' \in [Faults -> Nat]  BY UsedTyped DEF CreateOrder, IInv, TypeOK, Faults
<1>9. TypeOK'
  BY <1>4, <1>7, <1>8 DEF CreateOrder, IInv, TypeOK, provider, history
<1>10. OnlyRowsOf(p)  BY <1>2, <1>4, <1>7 DEF CreateOrder, OnlyRowsOf, provider
<1>11. session'[p] = session[p] /\ tx'[p] = tx[p]  BY DEF CreateOrder, provider
<1>12. RowsOK(p)'  BY <1>1, <1>2, <1>3, <1>4, <1>7, <1>11 DEF RowsOK
<1> QED  BY <1>1, <1>2, <1>4, <1>9, <1>10, <1>12, RequestMoves DEF IInv

-----------------------------------------------------------------------------
(* The provider *)

\* The provider changes p's session and emits events about p.
LEMMA ProviderMoves ==
    ASSUME IInv, NEW p \in Purchases, buy[p].pc = "done",
           NEW E \in SUBSET Events, emitted' = emitted \cup E,
           \A e \in E : e.p = p /\ (e.type # "capture" => Charged(p)'),
           session' \in [Purchases -> Sessions],
           \A q \in Purchases \ {p} : session'[q] = session[q],
           session'[p].amount = session[p].amount,
           Charged(p) => Charged(p)',
           UNCHANGED <<db, history, buy, closed, hook, job, clock, used>>
    PROVE  IInv'
<1>1. Kept  BY DEF Kept, Charged, db
<1>2. TypeOK'  BY DEF IInv, TypeOK, db, history
<1>3. BuyInv'  BY DEF IInv, BuyInv
<1>4. RowsInv'  BY DEF IInv, RowsInv, RowsOK, Cost, db
<1>5. \A e \in emitted : e.p \in Purchases  BY DEF IInv, TypeOK, Events
<1>6. EventInv'  BY <1>1, <1>5 DEF IInv, EventInv, Kept
<1>7. HookInv'  BY <1>1, HookFrame DEF HookInv
<1> QED  BY <1>2, <1>3, <1>4, <1>6, <1>7 DEF IInv

LEMMA PayStep ==
    ASSUME IInv, NEW p \in Purchases, Pay(p)
    PROVE  IInv'
<1> DEFINE E == FirstEvents(p)
<1>1. session \in [Purchases -> Sessions] /\ session[p] \in Sessions
  BY DEF IInv, TypeOK
<1>2. PICK s \in {"approved", "paid"}, n \in {0, 1} :
        /\ session' = [session EXCEPT ![p].status = s, ![p].charges = n]
        /\ ~NeedsCapture(p) => s = "paid"
  BY DEF Pay
<1>3. [session[p] EXCEPT !.status = s, !.charges = n] \in Sessions
  <2>1. n \in Nat  OBVIOUS
  <2> QED  BY <1>1, <2>1 DEF Sessions
<1>4. /\ session' \in [Purchases -> Sessions]
      /\ \A q \in Purchases \ {p} : session'[q] = session[q]
      /\ session'[p].amount = session[p].amount /\ session'[p].status = s
  BY <1>1, <1>2, <1>3 DEF Sessions
<1>5. buy[p].system \in Systems /\ buy[p].pc = "done"  BY DEF Pay, IInv, BuyInv
<1>6. E \in SUBSET Events /\ \A e \in E : e.p = p /\ (e.type # "capture" => ~NeedsCapture(p))
  BY <1>5 DEF FirstEvents, Event, Events, EventTypes, NeedsCapture, Systems
<1>7. ~Charged(p)  BY DEF Pay, Charged
<1>8. \A e \in E : e.p = p /\ (e.type # "capture" => Charged(p)')
  BY <1>2, <1>4, <1>6 DEF Charged
<1>9. emitted' = emitted \cup E /\ UNCHANGED <<db, history, buy, closed, hook, job, clock, used>>
  BY DEF Pay
<1> HIDE DEF E
<1> QED  BY <1>4, <1>5, <1>6, <1>7, <1>8, <1>9, ProviderMoves

LEMMA CancelStep ==
    ASSUME IInv, NEW p \in Purchases, Cancel(p)
    PROVE  IInv'
<1>1. PICK e : e = Event("capture", p, 0)  OBVIOUS
<1>2. buy[p].pc = "done" /\ emitted' = emitted \cup {e} /\ session' = session
  BY <1>1 DEF Cancel
<1>3. session' \in [Purchases -> Sessions] /\ Charged(p)' = Charged(p)
  BY <1>2 DEF IInv, TypeOK, Charged
<1>4. UNCHANGED <<db, history, buy, closed, hook, job, clock, used>>  BY DEF Cancel
<1>5. e \in Events /\ e.p = p /\ e.type = "capture"
  BY <1>1 DEF Event, Events, EventTypes
<1>6. PICK E \in SUBSET Events : E = {e}  BY <1>5
<1>7. \A x \in E : x.p = p /\ (x.type # "capture" => Charged(p)')  BY <1>5, <1>6
<1>8. session'[p] = session[p] /\ \A q \in Purchases \ {p} : session'[q] = session[q]
  BY <1>2
<1> QED  BY <1>2, <1>3, <1>4, <1>6, <1>7, <1>8, ProviderMoves

LEMMA RechargeStep ==
    ASSUME IInv, NEW p \in Purchases, Recharge(p)
    PROVE  IInv'
<1>1. session \in [Purchases -> Sessions] /\ session[p] \in Sessions
  BY DEF IInv, TypeOK
<1>2. session[p].status = "paid" /\ session[p].charges \in Nat
  BY <1>1 DEF Recharge, Sessions
<1>3. session' = [session EXCEPT ![p] = [session[p] EXCEPT !.charges = session[p].charges + 1]]
  BY <1>1 DEF Recharge
<1>4. [session[p] EXCEPT !.charges = session[p].charges + 1] \in Sessions
  BY <1>1, <1>2 DEF Sessions
<1>5. /\ session' \in [Purchases -> Sessions]
      /\ \A q \in Purchases \ {p} : session'[q] = session[q]
      /\ session'[p].amount = session[p].amount /\ session'[p].status = "paid"
  BY <1>1, <1>2, <1>3, <1>4 DEF Sessions
<1>6. Event("sale", p, session[p].charges + 1) \in Events
  BY <1>2 DEF Event, Events, EventTypes
<1>7. PICK E \in {{}, {Event("sale", p, session[p].charges + 1)}} : emitted' = emitted \cup E
  BY DEF Recharge
<1>8. E \in SUBSET Events /\ \A e \in E : e.p = p  BY <1>6, <1>7 DEF Event
<1>9. Charged(p)'  BY <1>5 DEF Charged
<1>10. buy[p].pc = "done"  BY <1>2 DEF IInv, RowsInv, RowsOK
<1>11. UNCHANGED <<db, history, buy, closed, hook, job, clock, used>>  BY DEF Recharge
<1> QED  BY <1>5, <1>7, <1>8, <1>9, <1>10, <1>11, ProviderMoves

\* A free handler takes a delivery, the first or another one.
LEMMA Takes ==
    ASSUME IInv, NEW h \in Handlers, NEW e \in emitted, hook[h] = Idle,
           hook' = [hook EXCEPT ![h] = Started(e)],
           used' \in [Faults -> Nat],
           UNCHANGED <<db, provider, history, buy, closed, job, clock>>
    PROVE  IInv'
<1>1. e \in Events /\ e.type \in EventTypes /\ e.p \in Purchases
  BY DEF IInv, TypeOK, Events
<1>2. /\ Route[e.type].start \in Steps(e.type) \cap HookSteps
      /\ Route[e.type].start = "capture" <=> e.type = "capture"
      /\ Route[e.type].start \notin OrderSteps
  BY <1>1, RouteStart
<1>3. Started(e) \in HookStates  BY <1>1, <1>2 DEF HookStates, Started
<1>4. hook \in [Handlers -> HookStates \cup {Idle}]  BY DEF IInv, TypeOK
<1>5. hook'[h] = Started(e)  BY <1>4
<1>6. Kept /\ BuyInv' /\ EventInv' /\ RowsInv'
  BY Unchanged, RowsFrame DEF IInv, db, provider
<1>7. HookOK(h)'
  <2>1. e.type # "capture" => Charged(e.p)  BY DEF IInv, EventInv
  <2>2. Charged(e.p)' = Charged(e.p)  BY DEF Charged, provider
  <2>3. hook'[h].ev = e /\ hook'[h].pc = Route[e.type].start /\ hook'[h].order = None
    BY <1>5 DEF Started
  <2>4. P(h)' = e.p  BY <2>3 DEF P
  <2> QED  BY <1>2, <2>1, <2>2, <2>3, <2>4 DEF HookOK, OrderSteps, provider
<1>8. closed' \subseteq Events  BY DEF IInv, TypeOK
<1>9. HookMoved(h)  BY <1>3, <1>5, <1>6, <1>7, <1>8, OneHookMoves
<1>10. TypeOK'  BY <1>9 DEF HookMoved, IInv, TypeOK, db, provider, history
<1> QED  BY <1>6, <1>9, <1>10 DEF IInv, HookMoved

LEMMA DeliverStep ==
    ASSUME IInv, NEW h \in Handlers, NEW e \in emitted, Deliver(h, e) \/ Duplicate(h, e)
    PROVE  IInv'
<1>1. used' \in [Faults -> Nat]  BY UsedTyped DEF Deliver, Duplicate, IInv, TypeOK, Faults
<1> QED  BY <1>1, Takes DEF Deliver, Duplicate

-----------------------------------------------------------------------------
(* The hooks *)

\* A step of a hook that leaves the provider, the orders and the requests alone.
LEMMA HookOnly ==
    ASSUME IInv, NEW h \in Handlers, HookMoved(h),
           UNCHANGED <<order, buy, session, emitted>>, RowsInv', TypeOK'
    PROVE  IInv'
BY Unchanged DEF IInv, HookMoved

LEMMA CaptureStep ==
    ASSUME IInv, NEW h \in Handlers, Capture(h)
    PROVE  IInv'
<1>1. hook[h].pc = "capture"  BY DEF Capture, At
<1>2. PICK p \in Purchases : p = P(h) /\ buy[p].pc = "done"  BY <1>1, HookTyped
<1>3. session \in [Purchases -> Sessions] /\ session[p] \in Sessions
  BY <1>2 DEF IInv, TypeOK
<1>4. /\ session' \in [Purchases -> Sessions]
      /\ \A q \in Purchases \ {p} : session'[q] = session[q]
      /\ session'[p].amount = session[p].amount
      /\ Charged(p) => Charged(p)'
  <2>1. \/ session' = session
        \/ session' = [session EXCEPT ![p] = [session[p] EXCEPT !.status = "paid", !.charges = 1]]
    BY <1>2, <1>3 DEF Capture
  <2>2. [session[p] EXCEPT !.status = "paid", !.charges = 1] \in Sessions
    BY <1>3 DEF Sessions
  <2> QED  BY <1>2, <1>3, <2>1, <2>2 DEF Sessions, Charged
<1>5. Kept  BY <1>4 DEF Capture, Kept, Charged, db
<1>6. Throw(h) \/ (Advance(h) /\ Charged(p)')
  <2>1. CASE session' = [session EXCEPT ![p].status = "paid", ![p].charges = 1]
    <3>1. session'[p].status = "paid"  BY <1>2, <1>3, <2>1 DEF Sessions
    <3> QED  BY <1>2, <2>1, <3>1 DEF Capture, Charged
  <2> QED  BY <1>2, <2>1 DEF Capture
<1>7. HookMoved(h)  BY <1>1, <1>2, <1>5, <1>6, Throws, Advances
<1>8. used' \in [Faults -> Nat]  BY UsedTyped DEF Capture, IInv, TypeOK, Faults
<1>9. TypeOK'  BY <1>4, <1>7, <1>8 DEF Capture, HookMoved, IInv, TypeOK, db, history
<1>10. BuyInv'  BY DEF Capture, IInv, BuyInv
<1>11. RowsInv'
  BY <1>2, <1>4 DEF Capture, IInv, RowsInv, RowsOK, Cost, db
<1>12. EventInv'  BY <1>5, EventFrame DEF Capture
<1> QED  BY <1>7, <1>9, <1>10, <1>11, <1>12 DEF IInv, HookMoved

\* A hook that goes on with the record g is where its event's route says.
LEMMA GoesOn ==
    ASSUME IInv, Kept, NEW h \in Handlers, hook[h].pc # "idle", NEW p \in Purchases,
           p = P(h), NEW g \in HookStates, hook' = [hook EXCEPT ![h] = g],
           closed' = closed, Charged(p)',
           g.ev = hook[h].ev, g.pc \in Steps(hook[h].ev.type), g.pc # "capture",
           g.order \in {order[p], None}, g.pc \in OrderSteps => g.order = order[p],
           g.pc = "write" => g.end \in Nat
    PROVE  HookMoved(h)
<1>1. hook \in [Handlers -> HookStates \cup {Idle}]  BY DEF IInv, TypeOK
<1>2. hook'[h] = g /\ P(h)' = p  BY <1>1 DEF P
<1>3. hook[h].ev \in emitted /\ buy[p].pc = "done"  BY HookTyped
<1>4. order'[p] = order[p] /\ emitted \subseteq emitted'  BY <1>3 DEF Kept
<1>5. HookOK(h)'  BY <1>2, <1>3, <1>4 DEF HookOK
<1>6. closed' \subseteq Events  BY DEF IInv, TypeOK
<1> QED  BY <1>2, <1>5, <1>6, OneHookMoves

LEMMA FindOrderStep ==
    ASSUME IInv, NEW h \in Handlers, FindOrder(h)
    PROVE  IInv'
<1> DEFINE t == hook[h].ev.type
<1>1. hook[h].pc = "find"  BY DEF FindOrder, At
<1>2. /\ hook[h] \in HookStates /\ t \in EventTypes /\ hook[h].ev \in emitted
      /\ P(h) \in Purchases /\ order[P(h)] \in Orders /\ Charged(P(h))
  BY <1>1, HookTyped
<1>3. UNCHANGED <<account, tx, order, subscribers, notice, session, emitted,
                  grants, credit, stale, buy, job, clock>>
  BY DEF FindOrder, db, provider, history
<1>4. Kept  BY <1>3, Unchanged
<1>5. PICK p \in Purchases : p = P(h)  BY <1>2
<1>6. HookMoved(h)
  <2>1. CASE Throw(h)  BY <1>1, <1>4, <2>1, Throws
  <2>2. CASE ~Throw(h)
    <3>1. PICK found \in {order[p], None} :
            /\ hook' = [hook EXCEPT ![h].pc = Forward(h), ![h].order = found]
            /\ closed' = closed
            /\ found = None => t \notin {"sale", "activated"}
      BY <1>5, <2>2 DEF FindOrder, OrdersOf
    <3> DEFINE g == [hook[h] EXCEPT !.pc = Forward(h), !.order = found]
    <3>2. "find" \in Steps(t)  BY <1>1 DEF IInv, HookInv, HookOK
    <3>3. /\ Forward(h) \in Steps(t) \cap HookSteps /\ Forward(h) # "capture"
          /\ Forward(h) \in OrderSteps => Forward(h) = "read" /\ t = "activated"
      BY <1>1, <1>2, <3>2, RouteStep DEF Forward, OrderSteps
    <3>4. found \in Orders \cup {None}  BY <1>2, <1>5
    <3>5. /\ g \in HookStates /\ g.ev = hook[h].ev /\ g.pc = Forward(h)
          /\ g.order = found
      BY <1>2, <3>3, <3>4 DEF HookStates
    <3>6. hook' = [hook EXCEPT ![h] = g]
      BY <1>2, <3>1 DEF IInv, TypeOK
    <3>7. Forward(h) # "write"  BY <3>3 DEF OrderSteps
    <3> HIDE DEF g
    <3>8. Charged(p)'  BY <1>2, <1>3, <1>5 DEF Charged
    <3> QED  BY <1>1, <1>4, <1>5, <3>1, <3>3, <3>5, <3>6, <3>7, <3>8, GoesOn
  <2> QED  BY <2>1, <2>2
<1>7. used' \in [Faults -> Nat]  BY UsedTyped DEF FindOrder, IInv, TypeOK, Faults
<1>8. TypeOK'  BY <1>3, <1>6, <1>7 DEF HookMoved, IInv, TypeOK
<1>9. RowsInv'  BY <1>3, RowsFrame DEF IInv
<1> QED  BY <1>3, <1>6, <1>8, <1>9, HookOnly

LEMMA MarkTransactionStep ==
    ASSUME IInv, NEW h \in Handlers, MarkTransaction(h)
    PROVE  IInv'
<1>1. hook[h].pc = "mark"  BY DEF MarkTransaction, At
<1>2. PICK p \in Purchases : p = P(h) /\ buy[p].pc = "done" /\ Charged(p)
  BY <1>1, HookTyped
<1>3. UNCHANGED <<account, order, subscribers, notice, session, emitted,
                  grants, credit, stale, buy, job, clock>>
  BY DEF MarkTransaction, provider, history
<1>4. Kept /\ Charged(p)'  BY <1>2, <1>3, Unchanged DEF Charged
<1>5. HookMoved(h)
  <2>1. CASE hook[h].order = None
    BY <1>1, <1>4, <2>1, Throws DEF MarkTransaction
  <2>2. CASE hook[h].order # None
    BY <1>1, <1>2, <1>4, <2>2, Advances DEF MarkTransaction
  <2> QED  BY <2>1, <2>2
<1>6. PICK c \in Statuses :
        \/ UNCHANGED tx
        \/ tx[p] # None /\ tx' = [tx EXCEPT ![p] = [tx[p] EXCEPT !.status = c]]
  <2>1. PaidStatus(h) \in Statuses  BY DEF PaidStatus, Statuses
  <2> QED  BY <1>2, <2>1 DEF MarkTransaction
<1>7. tx \in [Purchases -> Transactions \cup {None}]  BY DEF IInv, TypeOK
<1>8. tx[p] # None =>
        /\ [tx[p] EXCEPT !.status = c] \in Transactions
        /\ [tx[p] EXCEPT !.status = c].price = tx[p].price
  BY <1>7 DEF Transactions
<1>9. tx' \in [Purchases -> Transactions \cup {None}]  BY <1>6, <1>7, <1>8
<1>10. \A q \in Purchases :
         buy[q].pc \in {"createOrder", "done"} =>
           tx'[q] \in [status : Statuses, price : {Cost(q)}]
  <2>1. \A q \in Purchases : buy[q].pc \in {"createOrder", "done"} =>
           tx[q] \in [status : Statuses, price : {Cost(q)}]
    BY DEF IInv, RowsInv, RowsOK
  <2>2. \A x \in [status : Statuses, price : {Cost(p)}] :
           [x EXCEPT !.status = c] \in [status : Statuses, price : {Cost(p)}]
    OBVIOUS
  <2>3. tx'[p] \in [status : Statuses, price : {Cost(p)}]
    BY <1>2, <1>6, <1>7, <2>1, <2>2
  <2>4. \A q \in Purchases \ {p} : tx'[q] = tx[q]  BY <1>6, <1>7
  <2> QED  BY <2>1, <2>3, <2>4
<1>11. RowsInv'  BY <1>3, <1>10 DEF IInv, RowsInv, RowsOK, Cost
<1>12. used' \in [Faults -> Nat]  BY UsedTyped DEF MarkTransaction, IInv, TypeOK, Faults
<1>13. TypeOK'  BY <1>3, <1>5, <1>9, <1>12 DEF HookMoved, IInv, TypeOK
<1> QED  BY <1>3, <1>5, <1>11, <1>13, HookOnly

LEMMA ReadAccountStep ==
    ASSUME IInv, NEW h \in Handlers, ReadAccount(h)
    PROVE  IInv'
<1> DEFINE t == hook[h].ev.type
           end == EndDate(hook[h].order, account[hook[h].order.user].end)
<1>1. hook[h].pc = "read"  BY DEF ReadAccount, At
<1>2. PICK p \in Purchases : /\ p = P(h) /\ Charged(p) /\ order[p] \in Orders
                             /\ hook[h] \in HookStates /\ t \in EventTypes
  BY <1>1, HookTyped
<1>3. UNCHANGED <<account, tx, order, subscribers, notice, session, emitted,
                  grants, credit, buy, job, clock>>
  BY DEF ReadAccount, db, provider
<1>4. Kept /\ Charged(p)'  BY <1>2, <1>3, Unchanged DEF Charged
<1>5. hook[h].order = order[p] /\ "read" \in Steps(t)
  BY <1>1, <1>2 DEF IInv, HookInv, HookOK, OrderSteps
<1>6. end \in Nat
  <2>1. account[order[p].user].end \in Nat \cup {None}
    BY <1>2 DEF IInv, TypeOK, Orders, Accounts
  <2> QED  BY <1>2, <1>5, <2>1, EndDateNat DEF IInv, TypeOK
<1>7. HookMoved(h)
  <2>1. CASE Throw(h)  BY <1>1, <1>4, <2>1, Throws
  <2>2. CASE ~Throw(h)
    <3> DEFINE g == [hook[h] EXCEPT !.pc = Forward(h), !.end = end]
    <3>1. hook' = [hook EXCEPT ![h].pc = Forward(h), ![h].end = end] /\ closed' = closed
      BY <2>2 DEF ReadAccount
    <3>2. Forward(h) \in Steps(t) \cap HookSteps /\ Forward(h) # "capture"
      BY <1>1, <1>2, <1>5, RouteStep DEF Forward
    <3> HIDE DEF end
    <3>3. /\ g \in HookStates /\ g.ev = hook[h].ev /\ g.pc = Forward(h)
          /\ g.order = order[p] /\ g.end \in Nat
      BY <1>2, <1>5, <1>6, <3>2 DEF HookStates
    <3>4. hook' = [hook EXCEPT ![h] = g]
      BY <1>2, <3>1 DEF IInv, TypeOK
    <3> HIDE DEF g
    <3> QED  BY <1>1, <1>2, <1>4, <3>1, <3>2, <3>3, <3>4, GoesOn
  <2> QED  BY <2>1, <2>2
<1>8. used' \in [Faults -> Nat]  BY UsedTyped DEF ReadAccount, IInv, TypeOK, Faults
<1>9. stale' \subseteq Handlers \cup Users  BY DEF ReadAccount, IInv, TypeOK
<1>10. TypeOK'  BY <1>3, <1>7, <1>8, <1>9 DEF HookMoved, IInv, TypeOK
<1>11. RowsInv'  BY <1>3, RowsFrame DEF IInv
<1> QED  BY <1>3, <1>7, <1>10, <1>11, HookOnly

LEMMA WriteAccountStep ==
    ASSUME IInv, NEW h \in Handlers, WriteAccount(h)
    PROVE  IInv'
<1>1. hook[h].pc = "write"  BY DEF WriteAccount, At
<1>2. PICK p \in Purchases : /\ p = P(h) /\ Charged(p) /\ order[p] \in Orders
                             /\ order[p].paymentId = p
  BY <1>1, HookTyped
<1>3. UNCHANGED <<tx, order, subscribers, notice, session, emitted, buy, job, clock>>
  BY DEF WriteAccount, provider
<1>4. Kept /\ Charged(p)'  BY <1>2, <1>3, Unchanged DEF Charged
<1>5. hook[h].order = order[p] /\ hook[h].end \in Nat
  BY <1>1, <1>2 DEF IInv, HookInv, HookOK, OrderSteps
<1>6. PICK u \in Users : u = order[p].user /\ u = hook[h].order.user
  BY <1>2, <1>5 DEF Orders
<1>7. HookMoved(h)  BY <1>1, <1>2, <1>4, Advances DEF WriteAccount
<1>8. account' \in [Users -> Accounts]
  <2>1. \A b \in BOOLEAN : [type |-> "BUSINESS", end |-> hook[h].end, auto |-> b] \in Accounts
    BY <1>5 DEF Accounts
  <2>2. PICK b \in BOOLEAN :
          \/ account' = [account EXCEPT ![u] =
                           [type |-> "BUSINESS", end |-> hook[h].end, auto |-> b]]
          \/ account' = account
    BY <1>6 DEF WriteAccount, history
  <2> QED  BY <2>1, <2>2 DEF IInv, TypeOK
<1>9. grants' \in [Purchases -> Nat] /\ credit' \in [Users -> Nat]
  <2>1. Extension(order[p]) \in Nat  BY <1>2, ExtensionNat
  <2> QED  BY <1>2, <1>5, <2>1 DEF WriteAccount, history, IInv, TypeOK
<1>10. stale' \subseteq Handlers \cup Users
  BY <1>6 DEF WriteAccount, Readers, history, IInv, TypeOK
<1>11. used' \in [Faults -> Nat]  BY UsedTyped DEF WriteAccount, IInv, TypeOK, Faults
<1>12. TypeOK'  BY <1>3, <1>7, <1>8, <1>9, <1>10, <1>11 DEF HookMoved, IInv, TypeOK
<1>13. RowsInv'  BY <1>3, RowsFrame DEF IInv
<1> QED  BY <1>3, <1>7, <1>12, <1>13, HookOnly

LEMMA SendMailStep ==
    ASSUME IInv, NEW h \in Handlers, SendMail(h)
    PROVE  IInv'
<1>1. hook[h].pc = "mail"  BY DEF SendMail, At
<1>2. PICK p \in Purchases : p = P(h) /\ Charged(p)  BY <1>1, HookTyped
<1>3. UNCHANGED <<account, tx, order, subscribers, notice, session, emitted,
                  grants, credit, stale, buy, job, clock>>
  BY DEF SendMail, db, provider, history
<1>4. Kept /\ Charged(p)'  BY <1>2, <1>3, Unchanged DEF Charged
<1>5. HookMoved(h)  BY <1>1, <1>2, <1>4, Throws, Advances DEF SendMail
<1>6. used' \in [Faults -> Nat]  BY UsedTyped DEF SendMail, IInv, TypeOK, Faults
<1>7. TypeOK'  BY <1>3, <1>5, <1>6 DEF HookMoved, IInv, TypeOK
<1>8. RowsInv'  BY <1>3, RowsFrame DEF IInv
<1> QED  BY <1>3, <1>5, <1>7, <1>8, HookOnly

LEMMA NotifyStep ==
    ASSUME IInv, NEW h \in Handlers, Notify(h)
    PROVE  IInv'
<1>1. hook[h].pc = "notify"  BY DEF Notify, At
<1>2. PICK p \in Purchases : p = P(h) /\ Charged(p) /\ order[p] \in Orders
  BY <1>1, HookTyped
<1>3. UNCHANGED <<account, tx, order, subscribers, session, emitted,
                  grants, credit, stale, buy, job, clock>>
  BY DEF Notify, provider, history
<1>4. Kept /\ Charged(p)'  BY <1>2, <1>3, Unchanged DEF Charged
<1>5. hook[h].order = order[p]
  BY <1>1, <1>2 DEF IInv, HookInv, HookOK, OrderSteps
<1>6. PICK u \in Users : u = hook[h].order.user  BY <1>2, <1>5 DEF Orders
<1>7. EndDate(hook[h].order, account[u].end) \in Nat
  <2>1. account[u].end \in Nat \cup {None}  BY DEF IInv, TypeOK, Accounts
  <2> QED  BY <1>2, <1>5, <2>1, EndDateNat DEF IInv, TypeOK
<1>8. HookMoved(h)  BY <1>1, <1>2, <1>4, Throws, Advances DEF Notify
<1>9. notice' \in [Users -> Nat \cup {None}]
  BY <1>6, <1>7 DEF Notify, IInv, TypeOK
<1>10. used' \in [Faults -> Nat]  BY UsedTyped DEF Notify, IInv, TypeOK, Faults
<1>11. TypeOK'  BY <1>3, <1>8, <1>9, <1>10 DEF HookMoved, IInv, TypeOK
<1>12. RowsInv'  BY <1>3, RowsFrame DEF IInv
<1> QED  BY <1>3, <1>8, <1>11, <1>12, HookOnly

LEMMA UpsertSubscriberStep ==
    ASSUME IInv, NEW h \in Handlers, UpsertSubscriber(h)
    PROVE  IInv'
<1>1. hook[h].pc = "subscribe"  BY DEF UpsertSubscriber, At
<1>2. PICK p \in Purchases : /\ p = P(h) /\ Charged(p)
                             /\ buy[p].user \in Users /\ buy[p].time \in Times
  BY <1>1, HookTyped
<1>3. UNCHANGED <<account, tx, order, notice, session, emitted,
                  grants, credit, stale, buy, job, clock>>
  BY DEF UpsertSubscriber, provider, history
<1>4. Kept /\ Charged(p)'  BY <1>2, <1>3, Unchanged DEF Charged
<1>5. HookMoved(h)  BY <1>1, <1>2, <1>4, Throws, Advances DEF UpsertSubscriber
<1>6. subscribers' \subseteq Subscribers
  <2>1. buy[p].time \in {"DAY", "WEEKLY", "MONTHLY"}
    BY <1>2, ConstantsAssumption DEF Days
  <2>2. StripeInterval[buy[p].time] \in Intervals /\ buy[p].time \in Intervals
    BY <2>1 DEF StripeInterval, Intervals
  <2>3. PICK i \in Intervals :
          \/ subscribers' = subscribers
          \/ subscribers' = {s \in subscribers : s.p # p} \cup
                              {[user |-> buy[p].user, p |-> p, interval |-> i]}
    BY <1>2, <2>2 DEF UpsertSubscriber
  <2>4. [user |-> buy[p].user, p |-> p, interval |-> i] \in Subscribers
    BY <1>2 DEF Subscribers
  <2> QED  BY <2>3, <2>4 DEF IInv, TypeOK
<1>7. used' \in [Faults -> Nat]  BY UsedTyped DEF UpsertSubscriber, IInv, TypeOK, Faults
<1>8. TypeOK'  BY <1>3, <1>5, <1>6, <1>7 DEF HookMoved, IInv, TypeOK
<1>9. RowsInv'  BY <1>3, RowsFrame DEF IInv
<1> QED  BY <1>3, <1>5, <1>8, <1>9, HookOnly

LEMMA DebitNoticeStep ==
    ASSUME IInv, NEW h \in Handlers, DebitNotice(h)
    PROVE  IInv'
<1>1. hook[h].pc = "debit"  BY DEF DebitNotice, At
<1>2. PICK p \in Purchases : p = P(h) /\ Charged(p)  BY <1>1, HookTyped
<1>3. UNCHANGED <<account, tx, order, subscribers, notice, session, emitted,
                  grants, credit, stale, buy, job, clock>>
  BY DEF DebitNotice, db, provider, history
<1>4. Kept /\ Charged(p)'  BY <1>2, <1>3, Unchanged DEF Charged
<1>5. HookMoved(h)  BY <1>1, <1>2, <1>4, Throws, Advances DEF DebitNotice
<1>6. used' \in [Faults -> Nat]  BY UsedTyped DEF DebitNotice, IInv, TypeOK, Faults
<1>7. TypeOK'  BY <1>3, <1>5, <1>6 DEF HookMoved, IInv, TypeOK
<1>8. RowsInv'  BY <1>3, RowsFrame DEF IInv
<1> QED  BY <1>3, <1>5, <1>7, <1>8, HookOnly

LEMMA RespondStep ==
    ASSUME IInv, NEW h \in Handlers, Respond(h)
    PROVE  IInv'
<1>1. hook[h].pc = "respond"  BY DEF Respond, At
<1>2. UNCHANGED <<account, tx, order, subscribers, notice, session, emitted,
                  grants, credit, stale, buy, job, clock, used>>
  BY DEF Respond, db, provider, history
<1>3. Kept  BY <1>2, Unchanged
<1>4. hook \in [Handlers -> HookStates \cup {Idle}]  BY DEF IInv, TypeOK
<1>5. hook' = [hook EXCEPT ![h] = Idle] /\ hook'[h] = Idle  BY <1>4 DEF Respond
<1>6. HookOK(h)'  BY <1>5 DEF HookOK, Idle
<1>7. closed' \subseteq Events  BY <1>1, HookTyped DEF Respond, IInv, TypeOK
<1>8. HookMoved(h)  BY <1>3, <1>5, <1>6, <1>7, OneHookMoves
<1>9. TypeOK'  BY <1>2, <1>8 DEF HookMoved, IInv, TypeOK
<1>10. RowsInv'  BY <1>2, RowsFrame DEF IInv
<1> QED  BY <1>2, <1>8, <1>9, <1>10, HookOnly

-----------------------------------------------------------------------------
(* The hourly job, the process and the calendar *)

\* A step that leaves the purchases and the hooks alone.
LEMMA Elsewhere ==
    ASSUME IInv, TypeOK', UNCHANGED <<tx, order, buy, session, emitted, hook>>
    PROVE  IInv'
<1>1. Kept /\ BuyInv' /\ EventInv'  BY Unchanged
<1>2. RowsInv'  BY RowsFrame DEF IInv
<1>3. HookInv'  BY <1>1, HookFrame DEF HookInv
<1> QED  BY <1>1, <1>2, <1>3 DEF IInv

LEMMA CheckingStep ==
    ASSUME IInv, Checking
    PROVE  IInv'
<1>1. CASE CronStart
  <2>1. job' \in JobStates  BY <1>1 DEF CronStart, JobStates
  <2>2. TypeOK'  BY <1>1, <2>1 DEF CronStart, IInv, TypeOK, db, provider
  <2> QED  BY <1>1, <2>2, Elsewhere DEF CronStart, db, provider
<1>2. ASSUME NEW u \in Users, CronMail(u) PROVE IInv'
  <2>1. job.todo \subseteq Users  BY DEF IInv, TypeOK, JobStates
  <2>2. job' \in JobStates  BY <1>2, <2>1 DEF CronMail, JobStates, JobIdle
  <2>3. used' \in [Faults -> Nat]  BY <1>2, UsedTyped DEF CronMail, IInv, TypeOK, Faults
  <2>4. TypeOK'  BY <1>2, <2>2, <2>3 DEF CronMail, IInv, TypeOK, db, provider, history
  <2> QED  BY <1>2, <2>4, Elsewhere DEF CronMail, db, provider
<1>3. CASE CronEnd
  <2>1. job.todo \subseteq Users /\ job.user \in Users
    BY <1>3 DEF CronEnd, IInv, TypeOK, JobStates
  <2>2. job' \in JobStates
    <3>1. JobIdle \in JobStates  BY DEF JobIdle, JobStates
    <3>2. [job EXCEPT !.pc = "mail", !.user = None] \in JobStates
      BY <1>3, <2>1 DEF IInv, TypeOK, JobStates
    <3> QED  BY <1>3, <3>1, <3>2 DEF CronEnd
  <2>3. account' \in [Users -> Accounts]
    <3>1. Personal \in Accounts  BY DEF Personal, Accounts
    <3> QED  BY <1>3, <3>1 DEF CronEnd, IInv, TypeOK
  <2>4. stale' \subseteq Handlers \cup Users
    BY <1>3, <2>1 DEF CronEnd, Readers, IInv, TypeOK
  <2>5. used' \in [Faults -> Nat]  BY <1>3, UsedTyped DEF CronEnd, IInv, TypeOK, Faults
  <2>6. TypeOK'
    BY <1>3, <2>2, <2>3, <2>4, <2>5 DEF CronEnd, IInv, TypeOK, provider
  <2> QED  BY <1>3, <2>6, Elsewhere DEF CronEnd, provider
<1> QED  BY <1>1, <1>2, <1>3 DEF Checking

LEMMA CrashStep ==
    ASSUME IInv, Crash
    PROVE  IInv'
<1>1. UNCHANGED <<account, tx, order, subscribers, notice, session, emitted,
                  grants, credit, stale, clock>>
  BY DEF Crash, db, provider, history
<1>2. buy \in [Purchases -> Requests]  BY DEF IInv, TypeOK
<1>3. \A q \in Purchases :
        /\ buy'[q] \in Requests
        /\ buy[q].pc \in {"idle", "done"} => buy'[q] = buy[q]
        /\ buy[q].pc \notin {"idle", "done"} =>
             /\ buy'[q].pc = "failed" /\ buy'[q].user = buy[q].user
             /\ buy'[q].time = buy[q].time /\ buy'[q].system = buy[q].system
  <2> TAKE q \in Purchases
  <2>1. buy[q] \in Requests  BY <1>2
  <2>2. [buy[q] EXCEPT !.pc = "failed"] \in Requests  BY <2>1 DEF Requests
  <2>3. buy'[q] = IF buy[q].pc \in {"idle", "done"} THEN buy[q]
                  ELSE [buy[q] EXCEPT !.pc = "failed"]
    BY DEF Crash
  <2> QED  BY <2>1, <2>2, <2>3 DEF Requests
<1>4. buy' \in [Purchases -> Requests]
  <2>1. buy' = [q \in Purchases |-> buy'[q]]  BY DEF Crash
  <2> QED  BY <1>3, <2>1
<1>5. Kept  BY <1>1, <1>3 DEF Kept, Charged
<1>6. hook' = [i \in Handlers |-> Idle]  BY DEF Crash
<1>7. closed' \subseteq Events
  <2>1. \A i \in Handlers : hook[i].ev \in Events \cup {None}
    BY DEF IInv, TypeOK, HookStates, Idle
  <2> QED  BY <2>1 DEF Crash, InFlight, IInv, TypeOK
<1>8. used' \in [Faults -> Nat]  BY UsedTyped DEF Crash, Faults
<1>9. job' \in JobStates  BY DEF Crash, JobIdle, JobStates
<1>10. TypeOK'  BY <1>1, <1>4, <1>6, <1>7, <1>8, <1>9 DEF IInv, TypeOK
<1>11. BuyInv'  BY <1>3 DEF IInv, BuyInv
<1>12. RowsInv'
  <2> SUFFICES ASSUME NEW q \in Purchases
               PROVE  RowsOK(q)'
    BY DEF RowsInv
  <2>1. RowsOK(q)  BY DEF IInv, RowsInv
  <2>2. CASE buy[q].pc \in {"idle", "done"}
    <3>1. buy'[q] = buy[q]  BY <1>3, <2>2
    <3> QED  BY <1>1, <2>1, <3>1 DEF RowsOK, Cost
  <2>3. CASE buy[q].pc \notin {"idle", "done"}
    <3>1. buy'[q].pc = "failed"  BY <1>3, <2>3
    <3>2. session[q].status \notin {"approved", "paid"}
      BY <2>1, <2>3 DEF RowsOK
    <3> QED  BY <1>1, <3>1, <3>2 DEF RowsOK
  <2> QED  BY <2>2, <2>3
<1>13. EventInv'  BY <1>1, <1>5, EventFrame
<1>14. HookInv'  BY <1>6 DEF HookInv, HookOK, Idle
<1> QED  BY <1>10, <1>11, <1>12, <1>13, <1>14 DEF IInv

LEMMA TickStep ==
    ASSUME IInv, Tick
    PROVE  IInv'
<1>1. TypeOK'  BY DEF Tick, IInv, TypeOK, db, provider, history
<1> QED  BY <1>1, Elsewhere DEF Tick, db, provider

-----------------------------------------------------------------------------
(* The theorems *)

LEMMA Initially ==
    ASSUME Init
    PROVE  IInv
<1>1. Personal \in Accounts  BY DEF Personal, Accounts
<1>2. \A p \in Purchases :
        buy[p] = [pc |-> "idle", user |-> None, time |-> None,
                  system |-> None, auto |-> FALSE, count |-> 0]
  BY DEF Init
<1>3. buy \in [Purchases -> Requests]
  <2>1. [pc |-> "idle", user |-> None, time |-> None,
         system |-> None, auto |-> FALSE, count |-> 0] \in Requests
    BY DEF Requests
  <2> QED  BY <2>1 DEF Init
<1>4. session \in [Purchases -> Sessions]
  <2>1. [status |-> "none", amount |-> 0, charges |-> 0] \in Sessions  BY DEF Sessions
  <2> QED  BY <2>1 DEF Init
<1>5. job \in JobStates  BY DEF Init, JobStates
<1>6. TypeOK  BY <1>1, <1>3, <1>4, <1>5 DEF Init, TypeOK
<1>7. BuyInv  BY <1>2 DEF BuyInv
<1>8. RowsInv  BY <1>2 DEF Init, RowsInv, RowsOK
<1>9. EventInv /\ HookInv  BY DEF Init, EventInv, HookInv, HookOK, Idle
<1> QED  BY <1>6, <1>7, <1>8, <1>9 DEF IInv

LEMMA Inductive ==
    ASSUME IInv, [Next]_vars
    PROVE  IInv'
<1>1. ASSUME NEW p \in Purchases, Buying(p) PROVE IInv'
  BY <1>1, StartBuyStep, CreateTransactionStep, OpenSessionStep,
     UpdateTransactionStep, CreateOrderStep DEF Buying
<1>2. ASSUME NEW p \in Purchases, Pay(p) \/ Cancel(p) \/ Recharge(p) PROVE IInv'
  BY <1>2, PayStep, CancelStep, RechargeStep
<1>3. ASSUME NEW h \in Handlers, NEW e \in emitted, Deliver(h, e) \/ Duplicate(h, e)
      PROVE IInv'
  BY <1>3, DeliverStep
<1>4. ASSUME NEW h \in Handlers, Handling(h) PROVE IInv'
  BY <1>4, CaptureStep, FindOrderStep, MarkTransactionStep, ReadAccountStep,
     WriteAccountStep, SendMailStep, NotifyStep, UpsertSubscriberStep,
     DebitNoticeStep, RespondStep DEF Handling
<1>5. CASE UNCHANGED vars
  <2>1. TypeOK'
    BY <1>5 DEF vars, db, provider, history, IInv, TypeOK
  <2> QED  BY <1>5, <2>1, Elsewhere DEF vars, db, provider
<1> QED  BY <1>1, <1>2, <1>3, <1>4, <1>5, CheckingStep, CrashStep, TickStep DEF Next

\* In every reachable state the inductive invariant holds.
THEOREM Invariance == Spec => []IInv
BY Initially, Inductive, PTL DEF Spec

\* Every variable keeps its type, whatever requests, hooks, job and faults do.
THEOREM TypeCorrect == Spec => []TypeOK
<1>1. IInv => TypeOK  BY DEF IInv
<1> QED  BY <1>1, Invariance, PTL

\* Whoever can pay, or has paid, BuySubscriptionsUseCase stored the transaction
\* and the order for, at the price the session charges.
THEOREM PaymentsAreBacked == Spec => []PayableIsBacked
<1>1. ASSUME IInv PROVE PayableIsBacked
  <2> SUFFICES ASSUME NEW p \in Purchases, session[p].status \in {"approved", "paid"}
      PROVE  /\ tx[p] \in [status : Statuses, price : {session[p].amount}]
             /\ order[p] \in [paymentId : {p}, user : {buy[p].user},
                              price : {session[p].amount}, time : {buy[p].time}]
    BY DEF PayableIsBacked
  <2>1. RowsOK(p)  BY <1>1 DEF IInv, RowsInv
  <2>2. buy[p].pc = "done"  BY <2>1 DEF RowsOK
  <2> QED  BY <2>1, <2>2 DEF RowsOK
<1> QED  BY <1>1, Invariance, PTL

=============================================================================
