--------------------- MODULE SubscriptionsSafety_proofs ---------------------
(***************************************************************************)
(* Results that rest on the inductive invariant of Subscriptions: no end   *)
(* date is ever later than the days credited allow; every step is a step   *)
(* of PurchaseLifecycle or a stutter; extensions are exact and ended       *)
(* subscriptions past, unless somebody wrote after the read; acknowledged  *)
(* deliveries have extended the account; more extensions than payment      *)
(* events need faults.                                                     *)
(***************************************************************************)
EXTENDS Subscriptions_proofs, FiniteSetTheorems

-----------------------------------------------------------------------------
(* NoFreeDays.  It is not inductive: a hook carries the end date it        *)
(* computed from its read to its write.                                    *)

\* What a hook is about to write is at most today plus the credit its user has
\* and is about to get.
PendingOK(h) ==
    hook[h].pc = "write" =>
        hook[h].end <= clock + credit[hook[h].order.user] + Extension(hook[h].order)

PendingInv == \A h \in Handlers : PendingOK(h)

DaysInv == IInv /\ NoFreeDays /\ PendingInv

\* Time passes, credit grows, and what a hook carries is as good as it was.
LEMMA PendingFrame ==
    ASSUME IInv, NEW h \in Handlers, PendingOK(h),
           hook'[h].pc = "write" => hook'[h] = hook[h],
           clock' \in Nat, clock' >= clock,
           \A u \in Users : credit'[u] \in Nat /\ credit'[u] >= credit[u]
    PROVE  PendingOK(h)'
<1> SUFFICES ASSUME hook'[h].pc = "write" PROVE PendingOK(h)'  BY DEF PendingOK
<1>1. hook'[h] = hook[h] /\ hook[h].pc = "write"  OBVIOUS
<1>2. hook[h].order \in Orders /\ hook[h].end \in Nat
  BY <1>1, HookTyped DEF IInv, HookInv, HookOK, OrderSteps
<1>3. hook[h].order.user \in Users  BY <1>2 DEF Orders
<1>4. PICK x \in Nat : x = Extension(hook[h].order)  BY <1>2, ExtensionNat
<1>5. Extension(hook[h].order)' = x  BY <1>1, <1>4 DEF Extension
<1>6. clock \in Nat /\ credit[hook[h].order.user] \in Nat  BY <1>3 DEF IInv, TypeOK
<1> QED  BY <1>1, <1>2, <1>3, <1>4, <1>5, <1>6 DEF PendingOK

\* The same for the end dates.
LEMMA DaysFrame ==
    ASSUME IInv, NoFreeDays, NEW u \in Users,
           account'[u] \in {account[u], Personal},
           clock' \in Nat, clock' >= clock,
           credit'[u] \in Nat, credit'[u] >= credit[u]
    PROVE  account'[u].end # None => account'[u].end <= clock' + credit'[u]
<1>1. clock \in Nat /\ credit[u] \in Nat /\ account[u].end \in Nat \cup {None}
  BY DEF IInv, TypeOK, Accounts
<1>2. account[u].end # None => account[u].end <= clock + credit[u]  BY DEF NoFreeDays
<1> QED  BY <1>1, <1>2 DEF Personal

\* A step that lets no hook reach its write and extends no account.
LEMMA DaysKept ==
    ASSUME DaysInv, [Next]_vars,
           \A h \in Handlers : hook'[h].pc = "write" => hook'[h] = hook[h],
           \A u \in Users : account'[u] \in {account[u], Personal},
           credit' = credit, clock' \in {clock, clock + 1}
    PROVE  DaysInv'
<1>1. IInv'  BY Inductive DEF DaysInv
<1>2. /\ clock \in Nat /\ clock' \in Nat /\ clock' >= clock
      /\ \A u \in Users : credit'[u] \in Nat /\ credit'[u] >= credit[u]
  BY DEF DaysInv, IInv, TypeOK
<1>3. PendingInv'  BY <1>2, PendingFrame DEF DaysInv, PendingInv
<1>4. NoFreeDays'  BY <1>2, DaysFrame DEF DaysInv, NoFreeDays
<1> QED  BY <1>1, <1>3, <1>4 DEF DaysInv

NoneReachesWrite == \A h \in Handlers : hook'[h].pc = "write" => hook'[h] = hook[h]

\* Only the read leads to the write.
LEMMA NotToWrite ==
    ASSUME IInv, NEW h \in Handlers, hook[h].pc \notin {"idle", "read", "respond"}
    PROVE  Forward(h) # "write"
<1>1. hook[h].ev.type \in EventTypes  BY HookTyped
<1>2. hook[h].pc \in Steps(hook[h].ev.type)  BY DEF IInv, HookInv, HookOK
<1> QED  BY <1>1, <1>2, RouteStep DEF Forward

LEMMA NoWriteAhead ==
    ASSUME IInv, NEW h \in Handlers, hook[h].pc \notin {"idle", "read", "respond"},
           Throw(h) \/ Advance(h)
    PROVE  NoneReachesWrite
<1>1. hook \in [Handlers -> HookStates \cup {Idle}]  BY DEF IInv, TypeOK
<1>2. hook[h] \in HookStates  BY HookTyped
<1>3. hook'[h].pc # "write"
  <2>1. CASE Throw(h)  BY <1>1, <2>1 DEF Throw, Idle
  <2>2. CASE Advance(h)
    <3>1. hook' = [hook EXCEPT ![h] = [hook[h] EXCEPT !.pc = Forward(h)]]
      BY <1>1, <2>2 DEF Advance
    <3>2. hook'[h].pc = Forward(h)  BY <1>1, <1>2, <3>1 DEF HookStates
    <3> QED  BY <3>2, NotToWrite
  <2> QED  BY <2>1, <2>2
<1>4. \A i \in Handlers \ {h} : hook'[i] = hook[i]  BY <1>1 DEF Throw, Advance
<1> QED  BY <1>3, <1>4 DEF NoneReachesWrite

\* No step of a hook but the read leads to the write.
LEMMA HandlingReaches ==
    ASSUME IInv, NEW h \in Handlers, Handling(h), ~ReadAccount(h)
    PROVE  NoneReachesWrite
<1>1. hook \in [Handlers -> HookStates \cup {Idle}]  BY DEF IInv, TypeOK
<1>2. CASE Respond(h)
  <2>1. hook' = [hook EXCEPT ![h] = Idle]  BY <1>2 DEF Respond
  <2> QED  BY <1>1, <2>1 DEF NoneReachesWrite, Idle
<1>3. CASE FindOrder(h) /\ ~Throw(h)
  <2>1. hook[h].pc = "find"  BY <1>3 DEF FindOrder, At
  <2>2. PICK found :
          hook' = [hook EXCEPT ![h].pc = Forward(h), ![h].order = found]
    BY <1>3 DEF FindOrder
  <2>3. hook[h] \in HookStates  BY <2>1, HookTyped
  <2> DEFINE g == [hook[h] EXCEPT !.pc = Forward(h), !.order = found]
  <2>4. hook' = [hook EXCEPT ![h] = g]  BY <1>1, <2>2
  <2>5. g.pc = Forward(h)  BY <2>3 DEF HookStates
  <2>6. Forward(h) # "write"  BY <2>1, NotToWrite
  <2> HIDE DEF g
  <2> QED  BY <1>1, <2>4, <2>5, <2>6 DEF NoneReachesWrite
<1>4. CASE ~Respond(h) /\ (FindOrder(h) => Throw(h))
  <2>1. hook[h].pc \notin {"idle", "read", "respond"}
    BY <1>4 DEF Handling, At, Capture, FindOrder, MarkTransaction, SendMail, Notify,
       UpsertSubscriber, DebitNotice, WriteAccount
  <2>2. Throw(h) \/ Advance(h)
    BY <1>4 DEF Handling, Capture, MarkTransaction, SendMail, Notify,
       UpsertSubscriber, DebitNotice, WriteAccount
  <2> QED  BY <2>1, <2>2, NoWriteAhead
<1> QED  BY <1>2, <1>3, <1>4

\* The steps of a hook other than the read and the write of the account.
LEMMA HandlingDays ==
    ASSUME DaysInv, NEW h \in Handlers, Handling(h), ~ReadAccount(h), ~WriteAccount(h)
    PROVE  DaysInv'
<1>1. [Next]_vars  BY DEF Next
<1>2. account' = account /\ credit' = credit /\ clock' = clock
  BY DEF Handling, Capture, FindOrder, MarkTransaction, SendMail, Notify,
         UpsertSubscriber, DebitNotice, Respond, db, history
<1>3. IInv  BY DEF DaysInv
<1>4. NoneReachesWrite  BY <1>3, HandlingReaches
<1> QED  BY <1>1, <1>2, <1>4, DaysKept DEF NoneReachesWrite

LEMMA ReadDays ==
    ASSUME DaysInv, NEW h \in Handlers, ReadAccount(h)
    PROVE  DaysInv'
<1>1. IInv /\ NoFreeDays /\ PendingInv  BY DEF DaysInv
<1>2. IInv'  BY <1>1, ReadAccountStep
<1>3. account' = account /\ credit' = credit /\ clock' = clock
  BY DEF ReadAccount, db
<1>4. NoFreeDays'  BY <1>1, <1>3 DEF NoFreeDays
<1>5. hook \in [Handlers -> HookStates \cup {Idle}]  BY <1>1 DEF IInv, TypeOK
<1>6. hook[h].pc = "read"  BY DEF ReadAccount, At
<1>7. PICK o \in Orders : o = hook[h].order /\ hook[h] \in HookStates
  BY <1>1, <1>6, HookTyped DEF IInv, HookInv, HookOK, OrderSteps
<1>8. \A i \in Handlers \ {h} : hook'[i] = hook[i]
  BY <1>5 DEF ReadAccount, Throw
<1>9. clock \in Nat /\ \A u \in Users : credit[u] \in Nat
  BY <1>1 DEF IInv, TypeOK
<1>10. \A i \in Handlers \ {h} : PendingOK(i)'
  BY <1>1, <1>3, <1>8, <1>9, PendingFrame DEF PendingInv
<1>11. PendingOK(h)'
  <2>1. CASE Throw(h)
    <3>1. hook'[h] = Idle  BY <1>5, <2>1 DEF Throw
    <3> QED  BY <3>1 DEF PendingOK, Idle
  <2>2. CASE ~Throw(h)
    <3>1. PICK end :
            /\ end = EndDate(o, account[o.user].end)
            /\ hook' = [hook EXCEPT ![h].pc = Forward(h), ![h].end = end]
      BY <1>7, <2>2 DEF ReadAccount
    <3> DEFINE g == [hook[h] EXCEPT !.pc = Forward(h), !.end = end]
    <3>2. hook'[h] = g  BY <1>5, <3>1
    <3>3. hook'[h].order = o /\ hook'[h].end = end
      BY <1>7, <3>2 DEF HookStates
    <3>4. PICK x \in Nat : x = Extension(o)  BY ExtensionNat
    <3>5. Extension(hook[h].order)' = x  BY <3>3, <3>4 DEF Extension
    <3>6. o.user \in Users  BY <1>7 DEF Orders
    <3>7. account[o.user].end \in Nat \cup {None}
      BY <1>1, <3>6 DEF IInv, TypeOK, Accounts
    <3>8. account[o.user].end # None => account[o.user].end <= clock + credit[o.user]
      BY <1>1, <3>6 DEF NoFreeDays
    <3>9. end <= clock + credit[o.user] + x
      BY <1>9, <3>1, <3>4, <3>6, <3>7, <3>8 DEF EndDate
    <3>10. hook'[h].order.user = o.user  BY <3>3
    <3> QED  BY <1>3, <3>3, <3>5, <3>9, <3>10 DEF PendingOK
  <2> QED  BY <2>1, <2>2
<1>12. PendingInv'  BY <1>10, <1>11 DEF PendingInv
<1> QED  BY <1>2, <1>4, <1>12 DEF DaysInv

LEMMA WriteDays ==
    ASSUME DaysInv, NEW h \in Handlers, WriteAccount(h)
    PROVE  DaysInv'
<1>1. IInv /\ NoFreeDays /\ PendingInv  BY DEF DaysInv
<1>2. IInv'  BY <1>1, WriteAccountStep
<1>3. hook[h].pc = "write" /\ Advance(h)  BY DEF WriteAccount, At
<1>4. PICK o \in Orders : o = hook[h].order
  BY <1>1, <1>3, HookTyped DEF IInv, HookInv, HookOK, OrderSteps
<1>5. PICK x \in Nat : x = Extension(o)  BY ExtensionNat
<1>6. o.user \in Users  BY DEF Orders
<1>7. /\ clock \in Nat /\ clock' = clock
      /\ credit \in [Users -> Nat] /\ account \in [Users -> Accounts]
  BY <1>1 DEF WriteAccount, IInv, TypeOK
<1>8. \/ account' = account /\ credit' = credit
      \/ /\ \A u \in Users \ {o.user} : account'[u] = account[u] /\ credit'[u] = credit[u]
         /\ account'[o.user].end = hook[h].end
         /\ credit'[o.user] = credit[o.user] + x
  <2>1. \/ account' = account /\ credit' = credit
        \/ /\ \E b : account' = [account EXCEPT ![o.user] =
                                   [type |-> "BUSINESS", end |-> hook[h].end, auto |-> b]]
           /\ credit' = [credit EXCEPT ![o.user] = credit[o.user] + x]
    BY <1>4, <1>5, <1>6, <1>7 DEF WriteAccount, history
  <2>2. ASSUME NEW b, credit' = [credit EXCEPT ![o.user] = credit[o.user] + x],
               account' = [account EXCEPT ![o.user] =
                             [type |-> "BUSINESS", end |-> hook[h].end, auto |-> b]]
        PROVE  /\ \A u \in Users \ {o.user} :
                    account'[u] = account[u] /\ credit'[u] = credit[u]
               /\ account'[o.user].end = hook[h].end
               /\ credit'[o.user] = credit[o.user] + x
    BY <1>6, <1>7, <2>2
  <2> QED  BY <2>1, <2>2
<1>9. hook[h].end <= clock + credit[o.user] + x
  BY <1>1, <1>3, <1>4, <1>5 DEF PendingInv, PendingOK
<1>10. \A u \in Users : credit'[u] \in Nat /\ credit'[u] >= credit[u]
  BY <1>6, <1>7, <1>8
<1>11. NoFreeDays'
  <2> SUFFICES ASSUME NEW u \in Users, account'[u].end # None
      PROVE account'[u].end <= clock' + credit'[u]
    BY DEF NoFreeDays
  <2>1. CASE u = o.user /\ account'[u].end = hook[h].end /\ credit'[u] = credit[u] + x
    BY <1>5, <1>6, <1>7, <1>9, <2>1
  <2>2. CASE account'[u] = account[u] /\ credit'[u] = credit[u]
    BY <1>1, <1>7, <2>2 DEF NoFreeDays
  <2> QED  BY <1>8, <2>1, <2>2
<1>12. NoneReachesWrite  BY <1>1, <1>3, NoWriteAhead
<1>13. PendingInv'
  BY <1>1, <1>7, <1>10, <1>12, PendingFrame DEF PendingInv, NoneReachesWrite
<1> QED  BY <1>2, <1>11, <1>13 DEF DaysInv

LEMMA DaysInductive ==
    ASSUME DaysInv, [Next]_vars
    PROVE  DaysInv'
<1>1. IInv /\ hook \in [Handlers -> HookStates \cup {Idle}]
  BY DEF DaysInv, IInv, TypeOK
<1>2. ASSUME NEW h \in Handlers, Handling(h) PROVE DaysInv'
  BY <1>2, HandlingDays, ReadDays, WriteDays
<1>3. ASSUME hook' = hook, credit' = credit, clock' \in {clock, clock + 1},
             \A u \in Users : account'[u] \in {account[u], Personal}
      PROVE  DaysInv'
  BY <1>3, DaysKept
<1>4. ASSUME NEW p \in Purchases, Buying(p) \/ Pay(p) \/ Cancel(p) \/ Recharge(p) PROVE DaysInv'
  BY <1>3, <1>4 DEF Buying, StartBuy, CreateTransaction, OpenSession, UpdateTransaction,
     CreateOrder, Pay, Cancel, Recharge, db, history
<1>5. ASSUME NEW h \in Handlers, NEW e \in emitted, Deliver(h, e) \/ Duplicate(h, e)
      PROVE  DaysInv'
  <2>1. Started(e).pc # "write"
    BY <1>1, RouteStart DEF Started, IInv, TypeOK, Events, OrderSteps
  <2>2. NoneReachesWrite
    BY <1>1, <1>5, <2>1 DEF Deliver, Duplicate, NoneReachesWrite
  <2> QED  BY <1>5, <2>2, DaysKept DEF Deliver, Duplicate, NoneReachesWrite, db, history
<1>6. CASE Checking
  <2>1. account \in [Users -> Accounts]  BY <1>1 DEF IInv, TypeOK
  <2>2. \A u \in Users : account'[u] \in {account[u], Personal}
    BY <1>6, <2>1 DEF Checking, CronStart, CronMail, CronEnd, db
  <2>3. hook' = hook /\ credit' = credit /\ clock' = clock
    BY <1>6 DEF Checking, CronStart, CronMail, CronEnd, history
  <2> QED  BY <1>3, <2>2, <2>3
<1>7. CASE Crash
  <2>1. NoneReachesWrite  BY <1>7 DEF Crash, NoneReachesWrite, Idle
  <2> QED  BY <1>7, <2>1, DaysKept DEF Crash, NoneReachesWrite, db, history
<1>8. CASE Tick  BY <1>3, <1>8 DEF Tick, db, history
<1>9. CASE UNCHANGED vars  BY <1>3, <1>9 DEF vars, db, history
<1> QED  BY <1>2, <1>4, <1>5, <1>6, <1>7, <1>8, <1>9 DEF Next

\* No day is given away: however the hooks and the job interleave, crash and
\* are repeated, an end date is at most today plus the days credited.
THEOREM DaysAreCredited == Spec => []NoFreeDays
<1>1. ASSUME Init PROVE DaysInv
  <2>1. \A u \in Users : account[u].end = None  BY <1>1 DEF Init, Personal
  <2>2. \A h \in Handlers : hook[h].pc = "idle"  BY <1>1 DEF Init, Idle
  <2> QED  BY <1>1, <2>1, <2>2, Initially DEF DaysInv, NoFreeDays, PendingInv, PendingOK
<1>2. DaysInv => NoFreeDays  BY DEF DaysInv
<1> QED  BY <1>1, <1>2, DaysInductive, PTL DEF Spec

-----------------------------------------------------------------------------
(* ImplementsLifecycle.  The mapped stage can only be read off the state   *)
(* where an extension implies a charge.                                    *)

GrantsInv == \A p \in Purchases : grants[p] > 0 => Charged(p)

LifeInv == IInv /\ GrantsInv

\* A step moves the stage of at most one purchase, and that one forward by one.
NextStage(a, b) ==
    \/ a = b
    \/ a = "none" /\ b = "payable"
    \/ a = "payable" /\ b = "paid"
    \/ a = "paid" /\ b = "granted"

LEMMA OneStage ==
    ASSUME NEW p \in Purchases, NextStage(Stage(p), Stage(p)'),
           \A q \in Purchases \ {p} : Stage(q)' = Stage(q)
    PROVE  [Lifecycle!Next]_stages
<1> DEFINE s == stages
           t == stages'
<1>1. s = [q \in Purchases |-> Stage(q)] /\ t = [q \in Purchases |-> Stage(q)']
  BY DEF stages
<1> HIDE DEF s, t
<1>2. t = [s EXCEPT ![p] = Stage(p)']  BY <1>1
<1>3. s[p] = Stage(p)  BY <1>1
<1>4. CASE Stage(p)' = Stage(p)
  <2>1. t = s  BY <1>1, <1>4
  <2> QED  BY <2>1 DEF s, t
<1>5. CASE Stage(p)' # Stage(p)
  <2>1. Lifecycle!Offer(p) \/ Lifecycle!Charge(p) \/ Lifecycle!Grant(p)
    BY <1>2, <1>3, <1>5
       DEF NextStage, Lifecycle!Offer, Lifecycle!Charge, Lifecycle!Grant, Lifecycle!Move, s, t
  <2> QED  BY <2>1 DEF Lifecycle!Next
<1> QED  BY <1>4, <1>5

\* The stage of a purchase is a function of these three.
LEMMA SameStage ==
    ASSUME NEW q \in Purchases, grants'[q] = grants[q],
           session'[q].status = session[q].status,
           buy'[q].pc = "done" <=> buy[q].pc = "done"
    PROVE  Stage(q)' = Stage(q) /\ Charged(q)' = Charged(q)
BY DEF Stage, Charged

\* A step that moves no stage.
LEMMA Stutters ==
    ASSUME LifeInv, [Next]_vars,
           \A q \in Purchases :
             /\ grants'[q] = grants[q] /\ session'[q].status = session[q].status
             /\ buy'[q].pc = "done" <=> buy[q].pc = "done"
    PROVE  LifeInv' /\ [Lifecycle!Next]_stages
<1>1. \A q \in Purchases : Stage(q)' = Stage(q) /\ Charged(q)' = Charged(q)
  BY SameStage
<1>2. IInv'  BY Inductive DEF LifeInv
<1>3. GrantsInv'  BY <1>1 DEF LifeInv, GrantsInv
<1>4. stages' = stages  BY <1>1 DEF stages
<1> QED  BY <1>2, <1>3, <1>4 DEF LifeInv

\* A step that moves the stage of p alone.
LEMMA MovesStage ==
    ASSUME LifeInv, [Next]_vars, NEW p \in Purchases,
           \A q \in Purchases \ {p} :
             /\ grants'[q] = grants[q] /\ session'[q].status = session[q].status
             /\ buy'[q].pc = "done" <=> buy[q].pc = "done",
           NextStage(Stage(p), Stage(p)'), grants'[p] > 0 => Charged(p)'
    PROVE  LifeInv' /\ [Lifecycle!Next]_stages
<1>1. \A q \in Purchases \ {p} : Stage(q)' = Stage(q) /\ Charged(q)' = Charged(q)
  BY SameStage
<1>2. IInv'  BY Inductive DEF LifeInv
<1>3. GrantsInv'  BY <1>1 DEF LifeInv, GrantsInv
<1> QED  BY <1>1, <1>2, <1>3, OneStage DEF LifeInv

LEMMA CreateOrderStage ==
    ASSUME LifeInv, NEW p \in Purchases, CreateOrder(p)
    PROVE  LifeInv' /\ [Lifecycle!Next]_stages
<1>1. IInv /\ GrantsInv /\ [Next]_vars  BY DEF LifeInv, Next, Buying
<1>2. grants' = grants /\ session' = session  BY DEF CreateOrder, provider, history
<1>3. buy \in [Purchases -> Requests]  BY <1>1 DEF IInv, TypeOK
<1>4. \A q \in Purchases \ {p} : buy'[q] = buy[q]
  BY <1>3 DEF CreateOrder, BuyTo
<1>5. buy[p].pc = "createOrder"  BY DEF CreateOrder
<1>6. ~Charged(p)
  BY <1>1, <1>5 DEF IInv, RowsInv, RowsOK, Charged
<1>7. grants[p] \in Nat /\ ~(grants[p] > 0)  BY <1>1, <1>6 DEF GrantsInv, IInv, TypeOK
<1>8. Charged(p)' = Charged(p)  BY <1>2 DEF Charged
<1>9. NextStage(Stage(p), Stage(p)')
  BY <1>2, <1>5, <1>6, <1>7, <1>8 DEF NextStage, Stage
<1> QED  BY <1>1, <1>2, <1>4, <1>7, <1>9, MovesStage

\* The requests' other steps, and a crash, leave a request that is not done.
LEMMA BuyingStage ==
    ASSUME LifeInv, NEW p \in Purchases, Buying(p)
    PROVE  LifeInv' /\ [Lifecycle!Next]_stages
<1>1. IInv /\ [Next]_vars  BY DEF LifeInv, Next
<1>2. buy \in [Purchases -> Requests] /\ session \in [Purchases -> Sessions]
  BY <1>1 DEF IInv, TypeOK
<1>3. CASE CreateOrder(p)  BY <1>3, CreateOrderStage
<1>4. CASE ~CreateOrder(p)
  <2>1. grants' = grants
    BY <1>4 DEF Buying, StartBuy, CreateTransaction, OpenSession, UpdateTransaction, history
  <2>2. \A q \in Purchases \ {p} : buy'[q] = buy[q] /\ session'[q] = session[q]
    BY <1>2, <1>4 DEF Buying, StartBuy, CreateTransaction, OpenSession,
       UpdateTransaction, BuyTo, provider
  <2>3. buy[p].pc # "done"
    BY <1>4 DEF Buying, StartBuy, CreateTransaction, OpenSession, UpdateTransaction
  <2>4. buy'[p].pc # "done"
    <3>1. CASE \E u \in Users, t \in Times, m \in Methods, n \in 1..MaxCount :
                 StartBuy(p, u, t, m, n)
      BY <1>2, <3>1 DEF StartBuy
    <3>2. CASE CreateTransaction(p)
      <4>1. buy[p] \in Requests  BY <1>2
      <4> QED  BY <1>2, <3>2, <4>1 DEF CreateTransaction, Requests
    <3>3. CASE OpenSession(p) \/ UpdateTransaction(p)
      <4>1. PICK pc \in {"updateTx", "createOrder", "failed"} : BuyTo(p, pc)
        BY <3>3 DEF OpenSession, UpdateTransaction, AfterUpdate
      <4>2. Before(p) /\ buy[p].pc # "idle"
        BY <3>3 DEF OpenSession, UpdateTransaction, Before
      <4> QED  BY <1>1, <4>1, <4>2, RequestTo
    <3> QED  BY <1>4, <3>1, <3>2, <3>3 DEF Buying
  <2>5. session[p].status \notin {"approved", "paid"}
    BY <1>1, <2>3 DEF IInv, RowsInv, RowsOK
  <2>6. IInv'  BY <1>1, Inductive
  <2>7. session'[p].status \notin {"approved", "paid"}
    BY <2>4, <2>6 DEF IInv, RowsInv, RowsOK
  <2>8. grants[p] \in Nat /\ ~(grants[p] > 0)
    BY <2>5 DEF LifeInv, GrantsInv, Charged, IInv, TypeOK
  <2>9. Stage(p) = "none" /\ Stage(p)' = "none"
    BY <2>1, <2>3, <2>4, <2>5, <2>7, <2>8 DEF Stage, Charged
  <2> QED  BY <1>1, <2>1, <2>2, <2>8, <2>9, MovesStage DEF NextStage
<1> QED  BY <1>3, <1>4

LEMMA ProviderStage ==
    ASSUME LifeInv, NEW p \in Purchases, Pay(p) \/ Cancel(p) \/ Recharge(p)
    PROVE  LifeInv' /\ [Lifecycle!Next]_stages
<1>1. IInv /\ GrantsInv /\ [Next]_vars  BY DEF LifeInv, Next
<1>2. session \in [Purchases -> Sessions] /\ session[p] \in Sessions
  BY <1>1 DEF IInv, TypeOK
<1>3. grants' = grants /\ buy' = buy  BY DEF Pay, Cancel, Recharge, history
<1>4. \A q \in Purchases \ {p} : session'[q] = session[q]
  BY <1>2 DEF Pay, Cancel, Recharge
<1>5. CASE Pay(p)
  <2>1. session[p].status = "open" /\ buy[p].pc = "done"  BY <1>5 DEF Pay
  <2>2. ~Charged(p)  BY <2>1 DEF Charged
  <2>3. grants[p] \in Nat /\ ~(grants[p] > 0)  BY <1>1, <2>2 DEF GrantsInv, IInv, TypeOK
  <2>4. NextStage(Stage(p), Stage(p)')
    BY <1>3, <2>1, <2>2, <2>3 DEF NextStage, Stage
  <2> QED  BY <1>1, <1>3, <1>4, <2>3, <2>4, MovesStage
<1>6. CASE Recharge(p)
  <2>1. session' = [session EXCEPT ![p] =
                      [session[p] EXCEPT !.charges = session[p].charges + 1]]
    BY <1>2, <1>6 DEF Recharge
  <2>2. session'[p].status = session[p].status  BY <1>2, <2>1 DEF Sessions
  <2> QED  BY <1>1, <1>3, <1>4, <2>2, Stutters
<1>7. CASE Cancel(p)
  <2>1. session' = session  BY <1>7 DEF Cancel
  <2> QED  BY <1>1, <1>3, <2>1, Stutters
<1> QED  BY <1>5, <1>6, <1>7

LEMMA CaptureStage ==
    ASSUME LifeInv, NEW h \in Handlers, Capture(h)
    PROVE  LifeInv' /\ [Lifecycle!Next]_stages
<1>1. IInv /\ GrantsInv /\ [Next]_vars  BY DEF LifeInv, Next, Handling
<1>2. hook[h].pc = "capture"  BY DEF Capture, At
<1>3. PICK p \in Purchases : p = P(h) /\ buy[p].pc = "done"  BY <1>1, <1>2, HookTyped
<1>4. session \in [Purchases -> Sessions] /\ session[p] \in Sessions
  BY <1>1 DEF IInv, TypeOK
<1>5. grants' = grants /\ buy' = buy  BY DEF Capture, history
<1>6. \A q \in Purchases \ {p} : session'[q] = session[q]
  BY <1>3, <1>4 DEF Capture
<1>7. CASE session[p].status = "approved"
  <2>1. ~Charged(p)  BY <1>7 DEF Charged
  <2>2. grants[p] \in Nat /\ ~(grants[p] > 0)  BY <1>1, <2>1 DEF GrantsInv, IInv, TypeOK
  <2>3. NextStage(Stage(p), Stage(p)')
    BY <1>3, <1>5, <2>1, <2>2 DEF NextStage, Stage
  <2> QED  BY <1>1, <1>5, <1>6, <2>2, <2>3, MovesStage
<1>8. CASE session[p].status # "approved"
  <2>1. session' = session  BY <1>3, <1>8 DEF Capture
  <2> QED  BY <1>1, <1>5, <2>1, Stutters
<1> QED  BY <1>7, <1>8

LEMMA WriteStage ==
    ASSUME LifeInv, NEW h \in Handlers, WriteAccount(h)
    PROVE  LifeInv' /\ [Lifecycle!Next]_stages
<1>1. IInv /\ GrantsInv /\ [Next]_vars  BY DEF LifeInv, Next, Handling
<1>2. hook[h].pc = "write"  BY DEF WriteAccount, At
<1>3. PICK p \in Purchases : /\ p = P(h) /\ Charged(p) /\ buy[p].pc = "done"
                             /\ order[p].paymentId = p
  BY <1>1, <1>2, HookTyped
<1>4. hook[h].order.paymentId = p
  BY <1>1, <1>2, <1>3 DEF IInv, HookInv, HookOK, OrderSteps
<1>5. session' = session /\ buy' = buy  BY DEF WriteAccount, provider
<1>6. grants \in [Purchases -> Nat]  BY <1>1 DEF IInv, TypeOK
<1>7. grants' = grants \/ grants' = [grants EXCEPT ![p] = grants[p] + 1]
  BY <1>4, <1>6 DEF WriteAccount, history
<1>8. Charged(p)'  BY <1>3, <1>5 DEF Charged
<1>9. CASE grants' = grants  BY <1>1, <1>5, <1>9, Stutters
<1>10. CASE grants' = [grants EXCEPT ![p] = grants[p] + 1]
  <2>1. \A q \in Purchases \ {p} : grants'[q] = grants[q]  BY <1>6, <1>10
  <2>2. grants'[p] > 0  BY <1>6, <1>10
  <2>3. Stage(p) \in {"paid", "granted"} /\ Stage(p)' = "granted"
    BY <1>3, <1>8, <2>2 DEF Stage
  <2>4. NextStage(Stage(p), Stage(p)')  BY <2>3 DEF NextStage
  <2> QED  BY <1>1, <1>5, <1>8, <2>1, <2>4, MovesStage
<1> QED  BY <1>7, <1>9, <1>10

LEMMA OtherStages ==
    ASSUME LifeInv, [Next]_vars, grants' = grants, session' = session,
           buy' = buy \/ Crash
    PROVE  LifeInv' /\ [Lifecycle!Next]_stages
<1>1. \A q \in Purchases : buy'[q].pc = "done" <=> buy[q].pc = "done"
  <2>1. CASE Crash
    <3> TAKE q \in Purchases
    <3>1. buy[q] \in Requests  BY DEF LifeInv, IInv, TypeOK
    <3>2. buy'[q] = IF buy[q].pc \in {"idle", "done"} THEN buy[q]
                    ELSE [buy[q] EXCEPT !.pc = "failed"]
      BY <2>1 DEF Crash
    <3> QED  BY <3>1, <3>2 DEF Requests
  <2> QED  BY <2>1
<1> QED  BY <1>1, Stutters

LEMMA StepSimulation ==
    ASSUME LifeInv, [Next]_vars
    PROVE  LifeInv' /\ [Lifecycle!Next]_stages
<1>1. ASSUME NEW p \in Purchases, Buying(p) \/ Pay(p) \/ Cancel(p) \/ Recharge(p)
      PROVE  LifeInv' /\ [Lifecycle!Next]_stages
  BY <1>1, BuyingStage, ProviderStage
<1>2. ASSUME NEW h \in Handlers, Capture(h) \/ WriteAccount(h)
      PROVE  LifeInv' /\ [Lifecycle!Next]_stages
  BY <1>2, CaptureStage, WriteStage
<1>3. ASSUME NEW h \in Handlers, Handling(h), ~Capture(h), ~WriteAccount(h)
      PROVE  LifeInv' /\ [Lifecycle!Next]_stages
  BY <1>3, OtherStages
     DEF Handling, FindOrder, MarkTransaction, ReadAccount, SendMail, Notify,
         UpsertSubscriber, DebitNotice, Respond, provider, history
<1>4. ASSUME NEW h \in Handlers, NEW e \in emitted, Deliver(h, e) \/ Duplicate(h, e)
      PROVE  LifeInv' /\ [Lifecycle!Next]_stages
  BY <1>4, OtherStages DEF Deliver, Duplicate, provider, history
<1>5. CASE Checking
  BY <1>5, OtherStages DEF Checking, CronStart, CronMail, CronEnd, provider, history
<1>6. CASE Crash  BY <1>6, OtherStages DEF Crash, provider, history
<1>7. CASE Tick  BY <1>7, OtherStages DEF Tick, provider, history
<1>8. CASE UNCHANGED vars  BY <1>8, OtherStages DEF vars, provider, history
<1> QED  BY <1>1, <1>2, <1>3, <1>4, <1>5, <1>6, <1>7, <1>8 DEF Next

LEMMA InitialStages ==
    ASSUME Init
    PROVE  LifeInv /\ Lifecycle!Init
<1>1. \A q \in Purchases : grants[q] = 0 /\ session[q].status = "none" /\ buy[q].pc = "idle"
  BY DEF Init
<1>2. GrantsInv  BY <1>1 DEF GrantsInv
<1>3. \A q \in Purchases : Stage(q) = "none"  BY <1>1 DEF Stage, Charged
<1> QED  BY <1>2, <1>3, Initially DEF LifeInv, Lifecycle!Init, stages

\* The feature implements PurchaseLifecycle: payable, charged, granted, in this
\* order and never back.
THEOREM Refinement == Spec => ImplementsLifecycle
BY InitialStages, StepSimulation, PTL DEF Spec, ImplementsLifecycle, Lifecycle!Spec

-----------------------------------------------------------------------------
(* ExactUnlessStale and EndedIsPastUnlessStale.  What a hook computed, and  *)
(* what the job listed, stays right until somebody writes the account; and *)
(* whoever writes it leaves a mark on everybody who has read it.            *)

\* What h is about to write is the account's end date, if it has one, and the
\* days bought.
ReadIsFresh(h) ==
    LET o == hook[h].order IN
    hook[h].pc = "write" /\ h \notin stale /\ account[o.user].end # None
      => hook[h].end = account[o.user].end + Extension(o)

ReadsFresh == \A h \in Handlers : ReadIsFresh(h)

\* Whom the job is about to tell and to end.
Listed == job.todo \cup {u \in Users : job.pc = "end" /\ u = job.user}

ListFresh == \A u \in Listed : u \notin stale => Expired(u)

FreshInv == IInv /\ ReadsFresh /\ ListFresh

\* Who is at the write was there before, or reads now.
LEMMA ReachesByReading ==
    ASSUME IInv, [Next]_vars, NEW h \in Handlers, hook'[h].pc = "write", ~ReadAccount(h)
    PROVE  hook'[h] = hook[h]
<1>1. hook \in [Handlers -> HookStates \cup {Idle}]  BY DEF IInv, TypeOK
<1>2. ASSUME NEW i \in Handlers, Handling(i) PROVE hook'[h] = hook[h]
  <2>1. CASE ReadAccount(i)
    <3>1. i # h  BY <2>1
    <3> QED  BY <1>1, <2>1, <3>1 DEF ReadAccount, Throw
  <2>2. CASE ~ReadAccount(i)  BY <1>2, <2>2, HandlingReaches DEF NoneReachesWrite
  <2> QED  BY <2>1, <2>2
<1>3. ASSUME NEW i \in Handlers, NEW e \in emitted, Deliver(i, e) \/ Duplicate(i, e)
      PROVE  hook'[h] = hook[h]
  <2>1. Started(e).pc # "write"
    BY RouteStart DEF Started, IInv, TypeOK, Events, OrderSteps
  <2> QED  BY <1>1, <1>3, <2>1 DEF Deliver, Duplicate
<1>4. CASE Crash  BY <1>4 DEF Crash, Idle
<1>5. ASSUME NEW p \in Purchases, Buying(p) \/ Pay(p) \/ Cancel(p) \/ Recharge(p)
      PROVE  hook' = hook
  BY <1>5 DEF Buying, StartBuy, CreateTransaction, OpenSession, UpdateTransaction,
     CreateOrder, Pay, Cancel, Recharge
<1>6. CASE Checking \/ Tick \/ UNCHANGED vars
  BY <1>6 DEF Checking, CronStart, CronMail, CronEnd, Tick, vars
<1> QED  BY <1>2, <1>3, <1>4, <1>5, <1>6 DEF Next

\* What a step does to the accounts and to the marks.
LEMMA AccountsAndMarks ==
    ASSUME [Next]_vars
    PROVE  \/ UNCHANGED <<account, history>>
           \/ \E h \in Handlers : ReadAccount(h) \/ WriteAccount(h)
           \/ CronStart \/ CronEnd
<1>1. ASSUME NEW h \in Handlers, Handling(h), ~ReadAccount(h), ~WriteAccount(h)
      PROVE  UNCHANGED <<account, history>>
  BY <1>1 DEF Handling, Capture, FindOrder, MarkTransaction, SendMail, Notify,
     UpsertSubscriber, DebitNotice, Respond, db
<1>2. ASSUME NEW h \in Handlers, NEW e \in emitted, Deliver(h, e) \/ Duplicate(h, e)
      PROVE  UNCHANGED <<account, history>>
  BY <1>2 DEF Deliver, Duplicate, db
<1>3. ASSUME NEW p \in Purchases, Buying(p) \/ Pay(p) \/ Cancel(p) \/ Recharge(p)
      PROVE  UNCHANGED <<account, history>>
  BY <1>3 DEF Buying, StartBuy, CreateTransaction, OpenSession, UpdateTransaction,
     CreateOrder, Pay, Cancel, Recharge, db
<1>4. ASSUME NEW u \in Users, CronMail(u)
      PROVE  UNCHANGED <<account, history>>
  BY <1>4 DEF CronMail, db
<1>5. CASE Crash \/ Tick \/ UNCHANGED vars
  BY <1>5 DEF Crash, Tick, vars, db
<1> QED  BY <1>1, <1>2, <1>3, <1>4, <1>5 DEF Next, Checking

\* Whose account is written is marked, and so is every hook that has read it.
LEMMA WritersMark ==
    ASSUME IInv, [Next]_vars, NEW u \in Users, account'[u] # account[u]
    PROVE  Readers(u) \subseteq stale'
<1>1. account \in [Users -> Accounts]  BY DEF IInv, TypeOK
<1>2. ASSUME NEW h \in Handlers, WriteAccount(h) PROVE Readers(u) \subseteq stale'
  <2>1. CASE u = hook[h].order.user
    BY <1>2, <2>1 DEF WriteAccount
  <2>2. CASE u # hook[h].order.user
    BY <1>1, <1>2, <2>2 DEF WriteAccount
  <2> QED  BY <2>1, <2>2
<1>3. CASE CronEnd
  <2>1. CASE u = job.user  BY <1>3, <2>1 DEF CronEnd
  <2>2. CASE u # job.user  BY <1>1, <1>3, <2>2 DEF CronEnd
  <2> QED  BY <2>1, <2>2
<1>4. ASSUME NEW h \in Handlers, ReadAccount(h) PROVE account' = account
  BY <1>4 DEF ReadAccount, db
<1>5. CASE CronStart  BY <1>5 DEF CronStart, db
<1> QED  BY <1>2, <1>3, <1>4, <1>5, AccountsAndMarks

\* Only a new read takes a mark away: a hook's its own, the job's the users'.
LEMMA MarksGo ==
    ASSUME [Next]_vars, NEW x \in stale, x \notin stale'
    PROVE  \/ x \in Handlers /\ ReadAccount(x)
           \/ x \in Users /\ CronStart
<1>1. ASSUME NEW h \in Handlers, ReadAccount(h) PROVE x = h
  BY <1>1 DEF ReadAccount
<1>2. ASSUME NEW h \in Handlers, WriteAccount(h) PROVE FALSE
  BY <1>2 DEF WriteAccount, history
<1>3. CASE CronStart  BY <1>3 DEF CronStart
<1>4. CASE CronEnd  BY <1>4 DEF CronEnd
<1> QED  BY <1>1, <1>2, <1>3, <1>4, AccountsAndMarks DEF history

LEMMA Distinct == \A x \in Users : x \notin Handlers
BY ConstantsAssumption

\* The order of a hook at its write.
LEMMA WriterTyped ==
    ASSUME IInv, NEW h \in Handlers, hook[h].pc = "write"
    PROVE  /\ hook[h].order \in Orders /\ hook[h].order.user \in Users
           /\ hook[h].order.paymentId = P(h) /\ hook[h].end \in Nat
           /\ account[hook[h].order.user].end \in Nat \cup {None}
<1>1. hook[h].order = order[P(h)] /\ order[P(h)] \in Orders /\ hook[h].end \in Nat
      /\ order[P(h)].paymentId = P(h)
  BY HookTyped DEF IInv, HookInv, HookOK, OrderSteps
<1>2. hook[h].order.user \in Users  BY <1>1 DEF Orders
<1>3. account[hook[h].order.user].end \in Nat \cup {None}
  BY <1>2 DEF IInv, TypeOK, Accounts
<1> QED  BY <1>1, <1>2, <1>3

LEMMA ReadsStayFresh ==
    ASSUME FreshInv, [Next]_vars
    PROVE  ReadsFresh'
<1>1. IInv /\ IInv'  BY Inductive DEF FreshInv
<1> SUFFICES ASSUME NEW h \in Handlers, hook'[h].pc = "write", h \notin stale',
                    account'[hook'[h].order.user].end # None
             PROVE  hook'[h].end
                      = account'[hook'[h].order.user].end + Extension(hook'[h].order)
  BY DEF ReadsFresh, ReadIsFresh, Extension
<1>2. CASE ReadAccount(h)
  <2>1. account' = account  BY <1>2 DEF ReadAccount, db
  <2>2. hook \in [Handlers -> HookStates \cup {Idle}]  BY <1>1 DEF IInv, TypeOK
  <2>3. hook[h].pc = "read"  BY <1>2 DEF ReadAccount, At
  <2>4. PICK o \in Orders : o = hook[h].order /\ hook[h] \in HookStates
    BY <1>1, <2>3, HookTyped DEF IInv, HookInv, HookOK, OrderSteps
  <2>5. ~Throw(h)  BY <2>2 DEF Throw, Idle
  <2>6. PICK end :
          /\ end = EndDate(o, account[o.user].end)
          /\ hook' = [hook EXCEPT ![h].pc = Forward(h), ![h].end = end]
    BY <1>2, <2>4, <2>5 DEF ReadAccount
  <2>7. hook'[h] = [hook[h] EXCEPT !.pc = Forward(h), !.end = end]  BY <2>2, <2>6
  <2>8. hook'[h].order = o /\ hook'[h].end = end  BY <2>4, <2>7 DEF HookStates
  <2> QED  BY <2>1, <2>6, <2>8 DEF EndDate
<1>3. CASE ~ReadAccount(h)
  <2>1. hook'[h] = hook[h]  BY <1>1, <1>3, ReachesByReading
  <2>2. h \notin stale  BY <1>3, MarksGo, Distinct
  <2> DEFINE u == hook[h].order.user
  <2>3. u \in Users  BY <1>1, <2>1, WriterTyped
  <2>4. h \in Readers(u)  BY <2>1 DEF Readers, At
  <2>5. account'[u] = account[u]  BY <1>1, <2>3, <2>4, WritersMark
  <2> QED  BY <2>1, <2>2, <2>5 DEF FreshInv, ReadsFresh, ReadIsFresh
<1> QED  BY <1>2, <1>3

\* But for its start, the job lists nobody it had not listed.
LEMMA ListShrinks ==
    ASSUME IInv, [Next]_vars, ~CronStart
    PROVE  Listed' \subseteq Listed
<1>1. job \in JobStates  BY DEF IInv, TypeOK
<1>2. ASSUME NEW u \in Users, CronMail(u) PROVE Listed' \subseteq Listed
  BY <1>1, <1>2 DEF CronMail, Listed, JobIdle, JobStates
<1>3. CASE CronEnd
  <2>1. job'.todo \subseteq job.todo /\ job'.pc # "end"
    BY <1>1, <1>3 DEF CronEnd, JobIdle, JobStates
  <2> QED  BY <2>1 DEF Listed
<1>4. CASE Crash  BY <1>4 DEF Crash, JobIdle, Listed
<1>5. ASSUME job' = job PROVE Listed' \subseteq Listed  BY <1>5 DEF Listed
<1>6. ASSUME NEW h \in Handlers, Handling(h) PROVE job' = job
  BY <1>6 DEF Handling, Capture, FindOrder, MarkTransaction, ReadAccount, WriteAccount,
     SendMail, Notify, UpsertSubscriber, DebitNotice, Respond
<1>7. ASSUME NEW h \in Handlers, NEW e \in emitted, Deliver(h, e) \/ Duplicate(h, e)
      PROVE  job' = job
  BY <1>7 DEF Deliver, Duplicate
<1>8. ASSUME NEW p \in Purchases, Buying(p) \/ Pay(p) \/ Cancel(p) \/ Recharge(p)
      PROVE  job' = job
  BY <1>8 DEF Buying, StartBuy, CreateTransaction, OpenSession, UpdateTransaction,
     CreateOrder, Pay, Cancel, Recharge
<1>9. CASE Tick \/ UNCHANGED vars  BY <1>5, <1>9 DEF Tick, vars
<1> QED  BY <1>2, <1>3, <1>4, <1>5, <1>6, <1>7, <1>8, <1>9 DEF Next, Checking

LEMMA ClockMoves ==
    ASSUME IInv, [Next]_vars
    PROVE  clock \in Nat /\ clock' \in Nat /\ clock' >= clock
<1>1. clock \in Nat  BY DEF IInv, TypeOK
<1>2. clock' \in {clock, clock + 1}
  BY DEF Next, Handling, Capture, FindOrder, MarkTransaction, ReadAccount, WriteAccount,
     SendMail, Notify, UpsertSubscriber, DebitNotice, Respond, Deliver, Duplicate,
     Buying, StartBuy, CreateTransaction, OpenSession, UpdateTransaction,
     CreateOrder, Pay, Cancel, Recharge, Checking, CronStart, CronMail, CronEnd,
     Crash, Tick, vars
<1> QED  BY <1>1, <1>2

LEMMA ListStaysFresh ==
    ASSUME FreshInv, [Next]_vars
    PROVE  ListFresh'
<1>1. IInv /\ IInv'  BY Inductive DEF FreshInv
<1>2. Listed' \subseteq Users
  BY <1>1 DEF IInv, TypeOK, JobStates, Listed
<1> SUFFICES ASSUME NEW u \in Users, u \in Listed', u \notin stale' PROVE Expired(u)'
  BY <1>2 DEF ListFresh
<1>3. CASE CronStart
  <2>1. u \in {x \in Users : Expired(x)} /\ account' = account /\ clock' = clock
    BY <1>3 DEF CronStart, Listed, db
  <2> QED  BY <2>1 DEF Expired
<1>4. CASE ~CronStart
  <2>1. u \in Listed  BY <1>1, <1>4, ListShrinks
  <2>2. u \notin stale  BY <1>4, MarksGo, Distinct
  <2>3. account'[u] = account[u]
    <3>1. u \in Readers(u)  BY DEF Readers
    <3> QED  BY <1>1, <3>1, WritersMark
  <2>4. Expired(u)  BY <2>1, <2>2 DEF FreshInv, ListFresh
  <2>5. account[u].end \in Nat \cup {None}  BY <1>1 DEF IInv, TypeOK, Accounts
  <2> QED  BY <1>1, <2>3, <2>4, <2>5, ClockMoves DEF Expired
<1> QED  BY <1>3, <1>4

LEMMA FreshInvariant == Spec => []FreshInv
<1>1. ASSUME Init PROVE FreshInv
  <2>1. \A h \in Handlers : hook[h].pc = "idle"  BY <1>1 DEF Init, Idle
  <2>2. Listed = {}  BY <1>1 DEF Init, Listed
  <2> QED  BY <1>1, <2>1, <2>2, Initially DEF FreshInv, ReadsFresh, ReadIsFresh, ListFresh
<1>2. ASSUME FreshInv, [Next]_vars PROVE FreshInv'
  BY <1>2, ReadsStayFresh, ListStaysFresh, Inductive DEF FreshInv
<1> QED  BY <1>1, <1>2, PTL DEF Spec

\* Credit is given by the write of the hook that moves.
LEMMA WritesByWriting ==
    ASSUME IInv, [Next]_vars, NEW h \in Handlers, Writes(h)
    PROVE  WriteAccount(h)
<1>1. hook \in [Handlers -> HookStates \cup {Idle}]  BY DEF IInv, TypeOK
<1>2. credit' # credit /\ hook'[h] # hook[h]  BY DEF Writes
<1>3. PICK i \in Handlers : WriteAccount(i)
  BY <1>2, AccountsAndMarks DEF ReadAccount, CronStart, CronEnd, history
<1>4. i = h  BY <1>1, <1>2, <1>3 DEF WriteAccount, Advance
<1> QED  BY <1>3, <1>4

\* An extension adds the bought days to the end date the account has when it is
\* written, unless another writer came between the hook's read and its write.
THEOREM ExtensionsAreExact == Spec => ExactUnlessStale
<1>1. ASSUME FreshInv, [Next]_vars
      PROVE  \A h \in Handlers : Writes(h) /\ h \notin stale =>
               LET o == hook[h].order IN
               account[o.user].end # None
                 => account'[o.user].end = account[o.user].end + Extension(o)
  <2> SUFFICES ASSUME NEW h \in Handlers, Writes(h), h \notin stale,
                      account[hook[h].order.user].end # None
               PROVE  account'[hook[h].order.user].end
                        = account[hook[h].order.user].end + Extension(hook[h].order)
    OBVIOUS
  <2> DEFINE u == hook[h].order.user
  <2>1. IInv /\ WriteAccount(h)  BY <1>1, WritesByWriting DEF FreshInv
  <2>2. hook[h].pc = "write" /\ credit' # credit  BY DEF Writes
  <2>3. u \in Users /\ account \in [Users -> Accounts]
    BY <2>1, <2>2, WriterTyped DEF IInv, TypeOK
  <2>4. account'[u].end = hook[h].end
    <3>1. PICK b : account' = [account EXCEPT ![u] =
                                 [type |-> "BUSINESS", end |-> hook[h].end, auto |-> b]]
      BY <2>1, <2>2 DEF WriteAccount, history
    <3> QED  BY <2>3, <3>1
  <2> QED  BY <1>1, <2>2, <2>4 DEF FreshInv, ReadsFresh, ReadIsFresh
<1> QED  BY <1>1, FreshInvariant, PTL DEF Spec, ExactUnlessStale

\* The job ends a subscription that is not past its end date only if a hook
\* renewed it after the job read the users.
THEOREM EndedArePast == Spec => EndedIsPastUnlessStale
<1>1. ASSUME FreshInv, [Next]_vars
      PROVE  \A u \in Users : Ends(u) /\ u \notin stale => account[u].end < clock
  <2> SUFFICES ASSUME NEW u \in Users, Ends(u), u \notin stale
               PROVE  account[u].end < clock
    OBVIOUS
  <2>1. IInv /\ account \in [Users -> Accounts]  BY <1>1 DEF FreshInv, IInv, TypeOK
  <2>2. account'[u] # account[u] /\ account'[u].end = None  BY DEF Ends
  <2>3. ASSUME NEW h \in Handlers, WriteAccount(h) PROVE FALSE
    <3>1. hook[h].pc = "write"  BY <2>3 DEF WriteAccount, At
    <3>2. hook[h].order.user \in Users /\ hook[h].end \in Nat  BY <2>1, <3>1, WriterTyped
    <3>3. u = hook[h].order.user  BY <2>1, <2>2, <2>3 DEF WriteAccount
    <3>4. account'[u].end = hook[h].end  BY <2>1, <2>2, <2>3, <3>3 DEF WriteAccount
    <3> QED  BY <2>2, <3>2, <3>4, ConstantsAssumption
  <2>4. CronEnd
    <3>1. ASSUME NEW h \in Handlers, ReadAccount(h) PROVE account' = account
      BY <3>1 DEF ReadAccount, db
    <3>2. CASE CronStart  BY <2>2, <3>2 DEF CronStart, db
    <3> QED  BY <1>1, <2>2, <2>3, <3>1, <3>2, AccountsAndMarks
  <2>5. u = job.user /\ job.pc = "end"  BY <2>1, <2>2, <2>4 DEF CronEnd
  <2>6. u \in Listed  BY <2>5 DEF Listed
  <2> QED  BY <1>1, <2>6 DEF FreshInv, ListFresh, Expired
<1> QED  BY <1>1, FreshInvariant, PTL DEF Spec, EndedIsPastUnlessStale

-----------------------------------------------------------------------------
(* AckedIsGranted and ExtraGrantsNeedFaults.  Both count; what they count  *)
(* is told apart by where an event comes from, and by what every step does *)
(* to the events, the hooks and the sessions.                              *)

\* An event is of the kind its purchase's payment method has; a session waits
\* for a capture only where one is needed, and then the buyer was sent to it;
\* a capture that succeeded was needed; what is closed was emitted.
EventKnown(e) ==
    /\ e.type = "checkout" => buy[e.p].system = "STRIPE"
    /\ e.type \in {"sale", "activated"} => buy[e.p].system = "PAYPAL" /\ buy[e.p].auto
    /\ e.type # "capture" => e.n > 0

SessionKnown(p) ==
    /\ session[p].status = "approved" => NeedsCapture(p)
    /\ session[p].status \in {"approved", "paid"} /\ NeedsCapture(p)
         => Event("capture", p, 1) \in emitted

CaptureKnown(h) ==
    hook[h].pc \notin {"idle", "capture"} /\ hook[h].ev.type = "capture"
      => NeedsCapture(P(h))

Origins ==
    /\ \A e \in emitted : EventKnown(e)
    /\ \A p \in Purchases : SessionKnown(p)
    /\ \A h \in Handlers : CaptureKnown(h)
    /\ closed \subseteq emitted
    /\ IsFiniteSet(emitted)

\* How a hook leaves a step: with an error, with its answer, or one step on.
Goes(h) ==
    /\ hook[h].pc \in Steps(hook[h].ev.type) \ {"respond"}
    /\ hook'[h].pc = Forward(h) /\ hook'[h].ev = hook[h].ev
    /\ closed' = closed

LEMMA HandlingMoves ==
    ASSUME IInv, NEW h \in Handlers, Handling(h)
    PROVE  /\ hook[h].pc # "idle"
           /\ \A i \in Handlers \ {h} : hook'[i] = hook[i]
           /\ \/ Throw(h) /\ ~Respond(h) /\ hook'[h] = Idle
              \/ Respond(h) /\ hook'[h] = Idle
              \/ Goes(h) /\ ~Respond(h)
<1>1. hook \in [Handlers -> HookStates \cup {Idle}]  BY DEF IInv, TypeOK
<1>2. hook[h].pc # "idle"
  BY DEF Handling, At, Capture, FindOrder, MarkTransaction, ReadAccount, WriteAccount,
     SendMail, Notify, UpsertSubscriber, DebitNotice, Respond
<1>3. hook[h] \in HookStates /\ hook[h].pc \in Steps(hook[h].ev.type)
  BY <1>2, HookTyped DEF IInv, HookInv, HookOK
<1>4. CASE Respond(h)  BY <1>1, <1>2, <1>4 DEF Respond
<1>5. CASE Throw(h) /\ ~Respond(h)  BY <1>1, <1>2, <1>5 DEF Throw
<1>6. CASE ~Throw(h) /\ ~Respond(h)
  <2>1. hook[h].pc # "respond"
    BY <1>6 DEF Handling, At, Capture, FindOrder, MarkTransaction, ReadAccount, WriteAccount,
       SendMail, Notify, UpsertSubscriber, DebitNotice
  <2>2. PICK o, end :
          /\ hook' = [hook EXCEPT ![h].pc = Forward(h), ![h].order = o, ![h].end = end]
          /\ closed' = closed
    <3>1. CASE FindOrder(h)
      <4>1. PICK found :
              /\ hook' = [hook EXCEPT ![h].pc = Forward(h), ![h].order = found]
              /\ closed' = closed
        BY <1>6, <3>1 DEF FindOrder
      <4>2. hook' = [hook EXCEPT ![h].pc = Forward(h), ![h].order = found,
                                 ![h].end = hook[h].end]
        BY <1>1, <1>3, <4>1 DEF HookStates
      <4> QED  BY <4>1, <4>2
    <3>2. CASE ReadAccount(h)
      <4>1. PICK end :
              /\ hook' = [hook EXCEPT ![h].pc = Forward(h), ![h].end = end]
              /\ closed' = closed
        BY <1>6, <3>2 DEF ReadAccount
      <4>2. hook' = [hook EXCEPT ![h].pc = Forward(h), ![h].order = hook[h].order,
                                 ![h].end = end]
        BY <1>1, <1>3, <4>1 DEF HookStates
      <4> QED  BY <4>1, <4>2
    <3>3. CASE ~FindOrder(h) /\ ~ReadAccount(h)
      <4>1. hook' = [hook EXCEPT ![h].pc = Forward(h)] /\ closed' = closed
        BY <1>6, <3>3 DEF Handling, Capture, MarkTransaction, WriteAccount, SendMail,
           Notify, UpsertSubscriber, DebitNotice, Advance
      <4>2. hook' = [hook EXCEPT ![h].pc = Forward(h), ![h].order = hook[h].order,
                                 ![h].end = hook[h].end]
        BY <1>1, <1>3, <4>1 DEF HookStates
      <4> QED  BY <4>1, <4>2
    <3> QED  BY <3>1, <3>2, <3>3
  <2> DEFINE g == [hook[h] EXCEPT !.pc = Forward(h), !.order = o, !.end = end]
  <2>3. hook' = [hook EXCEPT ![h] = g]  BY <1>1, <2>2
  <2>4. g.pc = Forward(h) /\ g.ev = hook[h].ev  BY <1>3 DEF HookStates
  <2>5. hook'[h] = g /\ \A i \in Handlers \ {h} : hook'[i] = hook[i]
    <3> HIDE DEF g
    <3> QED  BY <1>1, <2>3
  <2>6. Goes(h)
    <3> HIDE DEF g
    <3> QED  BY <1>3, <2>1, <2>2, <2>4, <2>5 DEF Goes
  <2> QED  BY <1>2, <1>6, <2>5, <2>6
<1> QED  BY <1>4, <1>5, <1>6

\* What a step is, seen from the hooks.
LEMMA HooksMove ==
    ASSUME [Next]_vars
    PROVE  \/ hook' = hook /\ closed' = closed
           \/ \E h \in Handlers : Handling(h)
           \/ \E h \in Handlers, e \in emitted : Deliver(h, e) \/ Duplicate(h, e)
           \/ Crash
<1>1. ASSUME NEW p \in Purchases, Buying(p) \/ Pay(p) \/ Cancel(p) \/ Recharge(p)
      PROVE  hook' = hook /\ closed' = closed
  BY <1>1 DEF Buying, StartBuy, CreateTransaction, OpenSession, UpdateTransaction,
     CreateOrder, Pay, Cancel, Recharge
<1>2. CASE Checking \/ Tick \/ UNCHANGED vars
  BY <1>2 DEF Checking, CronStart, CronMail, CronEnd, Tick, vars
<1> QED  BY <1>1, <1>2 DEF Next

\* A request that is done, and what was emitted, stay.
LEMMA DoneStays ==
    ASSUME IInv, [Next]_vars
    PROVE  /\ emitted \subseteq emitted'
           /\ \A p \in Purchases : buy[p].pc = "done" =>
                /\ buy'[p] = buy[p]
                /\ NeedsCapture(p)' = NeedsCapture(p)
<1>1. buy \in [Purchases -> Requests]  BY DEF IInv, TypeOK
<1>2. emitted \subseteq emitted' /\ \A p \in Purchases : buy[p].pc = "done" => buy'[p] = buy[p]
  <2>1. ASSUME NEW q \in Purchases, Buying(q)
        PROVE  emitted' = emitted /\ buy[q].pc # "done" /\ \A p \in Purchases \ {q} : buy'[p] = buy[p]
    BY <1>1, <2>1 DEF Buying, StartBuy, CreateTransaction, OpenSession, UpdateTransaction,
       CreateOrder, BuyTo, provider
  <2>2. ASSUME NEW q \in Purchases, Pay(q) \/ Cancel(q) \/ Recharge(q)
        PROVE  emitted \subseteq emitted' /\ buy' = buy
    BY <2>2 DEF Pay, Cancel, Recharge
  <2>3. ASSUME NEW h \in Handlers, Handling(h) PROVE emitted' = emitted /\ buy' = buy
    BY <2>3 DEF Handling, Capture, FindOrder, MarkTransaction, ReadAccount, WriteAccount,
       SendMail, Notify, UpsertSubscriber, DebitNotice, Respond, provider
  <2>4. ASSUME NEW h \in Handlers, NEW e \in emitted, Deliver(h, e) \/ Duplicate(h, e)
        PROVE  emitted' = emitted /\ buy' = buy
    BY <2>4 DEF Deliver, Duplicate, provider
  <2>5. CASE Checking \/ Tick \/ UNCHANGED vars
    BY <2>5 DEF Checking, CronStart, CronMail, CronEnd, Tick, vars, provider
  <2>6. CASE Crash  BY <2>6 DEF Crash, provider
  <2> QED  BY <2>1, <2>2, <2>3, <2>4, <2>5, <2>6 DEF Next
<1> QED  BY <1>2 DEF NeedsCapture

\* Where events come from.
LEMMA EventsBegin ==
    ASSUME [Next]_vars
    PROVE  \/ emitted' = emitted
           \/ \E p \in Purchases : Pay(p) \/ Cancel(p) \/ Recharge(p)
<1>1. ASSUME NEW p \in Purchases, Buying(p) PROVE emitted' = emitted
  BY <1>1 DEF Buying, StartBuy, CreateTransaction, OpenSession, UpdateTransaction,
     CreateOrder, provider
<1>2. ASSUME NEW h \in Handlers, Handling(h) PROVE emitted' = emitted
  BY <1>2 DEF Handling, Capture, FindOrder, MarkTransaction, ReadAccount, WriteAccount,
     SendMail, Notify, UpsertSubscriber, DebitNotice, Respond, provider
<1>3. ASSUME NEW h \in Handlers, NEW e \in emitted, Deliver(h, e) \/ Duplicate(h, e)
      PROVE  emitted' = emitted
  BY <1>3 DEF Deliver, Duplicate, provider
<1>4. CASE Checking \/ Tick \/ Crash \/ UNCHANGED vars
  BY <1>4 DEF Checking, CronStart, CronMail, CronEnd, Tick, Crash, vars, provider
<1> QED  BY <1>1, <1>2, <1>3, <1>4 DEF Next

\* How a session's status changes.
LEMMA SessionsMove ==
    ASSUME IInv, [Next]_vars, NEW p \in Purchases, session'[p].status # session[p].status
    PROVE  \/ OpenSession(p) \/ Pay(p)
           \/ \E h \in Handlers : Capture(h) /\ P(h) = p
<1>1. session \in [Purchases -> Sessions]  BY DEF IInv, TypeOK
<1>2. ASSUME NEW q \in Purchases, Buying(q), ~(OpenSession(q) /\ q = p) PROVE FALSE
  BY <1>1, <1>2 DEF Buying, StartBuy, CreateTransaction, OpenSession, UpdateTransaction,
     CreateOrder, provider
<1>3. ASSUME NEW q \in Purchases, Pay(q), q # p PROVE FALSE  BY <1>1, <1>3 DEF Pay
<1>4. ASSUME NEW q \in Purchases, Cancel(q) PROVE FALSE  BY <1>4 DEF Cancel
<1>5. ASSUME NEW q \in Purchases, Recharge(q) PROVE FALSE
  <2>1. session' = [session EXCEPT ![q] =
                      [session[q] EXCEPT !.charges = session[q].charges + 1]]
    BY <1>1, <1>5 DEF Recharge
  <2>2. session'[q].status = session[q].status  BY <1>1, <2>1 DEF Sessions
  <2> QED  BY <1>1, <2>1, <2>2
<1>6. ASSUME NEW h \in Handlers, Capture(h), P(h) # p PROVE FALSE
  BY <1>1, <1>6 DEF Capture
<1>7. ASSUME NEW h \in Handlers, Handling(h), ~Capture(h) PROVE FALSE
  BY <1>7 DEF Handling, FindOrder, MarkTransaction, ReadAccount, WriteAccount,
     SendMail, Notify, UpsertSubscriber, DebitNotice, Respond, provider
<1>8. ASSUME NEW h \in Handlers, NEW e \in emitted, Deliver(h, e) \/ Duplicate(h, e)
      PROVE  FALSE
  BY <1>8 DEF Deliver, Duplicate, provider
<1>9. CASE Checking \/ Tick \/ Crash \/ UNCHANGED vars
  BY <1>9 DEF Checking, CronStart, CronMail, CronEnd, Tick, Crash, vars, provider
<1> QED  BY <1>2, <1>3, <1>4, <1>5, <1>6, <1>7, <1>8, <1>9 DEF Next

\* What the provider emits is of the purchase's kind, and finitely much.
LEMMA FirstEventsAre ==
    ASSUME NEW p \in Purchases, buy[p].system \in Systems
    PROVE  /\ \A e \in FirstEvents(p) :
                /\ e.p = p /\ e.n = 1
                /\ e.type = "checkout" => buy[p].system = "STRIPE"
                /\ e.type \in {"sale", "activated"} => buy[p].system = "PAYPAL" /\ buy[p].auto
           /\ NeedsCapture(p) => Event("capture", p, 1) \in FirstEvents(p)
           /\ IsFiniteSet(FirstEvents(p))
<1>1. CASE buy[p].system = "STRIPE"
  <2>1. FirstEvents(p) \subseteq {Event("checkout", p, 1)} \cup {Event("created", p, 1)}
    BY <1>1 DEF FirstEvents
  <2>2. IsFiniteSet({Event("checkout", p, 1)} \cup {Event("created", p, 1)})
    BY FS_Singleton, FS_AddElement
  <2>3. IsFiniteSet(FirstEvents(p))  BY <2>1, <2>2, FS_Subset
  <2> QED  BY <1>1, <2>1, <2>3 DEF Event, NeedsCapture
<1>2. CASE buy[p].system = "PAYPAL"
  <2>1. /\ Event("capture", p, 1) \in FirstEvents(p)
        /\ FirstEvents(p) \subseteq ({Event("capture", p, 1)} \cup {Event("sale", p, 1)})
                                      \cup {Event("activated", p, 1)}
        /\ ~buy[p].auto => FirstEvents(p) = {Event("capture", p, 1)}
    BY <1>2 DEF FirstEvents
  <2>2. IsFiniteSet(({Event("capture", p, 1)} \cup {Event("sale", p, 1)})
                      \cup {Event("activated", p, 1)})
    <3>1. IsFiniteSet({Event("capture", p, 1)} \cup {Event("sale", p, 1)})
      BY FS_Singleton, FS_AddElement
    <3> QED  BY <3>1, FS_AddElement
  <2>3. IsFiniteSet(FirstEvents(p))  BY <2>1, <2>2, FS_Subset
  <2> QED  BY <1>2, <2>1, <2>3 DEF Event, NeedsCapture
<1> QED  BY <1>1, <1>2 DEF Systems

LEMMA EventsStayKnown ==
    ASSUME IInv, Origins, [Next]_vars
    PROVE  /\ \A e \in emitted' : EventKnown(e)'
           /\ IsFiniteSet(emitted')
<1>1. ASSUME NEW e \in emitted PROVE EventKnown(e)'
  <2>1. e.p \in Purchases /\ buy[e.p].pc = "done"
    BY DEF IInv, TypeOK, EventInv, Events
  <2>2. buy'[e.p] = buy[e.p]  BY <2>1, DoneStays
  <2> QED  BY <2>2 DEF Origins, EventKnown
<1>2. CASE emitted' = emitted  BY <1>1, <1>2 DEF Origins
<1>3. ASSUME NEW p \in Purchases, Pay(p)
      PROVE  (\A e \in emitted' : EventKnown(e)') /\ IsFiniteSet(emitted')
  <2>1. buy[p].pc = "done" /\ emitted' = emitted \cup FirstEvents(p) /\ buy' = buy
    BY <1>3 DEF Pay
  <2>2. buy[p].system \in Systems  BY <2>1 DEF IInv, BuyInv
  <2>3. IsFiniteSet(emitted')  BY <2>1, <2>2, FirstEventsAre, FS_Union DEF Origins
  <2>4. \A e \in FirstEvents(p) : EventKnown(e)'
    BY <2>1, <2>2, FirstEventsAre DEF EventKnown
  <2> QED  BY <1>1, <2>1, <2>3, <2>4
<1>4. ASSUME NEW p \in Purchases, Cancel(p)
      PROVE  (\A e \in emitted' : EventKnown(e)') /\ IsFiniteSet(emitted')
  <2>1. emitted' = emitted \cup {Event("capture", p, 0)}  BY <1>4 DEF Cancel
  <2>2. IsFiniteSet(emitted')  BY <2>1, FS_AddElement DEF Origins
  <2>3. EventKnown(Event("capture", p, 0))'  BY DEF EventKnown, Event
  <2> QED  BY <1>1, <2>1, <2>2, <2>3
<1>5. ASSUME NEW p \in Purchases, Recharge(p)
      PROVE  (\A e \in emitted' : EventKnown(e)') /\ IsFiniteSet(emitted')
  <2>1. PICK e : e = Event("sale", p, session[p].charges + 1)  OBVIOUS
  <2>2. CASE buy[p].system # "PAYPAL"
    <3>1. emitted' = emitted  BY <1>5, <2>2 DEF Recharge
    <3> QED  BY <1>2, <3>1
  <2>3. CASE buy[p].system = "PAYPAL"
    <3>1. emitted' = emitted \cup {e} /\ buy' = buy /\ buy[p].auto
      BY <1>5, <2>1, <2>3 DEF Recharge
    <3>2. IsFiniteSet(emitted')  BY <3>1, FS_AddElement DEF Origins
    <3>3. session[p].charges \in Nat  BY DEF IInv, TypeOK, Sessions
    <3>4. EventKnown(e)'  BY <2>1, <2>3, <3>1, <3>3 DEF EventKnown, Event
    <3> QED  BY <1>1, <3>1, <3>2, <3>4
  <2> QED  BY <2>2, <2>3
<1> QED  BY <1>2, <1>3, <1>4, <1>5, EventsBegin

LEMMA SessionsStayKnown ==
    ASSUME IInv, Origins, [Next]_vars, NEW p \in Purchases
    PROVE  SessionKnown(p)'
<1>1. IInv'  BY Inductive
<1>2. session \in [Purchases -> Sessions]  BY DEF IInv, TypeOK
<1>3. SessionKnown(p) /\ emitted \subseteq emitted'  BY DoneStays DEF Origins
<1> SUFFICES ASSUME session'[p].status \in {"approved", "paid"}
             PROVE  SessionKnown(p)'
  BY DEF SessionKnown
<1>4. CASE session'[p].status = session[p].status
  <2>1. buy[p].pc = "done"  BY <1>4 DEF IInv, RowsInv, RowsOK
  <2>2. NeedsCapture(p)' = NeedsCapture(p)  BY <2>1, DoneStays
  <2> QED  BY <1>3, <1>4, <2>2 DEF SessionKnown, Event
<1>5. CASE OpenSession(p)
  <2>1. session'[p] = session[p] \/ session'[p].status = "open"
    BY <1>2, <1>5 DEF OpenSession, Sessions
  <2> QED  BY <1>4, <2>1
<1>6. CASE Pay(p)
  <2>1. buy[p].pc = "done" /\ emitted' = emitted \cup FirstEvents(p) /\ buy' = buy
        /\ session' = [session EXCEPT
                     ![p].status = IF NeedsCapture(p) THEN "approved" ELSE "paid",
                     ![p].charges = IF NeedsCapture(p) THEN 0 ELSE 1]
    BY <1>6 DEF Pay
  <2>2. session'[p].status = "approved" => NeedsCapture(p)
    BY <1>2, <2>1 DEF Sessions
  <2>3. NeedsCapture(p) => Event("capture", p, 1) \in emitted'
    <3>1. buy[p].system \in Systems  BY <2>1 DEF IInv, BuyInv
    <3> QED  BY <2>1, <3>1, FirstEventsAre
  <2> QED  BY <2>1, <2>2, <2>3 DEF SessionKnown, NeedsCapture, Event
<1>7. ASSUME NEW h \in Handlers, Capture(h), P(h) = p PROVE SessionKnown(p)'
  <2>1. CASE session' = session  BY <1>4, <2>1
  <2>2. CASE session' # session
    <3>1. /\ session[p].status = "approved" /\ buy' = buy
          /\ session' = [session EXCEPT ![p].status = "paid", ![p].charges = 1]
      BY <1>7, <2>2 DEF Capture
    <3>2. session'[p].status = "paid"  BY <1>2, <3>1 DEF Sessions
    <3> QED  BY <1>3, <3>1, <3>2 DEF SessionKnown, NeedsCapture, Event
  <2> QED  BY <2>1, <2>2
<1> QED  BY <1>4, <1>5, <1>6, <1>7, SessionsMove

LEMMA CapturesStayKnown ==
    ASSUME IInv, Origins, [Next]_vars, NEW h \in Handlers
    PROVE  CaptureKnown(h)'
<1> SUFFICES ASSUME hook'[h].pc \notin {"idle", "capture"}, hook'[h].ev.type = "capture"
             PROVE  NeedsCapture(P(h))'
  BY DEF CaptureKnown
<1>1. ASSUME hook'[h].ev = hook[h].ev, hook[h].pc # "idle", NeedsCapture(P(h))
      PROVE  NeedsCapture(P(h))'
  <2>1. P(h)' = P(h)  BY <1>1 DEF P
  <2>2. PICK p \in Purchases : p = P(h) /\ buy[p].pc = "done"  BY <1>1, HookTyped
  <2>3. NeedsCapture(p)'  BY <1>1, <2>2, DoneStays
  <2>4. P(h)' = p  BY <2>1, <2>2
  <2> QED  BY <2>3, <2>4 DEF NeedsCapture
<1>2. CASE hook'[h] = hook[h]  BY <1>1, <1>2 DEF Origins, CaptureKnown
<1>3. CASE hook'[h] = Idle  BY <1>3 DEF Idle
<1>4. ASSUME Handling(h), Goes(h) PROVE NeedsCapture(P(h))'
  <2>1. hook'[h].ev = hook[h].ev /\ hook[h].pc # "idle"  BY <1>4, HandlingMoves DEF Goes
  <2>2. CASE hook[h].pc # "capture"  BY <1>1, <2>1, <2>2 DEF Origins, CaptureKnown
  <2>3. CASE hook[h].pc = "capture"
    <3>1. Capture(h) /\ ~Throw(h)
      <4>1. hook'[h] # Idle  BY DEF Idle
      <4>2. hook \in [Handlers -> HookStates \cup {Idle}]  BY DEF IInv, TypeOK
      <4> QED  BY <1>4, <2>3, <4>1, <4>2
               DEF Throw, Handling, At, FindOrder, MarkTransaction, ReadAccount, WriteAccount,
                   SendMail, Notify, UpsertSubscriber, DebitNotice, Respond
    <3>2. session[P(h)].status = "approved"  BY <3>1 DEF Capture
    <3>3. P(h) \in Purchases  BY <2>1, HookTyped
    <3> QED  BY <1>1, <2>1, <3>2, <3>3 DEF Origins, SessionKnown
  <2> QED  BY <2>2, <2>3
<1>5. ASSUME NEW i \in Handlers, Handling(i) PROVE NeedsCapture(P(h))'
  BY <1>2, <1>3, <1>4, <1>5, HandlingMoves
<1>6. ASSUME NEW i \in Handlers, NEW e \in emitted, Deliver(i, e) \/ Duplicate(i, e)
      PROVE  NeedsCapture(P(h))'
  <2>1. hook' = [hook EXCEPT ![i] = Started(e)]  BY <1>6 DEF Deliver, Duplicate
  <2>2. e.type \in EventTypes /\ hook \in [Handlers -> HookStates \cup {Idle}]
    BY DEF IInv, TypeOK, Events
  <2>3. CASE h # i  BY <1>2, <2>1, <2>2, <2>3
  <2>4. CASE h = i
    <3>1. hook'[h] = Started(e)  BY <2>1, <2>2, <2>4
    <3> QED  BY <2>2, <3>1, RouteStart DEF Started
  <2> QED  BY <2>3, <2>4
<1>7. CASE Crash  BY <1>3, <1>7 DEF Crash
<1> QED  BY <1>2, <1>5, <1>6, <1>7, HooksMove

LEMMA ClosedAreEmitted ==
    ASSUME IInv, Origins, [Next]_vars
    PROVE  closed \subseteq closed' /\ closed' \subseteq emitted'
<1>1. closed \subseteq emitted /\ emitted \subseteq emitted'  BY DoneStays DEF Origins
<1>2. ASSUME NEW h \in Handlers, Handling(h)
      PROVE  closed' \in {closed, closed \cup {hook[h].ev}} /\ hook[h].ev \in emitted
  BY <1>2, HandlingMoves, HookTyped DEF Throw, Respond, Goes
<1>3. ASSUME NEW h \in Handlers, NEW e \in emitted, Deliver(h, e) \/ Duplicate(h, e)
      PROVE  closed' = closed
  BY <1>3 DEF Deliver, Duplicate
<1>4. CASE Crash
  <2>1. closed' = closed \cup {e \in InFlight \ {None} : e.type = "capture"}
    BY <1>4 DEF Crash
  <2>2. ASSUME NEW e \in InFlight \ {None} PROVE e \in emitted
    <3>1. PICK h \in Handlers : e = hook[h].ev  BY DEF InFlight
    <3>2. hook[h].pc # "idle"  BY <3>1 DEF IInv, TypeOK, HookStates, HookSteps, Idle
    <3> QED  BY <3>1, <3>2, HookTyped
  <2> QED  BY <1>1, <2>1, <2>2
<1> QED  BY <1>1, <1>2, <1>3, <1>4, HooksMove

LEMMA OriginsStay == ASSUME IInv, Origins, [Next]_vars PROVE Origins'
BY EventsStayKnown, SessionsStayKnown, CapturesStayKnown, ClosedAreEmitted DEF Origins

LEMMA OriginsInvariant == Spec => [](IInv /\ Origins)
<1>1. ASSUME Init PROVE Origins
  <2>1. emitted = {} /\ closed = {} /\ \A p \in Purchases : session[p].status = "none"
    BY <1>1 DEF Init
  <2>2. \A h \in Handlers : hook[h].pc = "idle"  BY <1>1 DEF Init, Idle
  <2> QED  BY <2>1, <2>2, FS_EmptySet DEF Origins, SessionKnown, CaptureKnown
<1>2. ASSUME IInv, Origins, [Next]_vars PROVE IInv' /\ Origins'
  BY <1>2, Inductive, OriginsStay
<1> QED  BY <1>1, <1>2, Initially, PTL DEF Spec

-----------------------------------------------------------------------------
(* AckedIsGranted.  An acknowledgement comes after the writes it stands    *)
(* for, and between them the hook is in flight: what is counted is the     *)
(* events closed or past the write of the account.                         *)

LEMMA NoMore ==
    ASSUME NEW S, IsFiniteSet(S), NEW T, T \subseteq S
    PROVE  /\ IsFiniteSet(T) /\ Cardinality(S) \in Nat /\ Cardinality(T) \in Nat
           /\ Cardinality(T) <= Cardinality(S)
BY FS_Subset, FS_CardinalityType

LEMMA OneMore ==
    ASSUME NEW S, IsFiniteSet(S), NEW T, NEW x, T \subseteq S \cup {x}
    PROVE  /\ IsFiniteSet(T) /\ Cardinality(S) \in Nat /\ Cardinality(T) \in Nat
           /\ Cardinality(T) <= Cardinality(S) + 1
<1> DEFINE U == S \cup {x}
<1>1. Cardinality(S) \in Nat  BY FS_CardinalityType
<1>2. IsFiniteSet(U) /\ Cardinality(U) = IF x \in S THEN Cardinality(S) ELSE Cardinality(S) + 1
  BY FS_AddElement
<1> HIDE DEF U
<1>3. IsFiniteSet(T) /\ Cardinality(U) \in Nat /\ Cardinality(T) \in Nat
      /\ Cardinality(T) <= Cardinality(U)
  BY <1>2, NoMore DEF U
<1> QED  BY <1>1, <1>2, <1>3

Webhooks    == Granting \ {"capture"}
LateSteps   == {"mail", "notify", "subscribe", "debit", "respond"}
MarkedSteps == {"read", "write", "mail", "notify", "respond"}
Marking     == {"checkout", "sale"}

Past(h) == hook[h].pc \in LateSteps /\ hook[h].ev.type \in Webhooks

Handled(p) ==
    {e \in emitted : /\ e.p = p /\ e.type \in Webhooks
                     /\ e \in closed \/ \E h \in Handlers : Past(h) /\ hook[h].ev = e}

Marked(e) == e \in closed \/ \E h \in Handlers : hook[h].pc \in MarkedSteps /\ hook[h].ev = e

Completed(p) == tx[p].status = "Completed"

HandledAreGranted ==
    used["db"] = 0 => \A p \in Purchases : Cardinality(Handled(p)) <= grants[p]

MarkedAreCompleted ==
    used["db"] = 0 =>
        \A e \in emitted : e.type \in Marking /\ Marked(e) => Completed(e.p)

AckInv == IInv /\ Origins /\ HandledAreGranted /\ MarkedAreCompleted

LEMMA RouteOnward == \A t \in EventTypes : \A s \in Steps(t) \ {"respond"} :
    /\ t \in Webhooks /\ Route[t][s] \in LateSteps => s \in LateSteps \cup {"write"}
    /\ t \in Marking /\ Route[t][s] \in MarkedSteps => s \in MarkedSteps \cup {"mark"}
BY SMTT(60) DEF Route, CheckoutRoute, CreatedRoute, SaleRoute, ActivatedRoute, CaptureRoute,
   Steps, EventTypes, Webhooks, Granting, LateSteps, MarkedSteps, Marking

LEMMA RouteBegins == \A t \in Webhooks : t \in EventTypes /\ Route[t].start = "find"
BY DEF Route, CheckoutRoute, SaleRoute, ActivatedRoute, Webhooks, Granting, EventTypes

\* How a hook comes to be where it is.
LEMMA HookComes ==
    ASSUME IInv, [Next]_vars, NEW h \in Handlers, hook'[h].pc # "idle"
    PROVE  \/ hook'[h] = hook[h]
           \/ Handling(h) /\ Goes(h)
           \/ \E e \in emitted : /\ hook[h] = Idle /\ hook'[h] = Started(e)
                                 /\ Deliver(h, e) \/ Duplicate(h, e)
<1>1. hook \in [Handlers -> HookStates \cup {Idle}]  BY DEF IInv, TypeOK
<1>2. hook'[h] # Idle  BY DEF Idle
<1>3. ASSUME NEW i \in Handlers, Handling(i)
      PROVE  hook'[h] = hook[h] \/ (Handling(h) /\ Goes(h))
  BY <1>2, <1>3, HandlingMoves
<1>4. ASSUME NEW i \in Handlers, NEW e \in emitted, Deliver(i, e) \/ Duplicate(i, e)
      PROVE  hook'[h] = hook[h] \/ (i = h /\ hook[h] = Idle /\ hook'[h] = Started(e))
  BY <1>1, <1>4 DEF Deliver, Duplicate
<1>5. ~Crash  BY <1>2 DEF Crash
<1> QED  BY <1>3, <1>4, <1>5, HooksMove

\* A webhook is closed by its answer.
LEMMA ClosesByAnswer ==
    ASSUME IInv, [Next]_vars, NEW e \in closed', e \notin closed, e.type # "capture"
    PROVE  \E h \in Handlers : hook[h].pc = "respond" /\ hook[h].ev = e
<1>1. ASSUME NEW h \in Handlers, Handling(h)
      PROVE  hook[h].pc = "respond" /\ hook[h].ev = e
  BY <1>1, HandlingMoves DEF Throw, Respond, Goes, At
<1>2. ASSUME NEW h \in Handlers, NEW x \in emitted, Deliver(h, x) \/ Duplicate(h, x)
      PROVE  FALSE
  BY <1>2 DEF Deliver, Duplicate
<1>3. ~Crash  BY DEF Crash
<1> QED  BY <1>1, <1>2, <1>3, HooksMove

\* What is handled was, or its hook writes the account now.
LEMMA HandledFrom ==
    ASSUME IInv, Origins, [Next]_vars, NEW p \in Purchases, NEW e \in Handled(p)'
    PROVE  \/ e \in Handled(p)
           \/ \E h \in Handlers : WriteAccount(h) /\ P(h) = p /\ hook[h].ev = e
<1>1. e.p = p /\ e.type \in Webhooks  BY DEF Handled
<1>2. CASE e \in closed
  <2>1. e \in emitted  BY <1>2 DEF Origins
  <2> QED  BY <1>1, <1>2, <2>1 DEF Handled
<1>3. ASSUME NEW h \in Handlers, Past(h), hook[h].ev = e PROVE e \in Handled(p)
  <2>1. e \in emitted  BY <1>3, HookTyped DEF Past, LateSteps
  <2> QED  BY <1>1, <1>3, <2>1 DEF Handled
<1>4. CASE e \in closed' /\ e \notin closed
  <2>1. PICK h \in Handlers : hook[h].pc = "respond" /\ hook[h].ev = e
    BY <1>1, <1>4, ClosesByAnswer DEF Webhooks
  <2>2. Past(h)  BY <1>1, <2>1 DEF Past, LateSteps
  <2> QED  BY <1>3, <2>1, <2>2
<1>5. ASSUME NEW h \in Handlers, Past(h)', hook'[h].ev = e
      PROVE  \/ e \in Handled(p)
             \/ WriteAccount(h) /\ P(h) = p /\ hook[h].ev = e
  <2>1. hook'[h].pc \in LateSteps  BY <1>5 DEF Past
  <2>2. hook'[h].pc # "idle"  BY <2>1 DEF LateSteps
  <2>3. CASE hook'[h] = hook[h]
    <3>1. Past(h)  BY <1>1, <1>5, <2>1, <2>3 DEF Past
    <3> QED  BY <1>3, <1>5, <2>3, <3>1
  <2>4. CASE Handling(h) /\ Goes(h)
    <3>1. hook[h].ev = e /\ hook[h].pc \in Steps(e.type) \ {"respond"}
          /\ Route[e.type][hook[h].pc] \in LateSteps
      BY <1>5, <2>1, <2>4 DEF Goes, Forward
    <3>2. hook[h].pc \in LateSteps \cup {"write"}  BY <1>1, <3>1, RouteOnward, RouteBegins
    <3>3. CASE hook[h].pc \in LateSteps
      <4>1. Past(h)  BY <1>1, <3>1, <3>3 DEF Past
      <4> QED  BY <1>3, <3>1, <4>1
    <3>4. CASE hook[h].pc = "write"
      <4>1. WriteAccount(h)
        BY <2>4, <3>4 DEF Handling, At, Capture, FindOrder, MarkTransaction, ReadAccount,
           SendMail, Notify, UpsertSubscriber, DebitNotice, Respond
      <4> QED  BY <1>1, <3>1, <4>1 DEF P
    <3> QED  BY <3>2, <3>3, <3>4
  <2>5. ASSUME NEW x \in emitted, hook'[h] = Started(x) PROVE FALSE
    <3>1. x = e /\ hook'[h].pc = Route[e.type].start  BY <1>5, <2>5 DEF Started
    <3> QED  BY <1>1, <2>1, <3>1, RouteBegins DEF LateSteps
  <2> QED  BY <2>2, <2>3, <2>4, <2>5, HookComes
<1>6. e \in closed' \/ \E h \in Handlers : Past(h)' /\ hook'[h].ev = e  BY DEF Handled
<1> QED  BY <1>2, <1>4, <1>5, <1>6

\* Faults are counted and not forgotten.
LEMMA FaultsMove ==
    ASSUME [Next]_vars
    PROVE  used' = used \/ \E f \in Faults : Fault(f)
<1>1. ASSUME NEW p \in Purchases, Buying(p) \/ Pay(p) \/ Cancel(p) \/ Recharge(p)
      PROVE  used' = used \/ \E f \in Faults : Fault(f)
  BY <1>1 DEF Buying, StartBuy, CreateTransaction, OpenSession, UpdateTransaction,
     CreateOrder, Pay, Cancel, Recharge, Faults
<1>2. ASSUME NEW h \in Handlers, Handling(h)
      PROVE  used' = used \/ \E f \in Faults : Fault(f)
  BY <1>2 DEF Handling, Capture, FindOrder, MarkTransaction, ReadAccount, WriteAccount,
     SendMail, Notify, UpsertSubscriber, DebitNotice, Respond, Faults
<1>3. ASSUME NEW h \in Handlers, NEW e \in emitted, Deliver(h, e) \/ Duplicate(h, e)
      PROVE  used' = used \/ \E f \in Faults : Fault(f)
  BY <1>3 DEF Deliver, Duplicate, Faults
<1>4. CASE Checking \/ Tick \/ Crash \/ UNCHANGED vars
  BY <1>4 DEF Checking, CronStart, CronMail, CronEnd, Tick, Crash, vars, Faults
<1> QED  BY <1>1, <1>2, <1>3, <1>4 DEF Next

LEMMA UsedGrows ==
    ASSUME IInv, [Next]_vars, NEW f \in Faults
    PROVE  used[f] \in Nat /\ used'[f] \in Nat /\ used'[f] >= used[f]
<1>1. used \in [Faults -> Nat]  BY DEF IInv, TypeOK
<1> QED  BY <1>1, FaultsMove DEF Fault

\* Extensions are counted once, for the order of the hook that writes.
LEMMA GrantsMove ==
    ASSUME IInv, [Next]_vars, NEW p \in Purchases
    PROVE  /\ grants[p] \in Nat /\ grants'[p] \in {grants[p], grants[p] + 1}
           /\ grants'[p] # grants[p] => \E h \in Handlers : WriteAccount(h) /\ P(h) = p
           /\ \A h \in Handlers : WriteAccount(h) /\ P(h) = p =>
                grants'[p] = grants[p] + 1 \/ Fault("db")
<1>1. grants \in [Purchases -> Nat]  BY DEF IInv, TypeOK
<1>2. ASSUME NEW h \in Handlers, WriteAccount(h)
      PROVE  \/ grants' = [grants EXCEPT ![P(h)] = grants[P(h)] + 1] /\ P(h) \in Purchases
             \/ grants' = grants /\ Fault("db")
  <2>1. hook[h].pc = "write"  BY <1>2 DEF WriteAccount, At
  <2>2. hook[h].order.paymentId = P(h) /\ P(h) \in Purchases
    BY <2>1, WriterTyped, HookTyped
  <2> QED  BY <1>1, <1>2, <2>2 DEF WriteAccount, history
<1>3. grants' = grants \/ \E h \in Handlers : WriteAccount(h)
  BY AccountsAndMarks DEF history, ReadAccount, CronStart, CronEnd
<1> QED  BY <1>1, <1>2, <1>3

LEMMA OneWrites ==
    ASSUME IInv, NEW g \in Handlers, NEW h \in Handlers, WriteAccount(g), WriteAccount(h)
    PROVE  g = h
<1>1. hook[g].pc = "write" /\ hook[h].pc = "write"  BY DEF WriteAccount, At
<1>2. NoneReachesWrite  BY <1>1, NoWriteAhead DEF WriteAccount
<1>3. Handling(g) /\ Handling(h)  BY DEF Handling
<1>4. hook'[h].pc # "write"
  <2>1. hook[h] \in HookStates /\ hook \in [Handlers -> HookStates \cup {Idle}]
    BY <1>1, HookTyped DEF IInv, TypeOK
  <2>2. hook' = [hook EXCEPT ![h] = [hook[h] EXCEPT !.pc = Forward(h)]]
    BY <2>1 DEF WriteAccount, Advance
  <2>3. hook'[h].pc = Forward(h)  BY <2>1, <2>2 DEF HookStates
  <2> QED  BY <1>1, <2>3, NotToWrite
<1>5. g # h => hook'[h] = hook[h]  BY <1>3, HandlingMoves
<1> QED  BY <1>1, <1>4, <1>5

LEMMA HandledFinite ==
    ASSUME Origins, NEW p \in Purchases
    PROVE  IsFiniteSet(Handled(p)) /\ Cardinality(Handled(p)) \in Nat
<1>1. Handled(p) \subseteq emitted  BY DEF Handled
<1> QED  BY <1>1, NoMore DEF Origins

LEMMA HandledStayGranted ==
    ASSUME AckInv, [Next]_vars
    PROVE  HandledAreGranted'
<1>1. IInv /\ Origins /\ Origins'  BY OriginsStay DEF AckInv
<1> SUFFICES ASSUME used'["db"] = 0, NEW p \in Purchases
             PROVE  Cardinality(Handled(p)') <= grants'[p]
  BY DEF HandledAreGranted
<1>2. used["db"] = 0 /\ ~Fault("db")
  <2>1. used["db"] \in Nat /\ used'["db"] >= used["db"]  BY <1>1, UsedGrows DEF Faults
  <2>2. used \in [Faults -> Nat]  BY <1>1 DEF IInv, TypeOK
  <2> QED  BY <2>1, <2>2 DEF Fault, Faults
<1>3. PICK S : S = Handled(p)  OBVIOUS
<1>4. PICK T : T = Handled(p)'  OBVIOUS
<1>5. IsFiniteSet(S) /\ Cardinality(S) \in Nat  BY <1>1, <1>3, HandledFinite
<1>6. Cardinality(S) <= grants[p]  BY <1>2, <1>3 DEF AckInv, HandledAreGranted
<1>7. grants[p] \in Nat /\ grants'[p] \in Nat /\ grants'[p] >= grants[p]  BY <1>1, GrantsMove
<1>8. \A e \in T : e \in S \/ \E h \in Handlers : WriteAccount(h) /\ P(h) = p /\ hook[h].ev = e
  BY <1>1, <1>3, <1>4, HandledFrom
<1>9. ASSUME NEW h \in Handlers, WriteAccount(h), P(h) = p
      PROVE  Cardinality(T) <= grants'[p]
  <2>1. grants'[p] = grants[p] + 1  BY <1>1, <1>2, <1>9, GrantsMove
  <2>2. PICK x : x = hook[h].ev  OBVIOUS
  <2>3. T \subseteq S \cup {x}  BY <1>1, <1>8, <1>9, <2>2, OneWrites
  <2>4. Cardinality(T) \in Nat /\ Cardinality(T) <= Cardinality(S) + 1
    BY <1>5, <2>3, OneMore
  <2> QED  BY <1>5, <1>6, <1>7, <2>1, <2>4
<1>10. CASE \A h \in Handlers : ~(WriteAccount(h) /\ P(h) = p)
  <2>1. T \subseteq S  BY <1>8, <1>10
  <2>2. Cardinality(T) \in Nat /\ Cardinality(T) <= Cardinality(S)  BY <1>5, <2>1, NoMore
  <2> QED  BY <1>4, <1>5, <1>6, <1>7, <2>2
<1> QED  BY <1>4, <1>9, <1>10

\* How a transaction changes.
LEMMA TransactionsMove ==
    ASSUME IInv, [Next]_vars, NEW p \in Purchases, tx'[p] # tx[p]
    PROVE  \/ buy[p].pc # "done"
           \/ \E h \in Handlers : MarkTransaction(h) /\ P(h) = p
<1>1. tx \in [Purchases -> Transactions \cup {None}]  BY DEF IInv, TypeOK
<1>2. ASSUME NEW q \in Purchases, Buying(q) PROVE q = p /\ buy[p].pc # "done"
  BY <1>1, <1>2 DEF Buying, StartBuy, CreateTransaction, OpenSession, UpdateTransaction,
     CreateOrder, db
<1>3. ASSUME NEW q \in Purchases, Pay(q) \/ Cancel(q) \/ Recharge(q) PROVE FALSE
  BY <1>3 DEF Pay, Cancel, Recharge, db
<1>4. ASSUME NEW h \in Handlers, Handling(h) PROVE MarkTransaction(h) /\ P(h) = p
  <2>1. MarkTransaction(h)
    BY <1>4 DEF Handling, Capture, FindOrder, ReadAccount, WriteAccount,
       SendMail, Notify, UpsertSubscriber, DebitNotice, Respond, db
  <2> QED  BY <1>1, <2>1 DEF MarkTransaction
<1>5. ASSUME NEW h \in Handlers, NEW e \in emitted, Deliver(h, e) \/ Duplicate(h, e)
      PROVE  FALSE
  BY <1>5 DEF Deliver, Duplicate, db
<1>6. CASE Checking \/ Tick \/ Crash \/ UNCHANGED vars
  BY <1>6 DEF Checking, CronStart, CronMail, CronEnd, Tick, Crash, vars, db
<1> QED  BY <1>2, <1>3, <1>4, <1>5, <1>6 DEF Next

\* A hook that may mark the transaction of a charge that webhooks announce is a
\* webhook itself: such a purchase needs no capture.
LEMMA MarksAsWebhook ==
    ASSUME IInv, Origins, NEW e \in emitted, e.type \in Marking,
           NEW h \in Handlers, hook[h].pc = "mark", P(h) = e.p
    PROVE  PaidStatus(h) = "Completed"
<1>1. EventKnown(e) /\ CaptureKnown(h)  BY DEF Origins
<1>2. ~NeedsCapture(e.p)  BY <1>1 DEF EventKnown, Marking, NeedsCapture
<1>3. hook[h].ev.type # "capture"  BY <1>1, <1>2 DEF CaptureKnown
<1> QED  BY <1>3 DEF PaidStatus

LEMMA StaysCompleted ==
    ASSUME IInv, Origins, [Next]_vars, NEW e \in emitted, e.type \in Marking, Completed(e.p)
    PROVE  Completed(e.p)'
<1>1. PICK p \in Purchases : p = e.p /\ buy[p].pc = "done"
  BY DEF IInv, TypeOK, EventInv, Events
<1>2. tx[p] \in Transactions /\ tx \in [Purchases -> Transactions \cup {None}]
  <2>1. tx[p] \in [status : Statuses, price : {Cost(p)}]  BY <1>1 DEF IInv, RowsInv, RowsOK
  <2>2. tx \in [Purchases -> Transactions \cup {None}]  BY DEF IInv, TypeOK
  <2>3. buy[p].time \in Times  BY <1>1 DEF IInv, BuyInv
  <2>4. Cost(p) \in Nat  BY <2>3, CostNat DEF IInv
  <2> QED  BY <2>1, <2>2, <2>4 DEF Transactions
<1>3. ASSUME NEW h \in Handlers, MarkTransaction(h), P(h) = p, tx'[p] # tx[p]
      PROVE  tx'[p].status = "Completed"
  <2>1. hook[h].pc = "mark"  BY <1>3 DEF MarkTransaction, At
  <2>2. PaidStatus(h) = "Completed"  BY <1>1, <1>3, <2>1, MarksAsWebhook
  <2>3. tx' = [tx EXCEPT ![p] = [tx[p] EXCEPT !.status = "Completed"]]
    BY <1>2, <1>3, <2>2 DEF MarkTransaction
  <2> QED  BY <1>2, <2>3 DEF Transactions
<1>4. tx'[p].status = "Completed"  BY <1>1, <1>3, TransactionsMove DEF Completed
<1> QED  BY <1>1, <1>4 DEF Completed

\* The step that lets a hook be past its mark, without a database error.
LEMMA MarkCompletes ==
    ASSUME IInv, Origins, NEW h \in Handlers, MarkTransaction(h), ~Fault("db"),
           NEW e \in emitted, e = hook[h].ev, e.type \in Marking
    PROVE  Completed(e.p)'
<1>1. hook[h].pc = "mark"  BY DEF MarkTransaction, At
<1>2. PICK p \in Purchases : p = P(h) /\ buy[p].pc = "done" /\ hook[h].ev \in emitted
  BY <1>1, HookTyped
<1>3. tx[p] \in [status : Statuses, price : {Cost(p)}]  BY <1>2 DEF IInv, RowsInv, RowsOK
<1>4. Cost(p) \in Nat
  <2>1. buy[p].time \in Times  BY <1>2 DEF IInv, BuyInv
  <2> QED  BY <2>1, CostNat DEF IInv
<1>5. tx[p] \in Transactions /\ tx[p] # None
  BY <1>3, <1>4, NoneAssumption DEF Transactions
<1>6. PaidStatus(h) = "Completed"  BY <1>1, <1>2, MarksAsWebhook DEF P
<1>7. tx' = [tx EXCEPT ![p] = [tx[p] EXCEPT !.status = "Completed"]]
  <2>1. tx \in [Purchases -> Transactions \cup {None}]  BY DEF IInv, TypeOK
  <2> QED  BY <1>2, <1>5, <1>6, <2>1 DEF MarkTransaction
<1>8. tx'[p].status = "Completed"
  <2>1. tx \in [Purchases -> Transactions \cup {None}]  BY DEF IInv, TypeOK
  <2> QED  BY <1>5, <1>7, <2>1 DEF Transactions
<1> QED  BY <1>2, <1>8 DEF Completed, P

LEMMA MarkedStayCompleted ==
    ASSUME AckInv, [Next]_vars
    PROVE  MarkedAreCompleted'
<1>1. IInv /\ Origins  BY DEF AckInv
<1> SUFFICES ASSUME used'["db"] = 0, NEW e \in emitted', e.type \in Marking, Marked(e)'
             PROVE  Completed(e.p)'
  BY DEF MarkedAreCompleted
<1>2. used["db"] = 0 /\ ~Fault("db")
  <2>1. used["db"] \in Nat /\ used'["db"] >= used["db"]  BY <1>1, UsedGrows DEF Faults
  <2>2. used \in [Faults -> Nat]  BY <1>1 DEF IInv, TypeOK
  <2> QED  BY <2>1, <2>2 DEF Fault, Faults
<1>3. ASSUME e \in emitted, Marked(e) PROVE Completed(e.p)'
  <2>1. Completed(e.p)  BY <1>2, <1>3 DEF AckInv, MarkedAreCompleted
  <2> QED  BY <1>1, <1>3, <2>1, StaysCompleted
<1>4. CASE e \in closed  BY <1>1, <1>3, <1>4 DEF Origins, Marked
<1>5. ASSUME NEW h \in Handlers, hook[h].pc \in MarkedSteps, hook[h].ev = e
      PROVE  Completed(e.p)'
  <2>1. e \in emitted  BY <1>1, <1>5, HookTyped DEF MarkedSteps
  <2> QED  BY <1>3, <1>5, <2>1 DEF Marked
<1>6. CASE e \in closed' /\ e \notin closed
  <2>1. PICK h \in Handlers : hook[h].pc = "respond" /\ hook[h].ev = e
    BY <1>1, <1>6, ClosesByAnswer DEF Marking
  <2> QED  BY <1>5, <2>1 DEF MarkedSteps
<1>7. ASSUME NEW h \in Handlers, hook'[h].pc \in MarkedSteps, hook'[h].ev = e
      PROVE  Completed(e.p)'
  <2>1. hook'[h].pc # "idle"  BY <1>7 DEF MarkedSteps
  <2>2. CASE hook'[h] = hook[h]  BY <1>5, <1>7, <2>2
  <2>3. CASE Handling(h) /\ Goes(h)
    <3>1. /\ hook[h].ev = e /\ hook[h].pc \in Steps(e.type) \ {"respond"}
          /\ Route[e.type][hook[h].pc] \in MarkedSteps
      BY <1>7, <2>3 DEF Goes, Forward
    <3>2. e.type \in EventTypes  BY DEF Marking, EventTypes
    <3>3. hook[h].pc \in MarkedSteps \cup {"mark"}  BY <3>1, <3>2, RouteOnward
    <3>4. CASE hook[h].pc = "mark"
      <4>1. MarkTransaction(h)
        BY <2>3, <3>4 DEF Handling, At, Capture, FindOrder, ReadAccount, WriteAccount,
           SendMail, Notify, UpsertSubscriber, DebitNotice, Respond
      <4>2. e \in emitted  BY <1>1, <3>1, <3>4, HookTyped
      <4> QED  BY <1>1, <1>2, <3>1, <4>1, <4>2, MarkCompletes
    <3> QED  BY <1>5, <3>1, <3>3, <3>4
  <2>4. ASSUME NEW x \in emitted, hook'[h] = Started(x) PROVE FALSE
    <3>1. x = e /\ hook'[h].pc = Route[e.type].start  BY <1>7, <2>4 DEF Started
    <3>2. e.type \in Webhooks  BY DEF Marking, Webhooks, Granting
    <3> QED  BY <1>7, <3>1, <3>2, RouteBegins DEF MarkedSteps
  <2> QED  BY <1>1, <2>1, <2>2, <2>3, <2>4, HookComes
<1>8. e \in closed' \/ \E h \in Handlers : hook'[h].pc \in MarkedSteps /\ hook'[h].ev = e
  BY DEF Marked
<1> QED  BY <1>4, <1>6, <1>7, <1>8

LEMMA AckInvariant == Spec => []AckInv
<1>1. ASSUME Init PROVE HandledAreGranted /\ MarkedAreCompleted
  <2>1. emitted = {} /\ \A p \in Purchases : grants[p] = 0  BY <1>1 DEF Init
  <2>2. \A p \in Purchases : Handled(p) = {}  BY <2>1 DEF Handled
  <2> QED  BY <2>1, <2>2, FS_EmptySet DEF HandledAreGranted, MarkedAreCompleted
<1>2. ASSUME AckInv, [Next]_vars PROVE HandledAreGranted' /\ MarkedAreCompleted'
  BY <1>2, HandledStayGranted, MarkedStayCompleted
<1> QED  BY <1>1, <1>2, OriginsInvariant, PTL DEF Spec, AckInv

\* A webhook that was answered with success has done its work, unless a
\* database call failed: as many extensions as acknowledged payment events, and
\* a charge's transaction is completed.
THEOREM AnswersAreTrue == Spec => []AckedIsGranted
<1>1. ASSUME AckInv PROVE AckedIsGranted
  <2> SUFFICES ASSUME used["db"] = 0, NEW p \in Purchases
      PROVE  /\ grants[p] >= Cardinality({e \in closed : /\ e.p = p
                                                         /\ e.type \in Granting \ {"capture"}})
             /\ (\E e \in closed : e.p = p /\ e.type \in {"checkout", "sale"})
                  => tx[p].status = "Completed"
    BY DEF AckedIsGranted
  <2>1. IInv /\ closed \subseteq emitted /\ Origins  BY <1>1 DEF AckInv, Origins
  <2>2. PICK S : S = {e \in closed : e.p = p /\ e.type \in Granting \ {"capture"}}  OBVIOUS
  <2>3. S \subseteq Handled(p)  BY <2>1, <2>2 DEF Handled, Webhooks
  <2>4. Cardinality(S) \in Nat /\ Cardinality(S) <= Cardinality(Handled(p))
        /\ Cardinality(Handled(p)) \in Nat
    BY <2>1, <2>3, HandledFinite, NoMore
  <2>5. Cardinality(Handled(p)) <= grants[p]  BY <1>1 DEF AckInv, HandledAreGranted
  <2>6. grants[p] \in Nat  BY <2>1 DEF IInv, TypeOK
  <2>7. grants[p] >= Cardinality(S)  BY <2>4, <2>5, <2>6
  <2>8. ASSUME NEW e \in closed, e.p = p, e.type \in {"checkout", "sale"}
        PROVE  tx[p].status = "Completed"
    BY <1>1, <2>1, <2>8 DEF AckInv, MarkedAreCompleted, Marked, Marking, Completed
  <2> QED  BY <2>2, <2>7, <2>8
<1> QED  BY <1>1, AckInvariant, PTL

-----------------------------------------------------------------------------
(* ExtraGrantsNeedFaults.  The extensions written and those a hook in       *)
(* flight may still write are at most the payment events taken and the     *)
(* faults spent: a delivery takes an event or spends a duplicate, and an   *)
(* event taken is free again only when its hook failed, which spends the   *)
(* hook's chance to write or a fault, or when the process crashed.         *)

EarlySteps == {"find", "mark", "read", "write"}

\* The hooks that may still extend the account for p.
Pending(p) == {h \in Handlers : hook[h].pc \in EarlySteps /\ hook[h].ev.p = p}

\* The payment events of p that were delivered and are not due again; a one-off
\* PayPal payment is taken by its capture.
Taken(p) ==
    {e \in emitted :
       \/ /\ e.p = p /\ e.type \in Webhooks
          /\ \/ e \in closed
             \/ \E h \in Handlers : hook[h].pc # "idle" /\ hook[h].ev = e
       \/ e = Event("capture", p, 1) /\ NeedsCapture(p) /\ Charged(p)}

Budget == used["dup"] + used["mail"] + used["db"] + Cardinality(Handlers) * used["crash"]

GrantsPaid(p) ==
    grants[p] + Cardinality(Pending(p)) <= Cardinality(Taken(p)) + Budget

GrantsArePaid == \A p \in Purchases : GrantsPaid(p)

CountInv == IInv /\ Origins /\ GrantsArePaid

\* Products of naturals, for the prover.
LEMMA ProductGrows ==
    \A n, x, y \in Nat : /\ n * x \in Nat
                         /\ y >= x => n * y >= n * x
                         /\ n * (x + 1) = n * x + n
<1>1. \A n, x \in Nat : n * x \in Nat  BY SMT
<1>2. \A n, x \in Nat : n * (x + 1) = n * x + n  BY SMT
<1>3. \A n, x, d \in Nat : n * (x + d) = n * x + n * d  BY SMT
<1>4. ASSUME NEW n \in Nat, NEW x \in Nat, NEW y \in Nat, y >= x PROVE n * y >= n * x
  <2>1. PICK d \in Nat : y = x + d
    <3>1. y - x \in Nat /\ y = x + (y - x)  BY <1>4
    <3> QED  BY <3>1
  <2>2. n * y = n * x + n * d /\ n * x \in Nat /\ n * d \in Nat  BY <1>1, <1>3, <2>1
  <2> QED  BY <2>2
<1> QED  BY <1>1, <1>2, <1>4

LEMMA FiniteCounts ==
    ASSUME Origins, NEW p \in Purchases
    PROVE  /\ IsFiniteSet(Pending(p)) /\ Cardinality(Pending(p)) \in Nat
           /\ IsFiniteSet(Taken(p)) /\ Cardinality(Taken(p)) \in Nat
           /\ Cardinality(Handlers) \in Nat
<1>1. Pending(p) \subseteq Handlers /\ Taken(p) \subseteq emitted  BY DEF Pending, Taken
<1>2. IsFiniteSet(Handlers) /\ IsFiniteSet(emitted)  BY ConstantsAssumption DEF Origins
<1> QED  BY <1>1, <1>2, NoMore

LEMMA BudgetGrows ==
    ASSUME IInv, [Next]_vars
    PROVE  /\ Budget \in Nat /\ Budget' \in Nat /\ Budget' >= Budget
           /\ \A f \in {"dup", "mail", "db"} : Fault(f) => Budget' >= Budget + 1
           /\ Fault("crash") => Budget' >= Budget + Cardinality(Handlers)
<1> DEFINE n == Cardinality(Handlers)
<1>1. n \in Nat  BY ConstantsAssumption, FS_CardinalityType
<1>2. \A f \in Faults : used[f] \in Nat /\ used'[f] \in Nat /\ used'[f] >= used[f]
  BY UsedGrows
<1>3. used \in [Faults -> Nat]  BY DEF IInv, TypeOK
<1>4. \A f \in Faults : Fault(f) => used'[f] = used[f] + 1  BY <1>3 DEF Fault
<1> HIDE DEF n
<1>5. /\ n * used["crash"] \in Nat /\ n * used'["crash"] \in Nat
      /\ n * used'["crash"] >= n * used["crash"]
      /\ Fault("crash") => n * used'["crash"] = n * used["crash"] + n
  BY <1>1, <1>2, <1>4, ProductGrows DEF Faults
<1>6. /\ used["dup"] \in Nat /\ used["mail"] \in Nat /\ used["db"] \in Nat
      /\ used'["dup"] \in Nat /\ used'["mail"] \in Nat /\ used'["db"] \in Nat
      /\ used'["dup"] >= used["dup"] /\ used'["mail"] >= used["mail"]
      /\ used'["db"] >= used["db"]
      /\ Fault("dup") => used'["dup"] = used["dup"] + 1
      /\ Fault("mail") => used'["mail"] = used["mail"] + 1
      /\ Fault("db") => used'["db"] = used["db"] + 1
  BY <1>2, <1>4 DEF Faults
<1>7. PICK a, b \in Nat : a = n * used["crash"] /\ b = n * used'["crash"]  BY <1>5
<1>8. /\ Budget = used["dup"] + used["mail"] + used["db"] + a
      /\ Budget' = used'["dup"] + used'["mail"] + used'["db"] + b
  BY <1>7 DEF Budget, n
<1>9. b >= a /\ (Fault("crash") => b = a + n)  BY <1>5, <1>7
<1>10. Budget \in Nat /\ Budget' \in Nat /\ Budget' >= Budget  BY <1>6, <1>7, <1>8, <1>9
<1>11. Fault("dup") => Budget' >= Budget + 1  BY <1>6, <1>7, <1>8, <1>9
<1>12. Fault("mail") => Budget' >= Budget + 1  BY <1>6, <1>7, <1>8, <1>9
<1>13. Fault("db") => Budget' >= Budget + 1  BY <1>6, <1>7, <1>8, <1>9
<1>14. Fault("crash") => Budget' >= Budget + n  BY <1>1, <1>6, <1>7, <1>8, <1>9
<1> QED  BY <1>10, <1>11, <1>12, <1>13, <1>14 DEF n

\* The two sides of the bound, before and after a step.
LEMMA Balance ==
    ASSUME CountInv, [Next]_vars, NEW p \in Purchases, NEW d \in Int,
           grants'[p] + Cardinality(Pending(p)') <= grants[p] + Cardinality(Pending(p)) + d,
           Cardinality(Taken(p)') + Budget' >= Cardinality(Taken(p)) + Budget + d
    PROVE  GrantsPaid(p)'
<1>1. IInv /\ Origins /\ Origins' /\ GrantsPaid(p)  BY OriginsStay DEF CountInv, GrantsArePaid
<1>2. grants[p] \in Nat /\ grants'[p] \in Nat  BY <1>1, GrantsMove
<1>3. Budget \in Nat /\ Budget' \in Nat  BY <1>1, BudgetGrows
<1>4. Cardinality(Pending(p)) \in Nat /\ Cardinality(Taken(p)) \in Nat
  BY <1>1, FiniteCounts
<1>5. Cardinality(Pending(p)') \in Nat /\ Cardinality(Taken(p)') \in Nat
  <2>1. Pending(p)' \subseteq Handlers /\ Taken(p)' \subseteq emitted'
    BY DEF Pending, Taken
  <2>2. IsFiniteSet(Handlers) /\ IsFiniteSet(emitted')
    BY <1>1, ConstantsAssumption DEF Origins
  <2> QED  BY <2>1, <2>2, NoMore
<1>6. PICK a, b, c, e \in Nat :
        /\ a = Cardinality(Pending(p)) /\ b = Cardinality(Taken(p))
        /\ c = Cardinality(Pending(p)') /\ e = Cardinality(Taken(p)')
  BY <1>4, <1>5
<1>7. grants[p] + a <= b + Budget  BY <1>1, <1>6 DEF GrantsPaid
<1>8. grants'[p] + c <= grants[p] + a + d /\ e + Budget' >= b + Budget + d  BY <1>6
<1>9. grants'[p] + c <= e + Budget'  BY <1>2, <1>3, <1>6, <1>7, <1>8
<1> QED  BY <1>6, <1>9 DEF GrantsPaid

LEMMA RouteCounts == \A t \in EventTypes :
    /\ Route[t].start \in EarlySteps <=> t \in Webhooks
    /\ "capture" \in Steps(t) <=> t = "capture"
    /\ "idle" \notin Steps(t)
    /\ \A s \in Steps(t) \ {"respond"} :
         /\ Route[t][s] # s /\ Route[t][s] # "idle"
         /\ Route[t][s] \in EarlySteps => s \in EarlySteps \cup {"capture"}
         /\ s = "write" => Route[t][s] \notin EarlySteps
         /\ s \in EarlySteps \ {"write"} \/ s \in LateSteps \/ s \in {"capture", "write"}
BY SMTT(60) DEF Route, CheckoutRoute, CreatedRoute, SaleRoute, ActivatedRoute, CaptureRoute,
   Steps, EventTypes, Webhooks, Granting, EarlySteps, LateSteps

\* A hook that does something changes, so one does at a time.
LEMMA HandlingChanges ==
    ASSUME IInv, NEW h \in Handlers, Handling(h)
    PROVE  hook'[h] # hook[h]
<1>1. hook[h].pc # "idle"  BY HandlingMoves
<1>2. hook[h].ev.type \in EventTypes  BY <1>1, HookTyped
<1>3. Goes(h) => hook'[h].pc # hook[h].pc  BY <1>2, RouteCounts DEF Goes, Forward
<1> QED  BY <1>1, <1>3, HandlingMoves DEF Idle

LEMMA OneHandles ==
    ASSUME IInv, NEW g \in Handlers, NEW h \in Handlers, Handling(g), Handling(h)
    PROVE  g = h
BY HandlingMoves, HandlingChanges

\* A charge is not taken back.
LEMMA ChargedStays ==
    ASSUME IInv, [Next]_vars, NEW p \in Purchases, Charged(p)
    PROVE  Charged(p)'
<1>1. buy[p].pc = "done" /\ session[p].status = "paid"
  BY DEF Charged, IInv, RowsInv, RowsOK
<1>2. ~OpenSession(p) /\ ~Pay(p)  BY <1>1 DEF OpenSession, Pay
<1>3. ASSUME NEW h \in Handlers, Capture(h), P(h) = p PROVE session' = session
  BY <1>1, <1>3 DEF Capture
<1>4. session'[p].status = session[p].status  BY <1>2, <1>3, SessionsMove
<1> QED  BY <1>1, <1>4 DEF Charged

\* An event taken is free again only if its hook ended without an answer.
LEMMA TakenFrom ==
    ASSUME IInv, Origins, [Next]_vars, NEW p \in Purchases, NEW e \in Taken(p),
           e \notin Taken(p)'
    PROVE  /\ e.type \in Webhooks /\ e.p = p /\ e \notin closed'
           /\ \E h \in Handlers : hook[h].pc # "idle" /\ hook[h].ev = e /\ hook'[h] = Idle
<1>1. e \in emitted'  BY DoneStays DEF Taken
<1>2. CASE e = Event("capture", p, 1) /\ NeedsCapture(p) /\ Charged(p)
  <2>1. buy[p].pc = "done"  BY <1>2 DEF Charged, IInv, RowsInv, RowsOK
  <2>2. NeedsCapture(p)' /\ Charged(p)'  BY <1>2, <2>1, DoneStays, ChargedStays
  <2>3. e = Event("capture", p, 1)'  BY <1>2 DEF Event
  <2> QED  BY <1>1, <2>2, <2>3 DEF Taken
<1>3. CASE /\ e.p = p /\ e.type \in Webhooks
           /\ \/ e \in closed
              \/ \E h \in Handlers : hook[h].pc # "idle" /\ hook[h].ev = e
  <2>1. e \notin closed'  BY <1>1, <1>3 DEF Taken
  <2>2. e \notin closed  BY <2>1, ClosedAreEmitted
  <2>3. PICK h \in Handlers : hook[h].pc # "idle" /\ hook[h].ev = e  BY <1>3, <2>2
  <2>4. ~(hook'[h].pc # "idle" /\ hook'[h].ev = e)  BY <1>1, <1>3 DEF Taken
  <2>5. hook \in [Handlers -> HookStates \cup {Idle}] /\ hook[h] # Idle
    BY <2>3 DEF IInv, TypeOK, Idle
  <2>6. hook[h].ev.type \in EventTypes  BY <2>3, HookTyped
  <2>7. ASSUME NEW i \in Handlers, Handling(i) PROVE hook'[h] = Idle
    <3>1. i = h  BY <2>3, <2>4, <2>7, HandlingMoves
    <3>2. ~Goes(h)  BY <2>3, <2>4, <2>6, RouteCounts DEF Goes, Forward
    <3> QED  BY <2>7, <3>1, <3>2, HandlingMoves
  <2>8. ASSUME NEW i \in Handlers, NEW x \in emitted, Deliver(i, x) \/ Duplicate(i, x)
        PROVE  FALSE
    <3>1. hook[i] = Idle /\ hook' = [hook EXCEPT ![i] = Started(x)]
      BY <2>8 DEF Deliver, Duplicate
    <3>2. hook'[h] = hook[h]  BY <2>5, <3>1
    <3> QED  BY <2>3, <2>4, <3>2
  <2>9. hook'[h] = Idle
    BY <2>3, <2>4, <2>7, <2>8, HooksMove DEF Crash
  <2> QED  BY <1>3, <2>1, <2>3, <2>9
<1> QED  BY <1>2, <1>3 DEF Taken

\* Who may write for p could before, or was just delivered, or has captured.
LEMMA PendingFrom ==
    ASSUME IInv, [Next]_vars, NEW p \in Purchases, NEW h \in Pending(p)', h \notin Pending(p)
    PROVE  /\ h \in Handlers
           /\ \/ Capture(h) /\ Goes(h) /\ P(h) = p
              \/ \E e \in emitted : /\ e.p = p /\ e.type \in Webhooks /\ hook[h] = Idle
                                    /\ hook'[h] = Started(e)
                                    /\ Deliver(h, e) \/ Duplicate(h, e)
<1>1. h \in Handlers /\ hook'[h].pc \in EarlySteps /\ hook'[h].ev.p = p  BY DEF Pending
<1>2. hook'[h].pc # "idle" /\ hook'[h] # hook[h]  BY <1>1 DEF Pending, EarlySteps
<1>3. ASSUME Handling(h), Goes(h) PROVE Capture(h) /\ P(h) = p
  <2>1. hook[h].ev.type \in EventTypes  BY <1>1, <1>3, HandlingMoves, HookTyped
  <2>2. hook[h].ev.p = p /\ hook[h].pc \in EarlySteps \cup {"capture"}
    BY <1>1, <1>3, <2>1, RouteCounts DEF Goes, Forward
  <2>3. hook[h].pc = "capture"  BY <1>1, <2>2 DEF Pending
  <2>4. Capture(h)
    BY <1>3, <2>3 DEF Handling, At, FindOrder, MarkTransaction, ReadAccount, WriteAccount,
       SendMail, Notify, UpsertSubscriber, DebitNotice, Respond
  <2> QED  BY <2>2, <2>4 DEF P
<1>4. ASSUME NEW e \in emitted, hook'[h] = Started(e)
      PROVE  e.p = p /\ e.type \in Webhooks
  <2>1. e.type \in EventTypes  BY DEF IInv, TypeOK, Events
  <2> QED  BY <1>1, <1>4, <2>1, RouteCounts DEF Started
<1> QED  BY <1>1, <1>2, <1>3, <1>4, HookComes

\* A step after which nobody new may write, and all that was taken is.
LEMMA KeepsBalance ==
    ASSUME CountInv, [Next]_vars, NEW p \in Purchases,
           Pending(p)' \subseteq Pending(p), Taken(p) \subseteq Taken(p)',
           grants'[p] = grants[p]
    PROVE  GrantsPaid(p)'
<1>1. IInv /\ Origins /\ Origins'  BY OriginsStay DEF CountInv
<1>2. PICK S, T : S = Pending(p) /\ T = Pending(p)'  OBVIOUS
<1>3. PICK U, V : U = Taken(p) /\ V = Taken(p)'  OBVIOUS
<1>4. Cardinality(S) \in Nat /\ Cardinality(T) \in Nat /\ Cardinality(T) <= Cardinality(S)
  BY <1>1, <1>2, FiniteCounts, NoMore
<1>5. IsFiniteSet(V)
  <2>1. V \subseteq emitted'  BY <1>3 DEF Taken
  <2> QED  BY <1>1, <2>1, NoMore DEF Origins
<1>6. Cardinality(U) \in Nat /\ Cardinality(V) \in Nat /\ Cardinality(U) <= Cardinality(V)
  BY <1>3, <1>5, NoMore
<1>7. Budget \in Nat /\ Budget' \in Nat /\ Budget' >= Budget  BY <1>1, BudgetGrows
<1>8. grants[p] \in Nat  BY <1>1, GrantsMove
<1>9. grants'[p] + Cardinality(T) <= grants[p] + Cardinality(S) + 0  BY <1>4, <1>8
<1>10. Cardinality(V) + Budget' >= Cardinality(U) + Budget + 0  BY <1>6, <1>7
<1> QED  BY <1>2, <1>3, <1>9, <1>10, Balance

\* Only a write for p extends the account for p.
LEMMA SameGrants ==
    ASSUME IInv, [Next]_vars, NEW p \in Purchases,
           \A h \in Handlers : WriteAccount(h) => P(h) # p
    PROVE  grants'[p] = grants[p]
BY GrantsMove

LEMMA HandlingTakes ==
    ASSUME IInv, Origins, [Next]_vars, NEW p \in Purchases, NEW h \in Handlers, Handling(h),
           NEW e \in Taken(p), e \notin Taken(p)'
    PROVE  /\ e = hook[h].ev /\ e.p = p /\ e.type \in Webhooks
           /\ Throw(h) /\ ~Respond(h)
<1>1. /\ e.type \in Webhooks /\ e.p = p /\ e \notin closed'
      /\ \E i \in Handlers : hook[i].pc # "idle" /\ hook[i].ev = e /\ hook'[i] = Idle
  BY TakenFrom
<1>2. hook[h].ev = e /\ hook'[h] = Idle
  <2>1. PICK i \in Handlers : hook[i].pc # "idle" /\ hook[i].ev = e /\ hook'[i] = Idle
    BY <1>1
  <2>2. hook[i] # Idle  BY <2>1 DEF Idle
  <2> QED  BY <2>1, <2>2, HandlingMoves
<1>3. hook[h].ev.type \in EventTypes  BY HandlingMoves, HookTyped
<1>4. ~Goes(h)
  <2>1. Goes(h) => hook'[h].pc # "idle"  BY <1>3, RouteCounts DEF Goes, Forward
  <2> QED  BY <1>2, <2>1 DEF Idle
<1>5. ~Respond(h)  BY <1>1, <1>2 DEF Respond
<1> QED  BY <1>1, <1>2, <1>4, <1>5, HandlingMoves

LEMMA HandlingPends ==
    ASSUME IInv, [Next]_vars, NEW p \in Purchases, NEW h \in Handlers, Handling(h),
           NEW g \in Pending(p)', g \notin Pending(p)
    PROVE  g = h /\ Capture(h) /\ Goes(h) /\ P(h) = p
<1>1. ASSUME Capture(g), Goes(g), P(g) = p PROVE g = h
  <2>1. g \in Handlers /\ Handling(g)  BY <1>1 DEF Handling, Pending
  <2> QED  BY <2>1, OneHandles
<1>2. ASSUME NEW e \in emitted, Deliver(g, e) \/ Duplicate(g, e), hook[g] = Idle,
             g \in Handlers
      PROVE  FALSE
  <2>1. hook' = [hook EXCEPT ![g] = Started(e)]  BY <1>2 DEF Deliver, Duplicate
  <2>2. g # h  BY <1>2, HandlingMoves DEF Idle
  <2>3. hook'[h] = hook[h]  BY <2>1, <2>2 DEF IInv, TypeOK
  <2> QED  BY <2>3, HandlingChanges
<1> QED  BY <1>1, <1>2, PendingFrom

\* To go on is not to fail.
LEMMA NotBoth ==
    ASSUME IInv, NEW h \in Handlers, Handling(h), Advance(h), hook[h].pc # "respond"
    PROVE  ~Throw(h)
<1>1. hook[h].pc # "idle"  BY HandlingMoves
<1>2. hook[h].ev.type \in EventTypes /\ hook[h].pc \in Steps(hook[h].ev.type)
  BY <1>1, HookTyped DEF IInv, HookInv, HookOK
<1>3. hook[h] \in HookStates /\ hook \in [Handlers -> HookStates \cup {Idle}]
  BY <1>1, HookTyped DEF IInv, TypeOK
<1>4. hook' = [hook EXCEPT ![h] = [hook[h] EXCEPT !.pc = Forward(h)]]
  BY <1>3 DEF Advance
<1>5. hook'[h].pc = Forward(h)  BY <1>3, <1>4 DEF HookStates
<1>6. Forward(h) # "idle"  BY <1>2, RouteCounts DEF Forward
<1> QED  BY <1>3, <1>5, <1>6 DEF Throw, Idle

LEMMA CaptureCounts ==
    ASSUME CountInv, [Next]_vars, NEW p \in Purchases, NEW h \in Handlers, Capture(h),
           P(h) = p, session' # session
    PROVE  GrantsPaid(p)'
<1>1. IInv /\ Origins /\ Origins' /\ Handling(h)  BY OriginsStay DEF CountInv, Handling
<1>2. hook[h].pc = "capture"  BY DEF Capture, At
<1>3. hook[h].ev.type = "capture"
  <2>1. hook[h].ev.type \in EventTypes /\ hook[h].pc \in Steps(hook[h].ev.type)
    BY <1>1, <1>2, HookTyped DEF IInv, HookInv, HookOK
  <2> QED  BY <1>2, <2>1, RouteCounts
<1>4. PICK c : c = Event("capture", p, 1)  OBVIOUS
<1>5. /\ session[p].status = "approved" /\ session'[p].status = "paid"
      /\ buy' = buy /\ emitted' = emitted
  <2>1. session' = [session EXCEPT ![p].status = "paid", ![p].charges = 1]
        /\ session[p].status = "approved" /\ buy' = buy /\ emitted' = emitted
    BY DEF Capture
  <2>2. session \in [Purchases -> Sessions]  BY <1>1 DEF IInv, TypeOK
  <2> QED  BY <2>1, <2>2 DEF Sessions
<1>6. c \in emitted /\ NeedsCapture(p) /\ ~Charged(p)
  <2>1. SessionKnown(p)  BY <1>1 DEF Origins
  <2> QED  BY <1>4, <1>5, <2>1 DEF SessionKnown, Charged
<1>7. PICK S, T : S = Pending(p) /\ T = Pending(p)'  OBVIOUS
<1>8. PICK U, V : U = Taken(p) /\ V = Taken(p)'  OBVIOUS
<1>9. c \notin U
  <2>1. c.type \notin Webhooks  BY <1>4 DEF Event, Webhooks
  <2> QED  BY <1>6, <1>8, <2>1 DEF Taken
<1>10. c \in V
  <2>1. NeedsCapture(p)' /\ Charged(p)'  BY <1>5, <1>6 DEF NeedsCapture, Charged
  <2>2. c = Event("capture", p, 1)'  BY <1>4 DEF Event
  <2> QED  BY <1>5, <1>6, <1>8, <2>1, <2>2 DEF Taken
<1>11. U \subseteq V
  <2>1. hook[h].ev.type \notin Webhooks  BY <1>3 DEF Webhooks
  <2> QED  BY <1>1, <1>8, <2>1, HandlingTakes
<1>12. T \subseteq S \cup {h}  BY <1>1, <1>7, HandlingPends
<1>13. /\ Cardinality(S) \in Nat /\ Cardinality(T) \in Nat
       /\ Cardinality(T) <= Cardinality(S) + 1
  <2>1. IsFiniteSet(S)  BY <1>1, <1>7, FiniteCounts
  <2> QED  BY <1>12, <2>1, OneMore
<1>14. /\ Cardinality(U) \in Nat /\ Cardinality(V) \in Nat
       /\ Cardinality(V) >= Cardinality(U) + 1
  <2>1. IsFiniteSet(U) /\ Cardinality(U) \in Nat  BY <1>1, <1>8, FiniteCounts
  <2>2. PICK W : W = U \cup {c}  OBVIOUS
  <2>3. Cardinality(W) = Cardinality(U) + 1  BY <1>9, <2>1, <2>2, FS_AddElement
  <2>4. V \subseteq emitted'  BY <1>8 DEF Taken
  <2>5. IsFiniteSet(V)  BY <1>1, <2>4, NoMore DEF Origins
  <2>6. W \subseteq V  BY <1>10, <1>11, <2>2
  <2>7. Cardinality(V) \in Nat /\ Cardinality(W) <= Cardinality(V)
    BY <2>5, <2>6, NoMore
  <2> QED  BY <2>1, <2>3, <2>7
<1>15. Budget \in Nat /\ Budget' \in Nat /\ Budget' >= Budget  BY <1>1, BudgetGrows
<1>16. grants'[p] = grants[p] /\ grants[p] \in Nat
  BY <1>1, GrantsMove DEF Capture, history
<1>17. grants'[p] + Cardinality(T) <= grants[p] + Cardinality(S) + 1  BY <1>13, <1>16
<1>18. Cardinality(V) + Budget' >= Cardinality(U) + Budget + 1  BY <1>14, <1>15
<1> QED  BY <1>7, <1>8, <1>17, <1>18, Balance

LEMMA WriteCounts ==
    ASSUME CountInv, [Next]_vars, NEW p \in Purchases, NEW h \in Handlers, WriteAccount(h),
           P(h) = p
    PROVE  GrantsPaid(p)'
<1>1. IInv /\ Origins /\ Origins' /\ Handling(h)  BY OriginsStay DEF CountInv, Handling
<1>2. hook[h].pc = "write" /\ Advance(h)  BY DEF WriteAccount, At
<1>3. PICK S, T : S = Pending(p) /\ T = Pending(p)'  OBVIOUS
<1>4. PICK U, V : U = Taken(p) /\ V = Taken(p)'  OBVIOUS
<1>5. Goes(h)
  <2>1. ~Throw(h) /\ ~Respond(h)  BY <1>1, <1>2, NotBoth DEF Respond, At
  <2> QED  BY <1>1, <2>1, HandlingMoves
<1>6. h \in S  BY <1>2, <1>3 DEF Pending, EarlySteps, P
<1>7. h \notin T
  <2>1. hook[h].ev.type \in EventTypes /\ hook[h].pc \in Steps(hook[h].ev.type)
    BY <1>1, <1>2, HookTyped DEF IInv, HookInv, HookOK
  <2>2. hook'[h].pc \notin EarlySteps  BY <1>2, <1>5, <2>1, RouteCounts DEF Goes, Forward
  <2> QED  BY <1>3, <2>2 DEF Pending
<1>8. T \subseteq S \ {h}
  <2>1. ~Capture(h)  BY <1>2 DEF Capture, At
  <2> QED  BY <1>1, <1>3, <1>7, <2>1, HandlingPends
<1>9. U \subseteq V
  <2>1. ~Throw(h)  BY <1>1, <1>2, NotBoth
  <2> QED  BY <1>1, <1>4, <2>1, HandlingTakes
<1>10. /\ Cardinality(S) \in Nat /\ Cardinality(T) \in Nat
       /\ Cardinality(T) + 1 <= Cardinality(S)
  <2>1. IsFiniteSet(S) /\ Cardinality(S) \in Nat  BY <1>1, <1>3, FiniteCounts
  <2>2. PICK W : W = S \ {h}  OBVIOUS
  <2>3. IsFiniteSet(W) /\ Cardinality(W) = Cardinality(S) - 1
    BY <1>6, <2>1, <2>2, FS_RemoveElement
  <2>4. Cardinality(T) \in Nat /\ Cardinality(T) <= Cardinality(W)  BY <1>8, <2>2, <2>3, NoMore
  <2> QED  BY <2>1, <2>3, <2>4
<1>11. /\ Cardinality(U) \in Nat /\ Cardinality(V) \in Nat
       /\ Cardinality(U) <= Cardinality(V)
  <2>1. V \subseteq emitted'  BY <1>4 DEF Taken
  <2>2. IsFiniteSet(V)  BY <1>1, <2>1, NoMore DEF Origins
  <2> QED  BY <1>9, <2>2, NoMore
<1>12. Budget \in Nat /\ Budget' \in Nat /\ Budget' >= Budget  BY <1>1, BudgetGrows
<1>13. grants[p] \in Nat /\ grants'[p] \in Nat /\ grants'[p] <= grants[p] + 1
  BY <1>1, GrantsMove
<1>14. grants'[p] + Cardinality(T) <= grants[p] + Cardinality(S) + 0  BY <1>10, <1>13
<1>15. Cardinality(V) + Budget' >= Cardinality(U) + Budget + 0  BY <1>11, <1>12
<1> QED  BY <1>3, <1>4, <1>14, <1>15, Balance

\* A hook that fails frees its event: before the write its own chance to write
\* is gone with it, after the write a fault was spent.
LEMMA ThrowCounts ==
    ASSUME CountInv, [Next]_vars, NEW p \in Purchases, NEW h \in Handlers, Handling(h),
           Throw(h), ~Respond(h), P(h) = p, ~WriteAccount(h), hook[h].pc # "capture"
    PROVE  GrantsPaid(p)'
<1>1. IInv /\ Origins /\ Origins'  BY OriginsStay DEF CountInv
<1>2. PICK S, T : S = Pending(p) /\ T = Pending(p)'  OBVIOUS
<1>3. PICK U, V : U = Taken(p) /\ V = Taken(p)'  OBVIOUS
<1>4. PICK x : x = hook[h].ev  OBVIOUS
<1>5. U \subseteq V \cup {x}  BY <1>1, <1>3, <1>4, HandlingTakes
<1>6. T \subseteq S
  <2>1. ~Capture(h)  BY DEF Capture, At
  <2> QED  BY <1>1, <1>2, <2>1, HandlingPends
<1>7. IsFiniteSet(S) /\ Cardinality(S) \in Nat /\ IsFiniteSet(V)
  <2>1. V \subseteq emitted'  BY <1>3 DEF Taken
  <2> QED  BY <1>1, <1>2, <2>1, FiniteCounts, NoMore DEF Origins
<1>8. /\ Cardinality(U) \in Nat /\ Cardinality(V) \in Nat
      /\ Cardinality(U) <= Cardinality(V) + 1
  BY <1>5, <1>7, OneMore
<1>9. Budget \in Nat /\ Budget' \in Nat /\ Budget' >= Budget  BY <1>1, BudgetGrows
<1>10. grants'[p] = grants[p] /\ grants[p] \in Nat
  <2>1. \A i \in Handlers : ~WriteAccount(i)
    BY <1>1, OneHandles DEF Handling
  <2> QED  BY <1>1, <2>1, GrantsMove
<1>11. CASE hook[h].pc \in EarlySteps
  <2>1. h \in S  BY <1>2, <1>11 DEF Pending, P
  <2>2. h \notin T
    <3>1. hook'[h].pc = "idle"
      BY <1>1 DEF Throw, Idle, IInv, TypeOK
    <3> QED  BY <1>2, <3>1 DEF Pending, EarlySteps
  <2>3. PICK W : W = S \ {h}  OBVIOUS
  <2>4. IsFiniteSet(W) /\ Cardinality(W) = Cardinality(S) - 1
    BY <1>7, <2>1, <2>3, FS_RemoveElement
  <2>5. T \subseteq W  BY <1>6, <2>2, <2>3
  <2>6. Cardinality(T) \in Nat /\ Cardinality(T) <= Cardinality(W)  BY <2>4, <2>5, NoMore
  <2>7. grants'[p] + Cardinality(T) <= grants[p] + Cardinality(S) + (-1)
    BY <1>7, <1>10, <2>4, <2>6
  <2>8. Cardinality(V) + Budget' >= Cardinality(U) + Budget + (-1)  BY <1>8, <1>9
  <2> QED  BY <1>2, <1>3, <2>7, <2>8, Balance
<1>12. CASE hook[h].pc \notin EarlySteps
  <2>1. Fault("db") \/ Fault("mail")
    <3>1. SendMail(h) \/ Notify(h) \/ UpsertSubscriber(h) \/ DebitNotice(h)
      BY <1>12 DEF Handling, At, Capture, FindOrder, MarkTransaction, ReadAccount, EarlySteps
    <3>2. hook[h].pc # "respond"
      BY <3>1 DEF At, SendMail, Notify, UpsertSubscriber, DebitNotice
    <3>3. ~Advance(h)  BY <1>1, <3>2, NotBoth
    <3> QED  BY <3>1, <3>3 DEF SendMail, Notify, UpsertSubscriber, DebitNotice
  <2>2. Budget' >= Budget + 1  BY <1>1, <2>1, BudgetGrows
  <2>3. Cardinality(T) \in Nat /\ Cardinality(T) <= Cardinality(S)  BY <1>6, <1>7, NoMore
  <2>4. grants'[p] + Cardinality(T) <= grants[p] + Cardinality(S) + 0
    BY <1>7, <1>10, <2>3
  <2>5. Cardinality(V) + Budget' >= Cardinality(U) + Budget + 0  BY <1>8, <1>9, <2>2
  <2> QED  BY <1>2, <1>3, <2>4, <2>5, Balance
<1> QED  BY <1>11, <1>12

LEMMA HandlingCounts ==
    ASSUME CountInv, [Next]_vars, NEW p \in Purchases, NEW h \in Handlers, Handling(h)
    PROVE  GrantsPaid(p)'
<1>1. IInv /\ Origins  BY DEF CountInv
<1>2. CASE WriteAccount(h) /\ P(h) = p  BY <1>2, WriteCounts
<1>3. CASE Capture(h) /\ P(h) = p /\ session' # session
  BY <1>3, CaptureCounts
<1>4. CASE /\ ~(WriteAccount(h) /\ P(h) = p)
           /\ ~(Capture(h) /\ P(h) = p /\ session' # session)
  <2>1. grants'[p] = grants[p]
    <3>1. \A i \in Handlers : WriteAccount(i) => i = h  BY <1>1, OneHandles DEF Handling
    <3> QED  BY <1>1, <1>4, <3>1, SameGrants
  <2>2. Pending(p)' \subseteq Pending(p)
    <3> SUFFICES ASSUME NEW g \in Pending(p)', g \notin Pending(p) PROVE FALSE
      OBVIOUS
    <3>1. Capture(h) /\ Goes(h) /\ P(h) = p  BY <1>1, HandlingPends
    <3>2. Throw(h)
      <4>1. session' = session /\ session \in [Purchases -> Sessions]
        BY <1>1, <1>4, <3>1 DEF IInv, TypeOK
      <4>2. ~(session[p].status = "approved"
              /\ session' = [session EXCEPT ![p].status = "paid", ![p].charges = 1])
        BY <4>1 DEF Sessions
      <4> QED  BY <3>1, <4>2 DEF Capture
    <3>3. hook[h].ev.type \in EventTypes /\ hook[h].pc # "idle"
      BY <1>1, HandlingMoves, HookTyped
    <3>4. hook'[h].pc # "idle"  BY <3>1, <3>3, RouteCounts DEF Goes, Forward
    <3> QED  BY <1>1, <3>2, <3>4 DEF Throw, Idle, IInv, TypeOK
  <2>3. CASE Taken(p) \subseteq Taken(p)'
    BY <2>1, <2>2, <2>3, KeepsBalance
  <2>4. CASE ~(Taken(p) \subseteq Taken(p)')
    <3>1. PICK e \in Taken(p) : e \notin Taken(p)'  BY <2>4
    <3>2. /\ e = hook[h].ev /\ e.p = p /\ e.type \in Webhooks
          /\ Throw(h) /\ ~Respond(h)
      BY <1>1, <3>1, HandlingTakes
    <3>3. P(h) = p  BY <3>2 DEF P
    <3>4. hook[h].pc # "capture"
      <4>1. hook[h].pc \in Steps(e.type)
        BY <1>1, <3>2, HandlingMoves DEF IInv, HookInv, HookOK
      <4>2. e.type \in EventTypes /\ e.type # "capture"
        BY <3>2 DEF Webhooks, Granting, EventTypes
      <4> QED  BY <4>1, <4>2, RouteCounts
    <3>5. ~WriteAccount(h)  BY <1>4, <3>3
    <3> QED  BY <3>2, <3>3, <3>4, <3>5, ThrowCounts
  <2> QED  BY <2>3, <2>4
<1> QED  BY <1>2, <1>3, <1>4

\* A delivery gives its hook the chance to write, and takes the event or spends
\* a duplicate.
LEMMA DeliveryCounts ==
    ASSUME CountInv, [Next]_vars, NEW p \in Purchases, NEW h \in Handlers,
           NEW e \in emitted, Deliver(h, e) \/ Duplicate(h, e)
    PROVE  GrantsPaid(p)'
<1>1. IInv /\ Origins /\ Origins'  BY OriginsStay DEF CountInv
<1>2. /\ hook[h] = Idle /\ hook' = [hook EXCEPT ![h] = Started(e)]
      /\ emitted' = emitted /\ grants' = grants
  BY DEF Deliver, Duplicate, provider, history
<1>3. \A i \in Handlers \ {h} : hook'[i] = hook[i]  BY <1>1, <1>2 DEF IInv, TypeOK
<1>4. PICK S, T : S = Pending(p) /\ T = Pending(p)'  OBVIOUS
<1>5. PICK U, V : U = Taken(p) /\ V = Taken(p)'  OBVIOUS
<1>6. U \subseteq V
  <2> SUFFICES ASSUME NEW x \in Taken(p), x \notin Taken(p)' PROVE FALSE  BY <1>5
  <2>1. PICK i \in Handlers : hook[i].pc # "idle" /\ hook'[i] = Idle
    BY <1>1, TakenFrom
  <2> QED  BY <1>2, <1>3, <2>1 DEF Idle
<1>7. ASSUME NEW g \in T, g \notin S PROVE g = h /\ e.p = p /\ e.type \in Webhooks
  <2>1. g \in Handlers /\ g \in Pending(p)' /\ g \notin Pending(p)
    BY <1>4, <1>7 DEF Pending
  <2>2. g = h  BY <1>3, <2>1 DEF Pending
  <2>3. PICK x \in emitted : x.p = p /\ x.type \in Webhooks /\ hook'[h] = Started(x)
    <3>1. ~Capture(h)  BY <1>2 DEF Idle, Capture, At
    <3> QED  BY <1>1, <2>1, <2>2, <3>1, PendingFrom
  <2>4. hook'[h] = Started(e)  BY <1>1, <1>2 DEF IInv, TypeOK
  <2>5. x = e  BY <2>3, <2>4 DEF Started
  <2> QED  BY <2>2, <2>3, <2>5
<1>8. CASE T \subseteq S
  BY <1>2, <1>4, <1>5, <1>6, <1>8, KeepsBalance
<1>9. CASE ~(T \subseteq S)
  <2>1. e.p = p /\ e.type \in Webhooks /\ T \subseteq S \cup {h}  BY <1>7, <1>9
  <2>2. IsFiniteSet(S) /\ IsFiniteSet(U) /\ Cardinality(U) \in Nat
    BY <1>1, <1>4, <1>5, FiniteCounts
  <2>3. IsFiniteSet(V)
    <3>1. V \subseteq emitted'  BY <1>5 DEF Taken
    <3> QED  BY <1>1, <3>1, NoMore DEF Origins
  <2>4. /\ Cardinality(S) \in Nat /\ Cardinality(T) \in Nat
        /\ Cardinality(T) <= Cardinality(S) + 1
    BY <2>1, <2>2, OneMore
  <2>5. Budget \in Nat /\ Budget' \in Nat /\ Budget' >= Budget  BY <1>1, BudgetGrows
  <2>6. Cardinality(V) + Budget' >= Cardinality(U) + Budget + 1
    <3>1. CASE Duplicate(h, e)
      <4>1. Fault("dup")  BY <3>1 DEF Duplicate
      <4>2. Budget' >= Budget + 1  BY <1>1, <4>1, BudgetGrows
      <4>3. Cardinality(V) \in Nat /\ Cardinality(U) <= Cardinality(V)
        BY <1>6, <2>3, NoMore
      <4> QED  BY <2>2, <2>5, <4>2, <4>3
    <3>2. CASE Deliver(h, e)
      <4>1. e \notin closed /\ \A i \in Handlers : hook[i].ev # e
        BY <3>2 DEF Deliver, InFlight
      <4>2. e \notin U
        <5>1. e # Event("capture", p, 1)  BY <2>1 DEF Event, Webhooks
        <5> QED  BY <1>5, <4>1, <5>1 DEF Taken
      <4>3. e \in V
        <5>1. hook'[h] = Started(e)  BY <1>1, <1>2 DEF IInv, TypeOK
        <5>2. hook'[h].ev = e /\ hook'[h].pc = Route[e.type].start  BY <5>1 DEF Started
        <5>3. e.type \in EventTypes  BY <2>1 DEF Webhooks, Granting, EventTypes
        <5>4. hook'[h].pc # "idle"
          BY <2>1, <5>2, RouteBegins
        <5> QED  BY <1>2, <1>5, <2>1, <5>2, <5>4 DEF Taken
      <4>4. PICK W : W = U \cup {e}  OBVIOUS
      <4>5. Cardinality(W) = Cardinality(U) + 1  BY <2>2, <4>2, <4>4, FS_AddElement
      <4>6. W \subseteq V  BY <1>6, <4>3, <4>4
      <4>7. Cardinality(V) \in Nat /\ Cardinality(W) <= Cardinality(V)  BY <2>3, <4>6, NoMore
      <4> QED  BY <2>2, <2>5, <4>5, <4>7
    <3> QED  BY <3>1, <3>2
  <2>7. grants'[p] = grants[p] /\ grants[p] \in Nat  BY <1>1, <1>2, GrantsMove
  <2>8. grants'[p] + Cardinality(T) <= grants[p] + Cardinality(S) + 1  BY <2>4, <2>7
  <2> QED  BY <1>4, <1>5, <2>6, <2>8, Balance
<1> QED  BY <1>8, <1>9

\* A crash ends every hook, and frees at most as many events.
LEMMA CrashCounts ==
    ASSUME CountInv, [Next]_vars, NEW p \in Purchases, Crash
    PROVE  GrantsPaid(p)'
<1>1. IInv /\ Origins /\ Origins'  BY OriginsStay DEF CountInv
<1>2. PICK S, T : S = Pending(p) /\ T = Pending(p)'  OBVIOUS
<1>3. PICK U, V : U = Taken(p) /\ V = Taken(p)'  OBVIOUS
<1> DEFINE f == [h \in Handlers |-> hook[h].ev]
<1>4. PICK E : E = {hook[h].ev : h \in Handlers}  OBVIOUS
<1>5. IsFiniteSet(Handlers) /\ Cardinality(Handlers) \in Nat
  BY ConstantsAssumption, FS_CardinalityType
<1>6. IsFiniteSet(E) /\ Cardinality(E) <= Cardinality(Handlers) /\ Cardinality(E) \in Nat
  <2>1. f \in Surjection(Handlers, E)  BY <1>4 DEF Surjection
  <2> HIDE DEF f
  <2>2. IsFiniteSet(E) /\ Cardinality(E) <= Cardinality(Handlers)
    BY <1>5, <2>1, FS_Surjection
  <2> QED  BY <2>2, FS_CardinalityType
<1>7. U \subseteq V \cup E
  <2> SUFFICES ASSUME NEW e \in Taken(p), e \notin Taken(p)' PROVE e \in E  BY <1>3
  <2> QED  BY <1>1, <1>4, TakenFrom
<1>8. IsFiniteSet(V) /\ Cardinality(V) \in Nat
  <2>1. V \subseteq emitted'  BY <1>3 DEF Taken
  <2> QED  BY <1>1, <2>1, NoMore DEF Origins
<1>9. Cardinality(U) \in Nat /\ Cardinality(U) <= Cardinality(V) + Cardinality(E)
  <2>1. PICK W : W = V \cup E  OBVIOUS
  <2>2. PICK X : X = V \cap E  OBVIOUS
  <2>3. IsFiniteSet(W) /\ Cardinality(W) = Cardinality(V) + Cardinality(E) - Cardinality(X)
    BY <1>6, <1>8, <2>1, <2>2, FS_Union
  <2>4. Cardinality(X) \in Nat  BY <1>8, <2>2, NoMore
  <2>5. Cardinality(U) \in Nat /\ Cardinality(U) <= Cardinality(W) /\ Cardinality(W) \in Nat
    BY <1>7, <2>1, <2>3, NoMore
  <2> QED  BY <1>6, <1>8, <2>3, <2>4, <2>5
<1>10. Budget \in Nat /\ Budget' \in Nat /\ Budget' >= Budget + Cardinality(Handlers)
  BY <1>1, BudgetGrows DEF Crash
<1>11. T = {}  BY <1>2 DEF Crash, Pending, Idle, EarlySteps
<1>12. Cardinality(T) = 0 /\ Cardinality(S) \in Nat
  BY <1>1, <1>2, <1>11, FiniteCounts, FS_EmptySet
<1>13. grants'[p] = grants[p] /\ grants[p] \in Nat  BY <1>1, GrantsMove DEF Crash, history
<1>14. grants'[p] + Cardinality(T) <= grants[p] + Cardinality(S) + 0  BY <1>12, <1>13
<1>15. Cardinality(V) + Budget' >= Cardinality(U) + Budget + 0
  BY <1>5, <1>6, <1>8, <1>9, <1>10
<1> QED  BY <1>2, <1>3, <1>14, <1>15, Balance

LEMMA ElsewhereCounts ==
    ASSUME CountInv, [Next]_vars, NEW p \in Purchases, hook' = hook
    PROVE  GrantsPaid(p)'
<1>1. IInv /\ Origins  BY DEF CountInv
<1>2. \A h \in Handlers : ~Handling(h)  BY <1>1, HandlingChanges
<1>3. grants'[p] = grants[p]  BY <1>1, <1>2, SameGrants DEF Handling
<1>4. Pending(p)' \subseteq Pending(p)  BY DEF Pending
<1>5. Taken(p) \subseteq Taken(p)'
  <2> SUFFICES ASSUME NEW e \in Taken(p), e \notin Taken(p)' PROVE FALSE  OBVIOUS
  <2>1. PICK h \in Handlers : hook[h].pc # "idle" /\ hook'[h] = Idle  BY <1>1, TakenFrom
  <2> QED  BY <2>1 DEF Idle
<1> QED  BY <1>3, <1>4, <1>5, KeepsBalance

LEMMA CountInvariant == Spec => []CountInv
<1>1. ASSUME Init PROVE GrantsArePaid
  <2> SUFFICES ASSUME NEW p \in Purchases PROVE GrantsPaid(p)  BY DEF GrantsArePaid
  <2>1. grants[p] = 0 /\ emitted = {} /\ \A f \in Faults : used[f] = 0  BY <1>1 DEF Init
  <2>2. Taken(p) = {}  BY <2>1 DEF Taken
  <2>3. Pending(p) = {}  BY <1>1 DEF Init, Pending, Idle, EarlySteps
  <2>4. Cardinality(Handlers) * used["crash"] = 0
    <3>1. Cardinality(Handlers) \in Nat  BY ConstantsAssumption, FS_CardinalityType
    <3>2. \A n \in Nat : n * 0 = 0  BY SMT
    <3> QED  BY <2>1, <3>1, <3>2 DEF Faults
  <2>5. Budget = 0  BY <2>1, <2>4 DEF Budget, Faults
  <2> QED  BY <2>1, <2>2, <2>3, <2>5, FS_EmptySet DEF GrantsPaid
<1>2. ASSUME CountInv, [Next]_vars PROVE GrantsArePaid'
  <2> SUFFICES ASSUME NEW p \in Purchases PROVE GrantsPaid(p)'  BY DEF GrantsArePaid
  <2> QED
    BY <1>2, HooksMove, HandlingCounts, DeliveryCounts, CrashCounts, ElsewhereCounts
<1> QED  BY <1>1, <1>2, OriginsInvariant, PTL DEF Spec, CountInv

\* The extensions of a purchase beyond one for each payment event are the price
\* of duplicates, failures after the write, and crashes: a crash costs at most
\* one for each request that can be in flight.
THEOREM ExtrasAreFaults == Spec => []ExtraGrantsNeedFaults
<1>1. ASSUME CountInv PROVE ExtraGrantsNeedFaults
  <2> SUFFICES ASSUME NEW p \in Purchases
      PROVE  grants[p] <= Cardinality(GrantingEvents(p)) + used["dup"] + used["mail"]
                            + used["db"] + Cardinality(Handlers) * used["crash"]
    BY DEF ExtraGrantsNeedFaults
  <2>1. IInv /\ Origins /\ GrantsPaid(p)  BY <1>1 DEF CountInv, GrantsArePaid
  <2>2. Taken(p) \subseteq GrantingEvents(p)
    <3> SUFFICES ASSUME NEW e \in Taken(p) PROVE e \in GrantingEvents(p)  OBVIOUS
    <3>1. e \in emitted /\ EventKnown(e)  BY <2>1 DEF Taken, Origins
    <3>2. CASE e.p = p /\ e.type \in Webhooks
      BY <3>1, <3>2 DEF GrantingEvents, EventKnown, Webhooks
    <3>3. CASE e = Event("capture", p, 1) /\ NeedsCapture(p)
      BY <3>1, <3>3 DEF GrantingEvents, Event, NeedsCapture, Granting
    <3> QED  BY <3>2, <3>3 DEF Taken
  <2>3. IsFiniteSet(GrantingEvents(p))
    <3>1. GrantingEvents(p) \subseteq emitted  BY DEF GrantingEvents
    <3> QED  BY <2>1, <3>1, NoMore DEF Origins
  <2>4. PICK g, t \in Nat : /\ g = Cardinality(GrantingEvents(p))
                            /\ t = Cardinality(Taken(p)) /\ t <= g
    BY <2>2, <2>3, NoMore
  <2>5. Cardinality(Pending(p)) \in Nat /\ grants[p] \in Nat
    BY <2>1, FiniteCounts DEF IInv, TypeOK
  <2>6. /\ used["dup"] \in Nat /\ used["mail"] \in Nat /\ used["db"] \in Nat
        /\ used["crash"] \in Nat /\ Cardinality(Handlers) \in Nat
    BY <2>1, FiniteCounts DEF IInv, TypeOK, Faults
  <2>7. PICK b \in Nat : b = Cardinality(Handlers) * used["crash"]
    BY <2>6, ProductGrows
  <2>8. grants[p] + Cardinality(Pending(p))
          <= t + (used["dup"] + used["mail"] + used["db"] + b)
    BY <2>1, <2>4, <2>7 DEF GrantsPaid, Budget
  <2>9. grants[p] <= g + used["dup"] + used["mail"] + used["db"] + b
    BY <2>4, <2>5, <2>6, <2>8
  <2> QED  BY <2>4, <2>7, <2>9
<1> QED  BY <1>1, CountInvariant, PTL


-----------------------------------------------------------------------------
(* Only a hook completes a transaction, and one that is not announced by the
   provider's charge has captured the payment itself. *)

MarkedPaid(p) == tx[p] # None /\ tx[p].status \in {"Completed", "COMPLETED"}

\* A transaction that is completed was charged: no cancelled, refused, repeated
\* or late delivery of either provider completes one that was not.
CompletedIsCharged == \A p \in Purchases : MarkedPaid(p) => Charged(p)

ChargedInv == IInv /\ CompletedIsCharged

\* A request only stores an empty or an open transaction.
LEMMA RequestsLeaveOpen ==
    ASSUME IInv, [Next]_vars, NEW p \in Purchases, tx'[p] # tx[p],
           ~\E h \in Handlers : MarkTransaction(h) /\ P(h) = p
    PROVE  ~MarkedPaid(p)'
<1>1. tx \in [Purchases -> Transactions \cup {None}]  BY DEF IInv, TypeOK
<1>2. ASSUME NEW q \in Purchases, Buying(q) PROVE ~MarkedPaid(p)'
  <2>1. CreateTransaction(q) \/ UpdateTransaction(q)
    BY <1>2 DEF Buying, StartBuy, OpenSession, CreateOrder, db
  <2>2. \/ tx' = [tx EXCEPT ![q] = [status |-> "", price |-> 0]]
        \/ tx' = [tx EXCEPT ![q] = [status |-> "open", price |-> Cost(q)]]
    <3>1. CASE CreateTransaction(q)  BY <3>1 DEF CreateTransaction
    <3>2. CASE UpdateTransaction(q)  BY <3>2 DEF UpdateTransaction
    <3> QED  BY <2>1, <3>1, <3>2
  <2>3. q = p  BY <1>1, <2>2
  <2>4. \/ tx'[p] = [status |-> "", price |-> 0]
        \/ tx'[p] = [status |-> "open", price |-> Cost(q)]
    BY <1>1, <2>2, <2>3
  <2>5. PICK s, c : /\ tx'[p] = [status |-> s, price |-> c]
                    /\ s # "Completed" /\ s # "COMPLETED"
    BY <2>4, Zenon
  <2> QED  BY <2>5 DEF MarkedPaid
<1>3. ASSUME NEW q \in Purchases, Pay(q) \/ Cancel(q) \/ Recharge(q) PROVE FALSE
  BY <1>3 DEF Pay, Cancel, Recharge, db
<1>4. ASSUME NEW h \in Handlers, Handling(h) PROVE FALSE
  <2>1. MarkTransaction(h)
    BY <1>4 DEF Handling, Capture, FindOrder, ReadAccount, WriteAccount,
       SendMail, Notify, UpsertSubscriber, DebitNotice, Respond, db
  <2>2. P(h) = p  BY <1>1, <2>1 DEF MarkTransaction
  <2> QED  BY <2>1, <2>2
<1>5. ASSUME NEW h \in Handlers, NEW e \in emitted, Deliver(h, e) \/ Duplicate(h, e)
      PROVE  FALSE
  BY <1>5 DEF Deliver, Duplicate, db
<1>6. CASE Checking \/ Tick \/ Crash \/ UNCHANGED vars
  BY <1>6 DEF Checking, CronStart, CronMail, CronEnd, Tick, Crash, vars, db
<1> QED  BY <1>2, <1>3, <1>4, <1>5, <1>6 DEF Next

\* A hook gets past the capture only for a purchase that is charged.
LEMMA MarksAreCharged ==
    ASSUME IInv, NEW h \in Handlers, MarkTransaction(h)
    PROVE  Charged(P(h))
BY DEF IInv, HookInv, HookOK, MarkTransaction, At

LEMMA CompletedStayCharged ==
    ASSUME ChargedInv, [Next]_vars, NEW p \in Purchases, MarkedPaid(p)'
    PROVE  Charged(p)'
<1>1. IInv  BY DEF ChargedInv
<1>2. CASE tx'[p] = tx[p]
  <2>1. Charged(p)  BY <1>2 DEF ChargedInv, CompletedIsCharged, MarkedPaid
  <2> QED  BY <1>1, <2>1, ChargedStays
<1>3. ASSUME NEW h \in Handlers, MarkTransaction(h), P(h) = p PROVE Charged(p)'
  <2>1. Charged(p)  BY <1>1, <1>3, MarksAreCharged
  <2> QED  BY <1>1, <2>1, ChargedStays
<1>4. CASE tx'[p] # tx[p] /\ ~\E h \in Handlers : MarkTransaction(h) /\ P(h) = p
  BY <1>1, <1>4, RequestsLeaveOpen DEF MarkedPaid
<1> QED  BY <1>2, <1>3, <1>4

\* What is completed was charged, whichever events are cancelled, refused,
\* repeated or late, for any number of purchases and hooks.
THEOREM CompletedAreCharged == Spec => []CompletedIsCharged
<1>1. Init => ChargedInv
  BY Initially DEF Init, ChargedInv, CompletedIsCharged, MarkedPaid
<1>2. ChargedInv /\ [Next]_vars => ChargedInv'
  BY Inductive, CompletedStayCharged DEF ChargedInv, CompletedIsCharged
<1>3. ChargedInv => CompletedIsCharged  BY DEF ChargedInv
<1> QED  BY <1>1, <1>2, <1>3, PTL DEF Spec

=============================================================================
