--------------------------- MODULE Subscriptions ---------------------------
(***************************************************************************)
(* Subscriptions of the instagram gateway: the purchase request            *)
(* (BuySubscriptionsUseCase), the payment provider's checkout session, the *)
(* three hooks a payment comes back through (StripeHookUseCase,            *)
(* PaypalEventHookUseCase, PaypalHookUseCase), the account extension they  *)
(* share (SubscriptionsService) and the hourly job that ends expired       *)
(* subscriptions (CheckSubscriptions).                                     *)
(*                                                                         *)
(* A handler runs until its next await that reads or writes shared state;  *)
(* each such stretch is one action, so handlers and the job interleave     *)
(* exactly where Node can interleave them.  A purchase p names the request *)
(* and the rows it creates: its payment transaction, its order (unique by  *)
(* payment id) and the provider's session.  One tick of clock is one day.  *)
(***************************************************************************)
EXTENDS Integers, FiniteSets

CONSTANTS
    Users,       \* rows of the user table
    Purchases,   \* POST create-payment requests, at most one each
    Handlers,    \* webhook requests the gateway can have in flight
    Times,       \* the products' SubscriptionTime values on sale or not
    Available,   \* ... those with availability: true
    Price,       \* price of one period, by time
    Methods,     \* <<paymentType, autoRenewal>> of the requests
    MaxCount,    \* largest paymentCount a request asks for
    MaxCharges,  \* charges of one recurring subscription
    MaxClock,    \* last day
    FaultKinds,  \* the faults that happen ...
    MaxFaults,   \* ... and how many of them
    None         \* null or undefined

Days == [DAY |-> 1, WEEKLY |-> 7, MONTHLY |-> 30]

ASSUME ConstantsAssumption ==
    /\ Times \subseteq DOMAIN Days
    /\ Available \subseteq Times
    /\ Price \in [Times -> Nat \ {0}]
    /\ MaxCount \in Nat \ {0}
    /\ MaxCharges \in Nat \ {0}
    /\ MaxClock \in Nat
    /\ Methods \subseteq {"STRIPE", "PAYPAL"} \X BOOLEAN
    /\ FaultKinds \subseteq {"db", "mail", "timeout", "crash", "dup"}
    /\ MaxFaults \in Nat
    /\ None \notin Nat
    /\ IsFiniteSet(Handlers)
    /\ Users \cap Handlers = {}

VARIABLES
    account,     \* user.accountType, endDateOfSubscription, autoRenewal
    tx,          \* subscription_payment_transaction rows
    order,       \* subscription_order rows, by payment id
    subscribers, \* subscriber rows
    notice,      \* date in the last "activated and valid until" notification
    buy,         \* the create-payment requests
    session,     \* the provider's side of each purchase
    emitted,     \* deliveries the provider or the buyer's browser owes
    closed,      \* ... and will not repeat of its own accord
    hook,        \* hook requests in flight
    job,         \* the hourly job
    clock,       \* today
    used,        \* faults spent
    grants,      \* history: account extensions written, by purchase
    credit,      \* history: days those extensions were worth, by user
    stale        \* history: readers whose user was written after they read

db       == <<account, tx, order, subscribers, notice>>
history  == <<grants, credit, stale>>
provider == <<session, emitted>>
vars     == <<db, provider, history, buy, closed, hook, job, clock, used>>

-----------------------------------------------------------------------------
(* Values *)

Systems == {"STRIPE", "PAYPAL"}

Personal == [type |-> "PERSONAL", end |-> None, auto |-> FALSE]
Accounts == [type : {"PERSONAL"}, end : {None}, auto : {FALSE}]
              \cup [type : {"BUSINESS"}, end : Nat, auto : BOOLEAN]

\* '' on creation, the session's own status, then PaymentStatus.COMPLETED; a
\* PayPal capture stores PayPal's spelling.
Statuses     == {"", "open", "Completed", "COMPLETED"}
Transactions == [status : Statuses, price : Nat]

ASSUME NoneAssumption == None \notin Transactions

Orders       == [paymentId : Purchases, user : Users, price : Nat, time : Times]
Sessions     == [status : {"none", "open", "approved", "paid"},
                 amount : Nat, charges : Nat]

EventTypes == {"checkout", "created", "sale", "activated", "capture"}
Events     == [type : EventTypes, p : Purchases, n : Nat]
Granting   == {"checkout", "sale", "activated", "capture"}

\* SubscriberRepository stores Stripe's plan interval, or the order's time.
Intervals == {"DAY", "WEEK", "MONTH", "WEEKLY", "MONTHLY"}

\* Mutant: the interval is stored as Stripe spells it.
StripeIntervalRaw == [DAY |-> "day", WEEKLY |-> "week", MONTHLY |-> "month"]

StripeInterval == [DAY |-> "DAY", WEEKLY |-> "WEEK", MONTHLY |-> "MONTH"]

\* What a hook does for an event, in order: each field names a step and its
\* value the step after it.
CheckoutRoute == [
  start |-> "find", find |-> "mark", mark |-> "read", read |-> "write",
  write |-> "mail", mail |-> "notify", notify |-> "respond"]

CreatedRoute == [
  start |-> "subscribe", subscribe |-> "debit", debit |-> "respond"]

SaleRoute == CheckoutRoute

ActivatedRoute == [
  start |-> "find", find |-> "read", read |-> "write", write |-> "subscribe",
  subscribe |-> "debit", debit |-> "respond"]

CaptureRoute == [
  start |-> "capture", capture |-> "find", find |-> "mark", mark |-> "read",
  read |-> "write", write |-> "mail", mail |-> "respond"]

Route == [checkout |-> CheckoutRoute, created |-> CreatedRoute, sale |-> SaleRoute,
          activated |-> ActivatedRoute, capture |-> CaptureRoute]

HookSteps == {"capture", "find", "mark", "read", "write", "mail", "notify",
              "subscribe", "debit", "respond"}

Idle == [pc |-> "idle", ev |-> None, order |-> None, end |-> None]

Faults == {"db", "mail", "timeout", "crash", "dup"}

\* A fault spends one of MaxFaults.
Spent    == used["db"] + used["mail"] + used["timeout"] + used["crash"] + used["dup"]
Fault(f) == f \in FaultKinds /\ Spent < MaxFaults /\ used' = [used EXCEPT ![f] = @ + 1]

-----------------------------------------------------------------------------
(* Date arithmetic of SubscriptionsService *)

\* endDateOfSubscription: the days an order is worth.  The quantity is
\* recomputed from the order's price and the product's.
Extension(o) == Days[o.time] * (o.price \div Price[o.time])

\* Mutants: the order's days are lost while some are left; the last day counts twice.
EndDateFromNow(o, current) == clock + Extension(o)
EndDateInclusive(o, current) ==
    (IF current = None THEN clock ELSE current) + Extension(o) + 1

\* ... counted from the current end date, even one already past, or from now.
EndDate(o, current) ==
    (IF current = None THEN clock ELSE current) + Extension(o)

-----------------------------------------------------------------------------
Init ==
    /\ account = [u \in Users |-> Personal]
    /\ tx = [p \in Purchases |-> None]
    /\ order = [p \in Purchases |-> None]
    /\ subscribers = {}
    /\ notice = [u \in Users |-> None]
    /\ buy = [p \in Purchases |-> [pc |-> "idle", user |-> None, time |-> None,
                                   system |-> None, auto |-> FALSE, count |-> 0]]
    /\ session = [p \in Purchases |-> [status |-> "none", amount |-> 0, charges |-> 0]]
    /\ emitted = {}
    /\ closed = {}
    /\ hook = [h \in Handlers |-> Idle]
    /\ job = [pc |-> "idle", todo |-> {}, user |-> None]
    /\ clock = 0
    /\ used = [f \in Faults |-> 0]
    /\ grants = [p \in Purchases |-> 0]
    /\ credit = [u \in Users |-> 0]
    /\ stale = {}

-----------------------------------------------------------------------------
(* BuySubscriptionsUseCase *)

BuyTo(p, pc) == buy' = [buy EXCEPT ![p].pc = pc]

Cost(p) == Price[buy[p].time] * buy[p].count

\* The request arrives and passes the validation pipe; the user is found and
\* the product is available, or the request ends (OutOfStock, or a query fails).
StartBuy(p, u, t, m, n) ==
    /\ buy[p].pc = "idle"
    /\ \E pc \in {"failed"} \cup {"createTx" : x \in {t} \cap Available} :
         buy' = [buy EXCEPT ![p] = [pc |-> pc, user |-> u, time |-> t,
                                    system |-> m[1], auto |-> m[2], count |-> n]]
    /\ UNCHANGED <<db, provider, history, closed, hook, job, clock, used>>

\* An empty transaction row is created, or the error is swallowed and the
\* request goes on without an id; a recurring purchase is for one period.
CreateTransaction(p) ==
    /\ buy[p].pc = "createTx"
    /\ buy' = [buy EXCEPT ![p].pc = "openSession",
                          ![p].count = IF buy[p].auto THEN 1 ELSE @]
    /\ \/ /\ tx' = [tx EXCEPT ![p] = [status |-> "", price |-> 0]]
          /\ UNCHANGED used
       \/ Fault("db") /\ UNCHANGED tx
    /\ UNCHANGED <<account, order, subscribers, notice, provider, history,
                   closed, hook, job, clock>>

\* The payments service opens a checkout session; the gateway may stop
\* waiting for the answer after ten seconds, or the provider may refuse.
OpenSession(p) ==
    /\ buy[p].pc = "openSession"
    /\ \/ /\ session' = [session EXCEPT ![p].status = "open", ![p].amount = Cost(p)]
          /\ \/ BuyTo(p, "updateTx") /\ UNCHANGED used
             \/ Fault("timeout") /\ BuyTo(p, "failed")
       \/ BuyTo(p, "failed") /\ UNCHANGED <<session, used>>
    /\ UNCHANGED <<db, emitted, history, closed, hook, job, clock>>

\* Mutants: the result of the repository is not looked at.
AfterUpdateUnchecked(ok) == "createOrder"
AfterOrderUnchecked(ok)  == "done"

\* Where a request goes on after the update, and after the insert, of its rows.
AfterUpdate(ok) == IF ok THEN "createOrder" ELSE "failed"
AfterOrder(ok)  == IF ok THEN "done" ELSE "failed"

\* The price and the session's status are stored in the row, if there is one.
UpdateTransaction(p) ==
    /\ buy[p].pc = "updateTx"
    /\ \/ /\ tx[p] # None
          /\ tx' = [tx EXCEPT ![p] = [status |-> "open", price |-> Cost(p)]]
          /\ BuyTo(p, AfterUpdate(TRUE))
          /\ UNCHANGED used
       \/ /\ \/ tx[p] = None /\ UNCHANGED used
             \/ Fault("db")
          /\ BuyTo(p, AfterUpdate(FALSE))
          /\ UNCHANGED tx
    /\ UNCHANGED <<account, order, subscribers, notice, provider, history,
                   closed, hook, job, clock>>

\* The order row is created, and only now is the session's url returned.
CreateOrder(p) ==
    /\ buy[p].pc = "createOrder"
    /\ \/ /\ order' = [order EXCEPT ![p] =
                          [paymentId |-> p, user |-> buy[p].user, price |-> Cost(p),
                           time |-> buy[p].time]]
          /\ BuyTo(p, AfterOrder(TRUE))
          /\ UNCHANGED used
       \/ Fault("db") /\ BuyTo(p, AfterOrder(FALSE)) /\ UNCHANGED order
    /\ UNCHANGED <<account, tx, subscribers, notice, provider, history,
                   closed, hook, job, clock>>

-----------------------------------------------------------------------------
(* The provider and the buyer's browser (external) *)

Event(t, p, n) == [type |-> t, p |-> p, n |-> n]

\* A PayPal buyer approves and is sent back to GET paypal-hook, which captures
\* a one-off payment; every other payment is charged at once and announced by
\* webhooks.
FirstEvents(p) ==
    CASE buy[p].system = "STRIPE" ->
           {Event("checkout", p, 1)}
             \cup (IF buy[p].auto THEN {Event("created", p, 1)} ELSE {})
      [] buy[p].system = "PAYPAL" ->
           {Event("capture", p, 1)}
             \cup (IF buy[p].auto THEN {Event("sale", p, 1), Event("activated", p, 1)}
                                  ELSE {})

NeedsCapture(p) == buy[p].system = "PAYPAL" /\ ~buy[p].auto

Pay(p) ==
    /\ buy[p].pc = "done"
    /\ session[p].status = "open"
    /\ session' = [session EXCEPT
                     ![p].status = IF NeedsCapture(p) THEN "approved" ELSE "paid",
                     ![p].charges = IF NeedsCapture(p) THEN 0 ELSE 1]
    /\ emitted' = emitted \cup FirstEvents(p)
    /\ UNCHANGED <<db, history, buy, closed, hook, job, clock, used>>

\* A PayPal buyer who cancels is sent to the same address as one who approves.
Cancel(p) ==
    /\ buy[p].pc = "done" /\ buy[p].system = "PAYPAL"
    /\ session[p].status = "open"
    /\ emitted' = emitted \cup {Event("capture", p, 0)}
    /\ UNCHANGED <<db, session, history, buy, closed, hook, job, clock, used>>

\* The next charge of a recurring subscription.  PayPal sends another sale
\* event; what Stripe sends is of no type StripeHookUseCase looks at.
Recharge(p) ==
    /\ session[p].status = "paid" /\ buy[p].auto
    /\ session[p].charges < MaxCharges
    /\ session' = [session EXCEPT ![p].charges = @ + 1]
    /\ emitted' = IF buy[p].system = "PAYPAL"
                  THEN emitted \cup {Event("sale", p, session[p].charges + 1)}
                  ELSE emitted
    /\ UNCHANGED <<db, history, buy, closed, hook, job, clock, used>>

InFlight == {hook[h].ev : h \in Handlers}

Started(e) == [pc |-> Route[e.type].start, ev |-> e, order |-> None, end |-> None]

\* A delivery is repeated until it is answered with success ...
Deliver(h, e) ==
    /\ hook[h] = Idle
    /\ e \in emitted \ (closed \cup InFlight)
    /\ hook' = [hook EXCEPT ![h] = Started(e)]
    /\ UNCHANGED <<db, provider, history, buy, closed, job, clock, used>>

\* ... and may arrive again although it was, or is still being handled.
Duplicate(h, e) ==
    /\ hook[h] = Idle
    /\ e \in emitted \cap (closed \cup InFlight)
    /\ Fault("dup")
    /\ hook' = [hook EXCEPT ![h] = Started(e)]
    /\ UNCHANGED <<db, provider, history, buy, closed, job, clock>>

-----------------------------------------------------------------------------
(* The hooks *)

P(h) == hook[h].ev.p

\* Mutant: a delivery whose transaction is completed is taken for a repetition.
ForwardIfOpen(h) ==
    IF hook[h].pc = "find" /\ tx[P(h)].status = "Completed"
    THEN "respond" ELSE Route[hook[h].ev.type][hook[h].pc]

Forward(h) == Route[hook[h].ev.type][hook[h].pc]

Advance(h) == hook' = [hook EXCEPT ![h].pc = Forward(h)] /\ UNCHANGED closed

\* Status 500: a webhook is delivered again, a browser's redirect is not.
Throw(h) ==
    /\ hook' = [hook EXCEPT ![h] = Idle]
    /\ closed' = IF hook[h].ev.type = "capture" THEN closed \cup {hook[h].ev} ELSE closed

At(h, pc) == hook[h].pc = pc

\* PaypalHookUseCase: capture the approved payment.  An answer that comes too late ends
\* the request, and so does a call that captured nothing: PayPal refused, or the
\* payments service could not be asked, or could not ask.
Capture(h) ==
    /\ At(h, "capture")
    /\ \/ /\ session[P(h)].status = "approved"
          /\ session' = [session EXCEPT ![P(h)].status = "paid", ![P(h)].charges = 1]
          /\ \/ Advance(h) /\ UNCHANGED used
             \/ Fault("timeout") /\ Throw(h)
       \/ Throw(h) /\ UNCHANGED <<session, used>>
    /\ UNCHANGED <<db, emitted, history, buy, job, clock>>

\* Mutant: an undefined payment id does not filter, and any order is found.
OrdersUnfiltered(p) == {order[q] : q \in Purchases}

\* The rows findOrderByPaymentId chooses from: the payment id is unique.
OrdersOf(p) == {order[p]}

\* findOrderByPaymentId, whose errors are swallowed.  A missing order ends the
\* PayPal event hooks here; the other two look at it only after the transaction
\* was updated.
FindOrder(h) ==
    /\ At(h, "find")
    /\ \E found \in OrdersOf(P(h)) \cup {None} :
         /\ \/ found \in OrdersOf(P(h)) /\ UNCHANGED used
            \/ found = None /\ Fault("db")
         /\ IF found = None /\ hook[h].ev.type \in {"sale", "activated"}
            THEN Throw(h)
            ELSE /\ hook' = [hook EXCEPT ![h].pc = Forward(h), ![h].order = found]
                 /\ UNCHANGED closed
    /\ UNCHANGED <<db, provider, history, buy, job, clock>>

PaidStatus(h) == IF hook[h].ev.type = "capture" THEN "COMPLETED" ELSE "Completed"

\* updatePaymentTransaction; a failed update is not noticed, but an order that
\* was not found is a TypeError right after it.
MarkTransaction(h) ==
    /\ At(h, "mark")
    /\ \/ /\ tx[P(h)] # None
          /\ tx' = [tx EXCEPT ![P(h)].status = PaidStatus(h)]
          /\ UNCHANGED used
       \/ tx[P(h)] = None /\ UNCHANGED <<tx, used>>
       \/ Fault("db") /\ UNCHANGED tx
    /\ IF hook[h].order = None THEN Throw(h) ELSE Advance(h)
    /\ UNCHANGED <<account, order, subscribers, notice, provider, history, buy, job, clock>>

\* updateAccountType, first half: the user's current end date is read and the
\* new one computed from it.
ReadAccount(h) ==
    /\ At(h, "read")
    /\ \/ /\ hook' = [hook EXCEPT ![h].pc = Forward(h),
                        ![h].end = EndDate(hook[h].order, account[hook[h].order.user].end)]
          /\ stale' = stale \ {h}
          /\ UNCHANGED <<closed, used>>
       \/ Fault("db") /\ Throw(h) /\ UNCHANGED stale
    /\ UNCHANGED <<db, provider, grants, credit, buy, job, clock>>

\* The readers of u's account that have not written yet.
Readers(u) == {g \in Handlers : At(g, "write") /\ hook[g].order.user = u} \cup {u}

\* updateAccountType, second half: the account is overwritten; a failed write
\* returns false, which no caller looks at.
WriteAccount(h) ==
    LET o == hook[h].order IN
    /\ At(h, "write")
    /\ Advance(h)
    /\ \/ /\ account' = [account EXCEPT ![o.user] =
                           [type |-> "BUSINESS", end |-> hook[h].end,
                            auto |-> \/ hook[h].ev.type = "activated"
                                     \/ hook[h].ev.type = "checkout" /\ buy[P(h)].auto]]
          /\ grants' = [grants EXCEPT ![o.paymentId] = @ + 1]
          /\ credit' = [credit EXCEPT ![o.user] = @ + Extension(o)]
          /\ stale' = stale \cup Readers(o.user)
          /\ UNCHANGED used
       \/ Fault("db") /\ UNCHANGED <<account, history>>
    /\ UNCHANGED <<tx, order, subscribers, notice, provider, buy, job, clock>>

\* sendSubscriptionNotification: the mail goes out at the first or the second
\* attempt, or the second failure is thrown.
SendMail(h) ==
    /\ At(h, "mail")
    /\ \/ Advance(h) /\ UNCHANGED used
       \/ (Fault("mail") \/ Fault("db")) /\ Throw(h)
    /\ UNCHANGED <<db, provider, history, buy, job, clock>>

\* scheduleSubscriptionNotification: the date in the message is computed from
\* the end date the account has by now.
Notify(h) ==
    LET o == hook[h].order IN
    /\ At(h, "notify")
    /\ \/ /\ notice' = [notice EXCEPT ![o.user] = EndDate(o, account[o.user].end)]
          /\ Advance(h)
          /\ UNCHANGED used
       \/ Fault("db") /\ Throw(h) /\ UNCHANGED notice
    /\ UNCHANGED <<account, tx, order, subscribers, provider, history, buy, job, clock>>

\* createSubscriber: an upsert by user, customer and subscription.  A false
\* result is answered with status 500.
UpsertSubscriber(h) ==
    /\ At(h, "subscribe")
    /\ \/ /\ subscribers' =
               {s \in subscribers : s.p # P(h)} \cup
               {[user |-> buy[P(h)].user, p |-> P(h),
                 interval |-> IF hook[h].ev.type = "created"
                              THEN StripeInterval[buy[P(h)].time] ELSE buy[P(h)].time]}
          /\ Advance(h)
          /\ UNCHANGED used
       \/ Fault("db") /\ Throw(h) /\ UNCHANGED subscribers
    /\ UNCHANGED <<account, tx, order, notice, provider, history, buy, job, clock>>

\* sendNotificationsAboutAutomaticDebiting reads the user and, outside the
\* testing environment, sends nothing.
DebitNotice(h) ==
    /\ At(h, "debit")
    /\ \/ Advance(h) /\ UNCHANGED used
       \/ Fault("db") /\ Throw(h)
    /\ UNCHANGED <<db, provider, history, buy, job, clock>>

\* Mutant: the handler forgets its result, which the controller takes for a failure.
RespondWithoutCode(h) ==
    /\ hook[h].pc = "respond"
    /\ Throw(h)
    /\ UNCHANGED <<db, provider, history, buy, job, clock, used>>

\* The hook answers with success and the delivery is not repeated.
Respond(h) ==
    /\ At(h, "respond")
    /\ hook' = [hook EXCEPT ![h] = Idle]
    /\ closed' = closed \cup {hook[h].ev}
    /\ UNCHANGED <<db, provider, history, buy, job, clock, used>>

-----------------------------------------------------------------------------
(* CheckSubscriptions *)

\* Mutant: the last day is already past.
ExpiredToday(u) == account[u].end # None /\ account[u].end <= clock

Expired(u) == account[u].end # None /\ account[u].end < clock

\* Mutant: accounts that renew themselves are not looked at.
CronStartOneOff ==
    LET due == {u \in Users : Expired(u) /\ ~account[u].auto} IN
    /\ job.pc = "idle" /\ due # {}
    /\ job' = [pc |-> "mail", todo |-> due, user |-> None]
    /\ stale' = stale \ Users
    /\ UNCHANGED <<db, provider, grants, credit, buy, closed, hook, clock, used>>

\* The users whose end date is past are read once, for the whole run.
CronStart ==
    /\ job.pc = "idle"
    /\ \E u \in Users : Expired(u)
    /\ job' = [pc |-> "mail", todo |-> {u \in Users : Expired(u)}, user |-> None]
    /\ stale' = stale \ Users
    /\ UNCHANGED <<db, provider, grants, credit, buy, closed, hook, clock, used>>

JobIdle == [pc |-> "idle", todo |-> {}, user |-> None]

\* One user is told that the subscription has expired.  The second failure to
\* send ends the run for every user left.
CronMail(u) ==
    /\ job.pc = "mail" /\ u \in job.todo
    /\ \/ /\ job' = [pc |-> "end", todo |-> job.todo \ {u}, user |-> u]
          /\ UNCHANGED used
       \/ Fault("mail") /\ job' = JobIdle
    /\ UNCHANGED <<db, provider, history, buy, closed, hook, clock>>

\* That user's account becomes personal, whatever it is by now.
CronEnd ==
    /\ job.pc = "end"
    /\ job' = IF job.todo = {} THEN JobIdle ELSE [job EXCEPT !.pc = "mail", !.user = None]
    /\ \/ /\ account' = [account EXCEPT ![job.user] = Personal]
          /\ stale' = stale \cup Readers(job.user)
          /\ UNCHANGED used
       \/ Fault("db") /\ UNCHANGED <<account, stale>>
    /\ UNCHANGED <<tx, order, subscribers, notice, provider, grants, credit, buy,
                   closed, hook, clock>>

-----------------------------------------------------------------------------
(* The process and the calendar *)

\* The gateway stops and starts again: every request and the job are gone.
Crash ==
    /\ Fault("crash")
    /\ hook' = [h \in Handlers |-> Idle]
    /\ closed' = closed \cup {e \in InFlight \ {None} : e.type = "capture"}
    /\ buy' = [p \in Purchases |->
                 IF buy[p].pc \in {"idle", "done"} THEN buy[p]
                 ELSE [buy[p] EXCEPT !.pc = "failed"]]
    /\ job' = JobIdle
    /\ UNCHANGED <<db, provider, history, clock>>

Tick ==
    /\ clock < MaxClock
    /\ clock' = clock + 1
    /\ UNCHANGED <<db, provider, history, buy, closed, hook, job, used>>

-----------------------------------------------------------------------------
Buying(p) ==
    \/ \E u \in Users, t \in Times, m \in Methods, n \in 1..MaxCount :
         StartBuy(p, u, t, m, n)
    \/ CreateTransaction(p)
    \/ OpenSession(p)
    \/ UpdateTransaction(p)
    \/ CreateOrder(p)

Handling(h) ==
    \/ Capture(h)
    \/ FindOrder(h)
    \/ MarkTransaction(h)
    \/ ReadAccount(h)
    \/ WriteAccount(h)
    \/ SendMail(h)
    \/ Notify(h)
    \/ UpsertSubscriber(h)
    \/ DebitNotice(h)
    \/ Respond(h)

Checking == CronStart \/ (\E u \in Users : CronMail(u)) \/ CronEnd

Next ==
    \/ \E p \in Purchases : Buying(p) \/ Pay(p) \/ Cancel(p) \/ Recharge(p)
    \/ \E h \in Handlers : \E e \in emitted : Deliver(h, e) \/ Duplicate(h, e)
    \/ \E h \in Handlers : Handling(h)
    \/ Checking
    \/ Crash
    \/ Tick

Spec == Init /\ [][Next]_vars

\* A hook that runs goes on, a webhook that was not acknowledged is delivered
\* again, and the job runs every hour; nobody has to buy, to pay or to come
\* back to the site.
Fairness ==
    /\ \A h \in Handlers : WF_vars(Handling(h))
    /\ \A p \in Purchases : WF_vars(\E h \in Handlers : \E e \in emitted :
                                      e.p = p /\ e.type # "capture" /\ Deliver(h, e))
    /\ WF_vars(Checking)

FairSpec == Spec /\ Fairness

-----------------------------------------------------------------------------
(* Properties *)

Requests ==
    [pc : {"idle", "createTx", "openSession", "updateTx", "createOrder", "done", "failed"},
     user : Users \cup {None}, time : Times \cup {None},
     system : Systems \cup {None}, auto : BOOLEAN, count : Nat]

HookStates ==
    [pc : HookSteps, ev : Events, order : Orders \cup {None}, end : Nat \cup {None}]

JobStates ==
    [pc : {"idle", "mail"}, todo : SUBSET Users, user : {None}]
      \cup [pc : {"end"}, todo : SUBSET Users, user : Users]

Subscribers == [user : Users, p : Purchases, interval : Intervals]

\* Every variable has its type; in particular an account that is personal has
\* no end date and no renewal, and one that is business has an end date.
TypeOK ==
    /\ account \in [Users -> Accounts]
    /\ tx \in [Purchases -> Transactions \cup {None}]
    /\ order \in [Purchases -> Orders \cup {None}]
    /\ subscribers \subseteq Subscribers
    /\ notice \in [Users -> Nat \cup {None}]
    /\ buy \in [Purchases -> Requests]
    /\ session \in [Purchases -> Sessions]
    /\ emitted \subseteq Events
    /\ closed \subseteq Events
    /\ hook \in [Handlers -> HookStates \cup {Idle}]
    /\ job \in JobStates
    /\ clock \in Nat
    /\ used \in [Faults -> Nat]
    /\ grants \in [Purchases -> Nat]
    /\ credit \in [Users -> Nat]
    /\ stale \subseteq Handlers \cup Users

Charged(p) == session[p].status = "paid"

\* A payment the provider takes has its rows at the gateway: whoever can pay
\* was sent the url, and the url is returned after the transaction and the
\* order are stored, for the buyer and at the price the session charges.
PayableIsBacked ==
    \A p \in Purchases : session[p].status \in {"approved", "paid"} =>
        /\ tx[p] \in [status : Statuses, price : {session[p].amount}]
        /\ order[p] \in [paymentId : {p}, user : {buy[p].user},
                         price : {session[p].amount}, time : {buy[p].time}]

\* No day is given away: an end date is never later than today plus all the
\* days ever credited to the user, however hooks and the job interleave.
NoFreeDays ==
    \A u \in Users : account[u].end # None => account[u].end <= clock + credit[u]

GrantingEvents(p) ==
    {e \in emitted : /\ e.p = p /\ e.type \in Granting /\ e.n > 0
                     /\ e.type = "capture" => ~buy[p].auto}

\* The extensions of a purchase beyond one for each payment event are the
\* price of repeated deliveries: each stands for a duplicate, a failure after
\* the account was written, or a crash.
ExtraGrantsNeedFaults ==
    \A p \in Purchases :
        grants[p] <= Cardinality(GrantingEvents(p)) + used["dup"] + used["mail"]
                       + used["db"] + Cardinality(Handlers) * used["crash"]

\* A webhook that was answered with success has done its work: there are as
\* many extensions as acknowledged payment events, and a charge's transaction
\* is completed.  (Only where no database call failed: handlers swallow that.)
AckedIsGranted ==
    used["db"] = 0 => \A p \in Purchases :
        /\ grants[p] >= Cardinality({e \in closed : /\ e.p = p
                                                    /\ e.type \in Granting \ {"capture"}})
        /\ (\E e \in closed : e.p = p /\ e.type \in {"checkout", "sale"})
             => tx[p].status = "Completed"

Writes(h) == hook[h].pc = "write" /\ hook'[h] # hook[h] /\ credit' # credit

\* An extension adds the bought days to the end date the account has when it
\* is written, unless another writer came between the hook's read and its write.
ExactUnlessStale ==
    [][\A h \in Handlers : Writes(h) /\ h \notin stale =>
         LET o == hook[h].order IN
         account[o.user].end # None
           => account'[o.user].end = account[o.user].end + Extension(o)]_vars

Ends(u) == account[u].end # None /\ account'[u].end = None

\* The job ends a subscription that is not past its end date only if a hook
\* renewed it after the job read the users.
EndedIsPastUnlessStale ==
    [][\A u \in Users : Ends(u) /\ u \notin stale => account[u].end < clock]_vars

\* How far a purchase is in the abstract lifecycle.
Stage(p) ==
    IF grants[p] > 0 THEN "granted"
    ELSE IF Charged(p) THEN "paid"
    ELSE IF buy[p].pc = "done" THEN "payable" ELSE "none"

stages == [p \in Purchases |-> Stage(p)]

Lifecycle == INSTANCE PurchaseLifecycle WITH stage <- stages

\* The feature implements PurchaseLifecycle: no account is extended for a
\* purchase that was not paid, and none is paid that was not offered.
ImplementsLifecycle == Lifecycle!Spec

\* A payment event was answered with success although nothing was granted: the account's
\* write failed, which no handler notices, and nobody repeats the event.
WriteLost(p) ==
    /\ used["db"] > 0 /\ grants[p] = 0
    /\ \E e \in closed : e.p = p /\ e.type \in Granting \ {"capture"}

\* A charge that webhooks announce extends the buyer's account in the end: failed and
\* crashed deliveries are repeated until one was answered.  The one exception is the
\* failed write of the account, after which the charge is never credited.
PaidIsGranted ==
    \A p \in Purchases :
        (Charged(p) /\ ~NeedsCapture(p)) ~> (grants[p] > 0 \/ WriteLost(p))

\* The hourly job catches every subscription that is past its end date.
ExpiredIsEnded == \A u \in Users : Expired(u) ~> ~Expired(u)

-----------------------------------------------------------------------------
(* What the repository says and the code does not do *)

\* constants.ts: 'Your subscription activated and valid until' is followed by
\* the date the subscription is valid until.
NoticeIsEndDate ==
    [][\A u \in Users : notice'[u] # notice[u] => notice'[u] = account[u].end]_vars

=============================================================================
