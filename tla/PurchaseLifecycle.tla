------------------------- MODULE PurchaseLifecycle -------------------------
(***************************************************************************)
(* What the subscription feature promises about one purchase, with every   *)
(* row, request and webhook left out: a purchase becomes payable, is       *)
(* charged, and only then extends the buyer's account; no stage is skipped *)
(* and none is taken back.  Subscriptions implements this specification.   *)
(***************************************************************************)

CONSTANT Purchases

VARIABLE stage

Stages == {"none", "payable", "paid", "granted"}

TypeOK == stage \in [Purchases -> Stages]

Init == stage = [p \in Purchases |-> "none"]

Move(p, from, to) == stage[p] = from /\ stage' = [stage EXCEPT ![p] = to]

Offer(p)  == Move(p, "none", "payable")
Charge(p) == Move(p, "payable", "paid")
Grant(p)  == Move(p, "paid", "granted")

Next == \E p \in Purchases : Offer(p) \/ Charge(p) \/ Grant(p)

Spec == Init /\ [][Next]_stage

=============================================================================
