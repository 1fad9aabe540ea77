-------------------------- MODULE MCSubscriptions --------------------------
(* Values of the constants of Subscriptions for TLC. *)
EXTENDS Subscriptions, TLC

\* The catalogue the integration tests seed, in cents.
CataloguePrice == [t \in Times |-> [DAY |-> 100, WEEKLY |-> 1000, MONTHLY |-> 3000][t]]

\* Payment methods: everything, Stripe, PayPal, and the recurring ones.
AllMethods       == Systems \X BOOLEAN
StripeMethods    == {"STRIPE"} \X BOOLEAN
PaypalMethods    == {"PAYPAL"} \X BOOLEAN
OneOffMethods    == Systems \X {FALSE}
RecurringMethods == Systems \X {TRUE}

\* Purchases, handlers and users are interchangeable in safety runs.
Interchangeable == Permutations(Purchases) \cup Permutations(Handlers) \cup Permutations(Users)

=============================================================================
