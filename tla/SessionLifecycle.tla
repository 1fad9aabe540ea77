-------------------------- MODULE SessionLifecycle --------------------------
(***************************************************************************)
(* What the gateway promises about one device's session, with requests,    *)
(* tokens and time left out: it is opened once, for one user, and once     *)
(* ended it stays ended.  Sessions implements this specification.          *)
(***************************************************************************)

CONSTANTS Users, Devices

VARIABLE session

States == [state : {"none", "ended"}] \cup [state : {"live"}, user : Users]

TypeOK == session \in [Devices -> States]

Init == session = [d \in Devices |-> [state |-> "none"]]

\* A device id is fresh, so it is opened at most once.
Open(d, u) ==
    /\ session[d].state = "none"
    /\ session' = [session EXCEPT ![d] = [state |-> "live", user |-> u]]

\* One request may end several sessions, whoever they belong to.
End(D) ==
    /\ D # {}
    /\ \A d \in D : session[d].state = "live"
    /\ session' = [d \in Devices |-> IF d \in D THEN [state |-> "ended"] ELSE session[d]]

Next ==
    \/ \E d \in Devices, u \in Users : Open(d, u)
    \/ \E D \in SUBSET Devices : End(D)

Spec == Init /\ [][Next]_session

=============================================================================
