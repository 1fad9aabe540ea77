----------------------------- MODULE MCComments -----------------------------
(* Comments for TLC: one post of the first user, and one of the second. *)
EXTENDS Comments, TLC

CONSTANTS u1, u2, p1, p2, r1, r2

Authors == p1 :> u1 @@ p2 :> u2
Alike   == Permutations(Requests) \cup {u1 :> u2 @@ u2 :> u1 @@ p1 :> p2 @@ p2 :> p1}

=============================================================================
