------------------------------ MODULE MCMedia ------------------------------
(* Media for TLC. *)
EXTENDS Media, TLC

CONSTANTS u1, u2, i1, i2, p1, p2, c1, c2, r1, r2

=============================================================================
