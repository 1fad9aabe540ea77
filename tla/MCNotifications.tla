--------------------------- MODULE MCNotifications ---------------------------
(* Notifications for TLC. *)
EXTENDS Notifications, TLC

CONSTANTS u1, u2, c1

Alike == Permutations(Users)

=============================================================================
