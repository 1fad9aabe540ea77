----------------------------- MODULE MCSessions -----------------------------
(* Values of the constants of Sessions for TLC. *)
EXTENDS Sessions, TLC

\* Everything with a name is interchangeable in safety runs.
Interchangeable ==
    Permutations(Users) \cup Permutations(Devices)
      \cup Permutations(Clients) \cup Permutations(Requests)

=============================================================================
