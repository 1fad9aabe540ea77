----------------------------- MODULE MCAccounts -----------------------------
(* Values of the constants of Accounts for TLC. *)
EXTENDS Accounts, TLC

\* Everything with a name is interchangeable in safety runs.
Interchangeable ==
    Permutations(Users) \cup Permutations(Emails) \cup Permutations(Names)
      \cup Permutations(Codes) \cup Permutations(Providers) \cup Permutations(Requests)

=============================================================================
