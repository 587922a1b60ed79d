------------------------------ MODULE MCAccounts ------------------------------
(* Small instances of Accounts for TLC. *)
EXTENDS Accounts, TLC

CONSTANTS c1, c2, p1, p2, g1

Symmetric == Permutations(Calls) \cup Permutations(Passwords)
=============================================================================
