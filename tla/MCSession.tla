------------------------------- MODULE MCSession -------------------------------
(* Small instances of Session for TLC. *)
EXTENDS Session, TLC

CONSTANTS t1, t2, r1, r2

Symmetric == Permutations(Tabs) \cup Permutations(Requests)
=============================================================================
