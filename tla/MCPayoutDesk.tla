------------------------------ MODULE MCPayoutDesk ------------------------------
(* Small instances of PayoutDesk for TLC. *)
EXTENDS PayoutDesk, TLC

CONSTANTS c1, p1, r1, o1, a1, a2

Symmetric == Permutations(Details)
=============================================================================
