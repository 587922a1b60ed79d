-------------------------- MODULE MCReferralPayouts --------------------------
(* Small instances of ReferralPayouts for TLC. *)
EXTENDS ReferralPayouts, TLC

CONSTANTS c1, c2, p1, p2, r1, r2, o1

Symmetry == Permutations(Commissions) \cup Permutations(Payouts) \cup Permutations(Requests)
=============================================================================
