------------------------------ MODULE MCReferralCodes ------------------------------
(* Small instances of ReferralCodes for TLC. *)
EXTENDS ReferralCodes, TLC

CONSTANTS a1, a2, n1, k1, k2, v1, v2, t1, t2

Symmetric == Permutations(Members) \cup Permutations(Codes)
             \cup Permutations(Views) \cup Permutations(Tabs)
=============================================================================
