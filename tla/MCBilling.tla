------------------------------- MODULE MCBilling -------------------------------
(* Small instances of Billing for TLC. *)
EXTENDS Billing, TLC

CONSTANTS o1, o2, c1, c2, ship, scale

(* Months of 2, 1, 2, 2 and 2 days *)
ShortMonths == <<0, 2, 3, 5, 7, 9>>
=============================================================================
