---------------------------- MODULE MCSmtpIngress ----------------------------
(* Small instances of SmtpIngress for TLC. *)
EXTENDS SmtpIngress, TLC

CONSTANTS s1, s2, i1, free, paid, m1, m2

SmallQuotas == (free :> 2) @@ (paid :> 3)
SmallMessages == (free :> 1) @@ (paid :> 2)
=============================================================================
