---------------------------- MODULE MessagePromise ----------------------------
(***************************************************************************)
(* What the ingress promises a sender and the operator: every submission   *)
(* gets at most one answer; it is charged at most once, never past the     *)
(* quota of a plan, and accepted only if it has been charged.              *)
(***************************************************************************)
EXTENDS Naturals

CONSTANTS Submissions, Plans, Quota

VARIABLES status,  \* "new", "open", "charged", "accepted" or "refused"
           used     \* the month's charges

vars == <<status, used>>

Init == /\ status = [m \in Submissions |-> "new"]
        /\ used = 0

Submit(m) ==
    /\ status[m] = "new"
    /\ \E s \in {"open", "refused"} : status' = [status EXCEPT ![m] = s]
    /\ UNCHANGED used

Charge(m, p) ==
    /\ status[m] = "open"
    /\ status' = [status EXCEPT ![m] = "charged"]
    /\ used' \in used + 1 .. Quota[p]

Accept(m) ==
    /\ status[m] = "charged"
    /\ status' = [status EXCEPT ![m] = "accepted"]
    /\ UNCHANGED used

(* A refused or broken submission keeps its charge, if it had one. *)
Refuse(M) ==
    /\ \A m \in M : status[m] \in {"open", "charged"}
    /\ status' = [m \in Submissions |-> IF m \in M THEN "refused" ELSE status[m]]
    /\ UNCHANGED used

Next == \/ \E m \in Submissions : \/ Submit(m)
                                  \/ \E p \in Plans : Charge(m, p)
                                  \/ Accept(m)
        \/ \E M \in SUBSET Submissions : Refuse(M)

Spec == Init /\ [][Next]_vars
=============================================================================
