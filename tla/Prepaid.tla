------------------------------- MODULE Prepaid -------------------------------
(***************************************************************************)
(* What a prepaid plan is to the customer: every payment is credited once, *)
(* and buys one month: a month more of the plan that is running, or a new  *)
(* month of another.                                                       *)
(***************************************************************************)
EXTENDS BillingPeriod

CONSTANT Orders

VARIABLES planOf,    \* the plan each order is for, Free before it is made
          plan,      \* the plan credited last
          until,     \* when its period ends
          credited,  \* orders that have bought their month
          now

vars == <<planOf, plan, until, credited, now>>

Init == /\ planOf = [o \in Orders |-> Free]
        /\ plan = Free /\ until = 0 /\ credited = {} /\ now = 0

Order(o, p) ==
    /\ planOf[o] = Free
    /\ planOf' = [planOf EXCEPT ![o] = p]
    /\ UNCHANGED <<plan, until, credited, now>>

(* The payment counts from a moment at or before its crediting. *)
Credit(o) ==
    /\ o \notin credited /\ planOf[o] # Free
    /\ credited' = credited \cup {o}
    /\ plan' = planOf[o]
    /\ \E t \in 0..now :
          until' = AddOneMonth(IF plan = planOf[o] /\ until > t THEN until ELSE t)
    /\ UNCHANGED <<planOf, now>>

Tick == now' = now + 1 /\ UNCHANGED <<planOf, plan, until, credited>>

Next == Tick \/ \E o \in Orders : Credit(o) \/ \E p \in PaidPlans : Order(o, p)

Spec == Init /\ [][Next]_vars
=============================================================================
