---------------------------- MODULE BillingPeriod ----------------------------
(***************************************************************************)
(* The date arithmetic of prepaid plans (billingPeriod.ts).  A date is the *)
(* number of days since the start of the calendar; Calendar gives the      *)
(* first day of each month, so that months have their different lengths.   *)
(***************************************************************************)
EXTENDS Naturals

CONSTANTS Calendar,  \* Calendar[m] is the first day of month m = 1, 2, ...
          LastMonth, \* the calendar's last month, whose end is Calendar[LastMonth + 1]
          Free,      \* the key of the free plan
          PaidPlans

ASSUME CalendarAssumption ==
    /\ LastMonth \in Nat \ {0}
    /\ Calendar \in [1..LastMonth + 1 -> Nat]
    /\ Calendar[1] = 0
    /\ \A m \in 1..LastMonth : Calendar[m] < Calendar[m + 1]
    /\ Free \notin PaidPlans

Date == 0..Calendar[LastMonth + 1] - 1
MonthOf(date) == CHOOSE m \in 1..LastMonth : Calendar[m] <= date /\ date < Calendar[m + 1]
DaysIn(m) == Calendar[m + 1] - Calendar[m]

(* An organization's subscription document *)
Subscription == [exists: BOOLEAN, plan: {Free} \cup PaidPlans, end: Date]

(* Same day next month, clamped to the month's last day *)
AddOneMonth(date) ==
    LET m == MonthOf(date)
        day == date - Calendar[m]
    IN  Calendar[m + 1] + IF day < DaysIn(m + 1) THEN day ELSE DaysIn(m + 1) - 1

(* Every stored subscription is active; none is for life. *)
IsSubscriptionCurrent(sub, now) == sub.exists /\ sub.end > now

EffectivePlanKey(orgPlan, sub, now) ==
    IF orgPlan # Free /\ IsSubscriptionCurrent(sub, now) /\ sub.plan = orgPlan
    THEN orgPlan ELSE Free

(* The period of a payment for `plan` starts here. *)
PeriodStart(sub, plan, now) ==
    IF IsSubscriptionCurrent(sub, now) /\ sub.plan = plan THEN sub.end ELSE now
=============================================================================
