----------------------------- MODULE BillingProofs -----------------------------
(***************************************************************************)
(* What a paid plan comes to, for every calendar, every set of orders,     *)
(* calls and plans, and every bound on the time and on faults.  What has   *)
(* been paid bounds the plan whatever overlaps; that every payment is      *)
(* credited in full, and shown so, is proved for a customer who does not   *)
(* pay again before the last payment is credited, and for refunds that do  *)
(* not overtake the crediting: MCBilling checks them under the same terms. *)
(***************************************************************************)
EXTENDS Billing, TLAPS, FiniteSetTheorems, WellFoundedInduction

(* The months of a plan that have been credited *)
BoughtFor(p) == {o \in credited : payment[o].plan = p}
Bought(p) == Cardinality(BoughtFor(p))

(* The orders the customer has paid that are not in the subscription yet *)
Outstanding == captured \ credited

Claimed(c) == call[c].pc \in {"read", "credit"}
Completing(c) == call[c].pc \in {"period", "org", "award"}
Crediting(c) == Claimed(c) \/ Completing(c)
Refunding(c) == call[c].pc \in {"findPayment", "findCommission", "saveReversal"}

(* A document is for a plan, and a customer pays for a document. *)
OrderSound(o) ==
    /\ payment[o].status = "none" <=> payment[o].plan = Free
    /\ o \in captured => payment[o].status # "none"
    /\ payment[o].status = "paid" => o \in captured
    /\ o \in credited => payment[o].status = "paid"
    /\ o \in paidHook \cup refunded => o \in captured
    /\ o \in refundHook => o \in refunded
    /\ commission[o] # "none" => o \in credited

(* A call is for a payment the customer has made; between its claim and its *)
(* credit the payment is paid and not credited.                             *)
CallSound(c) ==
    /\ call[c].pc # "idle" => call[c].order \in captured
    /\ Claimed(c) => call[c].order \in Paid \ credited
    /\ Completing(c) => call[c].order \in credited
    /\ call[c].pc = "view" => call[c].order \in Paid
    /\ call[c].pc = "saveReversal" => call[c].order \in credited
    /\ call[c].pc = "credit" => MonthOf(call[c].start) <= MonthOf(now) + Bought(PlanOf(c))
    /\ IF Refunding(c) THEN call[c].hook = "refund" /\ call[c].order \in refunded
                       ELSE call[c].hook # "refund"

(* The two calls for an order never both credit it. *)
OneClaim == \A c, d \in Calls : Claimed(c) /\ Claimed(d) /\ call[c].order = call[d].order => c = d

PageSound ==
    /\ page.stage # "idle" => page.order \in Orders
    /\ page.stage = "modal" => payment[page.order].status # "none"
    /\ page.stage \in {"paid", "verify", "refetch"} => page.order \in captured
    /\ page.received => /\ page.order \in Paid
                        /\ page.early \/ page.order \in credited

SubSound ==
    /\ ~sub.exists => sub = NoSubscription
    /\ sub.exists => sub.plan \in PaidPlans /\ MonthOf(sub.end) <= MonthOf(now) + Bought(sub.plan)

BillingInv ==
    /\ now <= MaxDay
    /\ \A o \in Orders : OrderSound(o)
    /\ \A c \in Calls : CallSound(c)
    /\ OneClaim /\ PageSound /\ SubSound

(* The page is of the last order paid, and once it says so shows the plan   *)
(* that is in force.                                                        *)
PageOfLast ==
    /\ AtPage("paid") \/ AtPage("verify") \/ AtPage("refetch") \/ page.received
          => Outstanding \subseteq {page.order}
    /\ AtPage("idle") /\ page.received /\ ~page.early =>
          page.sub = sub /\ page.order \in page.payments

(* If no payment overtakes the crediting of another                         *)
SingleInv ==
    /\ \A o, p \in Outstanding : o = p
    /\ \A c, d \in Calls : Crediting(c) /\ Crediting(d) => c = d
    /\ \A c \in Calls : Crediting(c) => Outstanding \subseteq {call[c].order}
    /\ \A c \in Calls : At(c, "credit") => \E t \in 0..now : call[c].start = PeriodStart(sub, PlanOf(c), t)
    /\ PageOfLast

(* What is left to do for a payment, some call is about to do.              *)
PaidWhole(o) ==
    /\ o \in credited \/ \E c \in Calls : Claimed(c) /\ call[c].order = o
    /\ payment[o].period \/ \E c \in Calls : (Claimed(c) \/ At(c, "period")) /\ call[c].order = o
    /\ \/ commission[o] # "none" \/ "reject" \in faults
       \/ \E c \in Calls : Crediting(c) /\ call[c].order = o

PlanWhole ==
    /\ sub.exists => \/ orgPlan = sub.plan
                     \/ \E c \in Calls : At(c, "period") \/ At(c, "org")
    /\ \A c \in Calls : At(c, "period") \/ At(c, "org") => sub.exists /\ sub.plan = PlanOf(c)

WholeInv == Interrupted \/ ((\A o \in Paid : PaidWhole(o)) /\ PlanWhole)

(* If no refund overtakes the crediting of its payment                      *)
RefundSound(o) ==
    /\ o \notin paidHook
    /\ ~(AtPage("paid") /\ page.order = o)
    /\ \A c \in Calls : call[c].order = o => Refunding(c)
    /\ o \notin refundHook => commission[o] # "pending"

RefundInv == \A o \in refunded : RefundSound(o)
-----------------------------------------------------------------------------
(* The calendar: months follow each other, and every date is in one.        *)
LEMMA LeastOf ==
    ASSUME NEW S \in SUBSET Nat, S # {}
    PROVE  \E x \in S : \A y \in S : x <= y
<1>1. PICK x \in S : \A y \in S : ~(<<y, x>> \in OpToRel(<, Nat))
  BY WFMin, NatLessThanWellFounded
<1>2. ASSUME NEW y \in S PROVE x <= y
  <2>1. ~(y < x)
    BY <1>1 DEF OpToRel
  <2> QED
    BY <2>1
<1> QED
  BY <1>2

LEMMA CalendarGrows ==
    ASSUME NEW m \in 1..LastMonth + 1, NEW n \in 1..LastMonth + 1, m < n
    PROVE  Calendar[m] < Calendar[n]
<1> DEFINE S == {k \in 1..LastMonth + 1 : m < k /\ ~(Calendar[m] < Calendar[k])}
<1>1. LastMonth \in Nat /\ Calendar \in [1..LastMonth + 1 -> Nat]
      /\ \A k \in 1..LastMonth : Calendar[k] < Calendar[k + 1]
  BY CalendarAssumption
<1> SUFFICES ASSUME S # {} PROVE FALSE
  OBVIOUS
<1>2. PICK k \in S : \A j \in S : k <= j
  <2>1. S \in SUBSET Nat
    BY <1>1
  <2> HIDE DEF S
  <2> QED
    BY LeastOf, <2>1
<1>3. k - 1 \in 1..LastMonth /\ k - 1 >= m /\ k = (k - 1) + 1 /\ Calendar[k] \in Nat /\ Calendar[m] \in Nat
  BY <1>1, <1>2
<1>4. Calendar[k - 1] < Calendar[k] /\ Calendar[k - 1] \in Nat
  BY <1>1, <1>3
<1>5. k - 1 = m \/ Calendar[m] < Calendar[k - 1]
  BY <1>1, <1>2, <1>3
<1> QED
  BY <1>2, <1>3, <1>4, <1>5

LEMMA MonthOfDate ==
    ASSUME NEW d \in Date
    PROVE  MonthOf(d) \in 1..LastMonth /\ Calendar[MonthOf(d)] <= d /\ d < Calendar[MonthOf(d) + 1]
<1> DEFINE S == {k \in 1..LastMonth : d < Calendar[k + 1]}
<1>1. LastMonth \in Nat /\ LastMonth # 0 /\ Calendar \in [1..LastMonth + 1 -> Nat] /\ Calendar[1] = 0 /\ d \in Nat
      /\ d < Calendar[LastMonth + 1]
  BY CalendarAssumption DEF Date
<1>2. PICK k \in S : \A j \in S : k <= j
  <2>1. S \in SUBSET Nat /\ LastMonth \in S
    BY <1>1
  <2> HIDE DEF S
  <2> QED
    BY LeastOf, <2>1
<1>3. Calendar[k] <= d
  <2>1. CASE k = 1
    BY <1>1, <2>1
  <2>2. CASE k # 1
    <3>1. k - 1 \in 1..LastMonth /\ (k - 1) + 1 = k
      BY <1>1, <1>2, <2>2
    <3>2. ~(d < Calendar[(k - 1) + 1])
      BY <1>1, <1>2, <3>1
    <3> QED
      BY <1>1, <1>2, <3>1, <3>2
  <2> QED
    BY <2>1, <2>2
<1>4. \E m \in 1..LastMonth : Calendar[m] <= d /\ d < Calendar[m + 1]
  BY <1>2, <1>3
<1> QED
  BY <1>4 DEF MonthOf

LEMMA MonthIs ==
    ASSUME NEW d \in Date, NEW m \in 1..LastMonth, Calendar[m] <= d, d < Calendar[m + 1]
    PROVE  MonthOf(d) = m
<1> DEFINE n == MonthOf(d)
<1>1. n \in 1..LastMonth /\ Calendar[n] <= d /\ d < Calendar[n + 1]
  BY MonthOfDate
<1> HIDE DEF n
<1>2. LastMonth \in Nat /\ Calendar \in [1..LastMonth + 1 -> Nat] /\ d \in Nat
  BY CalendarAssumption DEF Date
<1>3. n + 1 \in 1..LastMonth + 1 /\ m + 1 \in 1..LastMonth + 1
  BY <1>1, <1>2
<1>4. ~(n < m)
  <2> SUFFICES ASSUME n < m PROVE FALSE
    OBVIOUS
  <2>1. n + 1 = m \/ Calendar[n + 1] < Calendar[m]
    BY <1>1, <1>2, <1>3, CalendarGrows
  <2> QED
    BY <1>1, <1>2, <1>3, <2>1
<1>5. ~(m < n)
  <2> SUFFICES ASSUME m < n PROVE FALSE
    OBVIOUS
  <2>1. m + 1 = n \/ Calendar[m + 1] < Calendar[n]
    BY <1>1, <1>2, <1>3, CalendarGrows
  <2> QED
    BY <1>1, <1>2, <1>3, <2>1
<1> QED
  BY <1>1, <1>2, <1>4, <1>5 DEF n

LEMMA MonthsPass ==
    ASSUME NEW d \in Date, NEW e \in Date, d <= e
    PROVE  MonthOf(d) <= MonthOf(e)
<1> DEFINE m == MonthOf(d)
           n == MonthOf(e)
<1>1. /\ m \in 1..LastMonth /\ Calendar[m] <= d
      /\ n \in 1..LastMonth /\ e < Calendar[n + 1]
  BY MonthOfDate
<1> HIDE DEF m, n
<1>2. LastMonth \in Nat /\ Calendar \in [1..LastMonth + 1 -> Nat] /\ d \in Nat /\ e \in Nat
  BY CalendarAssumption DEF Date
<1>3. n + 1 \in 1..LastMonth + 1 /\ m \in 1..LastMonth + 1
  BY <1>1, <1>2
<1>4. ~(n < m)
  <2> SUFFICES ASSUME n < m PROVE FALSE
    OBVIOUS
  <2>1. n + 1 = m \/ Calendar[n + 1] < Calendar[m]
    BY <1>1, <1>2, <1>3, CalendarGrows
  <2> QED
    BY <1>1, <1>2, <1>3, <2>1
<1> QED
  BY <1>1, <1>2, <1>4 DEF m, n

(* addOneMonth lands in the next month, however long the two months are     *)
(* (billingPeriod.ts:11-19).                                                *)
LEMMA NextMonth ==
    ASSUME NEW d \in Date, MonthOf(d) < LastMonth
    PROVE  AddOneMonth(d) \in Date /\ MonthOf(AddOneMonth(d)) = MonthOf(d) + 1
<1> DEFINE m == MonthOf(d)
           e == AddOneMonth(d)
<1>1. m \in 1..LastMonth /\ Calendar[m] <= d /\ d < Calendar[m + 1]
  BY MonthOfDate
<1>2. LastMonth \in Nat /\ Calendar \in [1..LastMonth + 1 -> Nat] /\ d \in Nat
  BY CalendarAssumption DEF Date
<1>3. e = Calendar[m + 1] + IF d - Calendar[m] < Calendar[m + 1 + 1] - Calendar[m + 1]
                            THEN d - Calendar[m] ELSE Calendar[m + 1 + 1] - Calendar[m + 1] - 1
  BY DEF AddOneMonth, DaysIn
<1>4. m < LastMonth
  OBVIOUS
<1> HIDE DEF m, e
<1>5. m + 1 \in 1..LastMonth /\ m + 1 + 1 \in 1..LastMonth + 1
  BY <1>1, <1>2, <1>4
<1>6. /\ Calendar[m] \in Nat /\ Calendar[m + 1] \in Nat /\ Calendar[m + 1 + 1] \in Nat
      /\ Calendar[m + 1] < Calendar[m + 1 + 1]
  BY <1>1, <1>2, <1>5, CalendarAssumption
<1>7. e \in Nat /\ Calendar[m + 1] <= e /\ e < Calendar[m + 1 + 1]
  <2>1. CASE d - Calendar[m] < Calendar[m + 1 + 1] - Calendar[m + 1]
    <3>1. e = Calendar[m + 1] + (d - Calendar[m])
      BY <1>3, <2>1
    <3> QED
      BY SMTT(30), <1>1, <1>2, <1>6, <2>1, <3>1
  <2>2. CASE ~(d - Calendar[m] < Calendar[m + 1 + 1] - Calendar[m + 1])
    <3>1. e = Calendar[m + 1] + (Calendar[m + 1 + 1] - Calendar[m + 1] - 1)
      BY <1>3, <2>2
    <3> QED
      BY <1>6, <3>1
  <2> QED
    BY <2>1, <2>2
<1>8. Calendar[m + 1 + 1] <= Calendar[LastMonth + 1] /\ Calendar[LastMonth + 1] \in Nat
  <2>1. LastMonth + 1 \in 1..LastMonth + 1
    BY <1>2
  <2>2. m + 1 + 1 = LastMonth + 1 \/ m + 1 + 1 < LastMonth + 1
    BY <1>1, <1>2, <1>5
  <2>3. CASE m + 1 + 1 = LastMonth + 1
    BY <1>2, <2>1, <2>3
  <2>4. CASE m + 1 + 1 < LastMonth + 1
    BY <1>2, <1>5, <1>6, <2>1, <2>4, CalendarGrows
  <2> QED
    BY <2>2, <2>3, <2>4
<1>9. e \in Date
  BY <1>6, <1>7, <1>8 DEF Date
<1> QED
  BY <1>5, <1>7, <1>9, MonthIs DEF m, e
-----------------------------------------------------------------------------
(* The parts of the type invariant                                          *)
LEMMA Typed ==
    ASSUME TypeOK
    PROVE  /\ now \in Date /\ now \in Nat /\ MaxDay \in Date /\ MaxDay \in Nat /\ 0 \in Date
           /\ payment \in [Orders -> Payment]
           /\ captured \in SUBSET Orders /\ credited \in SUBSET Orders /\ refunded \in SUBSET Orders
           /\ paidHook \in SUBSET Orders /\ refundHook \in SUBSET Orders
           /\ page \in Page /\ sub \in Subscription /\ call \in [Calls -> Call]
           /\ commission \in [Orders -> {"none", "pending", "reversed"}]
           /\ IsFiniteSet(Orders) /\ Cardinality(Orders) \in Nat /\ LastMonth \in Nat
<1>1. /\ LastMonth + 1 \in 1..LastMonth + 1 /\ 1 \in 1..LastMonth + 1 /\ 1 < LastMonth + 1
      /\ Calendar \in [1..LastMonth + 1 -> Nat] /\ LastMonth \in Nat /\ Calendar[1] = 0
  BY CalendarAssumption
<1>2. Calendar[1] < Calendar[LastMonth + 1] /\ Calendar[LastMonth + 1] \in Nat
  BY <1>1, CalendarGrows
<1>3. Date \subseteq Nat /\ 0 \in Date
  BY <1>1, <1>2 DEF Date
<1> QED
  BY <1>1, <1>3, BillingAssumption, FS_CardinalityType DEF TypeOK

LEMMA CallTyped ==
    ASSUME TypeOK, NEW c \in Calls
    PROVE  /\ call[c] \in Call /\ call[c].order \in Orders \cup {NoOrder} /\ call[c].start \in Date
           /\ call[c].pc \in {"idle", "find", "claim", "read", "credit", "period", "org", "award",
                              "view", "findPayment", "findCommission", "saveReversal"}
           /\ call[c].hook \in {"none", "paid", "refund"}
BY Typed DEF Call

(* The months bought of a plan are counted, and never run past the calendar. *)
LEMMA BoughtCounted ==
    ASSUME TypeOK, NEW p
    PROVE  /\ IsFiniteSet(BoughtFor(p)) /\ Bought(p) \in Nat /\ Bought(p) <= Cardinality(Orders)
           /\ \A o \in Orders \ credited : Bought(p) < Cardinality(Orders)
<1>1. IsFiniteSet(Orders) /\ BoughtFor(p) \in SUBSET Orders /\ Cardinality(Orders) \in Nat
  BY Typed DEF BoughtFor
<1>2. IsFiniteSet(BoughtFor(p)) /\ Bought(p) \in Nat /\ Bought(p) <= Cardinality(Orders)
  BY <1>1, FS_Subset, FS_CardinalityType DEF Bought
<1>3. ASSUME NEW o \in Orders \ credited PROVE Bought(p) < Cardinality(Orders)
  <2>1. o \notin BoughtFor(p)
    BY <1>3 DEF BoughtFor
  <2>2. BoughtFor(p) \cup {o} \in SUBSET Orders
    BY <1>1
  <2>3. Cardinality(BoughtFor(p) \cup {o}) = Bought(p) + 1
    BY <1>2, <2>1, FS_AddElement DEF Bought
  <2>4. Cardinality(BoughtFor(p) \cup {o}) <= Cardinality(Orders)
    BY <1>1, <2>2, FS_Subset
  <2> QED
    BY <1>1, <1>2, <2>3, <2>4
<1> QED
  BY <1>2, <1>3

LEMMA DatesFit ==
    ASSUME TypeOK, now <= MaxDay, NEW d \in Date, NEW p, MonthOf(d) <= MonthOf(now) + Bought(p),
           NEW o \in Orders \ credited
    PROVE  /\ AddOneMonth(d) \in Date
           /\ MonthOf(AddOneMonth(d)) <= MonthOf(now) + Bought(p) + 1
<1>1. /\ MonthOf(now) \in Nat /\ MonthOf(MaxDay) \in Nat /\ MonthOf(d) \in Nat
      /\ MonthOf(now) <= MonthOf(MaxDay)
  BY Typed, MonthOfDate, MonthsPass
<1>2. Bought(p) \in Nat /\ Bought(p) < Cardinality(Orders) /\ Cardinality(Orders) \in Nat /\ LastMonth \in Nat
  BY BoughtCounted, Typed
<1>3. MonthOf(d) < LastMonth
  BY <1>1, <1>2, BillingAssumption
<1> QED
  BY <1>1, <1>2, <1>3, NextMonth
-----------------------------------------------------------------------------
(* A new period starts no later than the months bought of its plan reach.   *)
LEMMA StartFits ==
    ASSUME TypeOK, BillingInv, NEW c \in Calls
    PROVE  NextStart(c) \in Date /\ MonthOf(NextStart(c)) <= MonthOf(now) + Bought(PlanOf(c))
<1>1. MonthOf(now) \in Nat /\ Bought(PlanOf(c)) \in Nat /\ now \in Date
  BY Typed, MonthOfDate, BoughtCounted
<1>2. CASE sub.exists /\ sub.plan = PlanOf(c) /\ NextStart(c) = sub.end
  BY <1>2, Typed DEF BillingInv, SubSound, Subscription
<1>3. CASE NextStart(c) = now
  BY <1>1, <1>3
<1> QED
  BY <1>2, <1>3 DEF NextStart, PeriodStart, IsSubscriptionCurrent

(* What an API call does to the calls in progress                           *)
Moves(c) == /\ call' \in [Calls -> Call]
            /\ \A d \in Calls \ {c} : call'[d] = call[d]

LEMMA GotoMoves ==
    ASSUME TypeOK, NEW c \in Calls, NEW pc, Goto(c, pc),
           pc \in {"idle", "find", "claim", "read", "credit", "period", "org", "award",
                   "view", "findPayment", "findCommission", "saveReversal"}
    PROVE  /\ Moves(c) /\ call'[c].pc = pc /\ call'[c].order = call[c].order
           /\ call'[c].hook = call[c].hook /\ call'[c].start = call[c].start
<1>1. call \in [Calls -> Call] /\ call[c] \in Call
  BY Typed
<1>2. call' = [call EXCEPT ![c] = [call[c] EXCEPT !.pc = pc]]
  BY <1>1 DEF Goto
<1>3. [call[c] EXCEPT !.pc = pc] \in Call
  BY <1>1 DEF Call
<1> QED
  BY <1>1, <1>2, <1>3 DEF Moves, Call

LEMMA EndMoves ==
    ASSUME TypeOK, NEW c \in Calls, End(c)
    PROVE  Moves(c) /\ call'[c] = Idle /\ Idle \in Call
BY Typed DEF End, Moves, Idle, Call

LEMMA StartMoves ==
    ASSUME TypeOK, NEW c \in Calls, NEW o \in Orders, NEW pc \in {"find", "findPayment"},
           NEW hook \in {"none", "paid", "refund"}, Start(c, o, pc, hook)
    PROVE  /\ Moves(c) /\ call[c].pc = "idle"
           /\ call'[c].pc = pc /\ call'[c].order = o /\ call'[c].hook = hook
BY Typed DEF Start, Moves, Idle, Call, At

(* Returning from fulfillOrder, or answering a webhook                      *)
LEMMA ReturnMoves ==
    ASSUME TypeOK, NEW c \in Calls, Return(c)
    PROVE  /\ Moves(c) /\ UNCHANGED <<now, captured, page, refunded>>
           /\ paidHook' \subseteq paidHook /\ refundHook' \subseteq refundHook
           /\ paidHook \ paidHook' \subseteq {call[c].order}
           /\ refundHook \ refundHook' # {} => call[c].hook = "refund" /\ refundHook \ refundHook' \subseteq {call[c].order}
           /\ \/ call'[c] = Idle
              \/ /\ call'[c].pc = "view" /\ call'[c].order = call[c].order
                 /\ call'[c].hook = "none" /\ call[c].hook = "none"
<1>1. CASE call[c].hook = "none" /\ Goto(c, "view") /\ UNCHANGED world
  BY <1>1, GotoMoves DEF world
<1>2. CASE call[c].hook # "none" /\ End(c)
  BY <1>2, EndMoves DEF Return
<1> QED
  BY <1>1, <1>2 DEF Return
-----------------------------------------------------------------------------
(* Nothing that has been paid, credited or refunded is ever taken back.     *)
Later ==
    /\ now <= now' /\ now' <= MaxDay
    /\ captured \subseteq captured' /\ credited \subseteq credited' /\ refunded \subseteq refunded'
    /\ \A o \in Orders :
          /\ payment[o].status # "none" =>
                payment'[o].status # "none" /\ payment'[o].plan = payment[o].plan
          /\ payment[o].status = "paid" => payment'[o].status = "paid"

LEMMA StepTyped ==
    ASSUME TypeOK, BillingInv, [Next]_vars
    PROVE  TypeOK' /\ Later
<1> DEFINE Good == TypeOK' /\ Later
<1>1. /\ now \in Nat /\ now <= MaxDay /\ MaxDay \in Nat /\ \A d \in 0..MaxDay : d \in Date
      /\ payment \in [Orders -> Payment] /\ call \in [Calls -> Call] /\ page \in Page
      /\ commission \in [Orders -> {"none", "pending", "reversed"}]
  BY Typed, CalendarAssumption DEF BillingInv, Date
<1>2. UNCHANGED <<now, payment, captured, credited, refunded>> => Later
  BY <1>1 DEF Later
<1>3. UNCHANGED store => payment' \in [Orders -> Payment] /\ UNCHANGED <<payment, sub, orgPlan, commission, credited>>
  BY <1>1 DEF store
<1>4. CASE Tick
  <2>1. now' = now + 1 /\ now' <= MaxDay /\ now' \in Nat /\ now' \in Date
    BY <1>1, <1>4 DEF Tick
  <2> QED
    BY <1>1, <1>4, <2>1 DEF Tick, store, TypeOK, Later
<1>5. Loaded \in Page /\ NoSubscription \in Subscription /\ 0 \in Date
  BY Typed DEF Loaded, Page, NoSubscription, Subscription
<1>6. CASE Crash
  <2>1. Idle \in Call
    BY <1>5 DEF Idle, Call
  <2>2. call' \in [Calls -> Call]
    BY <1>6, <2>1 DEF Crash
  <2>3. page' \in Page /\ UNCHANGED <<now, captured, paidHook, refundHook, refunded>>
    BY <1>1, <1>5, <1>6 DEF Crash, SetPage, Broken
  <2>4. faults' \subseteq FaultKinds
    BY <1>6 DEF Crash, Fault, TypeOK
  <2> QED
    BY <1>2, <1>3, <1>6, <2>2, <2>3, <2>4 DEF Crash, TypeOK
<1>7. CASE Dismiss \/ ShowLists \/ Reload
  <2>1. Refetched(page) \in Page
    BY <1>1, Typed DEF Refetched, Page, Paid
  <2>2. page' \in Page /\ UNCHANGED <<now, captured, paidHook, refundHook, refunded, store, call, faults>>
    BY <1>5, <1>7, <2>1 DEF Dismiss, ShowLists, Reload, SetPage
  <2> QED
    BY <1>2, <1>3, <2>2 DEF TypeOK
<1>8. ASSUME NEW o \in Orders, Pay(o) PROVE Good
  <2>1. [page EXCEPT !.stage = "paid"] \in Page
    BY <1>1 DEF Page
  <2>2. page' \in Page
    BY <1>5, <1>8, <2>1 DEF Pay
  <2> QED
    BY <1>1, <1>3, <1>8, <2>2 DEF Pay, TypeOK, Later
<1>9. ASSUME NEW o \in Orders, Refund(o) PROVE Good
  BY <1>1, <1>3, <1>9 DEF Refund, TypeOK, Later
<1>10. ASSUME NEW o \in Orders, NEW p \in PaidPlans, Checkout(o, p) PROVE Good
  <2>1. /\ payment' = [payment EXCEPT ![o].status = "created", ![o].plan = p]
        /\ payment[o].status = "none"
    BY <1>10 DEF Checkout
  <2>2. payment' \in [Orders -> Payment]
    <3> DEFINE d == [payment[o] EXCEPT !.status = "created", !.plan = p]
    <3>1. payment[o] \in Payment /\ payment \in [Orders -> Payment]
      BY <1>1
    <3>2. d \in Payment
      BY <3>1 DEF Payment
    <3>3. payment' = [payment EXCEPT ![o] = d]
      BY <2>1, <3>1 DEF Payment
    <3> HIDE DEF d
    <3> QED
      BY <3>1, <3>2, <3>3
  <2>3. [Loaded EXCEPT !.stage = "modal", !.order = o] \in Page
    BY <1>5 DEF Page
  <2>4. /\ page' \in Page
        /\ UNCHANGED <<now, captured, paidHook, refundHook, refunded, sub, orgPlan, commission, call, credited, faults>>
    BY <1>10, <2>3 DEF Checkout, SetPage
  <2>5. \A k \in Orders \ {o} : payment'[k] = payment[k]
    BY <1>1, <2>1
  <2>6. Later
    BY <1>1, <2>1, <2>4, <2>5 DEF Later
  <2> QED
    BY <2>2, <2>4, <2>6 DEF TypeOK
<1>11. ASSUME NEW c \in Calls, NEW o \in Orders, Verify(c, o) \/ ReceiveWebhook(c, o) PROVE Good
  <2>1. call' \in [Calls -> Call]
    BY <1>11, StartMoves DEF Verify, ReceiveWebhook, Moves, FirstOfVerify
  <2>2. [page EXCEPT !.stage = "verify"] \in Page
    BY <1>1 DEF Page
  <2>3. page' \in Page /\ UNCHANGED <<now, captured, paidHook, refundHook, refunded, store, faults>>
    BY <1>1, <1>11, <2>2 DEF Verify, ReceiveWebhook, SetPage, world
  <2> QED
    BY <1>2, <1>3, <2>1, <2>3 DEF TypeOK
<1>12. ASSUME NEW c \in Calls, FailsEarly(c) \/ FailsLate(c) PROVE Good
  <2>1. call' \in [Calls -> Call]
    BY <1>12, EndMoves DEF FailsEarly, FailsLate, AnswerFailure, Moves
  <2>2. page' \in Page /\ UNCHANGED <<now, captured, paidHook, refundHook, refunded, store>>
    BY <1>1, <1>5, <1>12 DEF FailsEarly, FailsLate, AnswerFailure, SetPage, Broken
  <2>3. faults' \subseteq FaultKinds
    BY <1>12 DEF FailsEarly, FailsLate, Fault, TypeOK
  <2> QED
    BY <1>2, <1>3, <2>1, <2>2, <2>3 DEF TypeOK
<1>13. ASSUME NEW c \in Calls, View(c) PROVE Good
  <2>1. call' \in [Calls -> Call]
    BY <1>13, EndMoves DEF View, Moves
  <2>2. [page EXCEPT !.stage = "refetch", !.received = TRUE, !.early = page.order \notin credited] \in Page
    BY <1>1 DEF Page
  <2>3. page' \in Page /\ UNCHANGED <<now, captured, paidHook, refundHook, refunded, store, faults>>
    BY <1>1, <1>13, <2>2 DEF View, SetPage
  <2> QED
    BY <1>2, <1>3, <2>1, <2>3 DEF TypeOK
<1>14. ASSUME NEW c \in Calls,
              FindOrder(c) \/ AwardFails(c) \/ FindPayment(c) \/ FindCommission(c)
       PROVE  Good
  <2>1. UNCHANGED store /\ faults' \subseteq FaultKinds
    BY <1>14 DEF FindOrder, AwardFails, FindPayment, FindCommission, Fault, TypeOK
  <2>2. \/ Return(c)
        \/ UNCHANGED world /\ \E pc \in {"claim", "findCommission", "saveReversal"} : Goto(c, pc)
    BY <1>14 DEF FindOrder, AwardFails, FindPayment, FindCommission
  <2>3. Moves(c) /\ UNCHANGED <<now, captured, page, refunded>> /\ paidHook' \subseteq paidHook /\ refundHook' \subseteq refundHook
    BY <2>2, ReturnMoves, GotoMoves DEF world
  <2> QED
    BY <1>2, <1>3, <2>1, <2>3 DEF Moves, TypeOK
<1>15. ASSUME NEW c \in Calls, ClaimOrder(c) PROVE Good
  <2> DEFINE o == call[c].order
  <2>1. CASE Claimable(o) /\ SetStatus(o, "paid") /\ Goto(c, "read") /\ UNCHANGED world
    <3>1. payment' = [payment EXCEPT ![o].status = "paid"]
      BY <2>1 DEF SetStatus
    <3>2. payment' \in [Orders -> Payment]
      BY <1>1, <3>1 DEF Payment
    <3>3. \A k \in Orders : payment[k].status # "none" =>
             payment'[k].status # "none" /\ payment'[k].plan = payment[k].plan
             /\ (payment[k].status = "paid" => payment'[k].status = "paid")
      BY <1>1, <3>1 DEF Payment
    <3>4. Moves(c)
      BY <2>1, GotoMoves
    <3>5. UNCHANGED <<now, captured, page, paidHook, refundHook, refunded, sub, orgPlan, commission, credited, faults>>
      BY <1>15, <2>1 DEF ClaimOrder, world
    <3>6. Later
      BY <1>1, <3>3, <3>5 DEF Later
    <3> QED
      BY <3>2, <3>4, <3>5, <3>6 DEF TypeOK, Moves
  <2>2. CASE Return(c) /\ UNCHANGED payment
    <3>1. /\ Moves(c) /\ UNCHANGED <<now, captured, page, refunded>>
          /\ paidHook' \subseteq paidHook /\ refundHook' \subseteq refundHook
      BY <2>2, ReturnMoves
    <3>2. UNCHANGED <<payment, sub, orgPlan, commission, credited, faults>>
      BY <1>15, <2>2 DEF ClaimOrder
    <3> QED
      BY <1>2, <3>1, <3>2 DEF TypeOK, Moves
  <2> QED
    BY <1>15, <2>1, <2>2 DEF ClaimOrder
<1>16. ASSUME NEW c \in Calls, ReadSubscription(c) PROVE Good
  <2>1. call' = [call EXCEPT ![c] = [call[c] EXCEPT !.pc = "credit", !.start = NextStart(c)]]
    BY <1>1, <1>16 DEF ReadSubscription
  <2>2. [call[c] EXCEPT !.pc = "credit", !.start = NextStart(c)] \in Call
    BY <1>1, StartFits DEF Call
  <2>3. UNCHANGED <<now, captured, page, paidHook, refundHook, refunded, store, faults>>
    BY <1>16 DEF ReadSubscription, world
  <2> QED
    BY <1>1, <1>2, <1>3, <2>1, <2>2, <2>3 DEF TypeOK
<1>17. ASSUME NEW c \in Calls, CreditPlan(c) PROVE Good
  <2>1. At(c, "credit") /\ CallSound(c) /\ call[c].order \in Orders \ credited
        /\ call[c].start \in Date /\ MonthOf(call[c].start) <= MonthOf(now) + Bought(PlanOf(c))
    BY <1>1, <1>17, CallTyped DEF CreditPlan, At, CallSound, BillingInv, Claimed, Paid
  <2>2. AddOneMonth(call[c].start) \in Date /\ PlanOf(c) \in {Free} \cup PaidPlans
    BY <1>1, <2>1, DatesFit DEF PlanOf, Payment
  <2>3. sub' \in Subscription
    BY <1>17, <2>2 DEF CreditPlan, Subscription
  <2>4. Moves(c)
    BY <1>17, GotoMoves DEF CreditPlan
  <2>5. credited' = credited \cup {call[c].order}
        /\ UNCHANGED <<now, captured, page, paidHook, refundHook, refunded, payment, orgPlan, commission, faults>>
    BY <1>17 DEF CreditPlan, world
  <2>6. Later
    BY <1>1, <2>5 DEF Later
  <2> QED
    BY <2>1, <2>3, <2>4, <2>5, <2>6 DEF TypeOK, Moves
<1>18. ASSUME NEW c \in Calls, RecordPeriod(c) PROVE Good
  <2>1. payment' = [payment EXCEPT ![call[c].order].period = TRUE]
    BY <1>18 DEF RecordPeriod
  <2>2. payment' \in [Orders -> Payment]
    BY <1>1, <2>1 DEF Payment
  <2>3. \A k \in Orders : payment'[k].status = payment[k].status /\ payment'[k].plan = payment[k].plan
    BY <1>1, <2>1 DEF Payment
  <2>4. Moves(c)
    BY <1>18, GotoMoves DEF RecordPeriod
  <2>5. UNCHANGED <<now, captured, page, paidHook, refundHook, refunded, sub, orgPlan, commission, credited, faults>>
    BY <1>18 DEF RecordPeriod, world
  <2>6. Later
    BY <1>1, <2>3, <2>5 DEF Later
  <2> QED
    BY <2>2, <2>4, <2>5, <2>6 DEF TypeOK, Moves
<1>19. ASSUME NEW c \in Calls, SetOrgPlan(c) PROVE Good
  <2>1. call[c].order \in Orders
    BY <1>19, Typed DEF SetOrgPlan, At, CallSound, BillingInv, Completing
  <2>2. orgPlan' \in {Free} \cup PaidPlans
    BY <1>1, <1>19, <2>1 DEF SetOrgPlan, PlanWritten, PlanOf, Payment
  <2>3. Moves(c)
    BY <1>19, GotoMoves DEF SetOrgPlan
  <2>4. UNCHANGED <<now, captured, page, paidHook, refundHook, refunded, payment, sub, commission, credited, faults>>
    BY <1>19 DEF SetOrgPlan, world
  <2> QED
    BY <1>2, <2>2, <2>3, <2>4 DEF TypeOK, Moves
<1>20. ASSUME NEW c \in Calls, Award(c) \/ SaveReversal(c) PROVE Good
  <2>1. commission' \in [Orders -> {"none", "pending", "reversed"}]
    BY <1>1, <1>20 DEF Award, SaveReversal, AfterRefund
  <2>2. /\ Moves(c) /\ UNCHANGED <<now, captured, page, refunded>>
        /\ paidHook' \subseteq paidHook /\ refundHook' \subseteq refundHook
    BY <1>20, ReturnMoves DEF Award, SaveReversal
  <2>3. UNCHANGED <<payment, sub, orgPlan, credited, faults>>
    BY <1>20 DEF Award, SaveReversal
  <2> QED
    BY <1>2, <2>1, <2>2, <2>3 DEF TypeOK, Moves
<1>21. CASE UNCHANGED vars
  BY <1>2, <1>3, <1>21 DEF vars, world, TypeOK
<1> QED
  BY <1>4, <1>6, <1>7, <1>8, <1>9, <1>10, <1>11, <1>12, <1>13, <1>14, <1>15, <1>16, <1>17, <1>18, <1>19, <1>20, <1>21
  DEF Next, Fulfil, Reverse
-----------------------------------------------------------------------------
(* What later steps leave true                                              *)
LEMMA BoughtGrows ==
    ASSUME TypeOK, BillingInv, TypeOK', Later
    PROVE  /\ MonthOf(now) <= MonthOf(now') /\ MonthOf(now) \in Nat /\ MonthOf(now') \in Nat
           /\ \A p : Bought(p) <= Bought(p)' /\ Bought(p) \in Nat /\ Bought(p)' \in Nat
<1>1. now' \in Date /\ IsFiniteSet(Orders)
  BY BillingAssumption DEF TypeOK
<1>2. /\ MonthOf(now) <= MonthOf(now') /\ MonthOf(now) \in Nat /\ MonthOf(now') \in Nat
  BY <1>1, Typed, MonthOfDate, MonthsPass DEF Later
<1>3. ASSUME NEW p PROVE Bought(p) <= Bought(p)' /\ Bought(p) \in Nat /\ Bought(p)' \in Nat
  <2>1. BoughtFor(p) \subseteq BoughtFor(p)' /\ BoughtFor(p)' \subseteq Orders
    BY Typed DEF BoughtFor, Later, BillingInv, OrderSound, TypeOK
  <2>2. IsFiniteSet(BoughtFor(p)')
    BY <1>1, <2>1, FS_Subset
  <2> QED
    BY <2>1, <2>2, FS_Subset, FS_CardinalityType DEF Bought
<1> QED
  BY <1>2, <1>3

LEMMA CallStays ==
    ASSUME TypeOK, BillingInv, TypeOK', Later, NEW d \in Calls, call'[d] = call[d],
           Claimed(d) => call[d].order \notin credited'
    PROVE  CallSound(d)'
<1> DEFINE o == call[d].order
<1>1. CallSound(d) /\ \A k \in Orders : OrderSound(k)
  BY DEF BillingInv
<1>2. At(d, "idle") => CallSound(d)'
  BY <1>1 DEF CallSound, At, Claimed, Completing, Refunding
<1> SUFFICES ASSUME ~At(d, "idle") PROVE CallSound(d)'
  BY <1>2
<1>3. o \in captured /\ o \in Orders /\ o \in captured'
  BY <1>1, Typed DEF CallSound, At, Later
<1>4. /\ PlanOf(d)' = PlanOf(d)
      /\ o \in Paid => o \in Paid'
  BY <1>1, <1>3 DEF PlanOf, Paid, OrderSound, Later
<1>5. At(d, "credit") => MonthOf(call'[d].start) <= MonthOf(now') + Bought(PlanOf(d))'
  <2> SUFFICES ASSUME At(d, "credit")
               PROVE  MonthOf(call[d].start) <= MonthOf(now') + Bought(PlanOf(d))'
    OBVIOUS
  <2>1. PICK p : p = PlanOf(d)
    OBVIOUS
  <2>2. MonthOf(call[d].start) <= MonthOf(now) + Bought(p) /\ MonthOf(call[d].start) \in Nat
    BY <1>1, <2>1, CallTyped, MonthOfDate DEF CallSound, At
  <2>3. MonthOf(call[d].start) <= MonthOf(now') + Bought(p)'
    BY <2>2, BoughtGrows
  <2> QED
    BY <1>4, <2>1, <2>3 DEF Bought, BoughtFor
<1> QED
  BY <1>1, <1>3, <1>4, <1>5 DEF CallSound, At, Claimed, Completing, Refunding, Later

LEMMA SubStays ==
    ASSUME TypeOK, BillingInv, TypeOK', Later, sub' = sub
    PROVE  SubSound'
<1>1. SubSound /\ MonthOf(sub.end) \in Nat
  BY Typed, MonthOfDate DEF BillingInv, Subscription
<1>2. PICK p : p = sub.plan
  OBVIOUS
<1>3. sub.exists => MonthOf(sub.end) <= MonthOf(now') + Bought(p)'
  BY <1>1, <1>2, BoughtGrows DEF SubSound
<1> QED
  BY <1>1, <1>2, <1>3 DEF SubSound, Bought, BoughtFor

LEMMA PageStays ==
    ASSUME TypeOK, BillingInv, TypeOK', Later, page' = page
    PROVE  PageSound'
BY Typed DEF BillingInv, PageSound, Later, Paid, Page

LEMMA OrdersStay ==
    ASSUME TypeOK, BillingInv, paidHook' \subseteq paidHook, refundHook' \subseteq refundHook,
           UNCHANGED <<captured, credited, refunded, commission>>,
           \A o \in Orders : payment'[o].status = payment[o].status /\ payment'[o].plan = payment[o].plan
    PROVE  \A o \in Orders : OrderSound(o)'
BY DEF BillingInv, OrderSound

(* A step of a call disturbs no other call.                                 *)
LEMMA OtherCalls ==
    ASSUME TypeOK, BillingInv, TypeOK', Later, NEW c \in Calls, Moves(c), CallSound(c)',
           \A d \in Calls \ {c} : Claimed(d) => /\ call[d].order \notin credited'
                                                /\ Claimed(c)' => call[d].order # call'[c].order
    PROVE  (\A d \in Calls : CallSound(d)') /\ OneClaim'
<1>1. ASSUME NEW d \in Calls PROVE CallSound(d)'
  <2>1. CASE d = c
    BY <2>1
  <2>2. CASE d # c
    BY <2>2, CallStays DEF Moves
  <2> QED
    BY <2>1, <2>2
<1>2. ASSUME NEW d \in Calls, NEW e \in Calls, Claimed(d)', Claimed(e)', call'[d].order = call'[e].order
      PROVE  d = e
  <2>1. CASE d # c /\ e # c
    BY <1>2, <2>1 DEF Moves, Claimed, BillingInv, OneClaim
  <2>2. CASE d = c /\ e # c
    BY <1>2, <2>2 DEF Moves, Claimed
  <2>3. CASE d # c /\ e = c
    BY <1>2, <2>3 DEF Moves, Claimed
  <2> QED
    BY <2>1, <2>2, <2>3
<1> QED
  BY <1>1, <1>2 DEF OneClaim

(* The calls that are neither claiming an order nor crediting one           *)
LEMMA QuietCall ==
    ASSUME TypeOK, BillingInv, TypeOK', Later, NEW c \in Calls, Moves(c), CallSound(c)', ~Claimed(c)',
           UNCHANGED credited
    PROVE  (\A d \in Calls : CallSound(d)') /\ OneClaim'
<1>1. \A d \in Calls : Claimed(d) => call[d].order \notin credited'
  BY DEF BillingInv, CallSound
<1> QED
  BY <1>1, OtherCalls

LEMMA IdleSound ==
    ASSUME NEW c \in Calls, call'[c] = Idle
    PROVE  CallSound(c)' /\ ~Claimed(c)'
BY DEF Idle, CallSound, Claimed, Completing, Refunding

(* A call that has returned is over, or about to show a paid order.         *)
LEMMA ReturnSound ==
    ASSUME TypeOK, BillingInv, TypeOK', Later, NEW c \in Calls, Return(c), ~At(c, "idle"),
           call[c].hook = "none" => call[c].order \in Paid
    PROVE  CallSound(c)' /\ ~Claimed(c)'
<1>1. CASE call'[c] = Idle
  BY <1>1, IdleSound
<1>2. CASE call'[c].pc = "view" /\ call'[c].order = call[c].order /\ call'[c].hook = "none" /\ call[c].hook = "none"
  <2>1. call[c].order \in captured' /\ call[c].order \in Paid'
    BY <1>2, Typed DEF Paid, Later, BillingInv, CallSound, At
  <2> QED
    BY <1>2, <2>1 DEF CallSound, Claimed, Completing, Refunding
<1> QED
  BY <1>1, <1>2, ReturnMoves
-----------------------------------------------------------------------------
(* Every step keeps what is true of orders, calls, the page and the plan.   *)
LEMMA PageFresh ==
    ASSUME page' = Loaded
    PROVE  PageSound'
BY DEF PageSound, Loaded

(* Steps that leave calls, or all but one, and every document as they are   *)
LEMMA StoreKept ==
    ASSUME TypeOK, BillingInv, TypeOK', Later, UNCHANGED <<payment, sub, captured, credited, refunded, commission>>,
           paidHook' \subseteq paidHook, refundHook' \subseteq refundHook,
           PageSound', (\A d \in Calls : CallSound(d)') /\ OneClaim'
    PROVE  BillingInv'
<1>1. SubSound'
  BY SubStays
<1>2. \A o \in Orders : OrderSound(o)'
  BY OrdersStay
<1> QED
  BY <1>1, <1>2 DEF BillingInv, Later

LEMMA CallsKept ==
    ASSUME TypeOK, BillingInv, TypeOK', Later, UNCHANGED <<call, credited>>
    PROVE  (\A d \in Calls : CallSound(d)') /\ OneClaim'
<1>1. ASSUME NEW d \in Calls PROVE CallSound(d)'
  BY CallStays DEF BillingInv, CallSound
<1> QED
  BY <1>1 DEF BillingInv, OneClaim, Claimed

LEMMA NextBilling ==
    ASSUME TypeOK, BillingInv, [Next]_vars
    PROVE  BillingInv'
<1>1. TypeOK' /\ Later
  BY StepTyped
<1>2. /\ \A o \in Orders : OrderSound(o)
      /\ \A c \in Calls : CallSound(c)
      /\ PageSound
  BY DEF BillingInv
<1>3. CASE Tick \/ Dismiss \/ ShowLists \/ Reload \/ UNCHANGED vars
  <2>1. /\ UNCHANGED <<payment, sub, captured, credited, refunded, commission, call, paidHook, refundHook>>
        /\ page' = page \/ page' = Loaded \/ (AtPage("refetch") /\ page' = Refetched(page))
    BY <1>3 DEF Tick, Dismiss, ShowLists, Reload, SetPage, store, vars, world
  <2>2. CASE AtPage("refetch") /\ page' = Refetched(page)
    <3>1. page'.stage = "idle" /\ page'.order = page.order /\ page'.received = page.received /\ page'.early = page.early
      BY <2>2, Typed DEF Refetched, Page
    <3>2. PageSound'
      BY <1>2, <2>1, <3>1 DEF PageSound, Paid
    <3> QED
      BY <1>1, <2>1, <3>2, CallsKept, StoreKept
  <2>3. CASE page' = page \/ page' = Loaded
    BY <1>1, <2>1, <2>3, CallsKept, StoreKept, PageStays, PageFresh
  <2> QED
    BY <2>1, <2>2, <2>3
<1>4. CASE Crash
  <2>1. /\ UNCHANGED <<payment, sub, captured, credited, refunded, commission, paidHook, refundHook>>
        /\ page' = page \/ page' = Loaded
        /\ \A c \in Calls : call'[c] = Idle
    BY <1>4 DEF Crash, SetPage, Broken, store
  <2>2. (\A d \in Calls : CallSound(d)') /\ OneClaim'
    BY <2>1, IdleSound DEF OneClaim
  <2> QED
    BY <1>1, <2>1, <2>2, StoreKept, PageStays, PageFresh
<1>5. ASSUME NEW o \in Orders, Pay(o) PROVE BillingInv'
  <2>1. /\ captured' = captured \cup {o} /\ paidHook' = paidHook \cup {o}
        /\ UNCHANGED <<payment, sub, credited, refunded, commission, refundHook, call>>
        /\ page.stage = "modal" /\ page.order = o /\ o \notin captured
        /\ page' = Loaded \/ page' = [page EXCEPT !.stage = "paid"]
    BY <1>5 DEF Pay, AtPage, store
  <2>2. payment[o].status # "none"
    BY <1>2, <2>1 DEF PageSound
  <2>3. \A k \in Orders : OrderSound(k)'
    BY <1>2, <2>1, <2>2 DEF OrderSound
  <2>4. CASE page' = [page EXCEPT !.stage = "paid"]
    <3>1. page'.stage = "paid" /\ page'.order = page.order /\ page'.received = page.received /\ page'.early = page.early
      BY <2>4, Typed DEF Page
    <3>2. PageSound'
      BY <1>2, <2>1, <3>1 DEF PageSound, Paid
    <3> QED
      BY <1>1, <2>1, <2>3, <3>2, CallsKept, SubStays DEF BillingInv, Later
  <2>5. CASE page' = Loaded
    BY <1>1, <2>1, <2>3, <2>5, PageFresh, CallsKept, SubStays DEF BillingInv, Later
  <2> QED
    BY <2>1, <2>4, <2>5
<1>6. ASSUME NEW o \in Orders, Refund(o) PROVE BillingInv'
  <2>1. /\ refunded' = refunded \cup {o} /\ refundHook' = refundHook \cup {o} /\ o \in captured
        /\ UNCHANGED <<payment, sub, credited, captured, commission, paidHook, call, page>>
    BY <1>6 DEF Refund, store
  <2>2. \A k \in Orders : OrderSound(k)'
    BY <1>2, <2>1 DEF OrderSound
  <2> QED
    BY <1>1, <2>1, <2>2, CallsKept, SubStays, PageStays DEF BillingInv, Later
<1>7. ASSUME NEW o \in Orders, NEW p \in PaidPlans, Checkout(o, p) PROVE BillingInv'
  <2>1. /\ payment[o].status = "none" /\ payment' = [payment EXCEPT ![o].status = "created", ![o].plan = p]
        /\ UNCHANGED <<sub, credited, captured, refunded, commission, paidHook, refundHook, call>>
        /\ page' = [Loaded EXCEPT !.stage = "modal", !.order = o]
    BY <1>7 DEF Checkout, SetPage
  <2>2. /\ payment'[o].status = "created" /\ payment'[o].plan = p /\ p # Free
        /\ \A k \in Orders \ {o} : payment'[k] = payment[k]
    BY <2>1, Typed, CalendarAssumption DEF Payment
  <2>3. \A k \in Orders : OrderSound(k)'
    BY <1>2, <2>1, <2>2 DEF OrderSound
  <2>4. PageSound'
    BY <2>1, <2>2 DEF PageSound, Loaded
  <2> QED
    BY <1>1, <2>1, <2>3, <2>4, CallsKept, SubStays DEF BillingInv, Later
<1>8. ASSUME NEW c \in Calls, NEW o \in Orders, Verify(c, o) \/ ReceiveWebhook(c, o) PROVE BillingInv'
  <2>1. PICK pc \in {"find", "findPayment"}, hook \in {"none", "paid", "refund"} :
          /\ Start(c, o, pc, hook)
          /\ IF pc = "find" THEN hook # "refund" /\ o \in captured ELSE hook = "refund" /\ o \in refunded
    BY <1>2, <1>8 DEF Verify, ReceiveWebhook, FirstOfVerify, AtPage, PageSound, OrderSound
  <2>2. /\ UNCHANGED <<payment, sub, captured, credited, refunded, commission, paidHook, refundHook>>
        /\ page' = page \/ (AtPage("paid") /\ page' = [page EXCEPT !.stage = "verify"])
    <3>1. CASE Verify(c, o)
      BY <3>1 DEF Verify, SetPage, store
    <3>2. CASE ReceiveWebhook(c, o)
      BY <3>2 DEF ReceiveWebhook, store, world
    <3> QED
      BY <1>8, <3>1, <3>2
  <2>3. Moves(c) /\ call'[c].pc = pc /\ call'[c].order = o /\ call'[c].hook = hook
    BY <2>1, StartMoves
  <2>4. CallSound(c)' /\ ~Claimed(c)'
    BY <1>2, <2>1, <2>2, <2>3 DEF CallSound, Claimed, Completing, Refunding, OrderSound
  <2>5. (\A d \in Calls : CallSound(d)') /\ OneClaim'
    BY <1>1, <2>2, <2>3, <2>4, QuietCall
  <2>6. CASE AtPage("paid") /\ page' = [page EXCEPT !.stage = "verify"]
    <3>1. page'.stage = "verify" /\ page'.order = page.order /\ page'.received = page.received /\ page'.early = page.early
      BY <2>6, Typed DEF Page
    <3>2. PageSound'
      BY <1>2, <2>2, <2>6, <3>1 DEF PageSound, Paid, AtPage
    <3> QED
      BY <1>1, <2>2, <2>5, <3>2, StoreKept
  <2>7. CASE page' = page
    BY <1>1, <2>2, <2>5, <2>7, PageStays, StoreKept
  <2> QED
    BY <2>2, <2>6, <2>7
<1>9. ASSUME NEW c \in Calls, FailsEarly(c) \/ FailsLate(c) PROVE BillingInv'
  <2>1. /\ UNCHANGED <<payment, sub, captured, credited, refunded, commission, paidHook, refundHook>>
        /\ page' = page \/ page' = Loaded
        /\ Moves(c) /\ call'[c] = Idle
    BY <1>9, EndMoves DEF FailsEarly, FailsLate, AnswerFailure, SetPage, Broken, store
  <2> QED
    BY <1>1, <2>1, IdleSound, QuietCall, StoreKept, PageStays, PageFresh
<1>10. ASSUME NEW c \in Calls, View(c) PROVE BillingInv'
  <2>1. /\ UNCHANGED <<payment, sub, captured, credited, refunded, commission, paidHook, refundHook>>
        /\ Moves(c) /\ call'[c] = Idle /\ call[c].pc = "view"
        /\ page' = IF WaitsFor(c) THEN [page EXCEPT !.stage = "refetch", !.received = TRUE,
                                                    !.early = page.order \notin credited] ELSE page
    BY <1>10, EndMoves DEF View, SetPage, store, At
  <2>2. (\A d \in Calls : CallSound(d)') /\ OneClaim'
    BY <1>1, <2>1, IdleSound, QuietCall
  <2>3. CASE WaitsFor(c)
    <3>1. page.order \in Paid /\ page.order \in captured /\ page.order \in Orders
      BY <1>2, <2>1, <2>3, Typed DEF WaitsFor, CallSound
    <3>2. /\ page'.stage = "refetch" /\ page'.order = page.order
          /\ page'.early \/ page.order \in credited
      BY <2>1, <2>3, Typed DEF Page
    <3>3. UNCHANGED <<payment, captured, credited>>
      BY <2>1
    <3>4. PageSound'
      BY <3>1, <3>2, <3>3 DEF PageSound, Paid
    <3> QED
      BY <1>1, <2>1, <2>2, <3>4, StoreKept
  <2>4. CASE ~WaitsFor(c)
    BY <1>1, <2>1, <2>2, <2>4, PageStays, StoreKept
  <2> QED
    BY <2>3, <2>4
<1>11. ASSUME NEW c \in Calls,
              FindOrder(c) \/ AwardFails(c) \/ FindPayment(c) \/ FindCommission(c)
              \/ (ClaimOrder(c) /\ UNCHANGED payment)
       PROVE  BillingInv'
  <2>1. UNCHANGED <<payment, sub, credited, commission>>
    BY <1>11 DEF FindOrder, AwardFails, FindPayment, FindCommission, ClaimOrder, store
  <2>2. call[c].pc # "idle" /\ CallSound(c) /\ call[c].order \in captured /\ call[c].order \in Orders
    BY <1>2, <1>11, Typed DEF FindOrder, AwardFails, FindPayment, FindCommission, ClaimOrder, CallSound, At
  <2>3. \/ Return(c) /\ (call[c].hook = "none" => call[c].order \in Paid)
        \/ UNCHANGED world /\ Goto(c, "claim") /\ At(c, "find")
        \/ UNCHANGED world /\ Goto(c, "findCommission") /\ At(c, "findPayment")
        \/ /\ UNCHANGED world /\ Goto(c, "saveReversal") /\ At(c, "findCommission")
           /\ call[c].order \in credited
    <3>1. payment[call[c].order].status \in {"none", "created", "paid"} /\ payment[call[c].order].status # "none"
      BY <1>2, <2>2, Typed DEF OrderSound, Payment
    <3>2. At(c, "claim") /\ Claimable(call[c].order) /\ SetStatus(call[c].order, "paid") => payment' # payment
      BY <2>2, <3>1, Typed DEF SetStatus, Claimable, Payment
    <3>3. CASE FindOrder(c)
      BY <2>2, <3>1, <3>3 DEF FindOrder, Paid
    <3>4. CASE AwardFails(c)
      BY <1>2, <2>2, <3>4 DEF AwardFails, CallSound, Completing, OrderSound, Paid, At
    <3>5. CASE FindPayment(c) \/ FindCommission(c)
      BY <1>2, <2>2, <3>5 DEF FindPayment, FindCommission, CallSound, Refunding, At, OrderSound
    <3>6. CASE ClaimOrder(c) /\ UNCHANGED payment
      BY <2>2, <3>1, <3>2, <3>6 DEF ClaimOrder, Claimable, Paid
    <3> QED
      BY <1>11, <3>3, <3>4, <3>5, <3>6
  <2>4. /\ Moves(c) /\ UNCHANGED <<now, captured, page, refunded>>
        /\ paidHook' \subseteq paidHook /\ refundHook' \subseteq refundHook
        /\ CallSound(c)' /\ ~Claimed(c)'
    <3>1. CASE Return(c) /\ (call[c].hook = "none" => call[c].order \in Paid)
      BY <1>1, <2>2, <3>1, ReturnMoves, ReturnSound DEF At
    <3>2. CASE UNCHANGED world /\ \/ Goto(c, "claim") /\ At(c, "find")
                                  \/ Goto(c, "findCommission") /\ At(c, "findPayment")
                                  \/ /\ Goto(c, "saveReversal") /\ At(c, "findCommission")
                                     /\ call[c].order \in credited
      <4>1. UNCHANGED <<now, captured, page, refunded, paidHook, refundHook>>
        BY <3>2 DEF world
      <4>2. PICK pc \in {"claim", "findCommission", "saveReversal"} :
              /\ Goto(c, pc) /\ (pc = "claim" <=> ~Refunding(c))
              /\ pc = "saveReversal" => call[c].order \in credited
        BY <3>2 DEF Refunding, At
      <4>3. /\ Moves(c) /\ call'[c].pc = pc /\ call'[c].order = call[c].order /\ call'[c].hook = call[c].hook
        BY <4>2, GotoMoves
      <4> QED
        BY <2>1, <2>2, <4>1, <4>2, <4>3 DEF CallSound, Claimed, Completing, Refunding
    <3> QED
      BY <2>3, <3>1, <3>2
  <2> QED
    BY <1>1, <2>1, <2>4, QuietCall, PageStays, StoreKept
<1>12. ASSUME NEW c \in Calls, ClaimOrder(c), ~UNCHANGED payment PROVE BillingInv'
  <2> DEFINE o == call[c].order
  <2>1. /\ At(c, "claim") /\ payment[o].status = "created" /\ payment' = [payment EXCEPT ![o].status = "paid"]
        /\ Goto(c, "read") /\ UNCHANGED <<sub, credited, captured, refunded, commission, paidHook, refundHook, page>>
    BY <1>12 DEF ClaimOrder, Claimable, SetStatus, world
  <2>2. /\ Moves(c) /\ call'[c].pc = "read" /\ call'[c].order = o /\ call'[c].hook = call[c].hook
    BY <2>1, GotoMoves
  <2>3. o \in captured /\ o \in Orders /\ o \notin credited
    BY <1>2, <2>1, Typed DEF CallSound, At, OrderSound
  <2>4. /\ payment'[o].status = "paid" /\ payment'[o].plan = payment[o].plan
        /\ \A k \in Orders \ {o} : payment'[k] = payment[k]
    BY <2>1, <2>3, Typed DEF Payment
  <2>5. \A k \in Orders : OrderSound(k)'
    BY <1>2, <2>1, <2>3, <2>4 DEF OrderSound
  <2>6. CallSound(c)'
    BY <1>2, <2>1, <2>2, <2>3, <2>4 DEF CallSound, Claimed, Completing, Refunding, At, Paid
  <2>7. \A d \in Calls \ {c} : Claimed(d) => call[d].order \notin credited' /\ call[d].order # call'[c].order
    BY <1>2, <2>1, <2>2 DEF CallSound, Paid
  <2>8. (\A d \in Calls : CallSound(d)') /\ OneClaim'
    BY <1>1, <2>2, <2>6, <2>7, OtherCalls
  <2> QED
    BY <1>1, <2>1, <2>5, <2>8, PageStays, SubStays DEF BillingInv, Later
<1>13. ASSUME NEW c \in Calls, ReadSubscription(c) PROVE BillingInv'
  <2> DEFINE r == [call[c] EXCEPT !.pc = "credit", !.start = NextStart(c)]
  <2>1. /\ At(c, "read") /\ call' = [call EXCEPT ![c] = r]
        /\ UNCHANGED <<now, payment, sub, credited, captured, refunded, commission, paidHook, refundHook, page>>
    BY <1>13, Typed DEF ReadSubscription, store, world
  <2>2. r \in Call /\ r.pc = "credit" /\ r.order = call[c].order /\ r.hook = call[c].hook /\ r.start = NextStart(c)
    BY Typed, StartFits DEF Call
  <2> HIDE DEF r
  <2>3. Moves(c) /\ call'[c] = r
    BY <2>1, <2>2, Typed DEF Moves
  <2>4. MonthOf(NextStart(c)) <= MonthOf(now) + Bought(PlanOf(c))
    BY StartFits
  <2>5. PlanOf(c)' = PlanOf(c) /\ Bought(PlanOf(c))' = Bought(PlanOf(c)) /\ call[c].order \in Paid \ credited
    BY <1>2, <2>1, <2>2, <2>3 DEF PlanOf, Bought, BoughtFor, CallSound, Claimed, At
  <2>6. CallSound(c)'
    BY <1>2, <2>1, <2>2, <2>3, <2>4, <2>5 DEF CallSound, Claimed, Completing, Refunding, At, Paid
  <2>7. \A d \in Calls \ {c} : Claimed(d) => call[d].order \notin credited' /\ call[d].order # call'[c].order
    BY <1>2, <2>1, <2>2, <2>3 DEF CallSound, Claimed, At, BillingInv, OneClaim
  <2>8. (\A d \in Calls : CallSound(d)') /\ OneClaim'
    BY <1>1, <2>3, <2>6, <2>7, OtherCalls
  <2> QED
    BY <1>1, <2>1, <2>8, PageStays, StoreKept
<1>14. ASSUME NEW c \in Calls, CreditPlan(c) PROVE BillingInv'
  <2> DEFINE o == call[c].order
  <2>1. /\ At(c, "credit") /\ sub' = [exists |-> TRUE, plan |-> PlanOf(c), end |-> AddOneMonth(call[c].start)]
        /\ credited' = credited \cup {o} /\ Goto(c, "period")
        /\ UNCHANGED <<now, payment, captured, refunded, commission, paidHook, refundHook, page>>
    BY <1>14 DEF CreditPlan, world
  <2>2. Moves(c) /\ call'[c].pc = "period" /\ call'[c].order = o /\ call'[c].hook = call[c].hook
    BY <2>1, GotoMoves
  <2>3. o \in Paid \ credited /\ o \in Orders \ credited /\ o \in captured /\ payment[o].status = "paid"
    BY <1>2, <2>1, Typed DEF CallSound, Claimed, At, Paid
  <2>4. \A k \in Orders : OrderSound(k)'
    BY <1>2, <2>1, <2>3 DEF OrderSound
  <2>5. CallSound(c)'
    BY <1>2, <2>1, <2>2, <2>3 DEF CallSound, Claimed, Completing, Refunding, At
  <2>6. \A d \in Calls \ {c} : Claimed(d) => call[d].order \notin credited'
    BY <1>2, <2>1 DEF CallSound, Claimed, At, BillingInv, OneClaim
  <2>7. (\A d \in Calls : CallSound(d)') /\ OneClaim'
    <3>1. ~Claimed(c)'
      BY <2>2 DEF Claimed
    <3> QED
      BY <1>1, <2>2, <2>5, <2>6, <3>1, OtherCalls
  <2>8. PageSound'
    BY <1>1, PageStays, <2>1
  <2>9. SubSound'
    <3>1. PICK p : p = PlanOf(c)
      OBVIOUS
    <3>2. p \in PaidPlans
      BY <1>2, <2>3, <3>1, Typed DEF PlanOf, OrderSound, Payment
    <3>3. MonthOf(call[c].start) <= MonthOf(now) + Bought(p) /\ call[c].start \in Date /\ now <= MaxDay
      BY <1>2, <2>1, <3>1, CallTyped DEF CallSound, At, BillingInv
    <3>4. MonthOf(AddOneMonth(call[c].start)) <= MonthOf(now) + Bought(p) + 1
      BY <2>3, <3>3, DatesFit
    <3>5. Bought(p)' = Bought(p) + 1
      <4>1. BoughtFor(p)' = BoughtFor(p) \cup {o} /\ o \notin BoughtFor(p)
        BY <2>1, <2>3, <3>1, Typed DEF BoughtFor, PlanOf
      <4> QED
        BY <4>1, BoughtCounted, FS_AddElement DEF Bought
    <3>6. sub'.exists /\ sub'.plan = p /\ sub'.end = AddOneMonth(call[c].start)
      BY <2>1, <3>1
    <3>7. Bought(sub.plan)' = Bought(p)'
      BY <3>6 DEF Bought, BoughtFor
    <3>8. MonthOf(now) \in Nat /\ Bought(p) \in Nat
      BY Typed, MonthOfDate, BoughtCounted
    <3>9. MonthOf(sub'.end) <= MonthOf(now') + Bought(sub.plan)'
      BY <2>1, <3>4, <3>5, <3>6, <3>7, <3>8
    <3> QED
      BY <3>2, <3>6, <3>9 DEF SubSound
  <2> QED
    BY <1>1, <2>4, <2>7, <2>8, <2>9 DEF BillingInv, Later
<1>15. ASSUME NEW c \in Calls, RecordPeriod(c) \/ SetOrgPlan(c) PROVE BillingInv'
  <2>1. PICK pc \in {"org", "award"} : Goto(c, pc)
    BY <1>15 DEF RecordPeriod, SetOrgPlan
  <2>2. Moves(c) /\ call'[c].pc = pc /\ call'[c].order = call[c].order /\ call'[c].hook = call[c].hook
    BY <2>1, GotoMoves
  <2>3. /\ call[c].pc \in {"period", "org"}
        /\ UNCHANGED <<now, sub, credited, captured, refunded, commission, paidHook, refundHook, page>>
    BY <1>15 DEF RecordPeriod, SetOrgPlan, At, world
  <2>4. \A k \in Orders : payment'[k].status = payment[k].status /\ payment'[k].plan = payment[k].plan
    BY <1>15, Typed DEF RecordPeriod, SetOrgPlan, Payment
  <2>5. \A k \in Orders : OrderSound(k)'
    BY <2>3, <2>4, OrdersStay
  <2>6. CallSound(c)' /\ ~Claimed(c)'
    BY <1>2, <2>2, <2>3 DEF CallSound, Claimed, Completing, Refunding
  <2>7. (\A d \in Calls : CallSound(d)') /\ OneClaim'
    BY <1>1, <2>2, <2>3, <2>6, QuietCall
  <2> QED
    BY <1>1, <2>3, <2>5, <2>7, PageStays, SubStays DEF BillingInv, Later
<1>16. ASSUME NEW c \in Calls, Award(c) \/ SaveReversal(c) PROVE BillingInv'
  <2>1. /\ Return(c) /\ call[c].pc \in {"award", "saveReversal"} /\ UNCHANGED <<payment, sub, credited>>
    BY <1>16 DEF Award, SaveReversal, At
  <2>2. /\ Moves(c) /\ UNCHANGED <<now, captured, page, refunded>>
        /\ paidHook' \subseteq paidHook /\ refundHook' \subseteq refundHook
    BY <2>1, ReturnMoves
  <2>3. call[c].order \in Orders /\ (call[c].hook = "none" => call[c].order \in credited)
    BY <1>2, <2>1, Typed DEF CallSound, Completing, Refunding
  <2>4. CallSound(c)' /\ ~Claimed(c)'
    BY <1>1, <1>2, <2>1, <2>3, ReturnSound DEF At, OrderSound, Paid
  <2>5. (\A d \in Calls : CallSound(d)') /\ OneClaim'
    BY <1>1, <2>1, <2>2, <2>4, QuietCall
  <2>6. \A k \in Orders : commission'[k] # "none" => k \in credited
    <3>1. \A k \in Orders : commission'[k] = commission[k] \/ k = call[c].order
      BY <1>16, Typed DEF Award, SaveReversal, AfterRefund
    <3>2. call[c].order \in credited
      BY <1>2, <2>1 DEF CallSound, Completing
    <3> QED
      BY <1>2, <3>1, <3>2 DEF OrderSound
  <2>7. \A k \in Orders : OrderSound(k)'
    BY <1>2, <2>1, <2>2, <2>6 DEF OrderSound
  <2> QED
    BY <1>1, <2>1, <2>2, <2>5, <2>7, PageStays, SubStays DEF BillingInv, Later
<1>17. ASSUME NEW c \in Calls,
              Fulfil(c) \/ AwardFails(c) \/ Reverse(c) \/ FailsEarly(c) \/ FailsLate(c)
       PROVE  BillingInv'
  <2>1. CASE ClaimOrder(c)
    BY <1>11, <1>12, <2>1
  <2> QED
    BY <1>9, <1>10, <1>11, <1>13, <1>14, <1>15, <1>16, <1>17, <2>1 DEF Fulfil, Reverse
<1> QED
  BY <1>3, <1>4, <1>5, <1>6, <1>7, <1>8, <1>17 DEF Next
-----------------------------------------------------------------------------
LEMMA AlwaysBilling == Spec => [](TypeOK /\ BillingInv)
<1>1. Init => TypeOK /\ BillingInv
  <2> SUFFICES ASSUME Init PROVE TypeOK /\ BillingInv
    OBVIOUS
  <2>1. 0 \in Date /\ MaxDay \in Nat /\ LastMonth \in Nat
    <3>1. /\ LastMonth + 1 \in 1..LastMonth + 1 /\ 1 \in 1..LastMonth + 1 /\ 1 < LastMonth + 1
          /\ Calendar \in [1..LastMonth + 1 -> Nat] /\ LastMonth \in Nat /\ Calendar[1] = 0
      BY CalendarAssumption
    <3>2. Calendar[1] < Calendar[LastMonth + 1] /\ Calendar[LastMonth + 1] \in Nat
      BY <3>1, CalendarGrows
    <3> QED
      BY <3>1, <3>2, BillingAssumption DEF Date
  <2>2. TypeOK
    BY <2>1 DEF Init, TypeOK, Payment, Page, Loaded, NoSubscription, Subscription, Idle, Call
  <2>3. \A o \in Orders : OrderSound(o)
    BY DEF Init, OrderSound
  <2>4. (\A c \in Calls : CallSound(c)) /\ OneClaim
    BY DEF Init, CallSound, OneClaim, Idle, Claimed, Completing, Refunding
  <2>5. PageSound /\ SubSound
    BY DEF Init, PageSound, SubSound, Loaded, NoSubscription
  <2> QED
    BY <2>1, <2>2, <2>3, <2>4, <2>5 DEF Init, BillingInv
<1>2. TypeOK /\ BillingInv /\ [Next]_vars => (TypeOK /\ BillingInv)'
  BY StepTyped, NextBilling
<1> QED
  BY <1>1, <1>2, PTL DEF Spec

(* Every date that is computed is one, and documents keep their shape.      *)
THEOREM BillingTyped == Spec => []TypeOK
BY AlwaysBilling, PTL

(* However often an order is verified and its webhook repeated, whatever    *)
(* overlaps and fails, and whenever orders are paid and refunded, the plan  *)
(* never runs into a later month than has been paid for (fulfill.ts:29-36,  *)
(* billingPeriod.ts:11-19).                                                 *)
THEOREM PlanWasPaid == Spec => []TimeWasPaid
<1>1. ASSUME TypeOK, BillingInv PROVE TimeWasPaid
  <2> SUFFICES ASSUME sub.exists
               PROVE  MonthOf(sub.end) <= MonthOf(now)
                         + Cardinality({o \in Paid \cap captured : payment[o].plan = sub.plan})
    BY DEF TimeWasPaid
  <2> DEFINE B == {o \in Paid \cap captured : payment[o].plan = sub.plan}
  <2>1. BoughtFor(sub.plan) \in SUBSET B /\ B \in SUBSET Orders
    BY <1>1, Typed DEF BoughtFor, BillingInv, OrderSound, Paid
  <2>2. IsFiniteSet(B) /\ Cardinality(B) \in Nat /\ Bought(sub.plan) <= Cardinality(B)
    BY <1>1, <2>1, Typed, FS_Subset, FS_CardinalityType DEF Bought
  <2>3. /\ MonthOf(sub.end) <= MonthOf(now) + Bought(sub.plan)
        /\ MonthOf(sub.end) \in Nat /\ MonthOf(now) \in Nat /\ Bought(sub.plan) \in Nat
    BY <1>1, Typed, MonthOfDate, BoughtCounted DEF BillingInv, SubSound, Subscription
  <2> HIDE DEF B
  <2>4. MonthOf(sub.end) <= MonthOf(now) + Cardinality(B)
    BY <2>2, <2>3
  <2> QED
    BY <2>4 DEF B
<1> QED
  BY <1>1, AlwaysBilling, PTL
-----------------------------------------------------------------------------
(* A step leaves what is being credited as it is, or is one of fulfillOrder. *)
Untouched ==
    /\ UNCHANGED <<sub, orgPlan, credited>>
    /\ \A d \in Calls : Crediting(d) \/ Crediting(d)' => call'[d] = call[d]
    /\ Paid' = Paid /\ \A o \in Paid : payment'[o] = payment[o]
    /\ \A o \in Orders : commission[o] # "none" => commission'[o] # "none"
    /\ faults \subseteq faults'

LEMMA QuietUntouched ==
    ASSUME TypeOK, NEW c \in Calls, Moves(c), ~Crediting(c), ~Crediting(c)',
           UNCHANGED <<payment, sub, orgPlan, credited>>, faults \subseteq faults',
           \A o \in Orders : commission[o] # "none" => commission'[o] # "none"
    PROVE  Untouched
BY DEF Moves, Untouched, Paid

LEMMA Kinds ==
    ASSUME TypeOK, BillingInv, [Next]_vars
    PROVE  \/ Untouched
           \/ Crash
           \/ \E c \in Calls : \/ ClaimOrder(c) \/ ReadSubscription(c) \/ CreditPlan(c) \/ RecordPeriod(c)
                               \/ SetOrgPlan(c) \/ Award(c) \/ AwardFails(c) \/ FailsLate(c)
<1>1. CASE \/ Tick \/ Dismiss \/ ShowLists \/ Reload \/ UNCHANGED vars
           \/ \E o \in Orders : Pay(o) \/ Refund(o)
  <2>1. UNCHANGED <<store, call, faults>>
    BY <1>1 DEF Tick, Dismiss, ShowLists, Reload, Pay, Refund, vars
  <2> QED
    BY <2>1 DEF Untouched, store, Paid
<1>2. ASSUME NEW o \in Orders, NEW p \in PaidPlans, Checkout(o, p) PROVE Untouched
  <2>1. /\ payment' = [payment EXCEPT ![o].status = "created", ![o].plan = p] /\ payment[o].status = "none"
        /\ UNCHANGED <<sub, orgPlan, credited, call, commission, faults>>
    BY <1>2 DEF Checkout
  <2>2. payment'[o].status = "created" /\ \A k \in Orders \ {o} : payment'[k] = payment[k]
    BY <2>1, Typed DEF Payment
  <2> QED
    BY <2>1, <2>2 DEF Untouched, Paid
<1>3. ASSUME NEW c \in Calls, NEW o \in Orders, Verify(c, o) \/ ReceiveWebhook(c, o) PROVE Untouched
  <2>1. PICK pc \in {"find", "findPayment"}, hook \in {"none", "paid", "refund"} : Start(c, o, pc, hook)
    BY <1>3 DEF Verify, ReceiveWebhook, FirstOfVerify
  <2>2. Moves(c) /\ ~Crediting(c) /\ ~Crediting(c)'
    BY <2>1, StartMoves DEF Crediting, Claimed, Completing
  <2>3. UNCHANGED <<payment, sub, orgPlan, credited, commission, faults>>
    BY <1>3 DEF Verify, ReceiveWebhook, store
  <2> QED
    BY <2>2, <2>3, QuietUntouched
<1>4. ASSUME NEW c \in Calls, View(c) \/ FailsEarly(c) PROVE Untouched
  <2>1. Moves(c) /\ call'[c] = Idle
    BY <1>4, EndMoves DEF View, FailsEarly, AnswerFailure
  <2>2. ~Crediting(c) /\ ~Crediting(c)'
    BY <1>4, <2>1 DEF View, FailsEarly, At, Crediting, Claimed, Completing, Idle
  <2>3. UNCHANGED <<payment, sub, orgPlan, credited, commission>> /\ faults \subseteq faults'
    BY <1>4 DEF View, FailsEarly, Fault, store
  <2> QED
    BY <2>1, <2>2, <2>3, QuietUntouched
<1>5. ASSUME NEW c \in Calls, FindOrder(c) \/ FindPayment(c) \/ FindCommission(c) \/ SaveReversal(c) PROVE Untouched
  <2>1. ~Crediting(c) /\ UNCHANGED <<payment, sub, orgPlan, credited, faults>>
    BY <1>5 DEF FindOrder, FindPayment, FindCommission, SaveReversal, At, Crediting, Claimed, Completing, store
  <2>2. Return(c) \/ \E pc \in {"claim", "findCommission", "saveReversal"} : Goto(c, pc)
    BY <1>5 DEF FindOrder, FindPayment, FindCommission, SaveReversal
  <2>3. Moves(c) /\ ~Crediting(c)'
    <3>1. CASE Return(c)
      BY <3>1, ReturnMoves DEF Crediting, Claimed, Completing, Idle
    <3>2. ASSUME NEW pc \in {"claim", "findCommission", "saveReversal"}, Goto(c, pc) PROVE Moves(c) /\ ~Crediting(c)'
      BY <3>2, GotoMoves DEF Crediting, Claimed, Completing
    <3> QED
      BY <2>2, <3>1, <3>2
  <2>4. \A o \in Orders : commission[o] # "none" => commission'[o] # "none"
    <3>1. commission' = commission \/ commission' = [commission EXCEPT ![call[c].order] = "reversed"]
      BY <1>5 DEF FindOrder, FindPayment, FindCommission, SaveReversal, AfterRefund, store
    <3> QED
      BY <3>1, Typed
  <2> QED
    BY <2>1, <2>3, <2>4, QuietUntouched
<1>6. ASSUME NEW c \in Calls,
             Fulfil(c) \/ AwardFails(c) \/ Reverse(c) \/ FailsEarly(c) \/ FailsLate(c)
      PROVE  \/ Untouched
             \/ ClaimOrder(c) \/ ReadSubscription(c) \/ CreditPlan(c) \/ RecordPeriod(c)
             \/ SetOrgPlan(c) \/ Award(c) \/ AwardFails(c) \/ FailsLate(c)
  BY <1>4, <1>5, <1>6 DEF Fulfil, Reverse
<1> QED
  BY <1>1, <1>2, <1>3, <1>6 DEF Next
-----------------------------------------------------------------------------
(* One payment at a time: at most one order is outstanding, and at most one *)
(* call credits.                                                            *)
LEMMA SamePage ==
    ASSUME PageOfLast, Outstanding' \subseteq Outstanding, sub' = sub, page' = page \/ page' = Loaded
    PROVE  PageOfLast'
BY DEF PageOfLast, AtPage, Loaded

LEMMA SingleFrame ==
    ASSUME TypeOK, BillingInv, SingleInv, TypeOK', Later, Outstanding' \subseteq Outstanding, sub' = sub, PageOfLast',
           \A d \in Calls : Crediting(d)' => Crediting(d) /\ call'[d].order = call[d].order,
           \A d \in Calls : At(d, "credit")' => At(d, "credit") /\ call'[d].start = call[d].start
    PROVE  SingleInv'
<1>1. ASSUME NEW d \in Calls, At(d, "credit")'
      PROVE  \E t \in 0..now' : call'[d].start = PeriodStart(sub', PlanOf(d)', t)
  <2>1. At(d, "credit") /\ call'[d].start = call[d].start /\ call'[d].order = call[d].order
    BY <1>1 DEF Crediting, Claimed, At
  <2>2. PICK t \in 0..now : call[d].start = PeriodStart(sub, PlanOf(d), t)
    BY <2>1 DEF SingleInv
  <2>3. call[d].order \in Orders /\ payment[call[d].order].status = "paid"
    BY <2>1, Typed DEF BillingInv, CallSound, Claimed, At, Paid
  <2>4. PlanOf(d)' = PlanOf(d)
    BY <2>1, <2>3 DEF PlanOf, Later
  <2>5. t \in 0..now'
    BY Typed DEF Later, TypeOK, Date
  <2> QED
    BY <2>1, <2>2, <2>4, <2>5
<1> QED
  BY <1>1 DEF SingleInv, PeriodStart, IsSubscriptionCurrent

LEMMA SameOutstanding ==
    ASSUME UNCHANGED <<captured, credited>>
    PROVE  Outstanding' = Outstanding
BY DEF Outstanding

LEMMA UntouchedPage ==
    ASSUME TypeOK, BillingInv, SingleInv, [Next]_vars, Untouched, TypeOK', Later, captured' = captured
    PROVE  PageOfLast'
<1>1. Outstanding' \subseteq Outstanding /\ sub' = sub /\ PageOfLast
  BY DEF Outstanding, Untouched, SingleInv
<1>2. CASE page' = page \/ page' = Loaded
  BY <1>1, <1>2, SamePage
<1>3. CASE ShowLists
  <2>1. /\ AtPage("refetch") /\ page'.stage = "idle" /\ page'.order = page.order
        /\ page'.received = page.received /\ page'.early = page.early /\ page'.sub = sub /\ page'.payments = Paid
    BY <1>3, Typed DEF ShowLists, SetPage, Refetched, Page
  <2>2. page.received => page.order \in Paid
    BY DEF BillingInv, PageSound
  <2> QED
    BY <1>1, <2>1, <2>2 DEF PageOfLast, AtPage
<1>4. ASSUME NEW o \in Orders, NEW p \in PaidPlans, Checkout(o, p) PROVE PageOfLast'
  BY <1>4 DEF Checkout, SetPage, PageOfLast, AtPage, Loaded
<1>5. ASSUME NEW c \in Calls, NEW o \in Orders, Verify(c, o) PROVE PageOfLast'
  <2>1. /\ AtPage("paid") /\ page'.stage = "verify" /\ page'.order = page.order
    BY <1>5, Typed DEF Verify, SetPage, Page
  <2> QED
    BY <1>1, <2>1 DEF PageOfLast, AtPage
<1>6. ASSUME NEW c \in Calls, View(c) PROVE PageOfLast'
  <2>1. CASE WaitsFor(c)
    <3>1. /\ AtPage("verify") /\ page'.stage = "refetch" /\ page'.order = page.order
      BY <1>6, <2>1, Typed DEF View, SetPage, Page, WaitsFor
    <3> QED
      BY <1>1, <3>1 DEF PageOfLast, AtPage
  <2>2. CASE ~WaitsFor(c)
    BY <1>2, <1>6, <2>2 DEF View, SetPage
  <2> QED
    BY <2>1, <2>2
<1>7. ASSUME NEW c \in Calls, FailsEarly(c) \/ FailsLate(c) PROVE PageOfLast'
  BY <1>2, <1>7 DEF FailsEarly, FailsLate, AnswerFailure, SetPage, Broken
<1>8. ASSUME NEW c \in Calls, FindOrder(c) \/ ClaimOrder(c) \/ Award(c) \/ AwardFails(c) \/ Reverse(c) PROVE PageOfLast'
  <2>1. Return(c) \/ UNCHANGED world
    BY <1>8 DEF FindOrder, ClaimOrder, Award, AwardFails, Reverse, FindPayment, FindCommission, SaveReversal
  <2> QED
    BY <1>2, <2>1, ReturnMoves DEF world
<1>9. ASSUME NEW c \in Calls,
             ReadSubscription(c) \/ CreditPlan(c) \/ RecordPeriod(c) \/ SetOrgPlan(c)
      PROVE  PageOfLast'
  BY <1>2, <1>9 DEF ReadSubscription, CreditPlan, RecordPeriod, SetOrgPlan, world
<1>10. CASE Tick \/ Crash \/ Dismiss \/ Reload \/ UNCHANGED vars
  BY <1>2, <1>10 DEF Tick, Crash, Dismiss, Reload, SetPage, Broken, vars, world
<1>11. ASSUME NEW o \in Orders, Refund(o) \/ \E c \in Calls : ReceiveWebhook(c, o) PROVE PageOfLast'
  BY <1>2, <1>11 DEF Refund, ReceiveWebhook, world
<1>12. ASSUME NEW o \in Orders, Pay(o) PROVE FALSE
  BY <1>12 DEF Pay
<1>13. ASSUME NEW c \in Calls,
              Fulfil(c) \/ AwardFails(c) \/ Reverse(c) \/ FailsEarly(c) \/ FailsLate(c)
       PROVE  PageOfLast'
  BY <1>6, <1>7, <1>8, <1>9, <1>13 DEF Fulfil
<1> QED
  BY <1>3, <1>4, <1>5, <1>10, <1>11, <1>12, <1>13 DEF Next

LEMMA NextSingle ==
    ASSUME ~Overlap, TypeOK, BillingInv, SingleInv, [Next]_vars
    PROVE  SingleInv'
<1>1. TypeOK' /\ Later /\ BillingInv'
  BY StepTyped, NextBilling
<1>2. ASSUME NEW o \in Orders, Pay(o) PROVE SingleInv'
  <2>1. /\ captured \subseteq credited /\ captured' = captured \cup {o} /\ UNCHANGED <<call, credited>>
        /\ \A c \in Calls : At(c, "idle")
        /\ page' = Loaded \/ page' = [page EXCEPT !.stage = "paid"]
        /\ AtPage("modal") /\ page.order = o
    BY <1>2 DEF Pay, store
  <2>2. Outstanding' \subseteq {o} /\ \A c \in Calls : ~Crediting(c)' /\ ~At(c, "credit")'
    BY <2>1 DEF Outstanding, Crediting, Claimed, Completing, At
  <2>3. PageOfLast'
    <3>1. page' = [page EXCEPT !.stage = "paid"] => page'.stage = "paid" /\ page'.order = o
      BY <2>1, Typed DEF Page
    <3> QED
      BY <2>1, <2>2, <3>1 DEF PageOfLast, AtPage, Loaded
  <2> QED
    BY <2>2, <2>3 DEF SingleInv
<1>3. CASE Untouched /\ captured' = captured
  <2>1. PageOfLast'
    BY <1>1, <1>3, UntouchedPage
  <2>2. Outstanding' = Outstanding /\ sub' = sub
    BY <1>3 DEF Outstanding, Untouched
  <2>3. \A d \in Calls : Crediting(d)' => Crediting(d) /\ call'[d].order = call[d].order
    BY <1>3 DEF Untouched, Crediting, Claimed, Completing
  <2>4. \A d \in Calls : At(d, "credit")' => At(d, "credit") /\ call'[d].start = call[d].start
    BY <1>3 DEF Untouched, Crediting, Claimed, At
  <2> QED
    BY <1>1, <2>1, <2>2, <2>3, <2>4, SingleFrame
<1>4. CASE Crash
  <2>1. UNCHANGED <<captured, store>> /\ (page' = page \/ page' = Loaded) /\ call' = [c \in Calls |-> Idle]
    BY <1>4 DEF Crash, SetPage, Broken
  <2>2. \A d \in Calls : ~Crediting(d)' /\ ~At(d, "credit")'
    BY <2>1 DEF Idle, Crediting, Claimed, Completing, At
  <2>3. Outstanding' = Outstanding /\ sub' = sub /\ PageOfLast'
    BY <2>1, SamePage DEF Outstanding, store, SingleInv
  <2> QED
    BY <1>1, <2>2, <2>3, SingleFrame
<1>5. ASSUME NEW c \in Calls,
             \/ Award(c) \/ AwardFails(c) \/ FailsLate(c) \/ RecordPeriod(c) \/ SetOrgPlan(c)
             \/ (ClaimOrder(c) /\ ~Claimed(c)')
      PROVE  SingleInv'
  <2>1. UNCHANGED <<captured, sub, credited>> /\ (page' = page \/ page' = Loaded)
    <3>1. CASE FailsLate(c) \/ RecordPeriod(c) \/ SetOrgPlan(c)
      BY <3>1 DEF FailsLate, AnswerFailure, SetPage, Broken, RecordPeriod, SetOrgPlan, world, store
    <3>2. CASE Award(c) \/ AwardFails(c) \/ ClaimOrder(c)
      <4>1. (Return(c) \/ UNCHANGED world) /\ UNCHANGED <<sub, credited>>
        BY <3>2 DEF Award, AwardFails, ClaimOrder, store
      <4> QED
        BY <4>1, ReturnMoves DEF world
    <3> QED
      BY <1>5, <3>1, <3>2
  <2>2. /\ Moves(c) /\ ~At(c, "credit")'
        /\ Crediting(c)' => Crediting(c) /\ call'[c].order = call[c].order
    <3>1. CASE RecordPeriod(c) \/ SetOrgPlan(c)
      <4>1. Crediting(c) /\ \E pc \in {"org", "award"} : Goto(c, pc)
        BY <3>1 DEF RecordPeriod, SetOrgPlan, At, Crediting, Completing
      <4> QED
        BY <4>1, GotoMoves DEF At
    <3>2. CASE FailsLate(c)
      <4>1. Moves(c) /\ call'[c] = Idle
        BY <3>2, EndMoves DEF FailsLate, AnswerFailure
      <4> QED
        BY <4>1 DEF Idle, Crediting, Claimed, Completing, At
    <3>3. CASE Return(c)
      BY <3>3, ReturnMoves DEF Idle, Crediting, Claimed, Completing, At
    <3>4. CASE ClaimOrder(c) /\ ~Return(c) /\ ~Claimed(c)'
      <4>1. Goto(c, "read")
        BY <3>4 DEF ClaimOrder
      <4> QED
        BY <3>4, <4>1, GotoMoves DEF Claimed
    <3> QED
      BY <1>5, <3>1, <3>2, <3>3, <3>4 DEF Award, AwardFails
  <2>3. Outstanding' = Outstanding /\ PageOfLast'
    BY <2>1, SamePage DEF Outstanding, SingleInv
  <2>4. \A d \in Calls : Crediting(d)' => Crediting(d) /\ call'[d].order = call[d].order
    BY <2>2 DEF Moves, Crediting, Claimed, Completing
  <2>5. \A d \in Calls : At(d, "credit")' => At(d, "credit") /\ call'[d].start = call[d].start
    BY <2>2 DEF Moves, At
  <2> QED
    BY <1>1, <2>1, <2>3, <2>4, <2>5, SingleFrame
<1>6. ASSUME NEW c \in Calls, ClaimOrder(c), Claimed(c)' PROVE SingleInv'
  <2> DEFINE o == call[c].order
  <2>1. ~Return(c)
    BY <1>6, ReturnMoves DEF Claimed, Idle
  <2>2. /\ At(c, "claim") /\ payment[o].status = "created" /\ Goto(c, "read")
        /\ UNCHANGED <<now, captured, page, sub, credited>>
    BY <1>6, <2>1 DEF ClaimOrder, Claimable, world
  <2>3. Moves(c) /\ call'[c].pc = "read" /\ call'[c].order = o
    BY <2>2, GotoMoves
  <2>4. o \in Outstanding /\ o \notin Paid
    BY <2>2, Typed DEF BillingInv, CallSound, OrderSound, At, Outstanding, Paid
  <2>5. \A d \in Calls : ~Crediting(d)
    <3>1. ASSUME NEW d \in Calls, Claimed(d) PROVE FALSE
      <4>1. call[d].order \in Paid /\ call[d].order \in Outstanding
        BY <3>1 DEF BillingInv, CallSound, OrderSound, Outstanding, Paid
      <4> QED
        BY <2>4, <4>1 DEF SingleInv
    <3>2. ASSUME NEW d \in Calls, Completing(d) PROVE FALSE
      <4>1. call[d].order \in credited /\ Outstanding \subseteq {call[d].order}
        BY <3>2 DEF BillingInv, CallSound, SingleInv, Crediting
      <4> QED
        BY <2>4, <4>1 DEF Outstanding
    <3> QED
      BY <3>1, <3>2 DEF Crediting
  <2>6. Outstanding' = Outstanding /\ PageOfLast' /\ Outstanding \subseteq {o}
    BY <2>2, <2>4, SamePage DEF Outstanding, SingleInv
  <2>7. \A d \in Calls \ {c} : ~Crediting(d)' /\ ~At(d, "credit")'
    BY <2>3, <2>5 DEF Moves, Crediting, Claimed, Completing, At
  <2>8. ~At(c, "credit")'
    BY <2>3 DEF At
  <2> QED
    BY <2>3, <2>6, <2>7, <2>8 DEF SingleInv
<1>7. ASSUME NEW c \in Calls, ReadSubscription(c) PROVE SingleInv'
  <2> DEFINE r == [call[c] EXCEPT !.pc = "credit", !.start = NextStart(c)]
  <2>1. /\ At(c, "read") /\ call' = [call EXCEPT ![c] = r]
        /\ UNCHANGED <<now, payment, captured, page, sub, credited>>
    BY <1>7, Typed DEF ReadSubscription, store, world
  <2>2. r.pc = "credit" /\ r.order = call[c].order /\ r.start = PeriodStart(sub, PlanOf(c), now)
    BY Typed DEF Call, NextStart
  <2> HIDE DEF r
  <2>3. call'[c] = r /\ Crediting(c) /\ \A d \in Calls \ {c} : call'[d] = call[d] /\ ~Crediting(d)
    BY <2>1, Typed DEF SingleInv, Crediting, Claimed, At
  <2>4. Outstanding' = Outstanding /\ PageOfLast'
    BY <2>1, SamePage DEF Outstanding, SingleInv
  <2>5. now \in 0..now
    BY Typed
  <2>6. PlanOf(c)' = PlanOf(c)
    BY <2>1, <2>2, <2>3 DEF PlanOf
  <2>7. \E t \in 0..now' : call'[c].start = PeriodStart(sub', PlanOf(c)', t)
    BY <2>1, <2>2, <2>3, <2>5, <2>6
  <2>8. \A d \in Calls \ {c} : ~Crediting(d)' /\ ~At(d, "credit")'
    BY <2>3 DEF Crediting, Claimed, Completing, At
  <2>9. \A d \in Calls : At(d, "credit")' => \E t \in 0..now' : call'[d].start = PeriodStart(sub', PlanOf(d)', t)
    BY <2>7, <2>8
  <2> QED
    BY <2>2, <2>3, <2>4, <2>8, <2>9 DEF SingleInv, PeriodStart, IsSubscriptionCurrent
<1>8. ASSUME NEW c \in Calls, CreditPlan(c) PROVE SingleInv'
  <2> DEFINE o == call[c].order
  <2>1. /\ At(c, "credit") /\ credited' = credited \cup {o} /\ Goto(c, "period")
        /\ UNCHANGED <<now, captured, page>>
    BY <1>8 DEF CreditPlan, world
  <2>2. Moves(c) /\ call'[c].pc = "period" /\ call'[c].order = o
    BY <2>1, GotoMoves
  <2>3. o \in Outstanding /\ Outstanding \subseteq {o} /\ \A d \in Calls \ {c} : ~Crediting(d)
    BY <2>1, Typed DEF BillingInv, CallSound, Claimed, Crediting, At, Outstanding, OrderSound, SingleInv, Paid
  <2>4. Outstanding' = {}
    BY <2>1, <2>3 DEF Outstanding
  <2>5. ~(page.received /\ ~page.early)
    BY <2>3 DEF BillingInv, PageSound, SingleInv, PageOfLast, Outstanding
  <2>6. PageOfLast'
    BY <2>1, <2>4, <2>5 DEF PageOfLast, AtPage
  <2>7. \A d \in Calls \ {c} : ~Crediting(d)' /\ ~At(d, "credit")'
    BY <2>2, <2>3 DEF Moves, Crediting, Claimed, Completing, At
  <2>8. ~At(c, "credit")'
    BY <2>2 DEF At
  <2> QED
    BY <2>4, <2>6, <2>7, <2>8 DEF SingleInv
<1>9. ASSUME Untouched, captured' # captured PROVE \E o \in Orders : Pay(o)
  <2>1. ASSUME NEW c \in Calls, Fulfil(c) \/ AwardFails(c) \/ Reverse(c) \/ FailsEarly(c) \/ FailsLate(c)
        PROVE  captured' = captured
    <3>1. CASE FindOrder(c) \/ ClaimOrder(c) \/ Award(c) \/ AwardFails(c) \/ Reverse(c)
      <4>1. Return(c) \/ UNCHANGED world
        BY <3>1 DEF FindOrder, ClaimOrder, Award, AwardFails, Reverse, FindPayment, FindCommission, SaveReversal
      <4> QED
        BY <4>1, ReturnMoves DEF world
    <3> QED
      BY <2>1, <3>1
      DEF Fulfil, ReadSubscription, CreditPlan, RecordPeriod, SetOrgPlan, View, FailsEarly, FailsLate, AnswerFailure, SetPage, world
  <2> QED
    BY <1>9, <2>1
    DEF Next, Tick, Crash, Dismiss, ShowLists, Reload, Refund, Checkout, Verify, ReceiveWebhook, SetPage, world, vars
<1> QED
  BY <1>2, <1>3, <1>4, <1>5, <1>6, <1>7, <1>8, <1>9, Kinds
-----------------------------------------------------------------------------
LEMMA AlwaysSingle == ASSUME ~Overlap PROVE Spec => []SingleInv
<1>1. Init => SingleInv
  BY DEF Init, SingleInv, PageOfLast, Outstanding, Crediting, Claimed, Completing, At, AtPage, Idle, Loaded
<1>2. (TypeOK /\ BillingInv) /\ SingleInv /\ [Next]_vars => SingleInv'
  BY NextSingle
<1> QED
  BY <1>1, <1>2, AlwaysBilling, PTL DEF Spec

PlansOf == [o \in Orders |-> payment[o].plan]

LEMMA SameMonth ==
    ASSUME NEW d
    PROVE  Ledger!AddOneMonth(d) = AddOneMonth(d)
BY DEF Ledger!AddOneMonth, Ledger!MonthOf, Ledger!DaysIn, AddOneMonth, MonthOf, DaysIn

(* Every step that credits is a credit of the ledger, and every other       *)
(* leaves it alone but for new orders and the time.                         *)
LEMMA LedgerStep ==
    ASSUME TypeOK, BillingInv, SingleInv, [Next]_vars
    PROVE  [Ledger!Next]_(Ledger!vars)
<1>1. TypeOK' /\ Later
  BY StepTyped
<1>2. CASE UNCHANGED <<now, sub, credited>> /\ \A o \in Orders : payment'[o].plan = payment[o].plan
  BY <1>2 DEF Ledger!vars
<1>3. CASE Tick
  BY <1>3 DEF Tick, store, Ledger!Next, Ledger!Tick
<1>4. ASSUME NEW o \in Orders, NEW p \in PaidPlans, Checkout(o, p) PROVE Ledger!Next
  <2>1. /\ payment[o].status = "none" /\ payment' = [payment EXCEPT ![o].status = "created", ![o].plan = p]
        /\ UNCHANGED <<now, sub, credited>>
    BY <1>4 DEF Checkout, SetPage
  <2>2. PlansOf[o] = Free /\ PlansOf' = [PlansOf EXCEPT ![o] = p]
    BY <2>1, Typed DEF BillingInv, OrderSound, PlansOf, Payment
  <2>3. Ledger!Order(o, p)
    BY <2>1, <2>2 DEF Ledger!Order, PlansOf
  <2> QED
    BY <2>3 DEF Ledger!Next
<1>5. ASSUME NEW c \in Calls, CreditPlan(c) PROVE Ledger!Next
  <2> DEFINE o == call[c].order
  <2>1. /\ At(c, "credit") /\ sub' = [exists |-> TRUE, plan |-> PlanOf(c), end |-> AddOneMonth(call[c].start)]
        /\ credited' = credited \cup {o} /\ UNCHANGED <<now, payment>>
    BY <1>5 DEF CreditPlan, world
  <2>2. o \in Orders \ credited /\ PlanOf(c) \in PaidPlans
    BY <2>1, Typed DEF BillingInv, CallSound, Claimed, At, Paid, OrderSound, PlanOf, Payment
  <2>3. PICK t \in 0..now : call[c].start = PeriodStart(sub, PlanOf(c), t)
    BY <2>1 DEF SingleInv
  <2>4. ~sub.exists => sub.plan = Free /\ sub.plan # PlanOf(c)
    BY <2>2, CalendarAssumption DEF BillingInv, SubSound, NoSubscription
  <2>5. call[c].start = IF sub.plan = PlanOf(c) /\ sub.end > t THEN sub.end ELSE t
    BY <2>3, <2>4 DEF PeriodStart, IsSubscriptionCurrent
  <2>6. /\ o \notin credited /\ PlansOf[o] # Free /\ PlansOf[o] = PlanOf(c) /\ sub'.plan = PlansOf[o]
        /\ sub'.end = Ledger!AddOneMonth(IF sub.plan = PlansOf[o] /\ sub.end > t THEN sub.end ELSE t)
    BY <2>1, <2>2, <2>5, SameMonth, CalendarAssumption DEF PlansOf, PlanOf
  <2>7. Ledger!Credit(o)
    BY <2>1, <2>6 DEF Ledger!Credit, PlansOf
  <2> QED
    BY <2>2, <2>7 DEF Ledger!Next
<1>6. ASSUME NEW c \in Calls,
             Fulfil(c) \/ AwardFails(c) \/ Reverse(c) \/ FailsEarly(c) \/ FailsLate(c), ~CreditPlan(c)
      PROVE  UNCHANGED <<now, sub, credited>> /\ \A o \in Orders : payment'[o].plan = payment[o].plan
  <2>1. CASE FindOrder(c) \/ ClaimOrder(c) \/ Award(c) \/ AwardFails(c) \/ Reverse(c)
    <3>1. (Return(c) \/ UNCHANGED world) /\ UNCHANGED <<sub, credited>>
      BY <2>1 DEF FindOrder, ClaimOrder, Award, AwardFails, Reverse, FindPayment, FindCommission, SaveReversal, store
    <3>2. UNCHANGED payment \/ SetStatus(call[c].order, "paid")
      BY <2>1 DEF FindOrder, ClaimOrder, Award, AwardFails, Reverse, FindPayment, FindCommission, SaveReversal, store
    <3>3. \A o \in Orders : payment'[o].plan = payment[o].plan
      BY <3>2, Typed DEF SetStatus, Payment
    <3> QED
      BY <3>1, <3>3, ReturnMoves DEF world
  <2>2. CASE RecordPeriod(c)
    <3>1. UNCHANGED <<now, sub, credited>> /\ payment' = [payment EXCEPT ![call[c].order].period = TRUE]
      BY <2>2 DEF RecordPeriod, world
    <3> QED
      BY <3>1, Typed DEF Payment
  <2>3. CASE ReadSubscription(c) \/ SetOrgPlan(c) \/ View(c) \/ FailsEarly(c) \/ FailsLate(c)
    BY <2>3 DEF ReadSubscription, SetOrgPlan, View, FailsEarly, FailsLate, AnswerFailure, SetPage, world, store
  <2> QED
    BY <1>6, <2>1, <2>2, <2>3 DEF Fulfil
<1>7. CASE \/ Crash \/ Dismiss \/ ShowLists \/ Reload \/ UNCHANGED vars
           \/ \E o \in Orders : \/ Pay(o) \/ Refund(o)
                                \/ \E c \in Calls : Verify(c, o) \/ ReceiveWebhook(c, o)
  <2>1. UNCHANGED <<now, payment, sub, credited>>
    BY <1>7 DEF Crash, Dismiss, ShowLists, Reload, vars, Pay, Refund, Verify, ReceiveWebhook, SetPage, world, store
  <2> QED
    BY <1>2, <2>1
<1> QED
  BY <1>2, <1>3, <1>4, <1>5, <1>6, <1>7 DEF Next

(* Every payment is credited once, and buys a month: one more of the plan   *)
(* that is running, or a new one of another (fulfill.ts:29-55).             *)
THEOREM CreditedOnce == ASSUME ~Overlap PROVE Spec => CreditsEachOnce
<1>1. Init => Ledger!Init
  BY DEF Init, Ledger!Init, NoSubscription
<1>2. (TypeOK /\ BillingInv) /\ SingleInv /\ [Next]_vars => [Ledger!Next]_(Ledger!vars)
  BY LedgerStep
<1> QED
  BY <1>1, <1>2, AlwaysBilling, AlwaysSingle, PTL DEF Spec, CreditsEachOnce, Ledger!Spec

(* A page that says a payment was received is right about it, and shows the *)
(* plan in force, unless it was answered while another call was crediting   *)
(* the order (hooks.ts:208-225, Billing.tsx:25-37).                         *)
THEOREM PaymentIsShown == ASSUME ~Overlap PROVE Spec => []NoticeIsTrue
<1>1. ASSUME TypeOK, BillingInv, SingleInv PROVE NoticeIsTrue
  <2>1. page.received => /\ page.order \in Paid /\ page.order \in captured
                         /\ page.early \/ page.order \in credited
    BY <1>1 DEF BillingInv, PageSound, OrderSound, Paid
  <2>2. AtPage("idle") /\ page.received /\ ~page.early => page.sub = sub /\ page.order \in page.payments
    BY <1>1 DEF SingleInv, PageOfLast
  <2> QED
    BY <2>1, <2>2 DEF NoticeIsTrue
<1> QED
  BY <1>1, AlwaysBilling, AlwaysSingle, PTL
-----------------------------------------------------------------------------
(* What is left to do for a payment                                         *)
LEMMA FaultsStay ==
    ASSUME TypeOK, BillingInv, [Next]_vars
    PROVE  Interrupted => Interrupted'
<1>1. faults \subseteq faults'
  <2>1. CASE Untouched
    BY <2>1 DEF Untouched
  <2>2. CASE Crash
    BY <2>2 DEF Crash, Fault
  <2>3. ASSUME NEW c \in Calls, \/ ClaimOrder(c) \/ ReadSubscription(c) \/ CreditPlan(c) \/ RecordPeriod(c)
                                \/ SetOrgPlan(c) \/ Award(c) \/ AwardFails(c) \/ FailsLate(c)
        PROVE  faults \subseteq faults'
    BY <2>3 DEF ClaimOrder, ReadSubscription, CreditPlan, RecordPeriod, SetOrgPlan, Award, AwardFails, FailsLate, Fault
  <2> QED
    BY <2>1, <2>2, <2>3, Kinds
<1> QED
  BY <1>1 DEF Interrupted

LEMMA UntouchedWhole ==
    ASSUME TypeOK, BillingInv, (\A o \in Paid : PaidWhole(o)) /\ PlanWhole, Untouched
    PROVE  (\A o \in Paid' : PaidWhole(o)') /\ PlanWhole'
<1>1. \A d \in Calls : Crediting(d) \/ Crediting(d)' => call'[d] = call[d]
  BY DEF Untouched
<1>2. ASSUME NEW o \in Paid' PROVE PaidWhole(o)'
  <2>1. o \in Orders /\ o \in Paid /\ payment'[o] = payment[o] /\ credited' = credited /\ faults \subseteq faults'
        /\ (commission[o] # "none" => commission'[o] # "none")
    BY <1>2 DEF Untouched, Paid
  <2>2. \A d \in Calls : /\ Claimed(d) => Claimed(d)' /\ call'[d] = call[d]
                         /\ At(d, "period") => At(d, "period")' /\ call'[d] = call[d]
                         /\ Crediting(d) => Crediting(d)' /\ call'[d] = call[d]
    BY <1>1 DEF Crediting, Claimed, Completing, At
  <2> QED
    BY <2>1, <2>2 DEF PaidWhole
<1>3. PlanWhole'
  <2>1. UNCHANGED <<sub, orgPlan>>
    BY DEF Untouched
  <2>2. ASSUME NEW d \in Calls, At(d, "period") \/ At(d, "org") \/ At(d, "period")' \/ At(d, "org")'
        PROVE  call'[d] = call[d] /\ PlanOf(d)' = PlanOf(d)
    <3>1. call'[d] = call[d] /\ Completing(d)
      BY <1>1, <2>2 DEF Crediting, Claimed, Completing, At
    <3>2. call[d].order \in Paid
      BY <3>1, Typed DEF BillingInv, CallSound, OrderSound, Paid
    <3> QED
      BY <3>1, <3>2 DEF PlanOf, Untouched
  <2> QED
    BY <2>1, <2>2 DEF PlanWhole, At
<1> QED
  BY <1>2, <1>3

LEMMA NextWhole ==
    ASSUME TypeOK, BillingInv, SingleInv, WholeInv, [Next]_vars
    PROVE  WholeInv'
<1> DEFINE Good == (\A o \in Paid' : PaidWhole(o)') /\ PlanWhole'
<1>1. SUFFICES ASSUME ~Interrupted, ~Interrupted' PROVE Good
  BY FaultsStay DEF WholeInv
<1>2. (\A o \in Paid : PaidWhole(o)) /\ PlanWhole
  BY <1>1 DEF WholeInv
<1>3. CASE Untouched
  BY <1>2, <1>3, UntouchedWhole
<1>4. ~Crash /\ \A c \in Calls : ~FailsLate(c)
  BY <1>1 DEF Crash, FailsLate, Fault, Interrupted
<1>5. ASSUME NEW c \in Calls, ClaimOrder(c) PROVE Good
  <2> DEFINE o == call[c].order
  <2>1. CASE Return(c) /\ UNCHANGED payment
    <3>1. Moves(c) /\ ~Crediting(c) /\ ~Crediting(c)'
      BY <1>5, <2>1, ReturnMoves DEF ClaimOrder, At, Crediting, Claimed, Completing, Idle
    <3>2. UNCHANGED <<payment, sub, orgPlan, credited, commission, faults>>
      BY <1>5, <2>1 DEF ClaimOrder
    <3> QED
      BY <1>3, <3>1, <3>2, QuietUntouched
  <2>2. CASE SetStatus(o, "paid") /\ Goto(c, "read")
    <3>1. /\ Moves(c) /\ call'[c].pc = "read" /\ call'[c].order = o
          /\ payment' = [payment EXCEPT ![o].status = "paid"] /\ At(c, "claim")
          /\ UNCHANGED <<sub, orgPlan, commission, credited, faults>>
      BY <1>5, <2>2, GotoMoves DEF SetStatus, ClaimOrder
    <3>2. o \in Orders /\ \A k \in Orders : /\ payment'[k].period = payment[k].period
                                            /\ payment'[k].plan = payment[k].plan
                                            /\ k # o => payment'[k].status = payment[k].status
      BY <3>1, Typed DEF BillingInv, CallSound, At, Payment
    <3>3. \A d \in Calls \ {c} : call'[d] = call[d]
      BY <3>1 DEF Moves
    <3>4. ASSUME NEW k \in Paid', k = o PROVE PaidWhole(k)'
      BY <3>1, <3>4 DEF PaidWhole, Claimed, Crediting
    <3>5. ASSUME NEW k \in Paid', k # o PROVE PaidWhole(k)'
      <4>1. k \in Orders /\ k \in Paid /\ PaidWhole(k)
        BY <1>2, <3>2, <3>5 DEF Paid
      <4>2. \A d \in Calls : /\ Claimed(d) => Claimed(d)' /\ call'[d] = call[d]
                             /\ At(d, "period") => At(d, "period")' /\ call'[d] = call[d]
                             /\ Crediting(d) => Crediting(d)' /\ call'[d] = call[d]
        BY <3>1, <3>3 DEF Crediting, Claimed, Completing, At
      <4> QED
        BY <3>1, <3>2, <4>1, <4>2 DEF PaidWhole
    <3>6. PlanWhole'
      <4>1. ~At(c, "period") /\ ~At(c, "org") /\ ~At(c, "period")' /\ ~At(c, "org")'
        BY <3>1 DEF At
      <4>2. ASSUME NEW d \in Calls, At(d, "period") \/ At(d, "org") \/ At(d, "period")' \/ At(d, "org")'
            PROVE  call'[d] = call[d] /\ PlanOf(d)' = PlanOf(d)
        <5>1. call'[d] = call[d] /\ Completing(d)
          BY <3>3, <4>1, <4>2 DEF Completing, At
        <5> QED
          BY <3>2, <5>1, Typed DEF PlanOf, BillingInv, CallSound
      <4> QED
        BY <1>2, <3>1, <4>2 DEF PlanWhole, At
    <3> QED
      BY <3>4, <3>5, <3>6
  <2> QED
    BY <1>5, <2>1, <2>2 DEF ClaimOrder
<1>6. ASSUME NEW c \in Calls, ReadSubscription(c) \/ CreditPlan(c) \/ RecordPeriod(c) \/ SetOrgPlan(c)
                              \/ Award(c) \/ AwardFails(c)
      PROVE  Good
  <2> DEFINE o == call[c].order
  <2>1. Crediting(c) /\ \A d \in Calls \ {c} : ~Crediting(d)
    BY <1>6 DEF SingleInv, Crediting, Claimed, Completing, At, ReadSubscription, CreditPlan, RecordPeriod, SetOrgPlan, Award, AwardFails
  <2>2. /\ o \in Orders /\ o \in Paid
        /\ \A k \in Paid \ {o} : k \in credited /\ payment[k].period /\ (commission[k] # "none" \/ "reject" \in faults)
    <3>1. o \in Orders /\ o \in Paid
      BY <2>1, Typed DEF BillingInv, CallSound, OrderSound, Crediting, Paid
    <3>2. \A d \in Calls : Claimed(d) \/ At(d, "period") \/ Crediting(d) => d = c
      BY <2>1 DEF Crediting, Claimed, Completing, At
    <3> QED
      BY <1>2, <3>1, <3>2 DEF PaidWhole
  <2>3. CASE ReadSubscription(c)
    <3>1. /\ At(c, "read") /\ At(c, "credit")' /\ call'[c].order = o /\ \A d \in Calls \ {c} : call'[d] = call[d]
          /\ UNCHANGED <<payment, sub, orgPlan, credited, commission, faults>>
      BY <2>3, Typed DEF ReadSubscription, store, At, Call
    <3>2. \A k \in Paid' : PaidWhole(k)'
      BY <2>2, <3>1 DEF PaidWhole, Paid, Claimed, Crediting, At
    <3>3. PlanWhole'
      BY <1>2, <3>1 DEF PlanWhole, PlanOf, At
    <3> QED
      BY <3>2, <3>3
  <2>4. CASE CreditPlan(c)
    <3>1. /\ At(c, "credit") /\ At(c, "period")' /\ Moves(c) /\ call'[c].order = o
          /\ UNCHANGED <<payment, orgPlan, commission, faults>>
          /\ credited' = credited \cup {o} /\ sub'.exists /\ sub'.plan = PlanOf(c)
      BY <2>4, GotoMoves DEF CreditPlan, At
    <3>2. \A k \in Paid' : PaidWhole(k)'
      BY <2>2, <3>1 DEF PaidWhole, Paid, Claimed, Completing, Crediting, At
    <3>3. \A d \in Calls \ {c} : ~At(d, "period")' /\ ~At(d, "org")'
      BY <2>1, <3>1 DEF Moves, Crediting, Completing, At
    <3>4. PlanWhole'
      BY <3>1, <3>3 DEF PlanWhole, PlanOf
    <3> QED
      BY <3>2, <3>4
  <2>5. CASE RecordPeriod(c)
    <3>1. /\ At(c, "period") /\ At(c, "org")' /\ Moves(c) /\ call'[c].order = o
          /\ UNCHANGED <<sub, orgPlan, credited, commission, faults>>
          /\ payment' = [payment EXCEPT ![o].period = TRUE]
      BY <2>5, GotoMoves DEF RecordPeriod, At
    <3>2. /\ payment'[o].period /\ Paid' = Paid /\ payment'[o].plan = payment[o].plan
          /\ \A k \in Orders \ {o} : payment'[k] = payment[k]
      BY <2>2, <3>1, Typed DEF Payment, Paid
    <3>3. o \in credited
      BY <3>1 DEF BillingInv, CallSound, Completing, At
    <3>4. \A k \in Paid' : PaidWhole(k)'
      BY <2>2, <3>1, <3>2, <3>3 DEF PaidWhole, Paid, Completing, Crediting, At
    <3>5. \A d \in Calls \ {c} : ~At(d, "period")' /\ ~At(d, "org")'
      BY <2>1, <3>1 DEF Moves, Crediting, Completing, At
    <3>6. sub'.exists /\ sub'.plan = PlanOf(c)'
      BY <1>2, <3>1, <3>2 DEF PlanWhole, PlanOf
    <3>7. PlanWhole'
      BY <3>1, <3>5, <3>6 DEF PlanWhole
    <3> QED
      BY <3>4, <3>7
  <2>6. CASE SetOrgPlan(c)
    <3>1. /\ At(c, "org") /\ At(c, "award")' /\ Moves(c) /\ call'[c].order = o
          /\ UNCHANGED <<payment, sub, credited, commission, faults>> /\ orgPlan' = PlanOf(c)
      BY <2>6, GotoMoves DEF SetOrgPlan, At, PlanWritten
    <3>2. o \in credited /\ payment[o].period
      <4>1. o \in credited
        BY <3>1 DEF BillingInv, CallSound, Completing, At
      <4>2. \A d \in Calls : ~Claimed(d) /\ ~At(d, "period")
        BY <2>1, <3>1 DEF Crediting, Claimed, Completing, At
      <4> QED
        BY <1>2, <2>2, <4>1, <4>2 DEF PaidWhole
    <3>3. \A k \in Paid' : PaidWhole(k)'
      BY <2>2, <3>1, <3>2 DEF PaidWhole, Paid, Completing, Crediting, At
    <3>4. \A d \in Calls : ~At(d, "period")' /\ ~At(d, "org")'
      BY <2>1, <3>1 DEF Moves, Crediting, Completing, At
    <3>5. PlanWhole'
      BY <1>2, <3>1, <3>4 DEF PlanWhole
    <3> QED
      BY <3>3, <3>5
  <2>7. CASE Award(c) \/ AwardFails(c)
    <3>1. At(c, "award") /\ Return(c) /\ UNCHANGED <<payment, sub, orgPlan, credited>>
      BY <2>7 DEF Award, AwardFails, store
    <3>2. Moves(c) /\ ~Crediting(c)'
      BY <3>1, ReturnMoves DEF Crediting, Claimed, Completing, Idle
    <3>3. \A d \in Calls : ~Claimed(d) /\ ~At(d, "period") /\ ~At(d, "org") /\ ~At(d, "period")' /\ ~At(d, "org")'
      BY <2>1, <3>1, <3>2 DEF Moves, Crediting, Claimed, Completing, At
    <3>4. o \in credited /\ payment[o].period
      BY <1>2, <2>2, <3>3 DEF PaidWhole
    <3>5. \A k \in Paid : commission'[k] # "none" \/ "reject" \in faults'
      <4>1. CASE Award(c)
        <5>1. /\ commission' = [commission EXCEPT ![o] = IF @ = "none" THEN "pending" ELSE @]
              /\ faults' = faults
          BY <4>1 DEF Award
        <5> QED
          BY <2>2, <5>1, Typed DEF Paid
      <4>2. CASE AwardFails(c)
        BY <4>2 DEF AwardFails, Fault
      <4> QED
        BY <2>7, <4>1, <4>2
    <3>6. \A k \in Paid' : PaidWhole(k)'
      BY <2>2, <3>1, <3>4, <3>5 DEF PaidWhole, Paid
    <3>7. PlanWhole'
      BY <1>2, <3>1, <3>3 DEF PlanWhole
    <3> QED
      BY <3>6, <3>7
  <2> QED
    BY <1>6, <2>3, <2>4, <2>5, <2>6, <2>7
<1> QED
  BY <1>3, <1>4, <1>5, <1>6, Kinds

LEMMA AlwaysWhole == ASSUME ~Overlap PROVE Spec => []WholeInv
<1>1. Init => WholeInv
  BY DEF Init, WholeInv, PlanWhole, Paid, NoSubscription, Idle, At
<1>2. (TypeOK /\ BillingInv) /\ SingleInv /\ WholeInv /\ [Next]_vars => WholeInv'
  BY NextWhole
<1> QED
  BY <1>1, <1>2, AlwaysBilling, AlwaysSingle, PTL DEF Spec

(* Once the calls for it are over, a payment has all that belongs to it: it *)
(* is credited, it has its period, the plan bought last is in force, and    *)
(* the referrer has the commission; unless a call was cut off after its     *)
(* claim (fulfill.ts:39-73).                                                *)
THEOREM PaidIsWhole == ASSUME ~Overlap PROVE Spec => []PaidIsComplete
<1>1. ASSUME TypeOK, BillingInv, WholeInv PROVE PaidIsComplete
  <2> SUFFICES ASSUME AllIdle, ~Interrupted
               PROVE  /\ Paid \subseteq credited
                      /\ \A o \in Paid : payment[o].period /\ (commission[o] # "none" \/ "reject" \in faults)
                      /\ EffectivePlanKey(orgPlan, sub, now) =
                            IF IsSubscriptionCurrent(sub, now) THEN sub.plan ELSE Free
    BY DEF PaidIsComplete
  <2>1. (\A o \in Paid : PaidWhole(o)) /\ PlanWhole
    BY <1>1 DEF WholeInv
  <2>2. \A c \in Calls : ~Crediting(c) /\ ~Claimed(c) /\ ~At(c, "period") /\ ~At(c, "org")
    BY DEF AllIdle, At, Crediting, Claimed, Completing
  <2>3. sub.exists => orgPlan = sub.plan /\ orgPlan # Free
    BY <1>1, <2>1, <2>2, CalendarAssumption DEF PlanWhole, BillingInv, SubSound
  <2> QED
    BY <2>1, <2>2, <2>3 DEF PaidWhole, EffectivePlanKey, IsSubscriptionCurrent
<1> QED
  BY <1>1, AlwaysBilling, AlwaysWhole, PTL
-----------------------------------------------------------------------------
(* Refunds                                                                  *)
LEMMA RefundFrame ==
    ASSUME TypeOK, RefundInv, NEW c \in Calls, Moves(c), UNCHANGED refunded,
           paidHook' \subseteq paidHook, page' = page \/ ~AtPage("paid")',
           call'[c].order \in refunded => Refunding(c)',
           \A o \in refunded : o \notin refundHook' => o \notin refundHook \/ commission'[o] # "pending",
           \A o \in refunded : commission'[o] = "pending" => commission[o] = "pending"
    PROVE  RefundInv'
<1>1. ASSUME NEW o \in refunded' PROVE RefundSound(o)'
  <2>1. RefundSound(o)
    BY <1>1 DEF RefundInv
  <2>2. ASSUME NEW d \in Calls, call'[d].order = o PROVE Refunding(d)'
    BY <1>1, <2>1, <2>2 DEF Moves, RefundSound, Refunding
  <2> QED
    BY <1>1, <2>1, <2>2 DEF RefundSound, AtPage
<1> QED
  BY <1>1 DEF RefundInv

LEMMA NextRefund ==
    ASSUME RefundsLast, TypeOK, BillingInv, RefundInv, [Next]_vars
    PROVE  RefundInv'
<1>1. NoOrder \notin refunded /\ Idle.order = NoOrder /\ ~(Loaded.stage = "paid")
  BY Typed, BillingAssumption DEF Idle, Loaded
<1>2. CASE Tick \/ Dismiss \/ ShowLists \/ Reload \/ UNCHANGED vars
  <2>1. /\ UNCHANGED <<refunded, paidHook, refundHook, commission, call>>
        /\ page' = page \/ ~AtPage("paid")'
    <3>1. ShowLists => page'.stage = "idle"
      BY Typed DEF ShowLists, SetPage, Refetched, Page
    <3> QED
      BY <1>1, <1>2, <3>1 DEF Tick, Dismiss, ShowLists, Reload, SetPage, store, vars, world, AtPage
  <2> QED
    BY <2>1 DEF RefundInv, RefundSound, AtPage, Refunding
<1>3. CASE Crash
  <2>1. /\ UNCHANGED <<refunded, paidHook, refundHook, commission>> /\ (page' = page \/ page' = Loaded)
        /\ \A c \in Calls : call'[c].order = NoOrder
    BY <1>1, <1>3 DEF Crash, SetPage, Broken, store
  <2> QED
    BY <1>1, <2>1 DEF RefundInv, RefundSound, AtPage
<1>4. ASSUME NEW o \in Orders, Pay(o) PROVE RefundInv'
  <2>1. /\ o \notin captured /\ paidHook' = paidHook \cup {o} /\ UNCHANGED <<refunded, refundHook, commission, call>>
        /\ page' = Loaded \/ page' = [page EXCEPT !.stage = "paid"]
        /\ page.order = o
    BY <1>4 DEF Pay, store
  <2>2. o \notin refunded
    BY <2>1 DEF BillingInv, OrderSound
  <2>3. page'.stage = "paid" => page'.order = o
    BY <1>1, <2>1, Typed DEF Page
  <2> QED
    BY <2>1, <2>2, <2>3 DEF RefundInv, RefundSound, AtPage, Refunding
<1>5. ASSUME NEW o \in Orders, Refund(o) PROVE RefundInv'
  BY <1>5 DEF Refund, RefundInv, RefundSound, AtPage, Refunding, store
<1>6. ASSUME NEW o \in Orders, NEW p \in PaidPlans, Checkout(o, p) PROVE RefundInv'
  <2>1. /\ UNCHANGED <<refunded, paidHook, refundHook, commission, call>> /\ page'.stage = "modal"
    BY <1>6 DEF Checkout, SetPage, Loaded
  <2> QED
    BY <2>1 DEF RefundInv, RefundSound, AtPage, Refunding
<1>7. ASSUME NEW c \in Calls, NEW o \in Orders, Verify(c, o) PROVE RefundInv'
  <2>1. /\ AtPage("paid") /\ page.order = o /\ Start(c, o, "find", "none")
        /\ UNCHANGED <<refunded, paidHook, refundHook, commission>> /\ page'.stage = "verify"
    BY <1>7, Typed DEF Verify, SetPage, store, FirstOfVerify, Page
  <2>2. Moves(c) /\ call'[c].order = o
    BY <2>1, StartMoves
  <2>3. o \notin refunded
    BY <2>1 DEF RefundInv, RefundSound
  <2> QED
    BY <2>1, <2>2, <2>3, RefundFrame DEF AtPage
<1>8. ASSUME NEW c \in Calls, NEW o \in Orders, ReceiveWebhook(c, o) PROVE RefundInv'
  <2>1. UNCHANGED <<refunded, paidHook, refundHook, commission, page>>
    BY <1>8 DEF ReceiveWebhook, store, world
  <2>2. \/ o \in paidHook /\ Start(c, o, "find", "paid")
        \/ Start(c, o, "findPayment", "refund")
    BY <1>8 DEF ReceiveWebhook
  <2>3. Moves(c) /\ call'[c].order = o /\ (o \in paidHook \/ call'[c].pc = "findPayment")
    BY <2>2, StartMoves
  <2>4. call'[c].order \in refunded => Refunding(c)'
    BY <2>3 DEF RefundInv, RefundSound, Refunding
  <2> QED
    BY <2>1, <2>3, <2>4, RefundFrame
<1>9. ASSUME NEW c \in Calls, View(c) \/ FailsEarly(c) \/ FailsLate(c) PROVE RefundInv'
  <2>1. Moves(c) /\ call'[c].order = NoOrder
    BY <1>1, <1>9, EndMoves DEF View, FailsEarly, FailsLate, AnswerFailure
  <2>2. UNCHANGED <<refunded, paidHook, refundHook, commission>>
    BY <1>9 DEF View, FailsEarly, FailsLate, AnswerFailure, SetPage, store
  <2>3. page' = page \/ ~AtPage("paid")'
    <3>1. View(c) => page' = page \/ page'.stage = "refetch"
      BY Typed DEF View, SetPage, Page
    <3> QED
      BY <1>1, <1>9, <3>1 DEF FailsEarly, FailsLate, AnswerFailure, SetPage, Broken, AtPage
  <2> QED
    BY <1>1, <2>1, <2>2, <2>3, RefundFrame
<1>10. ASSUME NEW c \in Calls, FindOrder(c) \/ ClaimOrder(c) \/ ReadSubscription(c) \/ CreditPlan(c) \/ RecordPeriod(c)
                               \/ SetOrgPlan(c) \/ Award(c) \/ AwardFails(c)
       PROVE  RefundInv'
  <2> DEFINE o == call[c].order
  <2>1. call[c].pc \in {"find", "claim", "read", "credit", "period", "org", "award"}
    BY <1>10 DEF FindOrder, ClaimOrder, ReadSubscription, CreditPlan, RecordPeriod, SetOrgPlan, Award, AwardFails, At
  <2>2. o \notin refunded /\ call[c].hook # "refund" /\ o \in Orders
    BY <2>1, Typed DEF RefundInv, RefundSound, Refunding, BillingInv, CallSound
  <2>3. \/ Return(c)
        \/ UNCHANGED world /\ \E pc \in {"claim", "read", "period", "org", "award"} : Goto(c, pc)
        \/ UNCHANGED world /\ call' = [call EXCEPT ![c].pc = "credit", ![c].start = NextStart(c)]
    BY <1>10 DEF FindOrder, ClaimOrder, ReadSubscription, CreditPlan, RecordPeriod, SetOrgPlan, Award, AwardFails
  <2>4. /\ Moves(c) /\ (call'[c].order = o \/ call'[c].order = NoOrder)
        /\ UNCHANGED <<page, refunded, refundHook>> /\ paidHook' \subseteq paidHook
    <3>1. CASE Return(c)
      BY <1>1, <2>2, <3>1, ReturnMoves
    <3>2. CASE UNCHANGED world /\ \E pc \in {"claim", "read", "period", "org", "award"} : Goto(c, pc)
      BY <3>2, GotoMoves DEF world
    <3>3. CASE UNCHANGED world /\ call' = [call EXCEPT ![c].pc = "credit", ![c].start = NextStart(c)]
      <4>1. [call[c] EXCEPT !.pc = "credit", !.start = NextStart(c)] \in Call
        BY Typed, StartFits DEF Call
      <4>2. call' = [call EXCEPT ![c] = [call[c] EXCEPT !.pc = "credit", !.start = NextStart(c)]]
        BY <3>3, Typed
      <4>3. call'[c] = [call[c] EXCEPT !.pc = "credit", !.start = NextStart(c)]
        BY <4>2, Typed
      <4>4. call'[c].order = o
        BY <4>3, Typed DEF Call
      <4> QED
        BY <3>3, <4>1, <4>2, <4>4, Typed DEF Moves, world
    <3> QED
      BY <2>3, <3>1, <3>2, <3>3
  <2>5. \A k \in refunded : commission'[k] = commission[k]
    <3>1. UNCHANGED commission \/ commission' = [commission EXCEPT ![o] = IF @ = "none" THEN "pending" ELSE @]
      BY <1>10 DEF FindOrder, ClaimOrder, ReadSubscription, CreditPlan, RecordPeriod, SetOrgPlan, Award, AwardFails, store
    <3> QED
      BY <2>2, <3>1, Typed
  <2> QED
    BY <1>1, <2>2, <2>4, <2>5, RefundFrame
<1>11. ASSUME NEW c \in Calls, Reverse(c) PROVE RefundInv'
  <2> DEFINE o == call[c].order
  <2>1. Refunding(c) /\ o \in refunded /\ call[c].hook = "refund" /\ o \in Orders
    BY <1>11, Typed DEF Reverse, FindPayment, FindCommission, SaveReversal, At, Refunding, BillingInv, CallSound
  <2>2. CASE UNCHANGED <<world, commission>> /\ \E pc \in {"findCommission", "saveReversal"} : Goto(c, pc)
    <3>1. Moves(c) /\ Refunding(c)' /\ UNCHANGED <<page, refunded, refundHook, paidHook, commission>>
      BY <2>2, GotoMoves DEF Refunding, world
    <3> QED
      BY <3>1, RefundFrame
  <2>3. CASE Return(c) /\ commission'[o] # "pending" /\ \A k \in Orders \ {o} : commission'[k] = commission[k]
    <3>1. /\ Moves(c) /\ UNCHANGED <<page, refunded>> /\ paidHook' \subseteq paidHook
          /\ refundHook \ refundHook' \subseteq {o} /\ call'[c].order = NoOrder
      BY <1>1, <2>1, <2>3, ReturnMoves
    <3>2. \A k \in refunded : k \notin refundHook' => k \notin refundHook \/ commission'[k] # "pending"
      BY <2>3, <3>1
    <3>3. \A k \in refunded : commission'[k] = "pending" => commission[k] = "pending"
      BY <2>3, Typed
    <3> QED
      BY <1>1, <3>1, <3>2, <3>3, RefundFrame
  <2>4. CASE FindPayment(c) /\ Return(c) /\ payment[o].status # "paid"
    <3>1. commission' = commission /\ commission[o] = "none"
      BY <2>1, <2>4, Typed DEF FindPayment, store, BillingInv, OrderSound
    <3> QED
      BY <2>3, <2>4, <3>1
  <2>5. CASE FindCommission(c) /\ Return(c) /\ commission[o] # "pending"
    BY <2>3, <2>5 DEF FindCommission, store
  <2>6. CASE SaveReversal(c)
    <3>1. commission' = [commission EXCEPT ![o] = "reversed"] /\ Return(c)
      BY <2>6 DEF SaveReversal, AfterRefund
    <3> QED
      BY <2>1, <2>3, <3>1, Typed
  <2> QED
    BY <1>11, <2>2, <2>4, <2>5, <2>6 DEF Reverse, FindPayment, FindCommission, store
<1> QED
  BY <1>2, <1>3, <1>4, <1>5, <1>6, <1>7, <1>8, <1>9, <1>10, <1>11 DEF Next, Fulfil

(* A refunded payment does not keep earning its referrer a commission, once *)
(* Razorpay has been answered (webhook.ts:46-48).                           *)
THEOREM RefundIsReversed == ASSUME RefundsLast PROVE Spec => []RefundedEarnsNothing
<1>1. Init => RefundInv
  BY DEF Init, RefundInv
<1>2. (TypeOK /\ BillingInv) /\ RefundInv /\ [Next]_vars => RefundInv'
  BY NextRefund
<1>3. RefundInv => RefundedEarnsNothing
  BY DEF RefundInv, RefundSound, RefundedEarnsNothing
<1> QED
  BY <1>1, <1>2, <1>3, AlwaysBilling, PTL DEF Spec

(* What has been handled has been handled in full, payments and refunds,    *)
(* whichever of the two calls for an order came first and however often     *)
(* either was repeated.                                                     *)
THEOREM HandledInFull == ASSUME ~Overlap, RefundsLast PROVE Spec => []HandledIsComplete
BY PaidIsWhole, RefundIsReversed, PTL DEF HandledIsComplete
=============================================================================
