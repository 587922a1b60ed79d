-------------------------------- MODULE Billing --------------------------------
(***************************************************************************)
(* Prepaid plans of one organization: the page where a plan is bought, the *)
(* checkout, the browser's verify call, Razorpay's webhooks, fulfillOrder, *)
(* the referrer's commission and its reversal (the dashboard's             *)
(* pages/Billing.tsx and its hooks, billing/routes.ts, billing/webhook.ts, *)
(* billing/fulfill.ts, referrals/commissions.ts).                          *)
(*                                                                         *)
(* Razorpay repeats a webhook until it is answered 200.  The organization  *)
(* has been referred by another, and has one window open.                  *)
(***************************************************************************)
EXTENDS BillingPeriod, FiniteSets

CONSTANTS
    Orders,
    NoOrder,
    Calls,          \* concurrent requests to the API
    MaxDay,         \* bound on the time
    Overlap,        \* TRUE: an order may be paid before the last one is credited
    RefundsLast,    \* TRUE: a refund comes after its payment has been handled
    FaultKinds,     \* the faults that may happen, each once
    MaxFaults

ASSUME BillingAssumption ==
    /\ NoOrder \notin Orders
    /\ IsFiniteSet(Orders)
    /\ MaxDay \in Date
    \* The calendar outlasts every period that can be bought.
    /\ MonthOf(MaxDay) + Cardinality(Orders) <= LastMonth
    /\ Overlap \in BOOLEAN /\ RefundsLast \in BOOLEAN
    /\ FaultKinds \subseteq {"reject", "late", "crash"}
    /\ MaxFaults \in Nat

VARIABLES
    now,
    payment,     \* the Payment collection, one document per order
    captured,    \* orders the customer has paid at Razorpay
    page,        \* the Billing page
    paidHook,    \* order.paid webhooks Razorpay has yet to see answered
    refundHook,  \* the same for refunds
    refunded,    \* orders refunded at Razorpay
    sub,         \* the Subscription document
    orgPlan,     \* Organization.planKey
    commission,  \* the ReferralCommission of each order
    call,        \* the API calls in progress
    credited,    \* history: orders that have changed the subscription
    faults

world == <<now, captured, page, paidHook, refundHook, refunded>>
store == <<payment, sub, orgPlan, commission, credited>>
vars == <<world, store, call, faults>>

Payment == [status: {"none", "created", "paid"}, plan: {Free} \cup PaidPlans, period: BOOLEAN]

(* `start` is the start of the period computed from the subscription. *)
Call == [pc: {"idle", "find", "claim", "read", "credit", "period", "org", "award",
              "view", "findPayment", "findCommission", "saveReversal"},
         order: Orders \cup {NoOrder},
         hook: {"none", "paid", "refund"},
         start: Date]

(* The purchase and its order; whether a payment is announced as received;  *)
(* what the queries answered, kept as long as it is announced.  `early`:    *)
(* /verify was answered before the order was credited.                      *)
Page == [stage: {"idle", "modal", "paid", "verify", "refetch"},
         order: Orders \cup {NoOrder},
         received: BOOLEAN, early: BOOLEAN,
         sub: Subscription, payments: SUBSET Orders]

TypeOK ==
    /\ now \in Date
    /\ payment \in [Orders -> Payment]
    /\ captured \subseteq Orders /\ page \in Page
    /\ paidHook \subseteq Orders /\ refundHook \subseteq Orders /\ refunded \subseteq captured
    /\ sub \in Subscription
    /\ orgPlan \in {Free} \cup PaidPlans
    /\ commission \in [Orders -> {"none", "pending", "reversed"}]
    /\ call \in [Calls -> Call]
    /\ credited \subseteq Orders
    /\ faults \subseteq FaultKinds

Idle == [pc |-> "idle", order |-> NoOrder, hook |-> "none", start |-> 0]

Paid == {o \in Orders : payment[o].status = "paid"}

NoSubscription == [exists |-> FALSE, plan |-> Free, end |-> 0]

(* The page as it comes up *)
Loaded == [stage |-> "idle", order |-> NoOrder, received |-> FALSE, early |-> FALSE,
           sub |-> NoSubscription, payments |-> {}]

Init ==
    /\ now = 0
    /\ payment = [o \in Orders |-> [status |-> "none", plan |-> Free, period |-> FALSE]]
    /\ captured = {} /\ paidHook = {} /\ refundHook = {} /\ refunded = {}
    /\ sub = NoSubscription /\ page = Loaded
    /\ orgPlan = Free
    /\ commission = [o \in Orders |-> "none"]
    /\ call = [c \in Calls |-> Idle]
    /\ credited = {}
    /\ faults = {}

At(c, pc) == call[c].pc = pc
Goto(c, pc) == call' = [call EXCEPT ![c].pc = pc]
End(c) == call' = [call EXCEPT ![c] = Idle]
PlanOf(c) == payment[call[c].order].plan
SetStatus(o, s) == payment' = [payment EXCEPT ![o].status = s]

Fault(k) == /\ k \in FaultKinds \ faults
            /\ Cardinality(faults) < MaxFaults
            /\ faults' = faults \cup {k}
-----------------------------------------------------------------------------
Tick == /\ now < MaxDay
        /\ now' = now + 1
        /\ UNCHANGED <<captured, page, paidHook, refundHook, refunded, store, call, faults>>

AtPage(stage) == page.stage = stage
SetPage(q) == page' = q /\ UNCHANGED <<now, captured, paidHook, refundHook, refunded>>

(* Order ids are interchangeable. *)
NewOrder == CHOOSE o \in Orders : payment[o].status = "none"

(* The buttons are disabled while a purchase is under way. *)
Buyable == AtPage("idle")

(* A plan's button, and POST /checkout: the order is created at Razorpay,   *)
(* then its document.                                                       *)
Checkout(o, p) ==
    /\ Buyable /\ payment[o].status = "none" /\ o = NewOrder
    /\ payment' = [payment EXCEPT ![o].status = "created", ![o].plan = p]
    /\ SetPage([Loaded EXCEPT !.stage = "modal", !.order = o])
    /\ UNCHANGED <<sub, orgPlan, commission, call, credited, faults>>

(* The customer pays in Razorpay's modal, which may be closed before it can say so. *)
Pay(o) ==
    /\ AtPage("modal") /\ page.order = o /\ o \notin captured
    /\ Overlap \/ (captured \subseteq credited /\ \A c \in Calls : At(c, "idle"))
    /\ captured' = captured \cup {o}
    /\ paidHook' = paidHook \cup {o}
    /\ page' \in {Loaded, [page EXCEPT !.stage = "paid"]}
    /\ UNCHANGED <<now, refundHook, refunded, store, call, faults>>

(* CheckoutDismissed, or Razorpay's script has not loaded *)
Dismiss ==
    /\ AtPage("modal")
    /\ SetPage(Loaded)
    /\ UNCHANGED <<store, call, faults>>

Refetched(q) == [q EXCEPT !.stage = "idle", !.sub = sub, !.payments = Paid]

(* usePurchase, onSettled: GET /subscription and GET /payments have been answered. *)
ShowLists ==
    /\ AtPage("refetch")
    /\ SetPage(Refetched(page))
    /\ UNCHANGED <<store, call, faults>>

(* The tab is closed during a purchase, and another opened. *)
Reload ==
    /\ ~AtPage("idle")
    /\ SetPage(Loaded)
    /\ UNCHANGED <<store, call, faults>>

Refund(o) ==
    /\ o \in captured \ refunded
    /\ RefundsLast => /\ o \notin paidHook /\ ~(AtPage("paid") /\ page.order = o)
                      /\ \A c \in Calls : call[c].order # o
    /\ refunded' = refunded \cup {o}
    /\ refundHook' = refundHook \cup {o}
    /\ UNCHANGED <<now, captured, page, paidHook, store, call, faults>>

Start(c, o, pc, hook) ==
    /\ At(c, "idle")
    /\ call' = [call EXCEPT ![c] = [Idle EXCEPT !.pc = pc, !.order = o, !.hook = hook]]

(* Mutant: the answer does not wait for fulfillOrder. *)
FirstOfVerify_View == "view"

FirstOfVerify == "find"

(* POST /verify, whose signature only Razorpay can have made *)
Verify(c, o) ==
    /\ AtPage("paid") /\ page.order = o
    /\ Start(c, o, FirstOfVerify, "none")
    /\ SetPage([page EXCEPT !.stage = "verify"])
    /\ UNCHANGED <<store, faults>>

(* POST /webhooks/razorpay, again if Razorpay has not seen the answer *)
ReceiveWebhook(c, o) ==
    /\ \/ o \in paidHook /\ Start(c, o, "find", "paid")
       \/ o \in refundHook /\ Start(c, o, "findPayment", "refund")
    /\ UNCHANGED <<world, store, faults>>

(* fulfillOrder returns: a webhook is answered 200, /verify goes on. *)
Return(c) ==
    \/ /\ call[c].hook = "none"
       /\ Goto(c, "view") /\ UNCHANGED world
    \/ /\ call[c].hook # "none"
       /\ End(c)
       /\ paidHook' = IF call[c].hook = "paid" THEN paidHook \ {call[c].order} ELSE paidHook
       /\ refundHook' = IF call[c].hook = "refund" THEN refundHook \ {call[c].order} ELSE refundHook
       /\ UNCHANGED <<now, captured, page, refunded>>

WaitsFor(c) == AtPage("verify") /\ call[c].hook = "none" /\ call[c].order = page.order

(* subscriptionView answers /verify, to a page that may be gone. *)
View(c) ==
    /\ At(c, "view")
    /\ End(c)
    /\ SetPage(IF WaitsFor(c)
               THEN [page EXCEPT !.stage = "refetch", !.received = TRUE,
                                 !.early = page.order \notin credited]
               ELSE page)
    /\ UNCHANGED <<store, faults>>
-----------------------------------------------------------------------------
(* fulfillOrder.  A payment that is already paid ends the call with true. *)
FindOrder(c) ==
    /\ At(c, "find")
    /\ \/ payment[call[c].order].status = "created" /\ Goto(c, "claim") /\ UNCHANGED world
       \/ payment[call[c].order].status # "created" /\ Return(c)
    /\ UNCHANGED <<store, faults>>

(* Mutant: an update by id alone *)
Claimable_Always(o) == TRUE

Claimable(o) == payment[o].status = "created"

ClaimOrder(c) ==
    /\ At(c, "claim")
    /\ \/ /\ Claimable(call[c].order)
          /\ SetStatus(call[c].order, "paid")
          /\ Goto(c, "read")
          /\ UNCHANGED world
       \/ /\ ~Claimable(call[c].order)
          /\ Return(c)
          /\ UNCHANGED payment
    /\ UNCHANGED <<sub, orgPlan, commission, credited, faults>>

(* Mutant: a renewal starts at once, as a switch does. *)
NextStart_Now(c) == now

NextStart(c) == PeriodStart(sub, PlanOf(c), now)

ReadSubscription(c) ==
    /\ At(c, "read")
    /\ call' = [call EXCEPT ![c].pc = "credit", ![c].start = NextStart(c)]
    /\ UNCHANGED <<world, store, faults>>

CreditPlan(c) ==
    /\ At(c, "credit")
    /\ sub' = [exists |-> TRUE, plan |-> PlanOf(c), end |-> AddOneMonth(call[c].start)]
    /\ credited' = credited \cup {call[c].order}
    /\ Goto(c, "period")
    /\ UNCHANGED <<world, payment, orgPlan, commission, faults>>

RecordPeriod(c) ==
    /\ At(c, "period")
    /\ payment' = [payment EXCEPT ![call[c].order].period = TRUE]
    /\ Goto(c, "org")
    /\ UNCHANGED <<world, sub, orgPlan, commission, credited, faults>>

(* Mutant: a renewal leaves the organization's plan as it is. *)
PlanWritten_IfNew(c) == IF orgPlan = Free THEN PlanOf(c) ELSE orgPlan

PlanWritten(c) == PlanOf(c)

SetOrgPlan(c) ==
    /\ At(c, "org")
    /\ orgPlan' = PlanWritten(c)
    /\ Goto(c, "award")
    /\ UNCHANGED <<world, payment, sub, commission, credited, faults>>

(* awardReferralCommission, then the receipt *)
Award(c) ==
    /\ At(c, "award")
    /\ commission' = [commission EXCEPT ![call[c].order] = IF @ = "none" THEN "pending" ELSE @]
    /\ Return(c)
    /\ UNCHANGED <<payment, sub, orgPlan, credited, faults>>

(* Its failure is logged, and the call succeeds. *)
AwardFails(c) ==
    /\ At(c, "award") /\ Fault("reject")
    /\ Return(c)
    /\ UNCHANGED store
-----------------------------------------------------------------------------
(* reverseCommissionsForPayment: only a paid document has the payment's id. *)
FindPayment(c) ==
    /\ At(c, "findPayment")
    /\ \/ payment[call[c].order].status = "paid" /\ Goto(c, "findCommission") /\ UNCHANGED world
       \/ payment[call[c].order].status # "paid" /\ Return(c)
    /\ UNCHANGED <<store, faults>>

FindCommission(c) ==
    /\ At(c, "findCommission")
    /\ \/ commission[call[c].order] = "pending" /\ Goto(c, "saveReversal") /\ UNCHANGED world
       \/ commission[call[c].order] # "pending" /\ Return(c)
    /\ UNCHANGED <<store, faults>>

AfterRefund(c) == [commission EXCEPT ![call[c].order] = "reversed"]

SaveReversal(c) ==
    /\ At(c, "saveReversal")
    /\ commission' = AfterRefund(c)
    /\ Return(c)
    /\ UNCHANGED <<payment, sub, orgPlan, credited, faults>>
-----------------------------------------------------------------------------
Broken(cs) == IF \E c \in cs : WaitsFor(c) THEN Loaded ELSE page

(* Mutant: the webhook is answered 200 whatever came of it. *)
AnswerFailure_Ack(c) == Return(c)

(* 500: Razorpay will send the webhook again. *)
AnswerFailure(c) == End(c) /\ SetPage(Broken({c}))

(* A query rejects before anything was written, or after all was. *)
FailsEarly(c) ==
    /\ call[c].pc \in {"find", "claim", "view", "findPayment", "findCommission", "saveReversal"}
    /\ Fault("reject")
    /\ AnswerFailure(c)
    /\ UNCHANGED store

(* A query of the crediting rejects, after the claim. *)
FailsLate(c) ==
    /\ call[c].pc \in {"read", "credit", "period", "org"}
    /\ Fault("late")
    /\ AnswerFailure(c)
    /\ UNCHANGED store

(* The API process dies. *)
Crash ==
    /\ \E c \in Calls : ~At(c, "idle")
    /\ Fault("crash")
    /\ call' = [c \in Calls |-> Idle]
    /\ SetPage(Broken(Calls))
    /\ UNCHANGED store

Fulfil(c) ==
    \/ FindOrder(c) \/ ClaimOrder(c) \/ ReadSubscription(c) \/ CreditPlan(c)
    \/ RecordPeriod(c) \/ SetOrgPlan(c) \/ Award(c) \/ View(c)

Reverse(c) == FindPayment(c) \/ FindCommission(c) \/ SaveReversal(c)

Next ==
    \/ Tick \/ Crash
    \/ Dismiss \/ ShowLists \/ Reload
    \/ \E o \in Orders : Pay(o) \/ Refund(o) \/ \E p \in PaidPlans : Checkout(o, p)
    \/ \E c \in Calls :
          \/ \E o \in Orders : Verify(c, o) \/ ReceiveWebhook(c, o)
          \/ Fulfil(c) \/ AwardFails(c) \/ Reverse(c)
          \/ FailsEarly(c) \/ FailsLate(c)

Spec == Init /\ [][Next]_vars

(* Calls end, and Razorpay repeats what has not been answered. *)
FairSpec ==
    /\ Spec
    /\ \A c \in Calls : WF_vars(Fulfil(c) \/ Reverse(c))
    /\ \A o \in Orders : WF_vars(\E c \in Calls : ReceiveWebhook(c, o))
-----------------------------------------------------------------------------
AllIdle == \A c \in Calls : At(c, "idle")

(* However often an order is verified and its webhook repeated, the plan    *)
(* never runs into a later month than has been paid for (fulfill.ts:29-36,  *)
(* the claim; billingPeriod.ts:11-19, whose months differ in length).       *)
TimeWasPaid ==
    sub.exists =>
        MonthOf(sub.end) <= MonthOf(now)
            + Cardinality({o \in Paid \cap captured : payment[o].plan = sub.plan})

Interrupted == faults \cap {"late", "crash"} # {}

(* Once the calls for it are over, a payment has everything that belongs to *)
(* it: its period, the plan in force that was bought last, and the          *)
(* referrer's commission (fulfill.ts:39-73, effectivePlanKey).              *)
PaidIsComplete ==
    AllIdle /\ ~Interrupted =>
        /\ Paid \subseteq credited
        /\ \A o \in Paid : /\ payment[o].period
                           /\ commission[o] # "none" \/ "reject" \in faults
        /\ EffectivePlanKey(orgPlan, sub, now) =
              IF IsSubscriptionCurrent(sub, now) THEN sub.plan ELSE Free

(* webhook.ts:46-48: "A refunded payment must not keep earning its referrer *)
(* a commission."  True if no refund overtakes the crediting.               *)
RefundedEarnsNothing ==
    AllIdle => \A o \in refunded \ refundHook : commission[o] # "pending"

(* What has been handled has been handled in full, payments and refunds,    *)
(* whichever of the two calls for an order came first and however often     *)
(* either was repeated.                                                     *)
HandledIsComplete == PaidIsComplete /\ RefundedEarnsNothing

(* README.md:89-91: the checkout callback credits the payment, the webhook  *)
(* is the backstop if the customer closes the tab.  So it is, unless a call *)
(* is cut off after the claim: one that fails before leaves the claim to    *)
(* the next one (fulfill.ts:26-36).                                         *)
PaidIsCredited == []<>(captured \subseteq credited \/ Interrupted)

(* A page that says "Payment received" is right: the order it was for is    *)
(* paid and credited, and the page shows the subscription and the payment,  *)
(* unless another call had claimed the order and was still crediting it     *)
(* when /verify was answered (hooks.ts:208-225, Billing.tsx:25-37).         *)
NoticeIsTrue ==
    AtPage("idle") /\ page.received =>
        /\ page.order \in Paid \cap captured
        /\ \/ page.sub = sub /\ page.order \in page.payments \cap credited
           \/ page.early

(* The subscription is what the payments add up to. *)
Ledger == INSTANCE Prepaid WITH
    planOf <- [o \in Orders |-> payment[o].plan], plan <- sub.plan, until <- sub.end

CreditsEachOnce == Ledger!Spec
=============================================================================
