---------------------------- MODULE ReferralPayouts ----------------------------
(***************************************************************************)
(* The referral earnings of one organization: commissions are awarded for  *)
(* payments, leave the hold window, are reversed by refunds, and are       *)
(* claimed by payouts the organization requests and an operator sends,     *)
(* settles or fails (referrals/commissions.ts, referrals/payouts.ts,       *)
(* admin/routes.ts).                                                       *)
(*                                                                         *)
(* An amount is the set of commissions it adds up, each worth one unit;    *)
(* tax withholding takes the same share of every payout and is left out.   *)
(* The payout account, the PAN and the verified address are in place:      *)
(* without them a request ends before it changes anything.                 *)
(***************************************************************************)
EXTENDS Naturals, FiniteSets

CONSTANTS
    Commissions,  \* one per payment of a referred organization
    Payouts,      \* ids of payouts to be requested
    NoPayout,
    Requests,     \* concurrent requestPayout calls
    Operators,    \* concurrent calls of POST /admin/payouts/:id
    Minimum,      \* REFERRAL_MIN_PAYOUT
    RetryFailed,  \* TRUE: operators act on failed payouts too
    FaultKinds,   \* the faults that may happen, each once
    MaxFaults     \* bound on the faults in all

ASSUME PayoutAssumption ==
    /\ NoPayout \notin Payouts
    /\ Minimum \in Nat
    /\ RetryFailed \in BOOLEAN
    /\ FaultKinds \subseteq {"crash", "lost", "write"}
    /\ MaxFaults \in Nat

VARIABLES
    commission,  \* the ReferralCommission collection
    matured,     \* commissions whose availableAt has passed
    reversing,   \* commissions a refund handler has loaded and will reverse
    payout,      \* the Payout collection
    request,     \* state of each requestPayout call
    operator,    \* state of each operator call
    bank,        \* what RazorpayX did with the transfer of each payout
    byHand,      \* payouts an operator has transferred outside RazorpayX
    faults       \* the kinds of the faults so far

vars == <<commission, matured, reversing, payout, request, operator, bank, byHand, faults>>
-----------------------------------------------------------------------------
(* "none" is a commission not awarded, or a payout not created yet. *)
Commission == [status: {"none", "pending", "available", "claimed", "paid", "reversed"},
               payout: Payouts \cup {NoPayout}]

Payout == [status: {"none", "requested", "processing", "paid", "failed"},
           gross: SUBSET Commissions]

(* Requests read the balance and the open payouts, claim one commission     *)
(* after the other, add up what they claimed and create the payout.         *)
Request == [pc: {"idle", "read", "claim", "sum", "create", "release"},
            payout: Payouts \cup {NoPayout},
            due: SUBSET Commissions,      \* read, then still to be claimed
            unread: SUBSET {"balance", "open"},
            open: BOOLEAN,
            gross: SUBSET Commissions]

(* Operator calls; `status` is the one of the loaded document. *)
Operator == [pc: {"idle", "process", "transfer", "record", "settle", "mark", "markByHand",
                  "fail", "release"},
             payout: Payouts \cup {NoPayout},
             status: {"none", "requested", "processing", "paid", "failed"}]

TypeOK ==
    /\ commission \in [Commissions -> Commission]
    /\ matured \subseteq Commissions
    /\ reversing \subseteq Commissions
    /\ payout \in [Payouts -> Payout]
    /\ request \in [Requests -> Request]
    /\ operator \in [Operators -> Operator]
    /\ bank \in [Payouts -> {"none", "queued", "processed", "rejected"}]
    /\ byHand \subseteq Payouts
    /\ faults \subseteq FaultKinds

NoRequest == [pc |-> "idle", payout |-> NoPayout, due |-> {}, unread |-> {},
              open |-> FALSE, gross |-> {}]
NoOperator == [pc |-> "idle", payout |-> NoPayout, status |-> "none"]

Init ==
    /\ commission = [c \in Commissions |-> [status |-> "none", payout |-> NoPayout]]
    /\ matured = {}
    /\ reversing = {}
    /\ payout = [p \in Payouts |-> [status |-> "none", gross |-> {}]]
    /\ request = [r \in Requests |-> NoRequest]
    /\ operator = [o \in Operators |-> NoOperator]
    /\ bank = [p \in Payouts |-> "none"]
    /\ byHand = {}
    /\ faults = {}

Fault(k) == /\ k \in FaultKinds \ faults
            /\ Cardinality(faults) < MaxFaults
            /\ faults' = faults \cup {k}

PaidInto(p) == {c \in Commissions : commission[c].payout = p}
Status(s) == {c \in Commissions : commission[c].status = s}
-----------------------------------------------------------------------------
(* awardReferralCommission; the unique index on paymentId lets the payment  *)
(* be credited once.                                                        *)
Award(c) ==
    /\ commission[c].status = "none"
    /\ commission' = [commission EXCEPT ![c] = [@ EXCEPT !.status = "pending"]]
    /\ UNCHANGED <<matured, reversing, payout, request, operator, bank, byHand, faults>>

Mature(c) ==
    /\ commission[c].status # "none" /\ c \notin matured
    /\ matured' = matured \cup {c}
    /\ UNCHANGED <<commission, reversing, payout, request, operator, bank, byHand, faults>>

Reversible(c) == commission[c].status \in {"pending", "available"}

(* reverseCommissionsForPayment: a committed commission is only logged. *)
LoadReversal(c) ==
    /\ Reversible(c) /\ c \notin reversing
    /\ reversing' = reversing \cup {c}
    /\ UNCHANGED <<commission, matured, payout, request, operator, bank, byHand, faults>>

(* save() sends the status, and leaves the claim as it is. *)
SaveReversal(c) ==
    /\ c \in reversing
    /\ commission' = [commission EXCEPT ![c] = [@ EXCEPT !.status = "reversed"]]
    /\ reversing' = reversing \ {c}
    /\ UNCHANGED <<matured, payout, request, operator, bank, byHand, faults>>
-----------------------------------------------------------------------------
AtRequest(r, pc) == request[r].pc = pc
SetRequest(r, q) == request' = [request EXCEPT ![r] = q]

(* What the summary counts as available, and what a payout may claim *)
Available == {c \in matured : Reversible(c)}
Claimable(c) == Reversible(c) /\ commission[c].payout = NoPayout

Open == {p \in Payouts : payout[p].status \in {"requested", "processing"}}

StartRequest(r) ==
    /\ AtRequest(r, "idle")
    /\ SetRequest(r, [NoRequest EXCEPT !.pc = "read", !.unread = {"balance", "open"}])
    /\ UNCHANGED <<commission, matured, reversing, payout, operator, bank, byHand, faults>>

(* The queries of the Promise.all, in any order *)
ReadForRequest(r, what) ==
    /\ AtRequest(r, "read")
    /\ what \in request[r].unread
    /\ SetRequest(r, [request[r] EXCEPT
          !.unread = @ \ {what},
          !.due = IF what = "balance" THEN Available ELSE @,
          !.open = IF what = "open" THEN Open # {} ELSE @])
    /\ UNCHANGED <<commission, matured, reversing, payout, operator, bank, byHand, faults>>

Eligible(r) == ~request[r].open /\ Cardinality(request[r].due) >= Minimum

Unused(p) ==
    /\ payout[p].status = "none"
    /\ PaidInto(p) = {}
    /\ \A r \in Requests : request[r].payout # p

(* checkPayoutEligible, and the new id and `now` of the claim *)
CheckRequest(r) ==
    /\ AtRequest(r, "read")
    /\ request[r].unread = {}
    /\ \/ /\ Eligible(r)
          /\ \E p \in Payouts :
                /\ Unused(p)
                /\ SetRequest(r, [request[r] EXCEPT !.pc = "claim", !.payout = p, !.due = matured])
       \/ /\ ~Eligible(r)
          /\ SetRequest(r, NoRequest)
    /\ UNCHANGED <<commission, matured, reversing, payout, operator, bank, byHand, faults>>

(* Mutant: the claim is taken by read and write, whatever happened between. *)
Taken_Anyway(r, c) == commission[c].status # "paid"

Taken(r, c) == Claimable(c)

(* updateMany matches and updates one document after the other. *)
ClaimOne(r, c) ==
    LET q == request[r] IN
    /\ AtRequest(r, "claim")
    /\ c \in q.due
    /\ commission' = IF Taken(r, c)
                     THEN [commission EXCEPT
                              ![c] = [status |-> "claimed", payout |-> q.payout]]
                     ELSE commission
    /\ SetRequest(r, [q EXCEPT !.due = @ \ {c},
                               !.gross = IF Taken(r, c) THEN @ \cup {c} ELSE @])
    /\ UNCHANGED <<matured, reversing, payout, operator, bank, byHand, faults>>

(* modifiedCount decides whether anything is left to pay out. *)
ClaimDone(r) ==
    /\ AtRequest(r, "claim")
    /\ request[r].due = {}
    /\ SetRequest(r, IF request[r].gross = {} THEN NoRequest
                     ELSE [request[r] EXCEPT !.pc = "sum"])
    /\ UNCHANGED <<commission, matured, reversing, payout, operator, bank, byHand, faults>>

(* find({ payoutId }) *)
SumClaim(r) ==
    /\ AtRequest(r, "sum")
    /\ SetRequest(r, [request[r] EXCEPT !.pc = "create", !.gross = PaidInto(request[r].payout)])
    /\ UNCHANGED <<commission, matured, reversing, payout, operator, bank, byHand, faults>>

(* Mutant: a payout that could not be written keeps its claim. *)
AfterFailedCreate_Done == "idle"

AfterFailedCreate == "release"

(* PayoutModel.create may reject; then the claim is released. *)
CreatePayout(r) ==
    LET q == request[r] IN
    /\ AtRequest(r, "create")
    /\ \/ /\ payout' = [payout EXCEPT ![q.payout] =
                          [status |-> "requested", gross |-> q.gross]]
          /\ SetRequest(r, NoRequest)
       \/ /\ SetRequest(r, [q EXCEPT !.pc = AfterFailedCreate])
          /\ UNCHANGED payout
    /\ UNCHANGED <<commission, matured, reversing, operator, bank, byHand, faults>>

(* releaseClaim and the update of markCommissionsPaid: what is still        *)
(* claimed for p.                                                           *)
Released(p) ==
    [c \in Commissions |->
        IF c \in PaidInto(p) \cap Status("claimed")
        THEN [status |-> "available", payout |-> NoPayout] ELSE commission[c]]

MarkedPaid(p) ==
    [c \in Commissions |->
        IF c \in PaidInto(p) \cap Status("claimed")
        THEN [commission[c] EXCEPT !.status = "paid"] ELSE commission[c]]

ReleaseRequest(r) ==
    /\ AtRequest(r, "release")
    /\ commission' = Released(request[r].payout)
    /\ SetRequest(r, NoRequest)
    /\ UNCHANGED <<matured, reversing, payout, operator, bank, byHand, faults>>

(* A query outside the try rejects and ends the request. *)
RequestRejects(r) ==
    /\ request[r].pc \in {"claim", "sum", "release"}
    /\ Fault("write")
    /\ SetRequest(r, NoRequest)
    /\ UNCHANGED <<commission, matured, reversing, payout, operator, bank, byHand>>
-----------------------------------------------------------------------------
AtOperator(o, pc) == operator[o].pc = pc
SetOperator(o, q) == operator' = [operator EXCEPT ![o] = q]

(* payout.status = s; await payout.save(): an unchanged status is not sent. *)
SaveStatus(o, s, pc) ==
    LET q == operator[o] IN
    /\ payout' = IF s = q.status THEN payout
                 ELSE [payout EXCEPT ![q.payout] = [@ EXCEPT !.status = s]]
    /\ SetOperator(o, IF pc = "idle" THEN NoOperator
                      ELSE [q EXCEPT !.status = s, !.pc = pc])

(* Operators know what the bank did.  They send what was not transferred by *)
(* hand; settle what RazorpayX has processed, or what they transfer by hand *)
(* because RazorpayX will not; and fail what nobody has transferred.        *)
Sensible(p, pc) ==
    /\ payout[p].status = "failed" => RetryFailed
    /\ \/ pc = "process" /\ p \notin byHand
       \/ pc = "settle" /\ bank[p] # "queued"
       \/ pc = "fail" /\ bank[p] \in {"none", "rejected"} /\ p \notin byHand

(* findById; a paid payout is refused.  The transfer by hand comes before   *)
(* the call that records it.                                                *)
StartOperator(o, p, pc) ==
    /\ AtOperator(o, "idle")
    /\ payout[p].status \notin {"none", "paid"}
    /\ Sensible(p, pc)
    /\ SetOperator(o, [pc |-> pc, payout |-> p, status |-> payout[p].status])
    /\ byHand' = IF pc = "settle" /\ bank[p] # "processed" THEN byHand \cup {p} ELSE byHand
    /\ UNCHANGED <<commission, matured, reversing, payout, request, bank, faults>>

(* sendPayout *)
SaveProcessing(o) ==
    /\ AtOperator(o, "process")
    /\ SaveStatus(o, "processing", "transfer")
    /\ UNCHANGED <<commission, matured, reversing, request, bank, byHand, faults>>

(* RazorpayX: one transfer for each idempotency key, the payout's id.  It   *)
(* may be processed at once, wait for balance, and still be rejected.       *)
TakenBy(p) ==
    \/ /\ bank[p] = "none"
       /\ \E s \in {"queued", "processed"} : bank' = [bank EXCEPT ![p] = s]
    \/ /\ bank[p] # "none"
       /\ UNCHANGED bank

BankDecides(p) ==
    /\ bank[p] = "queued"
    /\ \E s \in {"processed", "rejected"} : bank' = [bank EXCEPT ![p] = s]
    /\ UNCHANGED <<commission, matured, reversing, payout, request, operator, byHand, faults>>

TransferTaken(o) ==
    /\ AtOperator(o, "transfer")
    /\ TakenBy(operator[o].payout)
    /\ SetOperator(o, [operator[o] EXCEPT !.pc = "record"])
    /\ UNCHANGED <<commission, matured, reversing, payout, request, byHand, faults>>

(* The request never reached RazorpayX, or was refused; while an earlier     *)
(* transfer of the payout stands, this is the fault "lost".                 *)
TransferRefused(o) ==
    /\ AtOperator(o, "transfer")
    /\ bank[operator[o].payout] \in {"none", "rejected"}
    /\ SetOperator(o, [operator[o] EXCEPT !.pc = "fail"])
    /\ UNCHANGED <<commission, matured, reversing, payout, request, bank, byHand, faults>>

(* RazorpayX took it, but its answer did not arrive within 30 s. *)
TransferTimesOut(o) ==
    /\ AtOperator(o, "transfer")
    /\ Fault("lost")
    /\ TakenBy(operator[o].payout)
    /\ SetOperator(o, [operator[o] EXCEPT !.pc = "fail"])
    /\ UNCHANGED <<commission, matured, reversing, payout, request, byHand>>

Settled(p) == bank[p] = "processed"

(* Mutant: a transfer that is not settled at once is taken for failed. *)
AfterQueued_Fails == "fail"

AfterQueued == "idle"

RecordTransfer(o) ==
    LET p == operator[o].payout IN
    /\ AtOperator(o, "record")
    /\ IF Settled(p) THEN SaveStatus(o, "paid", "mark") ELSE SaveStatus(o, "processing", AfterQueued)
    /\ UNCHANGED <<commission, matured, reversing, request, bank, byHand, faults>>

(* A write after the transfer rejects inside the try: the payout "failed".  *)
(* The last one, to the payout account, follows the commissions' update.    *)
WriteFails(o) ==
    LET q == operator[o] IN
    /\ q.pc \in {"record", "mark"}
    /\ Fault("write")
    /\ \/ UNCHANGED commission
       \/ q.pc = "mark" /\ commission' = MarkedPaid(q.payout)
    /\ SetOperator(o, [q EXCEPT !.pc = "fail"])
    /\ UNCHANGED <<matured, reversing, payout, request, bank, byHand>>

(* Any other query of an operator's call rejects and ends the call. *)
OperatorRejects(o) ==
    /\ operator[o].pc \in {"process", "settle", "markByHand", "fail", "release"}
    /\ Fault("write")
    /\ SetOperator(o, NoOperator)
    /\ UNCHANGED <<commission, matured, reversing, payout, request, bank, byHand>>

(* settlePayoutManually, failPayout and the catch of sendPayout *)
SaveSettled(o) ==
    /\ AtOperator(o, "settle")
    /\ SaveStatus(o, "paid", "markByHand")
    /\ UNCHANGED <<commission, matured, reversing, request, bank, byHand, faults>>

MarkCommissionsPaid(o) ==
    /\ operator[o].pc \in {"mark", "markByHand"}
    /\ commission' = MarkedPaid(operator[o].payout)
    /\ SetOperator(o, NoOperator)
    /\ UNCHANGED <<matured, reversing, payout, request, bank, byHand, faults>>

SaveFailed(o) ==
    /\ AtOperator(o, "fail")
    /\ SaveStatus(o, "failed", "release")
    /\ UNCHANGED <<commission, matured, reversing, request, bank, byHand, faults>>

ReleaseClaim(o) ==
    /\ AtOperator(o, "release")
    /\ commission' = Released(operator[o].payout)
    /\ SetOperator(o, NoOperator)
    /\ UNCHANGED <<matured, reversing, payout, request, bank, byHand, faults>>

(* The API process stops, and every call in it.  *)
Crash ==
    /\ Fault("crash")
    /\ request' = [r \in Requests |-> NoRequest]
    /\ operator' = [o \in Operators |-> NoOperator]
    /\ reversing' = {}
    /\ UNCHANGED <<commission, matured, payout, bank, byHand>>
-----------------------------------------------------------------------------
EarningStep == \E c \in Commissions :
    Award(c) \/ Mature(c) \/ LoadReversal(c) \/ SaveReversal(c)

RequestStep(r) ==
    \/ StartRequest(r)
    \/ \E what \in {"balance", "open"} : ReadForRequest(r, what)
    \/ CheckRequest(r)
    \/ \E c \in Commissions : ClaimOne(r, c)
    \/ ClaimDone(r) \/ SumClaim(r) \/ CreatePayout(r) \/ ReleaseRequest(r)
    \/ RequestRejects(r)

OperatorStep(o) ==
    \/ \E p \in Payouts, pc \in {"process", "settle", "fail"} : StartOperator(o, p, pc)
    \/ SaveProcessing(o) \/ TransferTaken(o) \/ TransferRefused(o) \/ TransferTimesOut(o)
    \/ RecordTransfer(o) \/ WriteFails(o) \/ OperatorRejects(o)
    \/ SaveSettled(o) \/ MarkCommissionsPaid(o) \/ SaveFailed(o) \/ ReleaseClaim(o)

Next == \/ EarningStep
        \/ \E r \in Requests : RequestStep(r)
        \/ \E o \in Operators : OperatorStep(o)
        \/ \E p \in Payouts : BankDecides(p)
        \/ Crash

Spec == Init /\ [][Next]_vars
-----------------------------------------------------------------------------
(* A commission is in the amount of at most one payout that was not failed: *)
(* the claim by requestPayout, however many requests run at once.           *)
EarningsInOnePayout ==
    \A c \in Commissions, p, q \in Payouts :
        /\ c \in payout[p].gross /\ payout[p].status # "failed"
        /\ c \in payout[q].gross /\ payout[q].status # "failed"
        => p = q

Transfers(p) == (IF bank[p] \in {"queued", "processed"} THEN {"RazorpayX"} ELSE {})
                \cup (IF p \in byHand THEN {"by hand"} ELSE {})

(* A commission is transferred at most once: neither by two payouts, nor    *)
(* both through RazorpayX and by hand (sendPayout, settlePayoutManually).   *)
PaidOnce ==
    \A c \in Commissions :
        Cardinality({t \in Payouts \X {"RazorpayX", "by hand"} :
                        c \in payout[t[1]].gross /\ t[2] \in Transfers(t[1])}) <= 1

(* So it is as long as the answer to every transfer arrives and is saved.   *)
PaidOnceIfRecorded == faults \cap {"lost", "write"} = {} => PaidOnce

(* Unless a call was cut short, a claim belongs to a payout that is open,   *)
(* or to a call that is still going to create, release or pay it: neither a *)
(* payout that cannot be written nor a transfer that fails strands earnings *)
(* (the catches of requestPayout and sendPayout).                           *)
NoStrandedClaim ==
    faults \cap {"crash", "write"} = {} =>
        \A c \in Status("claimed") :
            LET p == commission[c].payout IN
            \/ p \in Open
            \/ \E r \in Requests : request[r].payout = p
            \/ \E o \in Operators : /\ operator[o].payout = p
                                    /\ operator[o].pc \in {"mark", "markByHand", "fail", "release"}

(* A commission recorded as paid is in a payout whose money has left:       *)
(* sendPayout does not take a queued transfer for a settled one.  The       *)
(* payout is recorded as paid, and stays so, unless a write failed.         *)
PaidWasTransferred ==
    \A c \in Status("paid") :
        LET p == commission[c].payout IN
        /\ c \in payout[p].gross
        /\ "write" \notin faults => payout[p].status = "paid"
        /\ bank[p] = "processed" \/ p \in byHand

(* What is recorded as paid has been transferred, and been transferred once. *)
PaidIsTransferredOnce == PaidOnceIfRecorded /\ PaidWasTransferred
=============================================================================
