------------------------------ MODULE PayoutProofs ------------------------------
(***************************************************************************)
(* Proofs about ReferralPayouts and PayoutDesk, for any number of          *)
(* commissions, payouts, requests, bank details and faults.                *)
(***************************************************************************)
EXTENDS PayoutDesk, FiniteSetTheorems, TLAPS

RequestsApart ==
    \A r, s \in Requests : request[r].payout = request[s].payout => request[r].payout = NoPayout \/ r = s

(* The payout a request claims for does not exist yet, and what it adds up  *)
(* is what has been claimed.                                                *)
RequestSound(r) ==
    /\ request[r].pc \in {"idle", "read"} => request[r].payout = NoPayout
    /\ request[r].pc \notin {"idle", "read"} =>
          request[r].payout \in Payouts /\ payout[request[r].payout].status = "none"
    /\ request[r].pc = "claim" => PaidInto(request[r].payout) \subseteq request[r].gross
    /\ request[r].pc = "create" => PaidInto(request[r].payout) = request[r].gross

OperatorSound(o) ==
    operator[o].pc # "idle" =>
       operator[o].payout \in Payouts /\ payout[operator[o].payout].status # "none"

PayoutSound(p) ==
    /\ payout[p].status = "none" => payout[p].gross = {}
    /\ payout[p].status # "none" => PaidInto(p) \subseteq payout[p].gross

CommissionSound(c) == commission[c].status \in {"claimed", "paid"} => commission[c].payout \in Payouts

(* Calls of operators that will settle or release what is claimed *)
Ending == {"mark", "markByHand", "fail", "release"}

Backed(p) ==
    \/ p \in Open
    \/ \E r \in Requests : request[r].payout = p
    \/ \E o \in Operators : operator[o].payout = p /\ operator[o].pc \in Ending

ClaimSound(c) ==
    faults \cap {"crash", "write"} = {} /\ commission[c].status = "claimed" => Backed(commission[c].payout)

PayoutsInv ==
    /\ TypeOK
    /\ RequestsApart
    /\ \A r \in Requests : RequestSound(r)
    /\ \A o \in Operators : OperatorSound(o)
    /\ \A p \in Payouts : PayoutSound(p)
    /\ \A c \in Commissions : CommissionSound(c)
    /\ \A c \in Commissions : ClaimSound(c)
-----------------------------------------------------------------------------
LEMMA Typed ==
    ASSUME PayoutsInv
    PROVE  /\ TypeOK /\ RequestsApart
           /\ commission \in [Commissions -> Commission] /\ payout \in [Payouts -> Payout]
           /\ request \in [Requests -> Request] /\ operator \in [Operators -> Operator]
           /\ \A r \in Requests : RequestSound(r) /\ request[r] \in Request
           /\ \A o \in Operators : OperatorSound(o) /\ operator[o] \in Operator
           /\ \A p \in Payouts : PayoutSound(p) /\ payout[p] \in Payout
           /\ \A c \in Commissions : CommissionSound(c) /\ ClaimSound(c)
BY DEF PayoutsInv, TypeOK

LEMMA RestTyped ==
    /\ NoRequest \in Request /\ NoRequest.pc = "idle" /\ NoRequest.payout = NoPayout
    /\ NoOperator \in Operator /\ NoOperator.pc = "idle" /\ NoOperator.payout = NoPayout
    /\ NoOperator.status = "none"
BY DEF NoRequest, Request, NoOperator, Operator

RestOK ==
    /\ matured' \subseteq Commissions /\ reversing' \subseteq Commissions
    /\ bank' \in [Payouts -> {"none", "queued", "processed", "rejected"}]
    /\ byHand' \subseteq Payouts
    /\ faults' \subseteq FaultKinds /\ faults \subseteq faults'

LEMMA RestStays ==
    ASSUME PayoutsInv, UNCHANGED <<matured, reversing, bank, byHand, faults>>
    PROVE  RestOK
BY DEF PayoutsInv, TypeOK, RestOK

LEMMA FaultStays ==
    ASSUME PayoutsInv, UNCHANGED <<matured, reversing, bank, byHand>>, NEW k, Fault(k)
    PROVE  RestOK /\ k \in faults'
BY DEF PayoutsInv, TypeOK, RestOK, Fault

(* A request goes on; nothing is stored. *)
LEMMA RequestOnly ==
    ASSUME PayoutsInv, UNCHANGED <<commission, payout, operator>>, RestOK,
           NEW r \in Requests, NEW q \in Request, request' = [request EXCEPT ![r] = q],
           RequestSound(r)',
           \/ q.payout \in {NoPayout, request[r].payout}
           \/ \A s \in Requests : request[s].payout # q.payout,
           \/ q.payout = request[r].payout
           \/ "write" \in faults'
           \/ \A c \in Commissions :
                 commission[c].status = "claimed" => commission[c].payout # request[r].payout
    PROVE  PayoutsInv'
<1>1. request' \in [Requests -> Request] /\ request'[r] = q
      /\ \A s \in Requests \ {r} : request'[s] = request[s]
  BY Typed
<1>2. TypeOK'
  BY <1>1 DEF PayoutsInv, TypeOK, RestOK
<1>3. RequestsApart'
  BY <1>1, Typed DEF RequestsApart
<1>4. \A s \in Requests : RequestSound(s)'
  BY <1>1, Typed DEF RequestSound, PaidInto
<1>5. \A o \in Operators : OperatorSound(o)'
  BY Typed DEF OperatorSound
<1>6. \A p \in Payouts : PayoutSound(p)'
  BY Typed DEF PayoutSound, PaidInto
<1>7. \A c \in Commissions : CommissionSound(c)'
  BY Typed DEF CommissionSound
<1>8. ASSUME NEW c \in Commissions PROVE ClaimSound(c)'
  <2> SUFFICES ASSUME faults' \cap {"crash", "write"} = {}, commission[c].status = "claimed"
               PROVE  Backed(commission[c].payout)'
    BY DEF ClaimSound
  <2>1. Backed(commission[c].payout)
    BY Typed DEF ClaimSound, RestOK
  <2>2. CASE commission[c].payout \in Open
    BY <2>2 DEF Backed, Open
  <2>3. CASE \E o \in Operators : operator[o].payout = commission[c].payout /\ operator[o].pc \in Ending
    BY <2>3 DEF Backed
  <2>4. ASSUME NEW s \in Requests, request[s].payout = commission[c].payout
        PROVE  Backed(commission[c].payout)'
    <3>1. request'[s].payout = commission[c].payout
      BY <1>1, <2>4
    <3> QED
      BY <3>1 DEF Backed
  <2> QED
    BY <2>1, <2>2, <2>3, <2>4 DEF Backed
<1> QED
  BY <1>2, <1>3, <1>4, <1>5, <1>6, <1>7, <1>8 DEF PayoutsInv

(* An operator's call goes on; no document changes. *)
LEMMA OperatorOnly ==
    ASSUME PayoutsInv, UNCHANGED <<commission, payout, request>>, RestOK,
           NEW o \in Operators, NEW q \in Operator, operator' = [operator EXCEPT ![o] = q],
           OperatorSound(o)',
           \/ operator[o].pc \notin Ending \/ "write" \in faults'
           \/ q.payout = operator[o].payout /\ q.pc \in Ending
    PROVE  PayoutsInv'
<1>1. operator' \in [Operators -> Operator] /\ operator'[o] = q
      /\ \A u \in Operators \ {o} : operator'[u] = operator[u]
  BY Typed
<1>2. TypeOK'
  BY <1>1 DEF PayoutsInv, TypeOK, RestOK
<1>3. RequestsApart' /\ \A s \in Requests : RequestSound(s)'
  BY Typed DEF RequestsApart, RequestSound, PaidInto
<1>5. \A u \in Operators : OperatorSound(u)'
  BY <1>1, Typed DEF OperatorSound
<1>6. \A p \in Payouts : PayoutSound(p)'
  BY Typed DEF PayoutSound, PaidInto
<1>7. \A c \in Commissions : CommissionSound(c)'
  BY Typed DEF CommissionSound
<1>8. ASSUME NEW c \in Commissions PROVE ClaimSound(c)'
  <2> SUFFICES ASSUME faults' \cap {"crash", "write"} = {}, commission[c].status = "claimed"
               PROVE  Backed(commission[c].payout)'
    BY DEF ClaimSound
  <2>1. Backed(commission[c].payout)
    BY Typed DEF ClaimSound, RestOK
  <2>2. CASE commission[c].payout \in Open \/ \E r \in Requests : request[r].payout = commission[c].payout
    BY <2>2 DEF Backed, Open
  <2>3. ASSUME NEW u \in Operators, operator[u].payout = commission[c].payout, operator[u].pc \in Ending
        PROVE  Backed(commission[c].payout)'
    <3>1. operator'[u].payout = commission[c].payout /\ operator'[u].pc \in Ending
      BY <1>1, <2>3
    <3> QED
      BY <3>1 DEF Backed
  <2> QED
    BY <2>1, <2>2, <2>3 DEF Backed
<1> QED
  BY <1>2, <1>3, <1>5, <1>6, <1>7, <1>8 DEF PayoutsInv
-----------------------------------------------------------------------------
(* Statuses change, claims and payouts do not. *)
LEMMA CommissionsMove ==
    ASSUME PayoutsInv, UNCHANGED <<payout, request, operator>>, RestOK,
           commission' \in [Commissions -> Commission],
           \A c \in Commissions :
              /\ commission'[c].payout = commission[c].payout
              /\ commission'[c].status \in {"claimed", "paid"} => commission'[c].status = commission[c].status
    PROVE  PayoutsInv'
<1>1. TypeOK'
  BY DEF PayoutsInv, TypeOK, RestOK
<1>2. \A p \in Payouts : PaidInto(p)' = PaidInto(p)
  BY DEF PaidInto
<1>3. RequestsApart' /\ \A s \in Requests : RequestSound(s)'
  BY <1>2, Typed DEF RequestsApart, RequestSound
<1>4. \A u \in Operators : OperatorSound(u)'
  BY Typed DEF OperatorSound
<1>5. \A p \in Payouts : PayoutSound(p)'
  BY <1>2, Typed DEF PayoutSound
<1>6. \A c \in Commissions : CommissionSound(c)' /\ ClaimSound(c)'
  BY Typed DEF CommissionSound, ClaimSound, Backed, Open, RestOK
<1> QED
  BY <1>1, <1>3, <1>4, <1>5, <1>6 DEF PayoutsInv

LEMMA AwardInv ==
    ASSUME PayoutsInv, NEW c \in Commissions, Award(c)
    PROVE  PayoutsInv'
<1>1. [commission[c] EXCEPT !.status = "pending"] \in Commission
  BY Typed DEF Commission
<1>2. commission' = [commission EXCEPT ![c] = [commission[c] EXCEPT !.status = "pending"]]
  BY DEF Award
<1>3. /\ commission' \in [Commissions -> Commission]
      /\ commission'[c].status = "pending" /\ commission'[c].payout = commission[c].payout
      /\ \A d \in Commissions \ {c} : commission'[d] = commission[d]
  BY <1>1, <1>2, Typed DEF Commission
<1> QED
  BY <1>3, RestStays, CommissionsMove DEF Award

LEMMA SaveReversalInv ==
    ASSUME PayoutsInv, NEW c \in Commissions, SaveReversal(c)
    PROVE  PayoutsInv'
<1>1. [commission[c] EXCEPT !.status = "reversed"] \in Commission
  BY Typed DEF Commission
<1>2. commission' = [commission EXCEPT ![c] = [commission[c] EXCEPT !.status = "reversed"]]
  BY DEF SaveReversal
<1>3. /\ commission' \in [Commissions -> Commission]
      /\ commission'[c].status = "reversed" /\ commission'[c].payout = commission[c].payout
      /\ \A d \in Commissions \ {c} : commission'[d] = commission[d]
  BY <1>1, <1>2, Typed DEF Commission
<1>4. RestOK
  BY DEF SaveReversal, RestOK, PayoutsInv, TypeOK
<1> QED
  BY <1>3, <1>4, CommissionsMove DEF SaveReversal

LEMMA OtherEarningInv ==
    ASSUME PayoutsInv, NEW c \in Commissions, Mature(c) \/ LoadReversal(c)
    PROVE  PayoutsInv'
<1>1. RestOK /\ UNCHANGED <<commission, payout, request, operator>>
  BY DEF Mature, LoadReversal, RestOK, PayoutsInv, TypeOK
<1>2. commission \in [Commissions -> Commission]
  BY Typed
<1> QED
  BY <1>1, <1>2, CommissionsMove

(* One more commission is claimed for the payout of a request. *)
LEMMA ClaimOneInv ==
    ASSUME PayoutsInv, NEW r \in Requests, NEW c \in Commissions, ClaimOne(r, c)
    PROVE  PayoutsInv'
<1>1. /\ request[r].pc = "claim" /\ UNCHANGED <<payout, operator>> /\ RestOK
      /\ RequestSound(r) /\ request[r] \in Request /\ RequestsApart
      /\ commission[c] \in Commission
  BY Typed, RestStays DEF ClaimOne, AtRequest
<1> PICK p \in Payouts : p = request[r].payout
  BY <1>1 DEF RequestSound
<1>2. /\ payout[p].status = "none" /\ PaidInto(p) \subseteq request[r].gross
      /\ NoPayout \notin Payouts /\ request[r].payout # NoPayout
  BY <1>1, PayoutAssumption DEF RequestSound
<1> DEFINE t == Taken(r, c)
           g == IF t THEN request[r].gross \cup {c} ELSE request[r].gross
           q == [request[r] EXCEPT !.due = request[r].due \ {c}, !.gross = g]
<1>3. g \in SUBSET Commissions /\ request[r].gross \subseteq g /\ (t => c \in g)
  BY <1>1 DEF Request
<1>4. SetRequest(r, q)
  BY DEF ClaimOne
<1> HIDE DEF g
<1>5. q \in Request /\ q.pc = "claim" /\ q.payout = p /\ q.gross = g
  BY <1>1, <1>3 DEF Request
<1> HIDE DEF q
<1>6. /\ request' \in [Requests -> Request] /\ request'[r] = q /\ request' = [request EXCEPT ![r] = q]
      /\ \A s \in Requests \ {r} : request'[s] = request[s]
  BY <1>4, <1>5, Typed DEF SetRequest
<1>7. CASE ~t
  <2>1. UNCHANGED commission
    BY <1>7 DEF ClaimOne
  <2>2. RequestSound(r)'
    BY <1>1, <1>2, <1>3, <1>5, <1>6, <2>1 DEF RequestSound, PaidInto
  <2> QED
    BY <1>1, <1>5, <1>6, <2>1, <2>2, RequestOnly
<1>8. CASE t
  <2> DEFINE x == [status |-> "claimed", payout |-> p]
  <2>1. x \in Commission /\ x.status = "claimed" /\ x.payout = p
    BY DEF Commission
  <2>2. commission' = [commission EXCEPT ![c] = x] /\ commission[c].payout = NoPayout
    BY <1>8 DEF ClaimOne, Taken, Claimable
  <2> HIDE DEF x
  <2>3. /\ commission' \in [Commissions -> Commission] /\ commission'[c] = x
        /\ \A d \in Commissions \ {c} : commission'[d] = commission[d]
    BY <2>1, <2>2, Typed
  <2>4. PaidInto(p)' = PaidInto(p) \cup {c} /\ \A n \in Payouts \ {p} : PaidInto(n)' = PaidInto(n)
    BY <1>2, <2>1, <2>2, <2>3 DEF PaidInto
  <2>5. TypeOK'
    BY <1>1, <1>6, <2>3 DEF PayoutsInv, TypeOK, RestOK
  <2>6. \A s \in Requests : request'[s].payout = request[s].payout
    BY <1>5, <1>6
  <2>7. RequestsApart'
    BY <1>1, <2>6 DEF RequestsApart
  <2>8. ASSUME NEW s \in Requests PROVE RequestSound(s)'
    <3>1. CASE s = r
      BY <1>1, <1>2, <1>3, <1>5, <1>6, <1>8, <2>4, <3>1 DEF RequestSound
    <3>2. CASE s # r
      <4>1. request'[s] = request[s] /\ RequestSound(s) /\ request[s].payout # p
        BY <1>1, <1>2, <1>6, <3>2, Typed DEF RequestsApart
      <4> QED
        BY <1>1, <2>4, <4>1 DEF RequestSound
    <3> QED
      BY <3>1, <3>2
  <2>9. \A o \in Operators : OperatorSound(o)'
    BY <1>1, Typed DEF OperatorSound
  <2>10. ASSUME NEW n \in Payouts PROVE PayoutSound(n)'
    <3>1. PayoutSound(n) /\ payout'[n] = payout[n]
      BY <1>1, Typed
    <3> QED
      BY <1>2, <2>4, <3>1 DEF PayoutSound
  <2>11. ASSUME NEW d \in Commissions PROVE CommissionSound(d)' /\ ClaimSound(d)'
    <3>1. CASE d = c
      <4>1. Backed(p)'
        BY <1>5, <1>6 DEF Backed
      <4> QED
        BY <2>1, <2>3, <3>1, <4>1 DEF CommissionSound, ClaimSound, Backed, Open
    <3>2. CASE d # c
      <4>1. commission'[d] = commission[d] /\ CommissionSound(d) /\ ClaimSound(d)
        BY <2>3, <3>2, Typed
      <4> QED
        BY <1>1, <2>6, <4>1 DEF CommissionSound, ClaimSound, Backed, Open, RestOK
    <3> QED
      BY <3>1, <3>2
  <2> QED
    BY <2>5, <2>7, <2>8, <2>9, <2>10, <2>11 DEF PayoutsInv
<1> QED
  BY <1>7, <1>8

(* The payout is stored with what its request has claimed. *)
LEMMA CreatedInv ==
    ASSUME PayoutsInv, NEW r \in Requests, request[r].pc = "create",
           UNCHANGED <<commission, matured, reversing, operator, bank, byHand, faults>>,
           payout' = [payout EXCEPT ![request[r].payout] =
                        [status |-> "requested", gross |-> request[r].gross]],
           SetRequest(r, NoRequest)
    PROVE  PayoutsInv'
<1>1. RestOK /\ RequestSound(r) /\ request[r] \in Request /\ RequestsApart
  BY Typed, RestStays
<1> PICK p \in Payouts : p = request[r].payout
  BY <1>1 DEF RequestSound
<1>2. /\ payout[p].status = "none" /\ PaidInto(p) = request[r].gross
      /\ NoPayout \notin Payouts /\ request[r].payout # NoPayout
  BY <1>1, PayoutAssumption DEF RequestSound
<1> DEFINE x == [status |-> "requested", gross |-> request[r].gross]
<1>3. x \in Payout /\ x.status = "requested" /\ x.gross = PaidInto(p)
  BY <1>1, <1>2 DEF Payout, Request
<1> HIDE DEF x
<1>4. /\ payout' \in [Payouts -> Payout] /\ payout'[p] = x
      /\ \A n \in Payouts \ {p} : payout'[n] = payout[n]
  BY <1>3, Typed DEF x
<1>5. /\ request' \in [Requests -> Request] /\ request'[r] = NoRequest
      /\ \A s \in Requests \ {r} : request'[s] = request[s]
  BY RestTyped, Typed DEF SetRequest
<1>6. \A n \in Payouts : PaidInto(n)' = PaidInto(n)
  BY DEF PaidInto
<1>7. TypeOK'
  BY <1>1, <1>4, <1>5 DEF PayoutsInv, TypeOK, RestOK
<1>8. RequestsApart'
  BY <1>1, <1>5, RestTyped DEF RequestsApart
<1>9. ASSUME NEW s \in Requests PROVE RequestSound(s)'
  <2>1. CASE s = r
    BY <1>5, <2>1, RestTyped DEF RequestSound
  <2>2. CASE s # r
    <3>1. request'[s] = request[s] /\ RequestSound(s) /\ request[s].payout # p
      BY <1>1, <1>2, <1>5, <2>2, Typed DEF RequestsApart
    <3> QED
      BY <1>4, <1>6, <3>1 DEF RequestSound
  <2> QED
    BY <2>1, <2>2
<1>10. \A o \in Operators : OperatorSound(o)'
  BY <1>3, <1>4, Typed DEF OperatorSound
<1>11. ASSUME NEW n \in Payouts PROVE PayoutSound(n)'
  BY <1>3, <1>4, <1>6, Typed DEF PayoutSound
<1>12. ASSUME NEW d \in Commissions PROVE CommissionSound(d)' /\ ClaimSound(d)'
  <2>1. CommissionSound(d)'
    BY Typed DEF CommissionSound
  <2>2. CASE commission[d].payout = p
    <3>1. p \in Open'
      BY <1>3, <1>4 DEF Open
    <3> QED
      BY <2>1, <2>2, <3>1 DEF ClaimSound, Backed
  <2>3. CASE commission[d].payout # p /\ commission[d].status = "claimed"
    <3>1. ClaimSound(d) /\ commission[d].payout \in Payouts
      BY <2>3, Typed DEF CommissionSound
    <3>2. commission[d].payout \in Open => commission[d].payout \in Open'
      BY <1>4, <2>3, <3>1 DEF Open
    <3>3. ASSUME NEW s \in Requests, request[s].payout = commission[d].payout
          PROVE  request'[s].payout = commission[d].payout
      BY <1>5, <2>3, <3>3
    <3>4. Backed(commission[d].payout) => Backed(commission[d].payout)'
      BY <3>2, <3>3 DEF Backed
    <3> QED
      BY <2>1, <3>1, <3>4 DEF ClaimSound
  <2>4. CASE commission[d].status # "claimed"
    BY <2>1, <2>4 DEF ClaimSound
  <2> QED
    BY <2>2, <2>3, <2>4
<1> QED
  BY <1>7, <1>8, <1>9, <1>10, <1>11, <1>12 DEF PayoutsInv
-----------------------------------------------------------------------------
LEMMA ReleasedFacts ==
    ASSUME PayoutsInv, NEW p \in Payouts, commission' = Released(p)
    PROVE  /\ commission' \in [Commissions -> Commission]
           /\ PaidInto(p)' \subseteq PaidInto(p)
           /\ \A n \in Payouts \ {p} : PaidInto(n)' = PaidInto(n)
           /\ \A c \in Commissions :
                 \/ commission'[c] = commission[c] /\ ~(c \in PaidInto(p) /\ commission[c].status = "claimed")
                 \/ /\ commission'[c].status = "available" /\ commission'[c].payout = NoPayout
                    /\ commission[c].payout = p /\ commission[c].status = "claimed"
<1> DEFINE x == [status |-> "available", payout |-> NoPayout]
<1>1. x \in Commission /\ x.status = "available" /\ x.payout = NoPayout
  BY DEF Commission
<1>2. \A c \in Commissions :
         commission'[c] = IF c \in PaidInto(p) /\ commission[c].status = "claimed" THEN x ELSE commission[c]
  BY DEF Released, Status
<1>3. commission' = [c \in Commissions |-> commission'[c]]
  BY DEF Released
<1> HIDE DEF x
<1>4. commission' \in [Commissions -> Commission]
  <2>1. \A c \in Commissions : commission'[c] \in Commission
    BY <1>1, <1>2, Typed
  <2> QED
    BY <1>3, <2>1
<1>5. ASSUME NEW c \in Commissions
      PROVE  \/ commission'[c] = commission[c] /\ ~(c \in PaidInto(p) /\ commission[c].status = "claimed")
             \/ /\ commission'[c].status = "available" /\ commission'[c].payout = NoPayout
                /\ commission[c].payout = p /\ commission[c].status = "claimed"
  BY <1>1, <1>2 DEF PaidInto
<1>6. PaidInto(p)' \subseteq PaidInto(p) /\ \A n \in Payouts \ {p} : PaidInto(n)' = PaidInto(n)
  BY <1>5, PayoutAssumption DEF PaidInto
<1> QED
  BY <1>4, <1>5, <1>6

LEMMA MarkedFacts ==
    ASSUME PayoutsInv, NEW p \in Payouts, commission' = MarkedPaid(p)
    PROVE  /\ commission' \in [Commissions -> Commission]
           /\ \A n : PaidInto(n)' = PaidInto(n)
           /\ \A c \in Commissions :
                 /\ commission'[c].payout = commission[c].payout
                 /\ \/ /\ commission'[c].status = commission[c].status
                       /\ ~(c \in PaidInto(p) /\ commission[c].status = "claimed")
                    \/ /\ commission'[c].status = "paid"
                       /\ commission[c].payout = p /\ commission[c].status = "claimed"
<1>1. \A c \in Commissions :
         commission'[c] = IF c \in PaidInto(p) /\ commission[c].status = "claimed"
                          THEN [commission[c] EXCEPT !.status = "paid"] ELSE commission[c]
  BY DEF MarkedPaid, Status
<1>2. commission' = [c \in Commissions |-> commission'[c]]
  BY DEF MarkedPaid
<1>3. ASSUME NEW c \in Commissions
      PROVE  /\ commission'[c] \in Commission
             /\ commission'[c].payout = commission[c].payout
             /\ \/ /\ commission'[c].status = commission[c].status
                   /\ ~(c \in PaidInto(p) /\ commission[c].status = "claimed")
                \/ /\ commission'[c].status = "paid"
                   /\ commission[c].payout = p /\ commission[c].status = "claimed"
  <2>1. commission[c] \in Commission
    BY Typed
  <2> QED
    BY <1>1, <2>1 DEF Commission, PaidInto
<1>4. commission' \in [Commissions -> Commission]
  BY <1>2, <1>3
<1>5. \A n : PaidInto(n)' = PaidInto(n)
  BY <1>3 DEF PaidInto
<1> QED
  BY <1>3, <1>4, <1>5

(* An operator's call ends or goes on with no claim of its payout left. *)
LEMMA SettledInv ==
    ASSUME PayoutsInv, NEW o \in Operators, NEW p \in Payouts, operator[o].payout = p,
           payout[p].status # "none",
           UNCHANGED <<payout, request>>, RestOK, NEW q \in Operator,
           operator' = [operator EXCEPT ![o] = q], OperatorSound(o)',
           commission' = Released(p) \/ commission' = MarkedPaid(p)
    PROVE  PayoutsInv'
<1>1. /\ commission' \in [Commissions -> Commission]
      /\ PaidInto(p)' \subseteq PaidInto(p)
      /\ \A n \in Payouts \ {p} : PaidInto(n)' = PaidInto(n)
  BY ReleasedFacts, MarkedFacts
<1>2. /\ operator' \in [Operators -> Operator] /\ operator'[o] = q
      /\ \A u \in Operators \ {o} : operator'[u] = operator[u]
  BY Typed
<1>3. TypeOK'
  BY <1>1, <1>2 DEF PayoutsInv, TypeOK, RestOK
<1>4. RequestsApart'
  BY Typed DEF RequestsApart
<1>5. ASSUME NEW r \in Requests PROVE RequestSound(r)'
  <2>1. RequestSound(r) /\ request[r].payout # p
    BY Typed, PayoutAssumption DEF RequestSound
  <2> QED
    BY <1>1, <2>1 DEF RequestSound
<1>6. \A u \in Operators : OperatorSound(u)'
  BY <1>2, Typed DEF OperatorSound
<1>7. \A n \in Payouts : PayoutSound(n)'
  BY <1>1, Typed DEF PayoutSound
<1>8. ASSUME NEW c \in Commissions PROVE CommissionSound(c)' /\ ClaimSound(c)'
  <2>1. CommissionSound(c) /\ ClaimSound(c)
    BY Typed
  <2>2. CommissionSound(c)'
    BY <2>1, ReleasedFacts, MarkedFacts DEF CommissionSound
  <2>3. commission'[c].status = "claimed" =>
           /\ commission[c].status = "claimed" /\ commission'[c].payout = commission[c].payout
           /\ commission[c].payout # p
    BY ReleasedFacts, MarkedFacts DEF PaidInto
  <2>4. ASSUME NEW n, n # p, Backed(n) PROVE Backed(n)'
    <3>1. ASSUME NEW u \in Operators, operator[u].payout = n
          PROVE  operator'[u] = operator[u]
      BY <1>2, <2>4, <3>1
    <3> QED
      BY <2>4, <3>1 DEF Backed, Open
  <2>5. ClaimSound(c)'
    BY <2>1, <2>3, <2>4 DEF ClaimSound, RestOK
  <2> QED
    BY <2>2, <2>5
<1> QED
  BY <1>3, <1>4, <1>5, <1>6, <1>7, <1>8 DEF PayoutsInv

LEMMA ReleaseRequestInv ==
    ASSUME PayoutsInv, NEW r \in Requests, ReleaseRequest(r)
    PROVE  PayoutsInv'
<1>1. /\ request[r].pc = "release" /\ RequestSound(r) /\ RequestsApart
      /\ UNCHANGED <<matured, reversing, payout, operator, bank, byHand, faults>>
      /\ SetRequest(r, NoRequest) /\ RestOK
  BY Typed, RestStays DEF ReleaseRequest, AtRequest
<1> PICK p \in Payouts : p = request[r].payout
  BY <1>1 DEF RequestSound
<1>2. /\ payout[p].status = "none" /\ NoPayout \notin Payouts /\ request[r].payout # NoPayout
      /\ commission' = Released(p)
  BY <1>1, PayoutAssumption DEF RequestSound, ReleaseRequest
<1>3. /\ commission' \in [Commissions -> Commission]
      /\ PaidInto(p)' \subseteq PaidInto(p)
      /\ \A n \in Payouts \ {p} : PaidInto(n)' = PaidInto(n)
  BY <1>2, ReleasedFacts
<1>4. /\ request' \in [Requests -> Request] /\ request'[r] = NoRequest
      /\ \A s \in Requests \ {r} : request'[s] = request[s]
  BY <1>1, RestTyped, Typed DEF SetRequest
<1>5. TypeOK'
  BY <1>1, <1>3, <1>4 DEF PayoutsInv, TypeOK, RestOK
<1>6. RequestsApart'
  BY <1>1, <1>4, RestTyped DEF RequestsApart
<1>7. ASSUME NEW s \in Requests PROVE RequestSound(s)'
  <2>1. CASE s = r
    BY <1>4, <2>1, RestTyped DEF RequestSound
  <2>2. CASE s # r
    <3>1. request'[s] = request[s] /\ RequestSound(s) /\ request[s].payout # p
      BY <1>1, <1>2, <1>4, <2>2, Typed DEF RequestsApart
    <3> QED
      BY <1>1, <1>3, <3>1 DEF RequestSound
  <2> QED
    BY <2>1, <2>2
<1>8. \A o \in Operators : OperatorSound(o)'
  BY <1>1, Typed DEF OperatorSound
<1>9. \A n \in Payouts : PayoutSound(n)'
  BY <1>1, <1>3, Typed DEF PayoutSound
<1>10. ASSUME NEW c \in Commissions PROVE CommissionSound(c)' /\ ClaimSound(c)'
  <2>1. CommissionSound(c) /\ ClaimSound(c)
    BY Typed
  <2>2. CommissionSound(c)'
    BY <1>2, <2>1, ReleasedFacts DEF CommissionSound
  <2>3. commission'[c].status = "claimed" =>
           /\ commission[c].status = "claimed" /\ commission'[c].payout = commission[c].payout
           /\ commission[c].payout # p
    BY <1>2, ReleasedFacts DEF PaidInto
  <2>4. ASSUME NEW n, n # p, Backed(n) PROVE Backed(n)'
    <3>1. ASSUME NEW s \in Requests, request[s].payout = n
          PROVE  request'[s] = request[s]
      BY <1>4, <2>4, <3>1
    <3> QED
      BY <1>1, <2>4, <3>1 DEF Backed, Open
  <2>5. ClaimSound(c)'
    BY <1>1, <2>1, <2>3, <2>4 DEF ClaimSound, RestOK
  <2> QED
    BY <2>2, <2>5
<1> QED
  BY <1>5, <1>6, <1>7, <1>8, <1>9, <1>10 DEF PayoutsInv

(* payout.save(): the payout is open afterwards, or its call is ending. *)
LEMMA SavedInv ==
    ASSUME PayoutsInv, NEW o \in Operators, operator[o].pc # "idle",
           NEW s \in {"processing", "paid", "failed"},
           NEW pc \in {"idle", "transfer", "mark", "markByHand", "release"},
           SaveStatus(o, s, pc), UNCHANGED <<commission, request>>, RestOK,
           \/ pc \in Ending
           \/ s = "processing" /\ operator[o].pc \notin Ending
    PROVE  PayoutsInv'
<1>1. /\ operator[o] \in Operator /\ OperatorSound(o) /\ payout \in [Payouts -> Payout]
      /\ operator \in [Operators -> Operator]
  BY Typed
<1> PICK p \in Payouts : p = operator[o].payout
  BY <1>1 DEF OperatorSound
<1> DEFINE q == IF pc = "idle" THEN NoOperator ELSE [operator[o] EXCEPT !.status = s, !.pc = pc]
           x == [payout[p] EXCEPT !.status = s]
<1>2. q \in Operator /\ q.pc = pc /\ (pc # "idle" => q.payout = p /\ q.status = s)
  BY <1>1, RestTyped DEF Operator
<1>3. operator' = [operator EXCEPT ![o] = q]
  BY DEF SaveStatus, SetOperator
<1> HIDE DEF q
<1>4. /\ operator' \in [Operators -> Operator] /\ operator'[o] = q
      /\ \A u \in Operators \ {o} : operator'[u] = operator[u]
  BY <1>1, <1>2, <1>3
<1>5. x \in Payout /\ x.status = s /\ x.gross = payout[p].gross
  BY <1>1 DEF Payout
<1>6. payout' = payout \/ payout' = [payout EXCEPT ![p] = x]
  BY DEF SaveStatus
<1>7. payout[p].status # "none"
  BY <1>1 DEF OperatorSound
<1> HIDE DEF x
<1>8. /\ payout' \in [Payouts -> Payout] /\ payout'[p].gross = payout[p].gross
      /\ payout'[p].status \in {s, payout[p].status}
      /\ \A n \in Payouts \ {p} : payout'[n] = payout[n]
  BY <1>1, <1>5, <1>6
<1>9. TypeOK'
  BY <1>4, <1>8 DEF PayoutsInv, TypeOK, RestOK
<1>10. RequestsApart' /\ \A n \in Payouts : PaidInto(n)' = PaidInto(n)
  BY Typed DEF RequestsApart, PaidInto
<1>11. ASSUME NEW r \in Requests PROVE RequestSound(r)'
  <2>1. RequestSound(r) /\ request[r].payout # p
    BY <1>7, Typed, PayoutAssumption DEF RequestSound
  <2> QED
    BY <1>8, <1>10, <2>1 DEF RequestSound
<1>12. ASSUME NEW u \in Operators PROVE OperatorSound(u)'
  <2>1. \A n \in Payouts : payout[n].status # "none" => payout'[n].status # "none"
    BY <1>7, <1>8
  <2>2. CASE u = o
    BY <1>2, <1>4, <1>7, <2>1, <2>2 DEF OperatorSound
  <2>3. CASE u # o
    BY <1>4, <2>1, <2>3, Typed DEF OperatorSound
  <2> QED
    BY <2>2, <2>3
<1>13. \A n \in Payouts : PayoutSound(n)'
  BY <1>7, <1>8, <1>10, Typed DEF PayoutSound
<1>14. ASSUME NEW c \in Commissions PROVE CommissionSound(c)' /\ ClaimSound(c)'
  <2>1. CommissionSound(c) /\ ClaimSound(c)
    BY Typed
  <2>2. ASSUME NEW n \in Payouts, Backed(n) PROVE Backed(n)'
    <3>1. CASE n # p
      <4>1. n \in Open => n \in Open'
        BY <1>8, <3>1 DEF Open
      <4>2. ASSUME NEW u \in Operators, operator[u].payout = n
            PROVE  operator'[u] = operator[u]
        BY <1>4, <3>1, <4>2
      <4> QED
        BY <2>2, <4>1, <4>2 DEF Backed
    <3>2. CASE n = p /\ pc \in Ending
      <4>1. operator'[o].payout = p /\ operator'[o].pc \in Ending
        BY <1>2, <1>4, <3>2 DEF Ending
      <4> QED
        BY <3>2, <4>1 DEF Backed
    <3>3. CASE n = p /\ s = "processing" /\ operator[o].pc \notin Ending
      <4>1. n \in Open => n \in Open'
        BY <1>8, <3>3 DEF Open
      <4>2. ASSUME NEW u \in Operators, operator[u].payout = n, operator[u].pc \in Ending
            PROVE  operator'[u] = operator[u]
        BY <1>4, <3>3, <4>2
      <4> QED
        BY <2>2, <4>1, <4>2 DEF Backed
    <3> QED
      BY <3>1, <3>2, <3>3
  <2> QED
    BY <2>1, <2>2 DEF CommissionSound, ClaimSound, RestOK
<1> QED
  BY <1>9, <1>10, <1>11, <1>12, <1>13, <1>14 DEF PayoutsInv
-----------------------------------------------------------------------------
(* A request ends or has nothing to claim for yet. *)
LEMMA RequestEndsInv ==
    ASSUME PayoutsInv, UNCHANGED <<commission, payout, operator>>, RestOK,
           NEW r \in Requests, SetRequest(r, NoRequest),
           request[r].payout = NoPayout \/ "write" \in faults'
    PROVE  PayoutsInv'
<1>1. request' = [request EXCEPT ![r] = NoRequest]
  BY DEF SetRequest
<1>2. RequestSound(r)'
  BY <1>1, RestTyped, Typed DEF RequestSound
<1> QED
  BY <1>1, <1>2, RestTyped, RequestOnly

LEMMA StartRequestInv ==
    ASSUME PayoutsInv, NEW r \in Requests, StartRequest(r)
    PROVE  PayoutsInv'
<1> DEFINE q == [NoRequest EXCEPT !.pc = "read", !.unread = {"balance", "open"}]
<1>1. q \in Request /\ q.pc = "read" /\ q.payout = NoPayout
  BY RestTyped DEF Request
<1>2. request' = [request EXCEPT ![r] = q] /\ request[r].pc = "idle"
  BY DEF StartRequest, SetRequest, AtRequest
<1> HIDE DEF q
<1>3. RequestSound(r)' /\ request[r].payout = NoPayout
  BY <1>1, <1>2, Typed DEF RequestSound
<1> QED
  BY <1>1, <1>2, <1>3, RequestOnly, RestStays DEF StartRequest

LEMMA ReadInv ==
    ASSUME PayoutsInv, NEW r \in Requests, NEW what \in {"balance", "open"}, ReadForRequest(r, what)
    PROVE  PayoutsInv'
<1>1. request[r] \in Request /\ RequestSound(r) /\ request[r].pc = "read" /\ RestOK /\ TypeOK
  BY Typed, RestStays DEF ReadForRequest, AtRequest
<1> DEFINE d == IF what = "balance" THEN Available ELSE request[r].due
           e == IF what = "open" THEN Open # {} ELSE request[r].open
           n == request[r].unread \ {what}
           q == [request[r] EXCEPT !.unread = n, !.due = d, !.open = e]
<1>2. d \in SUBSET Commissions
  BY <1>1 DEF Available, TypeOK, Request
<1>3. e \in BOOLEAN
  <2>1. request[r].open \in BOOLEAN
    BY <1>1 DEF Request
  <2> QED
    BY <2>1
<1>4. n \in SUBSET {"balance", "open"}
  BY <1>1 DEF Request
<1>5. SetRequest(r, q)
  BY DEF ReadForRequest
<1> HIDE DEF d, e, n
<1>6. q \in Request /\ q.pc = request[r].pc /\ q.payout = request[r].payout
  BY <1>1, <1>2, <1>3, <1>4 DEF Request
<1> HIDE DEF q
<1>7. request' = [request EXCEPT ![r] = q]
  BY <1>5 DEF SetRequest
<1>8. RequestSound(r)'
  BY <1>1, <1>6, <1>7, Typed DEF RequestSound
<1> QED
  BY <1>1, <1>6, <1>7, <1>8, RequestOnly DEF ReadForRequest

LEMMA CheckInv ==
    ASSUME PayoutsInv, NEW r \in Requests, CheckRequest(r)
    PROVE  PayoutsInv'
<1>1. /\ request[r] \in Request /\ RequestSound(r) /\ request[r].pc = "read" /\ RestOK /\ TypeOK
      /\ request[r].payout = NoPayout /\ UNCHANGED <<commission, payout, operator>>
  BY Typed, RestStays DEF CheckRequest, AtRequest, RequestSound
<1>2. CASE SetRequest(r, NoRequest)
  BY <1>1, <1>2, RequestEndsInv
<1>3. ASSUME NEW p \in Payouts, Unused(p),
             SetRequest(r, [request[r] EXCEPT !.pc = "claim", !.payout = p, !.due = matured])
      PROVE  PayoutsInv'
  <2> DEFINE q == [request[r] EXCEPT !.pc = "claim", !.payout = p, !.due = matured]
  <2>1. q \in Request /\ q.pc = "claim" /\ q.payout = p
    BY <1>1 DEF Request, TypeOK
  <2>2. request' = [request EXCEPT ![r] = q]
    BY <1>3 DEF SetRequest
  <2> HIDE DEF q
  <2>3. RequestSound(r)'
    BY <1>1, <1>3, <2>1, <2>2, Typed DEF RequestSound, Unused, PaidInto
  <2>4. \A s \in Requests : request[s].payout # q.payout
    BY <1>3, <2>1 DEF Unused
  <2>5. \A c \in Commissions :
           commission[c].status = "claimed" => commission[c].payout # request[r].payout
    BY <1>1, Typed, PayoutAssumption DEF CommissionSound
  <2> QED
    BY <1>1, <2>1, <2>2, <2>3, <2>4, <2>5, RequestOnly
<1> QED
  BY <1>2, <1>3 DEF CheckRequest

LEMMA ClaimDoneInv ==
    ASSUME PayoutsInv, NEW r \in Requests, ClaimDone(r)
    PROVE  PayoutsInv'
<1>1. /\ request[r] \in Request /\ RequestSound(r) /\ request[r].pc = "claim" /\ RestOK
      /\ UNCHANGED <<commission, payout, operator>>
  BY Typed, RestStays DEF ClaimDone, AtRequest
<1>2. CASE request[r].gross = {}
  <2>1. request' = [request EXCEPT ![r] = NoRequest]
    BY <1>2 DEF ClaimDone, SetRequest
  <2>2. RequestSound(r)'
    BY <2>1, RestTyped, Typed DEF RequestSound
  <2>3. \A c \in Commissions : commission[c].payout # request[r].payout
    BY <1>1, <1>2 DEF RequestSound, PaidInto
  <2> QED
    BY <1>1, <2>1, <2>2, <2>3, RestTyped, RequestOnly
<1>3. CASE request[r].gross # {}
  <2> DEFINE q == [request[r] EXCEPT !.pc = "sum"]
  <2>1. q \in Request /\ q.pc = "sum" /\ q.payout = request[r].payout
    BY <1>1 DEF Request
  <2>2. request' = [request EXCEPT ![r] = q]
    BY <1>3 DEF ClaimDone, SetRequest
  <2> HIDE DEF q
  <2>3. RequestSound(r)'
    BY <1>1, <2>1, <2>2, Typed DEF RequestSound
  <2> QED
    BY <1>1, <2>1, <2>2, <2>3, RequestOnly
<1> QED
  BY <1>2, <1>3

LEMMA SumInv ==
    ASSUME PayoutsInv, NEW r \in Requests, SumClaim(r)
    PROVE  PayoutsInv'
<1>1. /\ request[r] \in Request /\ RequestSound(r) /\ request[r].pc = "sum" /\ RestOK
      /\ UNCHANGED <<commission, payout, operator>>
  BY Typed, RestStays DEF SumClaim, AtRequest
<1> DEFINE g == PaidInto(request[r].payout)
           q == [request[r] EXCEPT !.pc = "create", !.gross = g]
<1>2. g \in SUBSET Commissions /\ SetRequest(r, q)
  BY DEF PaidInto, SumClaim
<1> HIDE DEF g
<1>3. q \in Request /\ q.pc = "create" /\ q.payout = request[r].payout /\ q.gross = g
  BY <1>1, <1>2 DEF Request
<1> HIDE DEF q
<1>4. request' = [request EXCEPT ![r] = q]
  BY <1>2 DEF SetRequest
<1>5. RequestSound(r)'
  BY <1>1, <1>3, <1>4, Typed DEF RequestSound, PaidInto, g
<1> QED
  BY <1>1, <1>3, <1>4, <1>5, RequestOnly

LEMMA CreateInv ==
    ASSUME PayoutsInv, NEW r \in Requests, CreatePayout(r)
    PROVE  PayoutsInv'
<1>1. /\ request[r] \in Request /\ RequestSound(r) /\ request[r].pc = "create" /\ RestOK
      /\ UNCHANGED <<commission, matured, reversing, operator, bank, byHand, faults>>
  BY Typed, RestStays DEF CreatePayout, AtRequest
<1>2. CASE /\ payout' = [payout EXCEPT ![request[r].payout] =
                           [status |-> "requested", gross |-> request[r].gross]]
           /\ SetRequest(r, NoRequest)
  BY <1>1, <1>2, CreatedInv
<1>3. CASE SetRequest(r, [request[r] EXCEPT !.pc = AfterFailedCreate]) /\ UNCHANGED payout
  <2> DEFINE q == [request[r] EXCEPT !.pc = "release"]
  <2>1. q \in Request /\ q.pc = "release" /\ q.payout = request[r].payout
    BY <1>1 DEF Request
  <2>2. request' = [request EXCEPT ![r] = q]
    BY <1>3 DEF SetRequest, AfterFailedCreate
  <2> HIDE DEF q
  <2>3. RequestSound(r)'
    BY <1>1, <1>3, <2>1, <2>2, Typed DEF RequestSound
  <2> QED
    BY <1>1, <1>3, <2>1, <2>2, <2>3, RequestOnly
<1> QED
  BY <1>2, <1>3 DEF CreatePayout

LEMMA RejectsInv ==
    ASSUME PayoutsInv, NEW r \in Requests, RequestRejects(r)
    PROVE  PayoutsInv'
BY RequestEndsInv, FaultStays DEF RequestRejects

LEMMA RequestInv ==
    ASSUME PayoutsInv, NEW r \in Requests, RequestStep(r)
    PROVE  PayoutsInv'
BY StartRequestInv, ReadInv, CheckInv, ClaimOneInv, ClaimDoneInv, SumInv, CreateInv,
   ReleaseRequestInv, RejectsInv DEF RequestStep
-----------------------------------------------------------------------------
(* An operator's call goes on with its payout, and nothing is stored. *)
LEMMA OperatorMoves ==
    ASSUME PayoutsInv, NEW o \in Operators, operator[o].pc # "idle",
           NEW pc \in {"record", "fail"}, SetOperator(o, [operator[o] EXCEPT !.pc = pc]),
           UNCHANGED <<commission, payout, request>>, RestOK,
           operator[o].pc \notin Ending \/ "write" \in faults'
    PROVE  PayoutsInv'
<1>1. operator[o] \in Operator /\ OperatorSound(o)
  BY Typed
<1> DEFINE q == [operator[o] EXCEPT !.pc = pc]
<1>2. q \in Operator /\ q.pc = pc /\ q.payout = operator[o].payout
  BY <1>1 DEF Operator
<1>3. operator' = [operator EXCEPT ![o] = q]
  BY DEF SetOperator
<1> HIDE DEF q
<1>4. OperatorSound(o)'
  BY <1>1, <1>2, <1>3, Typed DEF OperatorSound
<1> QED
  BY <1>2, <1>3, <1>4, OperatorOnly

LEMMA OperatorEndsInv ==
    ASSUME PayoutsInv, NEW o \in Operators, OperatorRejects(o)
    PROVE  PayoutsInv'
<1>1. /\ operator' = [operator EXCEPT ![o] = NoOperator] /\ RestOK /\ "write" \in faults'
      /\ UNCHANGED <<commission, payout, request>>
  BY FaultStays DEF OperatorRejects, SetOperator
<1>2. OperatorSound(o)'
  BY <1>1, RestTyped, Typed DEF OperatorSound
<1> QED
  BY <1>1, <1>2, RestTyped, OperatorOnly

LEMMA StartOperatorInv ==
    ASSUME PayoutsInv, NEW o \in Operators, NEW p \in Payouts,
           NEW pc \in {"process", "settle", "fail"}, StartOperator(o, p, pc)
    PROVE  PayoutsInv'
<1>1. /\ payout[p] \in Payout /\ payout[p].status # "none" /\ operator[o].pc = "idle"
      /\ UNCHANGED <<commission, payout, request>>
  BY Typed DEF StartOperator, AtOperator
<1>2. RestOK
  BY DEF StartOperator, RestOK, PayoutsInv, TypeOK
<1> DEFINE q == [pc |-> pc, payout |-> p, status |-> payout[p].status]
<1>3. q \in Operator /\ q.pc = pc /\ q.payout = p
  BY <1>1 DEF Operator, Payout
<1>4. operator' = [operator EXCEPT ![o] = q]
  BY DEF StartOperator, SetOperator
<1> HIDE DEF q
<1>5. OperatorSound(o)'
  BY <1>1, <1>3, <1>4, Typed DEF OperatorSound
<1> QED
  BY <1>1, <1>2, <1>3, <1>4, <1>5, OperatorOnly DEF Ending

LEMMA BankTyped ==
    ASSUME PayoutsInv, NEW p \in Payouts, TakenBy(p)
    PROVE  bank' \in [Payouts -> {"none", "queued", "processed", "rejected"}]
BY DEF PayoutsInv, TypeOK, TakenBy

LEMMA TransferInv ==
    ASSUME PayoutsInv, NEW o \in Operators,
           TransferTaken(o) \/ TransferRefused(o) \/ TransferTimesOut(o)
    PROVE  PayoutsInv'
<1>1. /\ operator[o].pc = "transfer" /\ operator[o].payout \in Payouts
      /\ UNCHANGED <<commission, payout, request>>
  BY Typed DEF TransferTaken, TransferRefused, TransferTimesOut, AtOperator, OperatorSound
<1>2. bank' \in [Payouts -> {"none", "queued", "processed", "rejected"}]
  BY <1>1, BankTyped DEF TransferTaken, TransferRefused, TransferTimesOut, PayoutsInv, TypeOK
<1>3. RestOK
  BY <1>2 DEF TransferTaken, TransferRefused, TransferTimesOut, RestOK, PayoutsInv, TypeOK, Fault
<1> QED
  BY <1>1, <1>3, OperatorMoves DEF TransferTaken, TransferRefused, TransferTimesOut, Ending

LEMMA SavesInv ==
    ASSUME PayoutsInv, NEW o \in Operators,
           SaveProcessing(o) \/ RecordTransfer(o) \/ SaveSettled(o) \/ SaveFailed(o)
    PROVE  PayoutsInv'
<1>1. RestOK /\ UNCHANGED <<commission, request>>
  BY RestStays DEF SaveProcessing, RecordTransfer, SaveSettled, SaveFailed
<1> QED
  BY <1>1, SavedInv
     DEF SaveProcessing, RecordTransfer, SaveSettled, SaveFailed, AtOperator, Ending, AfterQueued

LEMMA WriteFailsInv ==
    ASSUME PayoutsInv, NEW o \in Operators, WriteFails(o)
    PROVE  PayoutsInv'
<1>1. /\ operator[o].pc \in {"record", "mark"} /\ RestOK /\ "write" \in faults'
      /\ UNCHANGED <<payout, request>> /\ SetOperator(o, [operator[o] EXCEPT !.pc = "fail"])
      /\ operator[o] \in Operator /\ OperatorSound(o)
  BY Typed, FaultStays DEF WriteFails
<1>2. CASE UNCHANGED commission
  BY <1>1, <1>2, OperatorMoves
<1>3. CASE commission' = MarkedPaid(operator[o].payout)
  <2> PICK p \in Payouts : p = operator[o].payout
    BY <1>1 DEF OperatorSound
  <2> DEFINE q == [operator[o] EXCEPT !.pc = "fail"]
  <2>1. q \in Operator /\ q.pc = "fail" /\ q.payout = p
    BY <1>1 DEF Operator
  <2>2. operator' = [operator EXCEPT ![o] = q]
    BY <1>1 DEF SetOperator
  <2> HIDE DEF q
  <2>3. OperatorSound(o)' /\ payout[p].status # "none"
    BY <1>1, <2>1, <2>2, Typed DEF OperatorSound
  <2> QED
    BY <1>1, <1>3, <2>1, <2>2, <2>3, SettledInv
<1> QED
  BY <1>2, <1>3 DEF WriteFails

LEMMA OperatorSettlesInv ==
    ASSUME PayoutsInv, NEW o \in Operators, MarkCommissionsPaid(o) \/ ReleaseClaim(o)
    PROVE  PayoutsInv'
<1>1. /\ operator[o].pc # "idle" /\ RestOK /\ UNCHANGED <<payout, request>>
      /\ operator' = [operator EXCEPT ![o] = NoOperator] /\ OperatorSound(o)
  BY Typed, RestStays DEF MarkCommissionsPaid, ReleaseClaim, AtOperator, SetOperator
<1> PICK p \in Payouts : p = operator[o].payout
  BY <1>1 DEF OperatorSound
<1>2. OperatorSound(o)' /\ payout[p].status # "none"
  BY <1>1, RestTyped, Typed DEF OperatorSound
<1>3. commission' = Released(p) \/ commission' = MarkedPaid(p)
  BY DEF MarkCommissionsPaid, ReleaseClaim
<1> QED
  BY <1>1, <1>2, <1>3, RestTyped, SettledInv

LEMMA OperatorInv ==
    ASSUME PayoutsInv, NEW o \in Operators, OperatorStep(o)
    PROVE  PayoutsInv'
BY StartOperatorInv, TransferInv, SavesInv, WriteFailsInv, OperatorSettlesInv, OperatorEndsInv
   DEF OperatorStep

LEMMA BankInv ==
    ASSUME PayoutsInv, NEW p \in Payouts, BankDecides(p)
    PROVE  PayoutsInv'
<1>1. RestOK /\ UNCHANGED <<commission, payout, request, operator>>
  BY DEF BankDecides, RestOK, PayoutsInv, TypeOK
<1> QED
  BY <1>1, CommissionsMove, Typed

(* Whatever the calls were about is left as it is stored. *)
LEMMA CrashInv ==
    ASSUME PayoutsInv, Crash
    PROVE  PayoutsInv'
<1>1. /\ UNCHANGED <<commission, payout>> /\ "crash" \in faults'
      /\ request' = [r \in Requests |-> NoRequest] /\ operator' = [o \in Operators |-> NoOperator]
  BY DEF Crash, Fault
<1>2. RestOK
  BY DEF Crash, Fault, RestOK, PayoutsInv, TypeOK
<1>3. TypeOK'
  BY <1>1, <1>2, RestTyped DEF PayoutsInv, TypeOK, RestOK
<1>4. RequestsApart' /\ \A r \in Requests : RequestSound(r)'
  BY <1>1, RestTyped DEF RequestsApart, RequestSound
<1>5. \A o \in Operators : OperatorSound(o)'
  BY <1>1, RestTyped DEF OperatorSound
<1>6. \A p \in Payouts : PayoutSound(p)'
  BY <1>1, Typed DEF PayoutSound, PaidInto
<1>7. \A c \in Commissions : CommissionSound(c)' /\ ClaimSound(c)'
  BY <1>1, Typed DEF CommissionSound, ClaimSound
<1> QED
  BY <1>3, <1>4, <1>5, <1>6, <1>7 DEF PayoutsInv

LEMMA PayoutsInit == Init => PayoutsInv
<1> SUFFICES ASSUME Init PROVE PayoutsInv
  OBVIOUS
<1> DEFINE x == [status |-> "none", payout |-> NoPayout]
           y == [status |-> "none", gross |-> {}]
<1>1. x \in Commission /\ x.status = "none" /\ x.payout = NoPayout
  BY DEF Commission
<1>2. y \in Payout /\ y.status = "none" /\ y.gross = {}
  BY DEF Payout
<1>3. /\ commission = [c \in Commissions |-> x] /\ payout = [p \in Payouts |-> y]
      /\ request = [r \in Requests |-> NoRequest] /\ operator = [o \in Operators |-> NoOperator]
  BY DEF Init
<1> HIDE DEF x, y
<1>4. TypeOK
  BY <1>1, <1>2, <1>3, RestTyped DEF Init, TypeOK
<1>5. \A p \in Payouts : PayoutSound(p)
  BY <1>2, <1>3 DEF PayoutSound
<1>6. \A c \in Commissions : CommissionSound(c) /\ ClaimSound(c)
  BY <1>1, <1>3 DEF CommissionSound, ClaimSound
<1>7. RequestsApart /\ \A r \in Requests : RequestSound(r)
  BY <1>3, RestTyped DEF RequestsApart, RequestSound
<1>8. \A o \in Operators : OperatorSound(o)
  BY <1>3, RestTyped DEF OperatorSound
<1> QED
  BY <1>4, <1>5, <1>6, <1>7, <1>8 DEF PayoutsInv

LEMMA PayoutsNext ==
    ASSUME PayoutsInv, [Next]_vars
    PROVE  PayoutsInv'
<1>1. CASE EarningStep
  BY <1>1, AwardInv, SaveReversalInv, OtherEarningInv DEF EarningStep
<1>2. CASE UNCHANGED vars
  <2>1. RestOK /\ UNCHANGED <<commission, payout, request, operator>>
    BY <1>2, RestStays DEF vars
  <2> QED
    BY <2>1, CommissionsMove, Typed
<1> QED
  BY <1>1, <1>2, RequestInv, OperatorInv, BankInv, CrashInv DEF Next

(* The inductive invariant, for any number of operators: whose payout a     *)
(* claim is for, and which call has yet to create, settle or release it.    *)
THEOREM PayoutsAreSound == Spec => []PayoutsInv
BY PayoutsInit, PayoutsNext, PTL DEF Spec

(* The referral collections and the memory of every call keep their types. *)
THEOREM PayoutsTyped == Spec => []TypeOK
<1>1. PayoutsInv => TypeOK
  BY DEF PayoutsInv
<1> QED
  BY <1>1, PayoutsAreSound, PTL

(* A claim is never left without a payout or a call that ends it, unless a  *)
(* call was cut short: neither when the payout cannot be written nor when   *)
(* its transfer fails (payouts.ts, requestPayout and sendPayout).           *)
THEOREM ClaimsAreBacked == Spec => []NoStrandedClaim
<1>1. ASSUME PayoutsInv PROVE NoStrandedClaim
  BY <1>1 DEF PayoutsInv, ClaimSound, Backed, NoStrandedClaim, Status, Ending
<1> QED
  BY <1>1, PayoutsAreSound, PTL
-----------------------------------------------------------------------------
(* With one operator, who leaves a failed payout alone, what the call was   *)
(* started for stays true until the call ends.                              *)
OneDesk == ~RetryFailed /\ \A o, u \in Operators : o = u

Unmoved(p) == bank[p] \in {"none", "rejected"} /\ p \notin byHand
Moved(p) == p \in byHand \/ bank[p] = "processed"
Undecided == {"requested", "processing"}

(* What the call of an operator knows of the payout it has loaded *)
DeskSound(o) ==
    /\ operator[o].pc # "idle" => operator[o].status = payout[operator[o].payout].status
    /\ operator[o].pc \in {"process", "transfer"} => operator[o].payout \notin byHand
    /\ operator[o].pc \in {"process", "transfer", "record", "settle"} => operator[o].status \in Undecided
    /\ operator[o].pc = "settle" => Moved(operator[o].payout)
    /\ operator[o].pc \in {"mark", "markByHand"} =>
          operator[o].status = "paid" /\ Moved(operator[o].payout)
    /\ operator[o].pc = "fail" /\ "write" \notin faults => operator[o].status \in Undecided
    /\ operator[o].pc = "fail" /\ faults \cap {"lost", "write"} = {} => Unmoved(operator[o].payout)
    /\ operator[o].pc = "release" => operator[o].status = "failed"

(* The claim of a payout is kept until it has failed; it is not transferred *)
(* both ways, and not at all when it has failed.                            *)
Kept(p) ==
    /\ payout[p].status # "failed" => payout[p].gross \subseteq PaidInto(p)
    /\ p \in byHand => bank[p] \in {"none", "rejected"}
    /\ payout[p].status = "failed" /\ faults \cap {"lost", "write"} = {} => Unmoved(p)

DeskInv ==
    /\ PayoutsInv
    /\ PaidWasTransferred
    /\ \A o \in Operators : DeskSound(o)
    /\ \A p \in Payouts : Kept(p)

LEMMA DeskHas ==
    ASSUME DeskInv
    PROVE  /\ PayoutsInv /\ PaidWasTransferred /\ faults \subseteq FaultKinds
           /\ bank \in [Payouts -> {"none", "queued", "processed", "rejected"}]
           /\ \A o \in Operators : DeskSound(o)
           /\ \A p \in Payouts : Kept(p)
BY DEF DeskInv, PayoutsInv, TypeOK

(* Nobody works on a payout that a step stores or releases. *)
LEMMA StoreKeepsDesk ==
    ASSUME DeskInv, PayoutsInv', UNCHANGED <<operator, bank, byHand>>, faults \subseteq faults',
           \A p \in Payouts : \/ payout'[p] = payout[p]
                              \/ /\ payout[p].status = "none" /\ payout'[p].status = "requested"
                                 /\ payout'[p].gross = PaidInto(p)',
           \A c \in Commissions : commission'[c].status = "paid" => commission'[c] = commission[c],
           \A c \in Commissions :
              commission[c].payout \in Payouts /\ payout[commission[c].payout].status # "none"
                 => commission'[c].payout = commission[c].payout
    PROVE  DeskInv'
<1>1. ASSUME NEW o \in Operators PROVE DeskSound(o)'
  <2>1. DeskSound(o) /\ OperatorSound(o)
    BY DeskHas, Typed
  <2>2. operator[o].pc # "idle" => payout'[operator[o].payout] = payout[operator[o].payout]
    BY <2>1 DEF OperatorSound
  <2> QED
    BY <2>1, <2>2 DEF DeskSound, Moved, Unmoved
<1>2. ASSUME NEW p \in Payouts PROVE Kept(p)'
  <2>1. Kept(p) /\ PayoutSound(p) /\ payout[p] \in Payout
    BY DeskHas, Typed
  <2>2. CASE payout'[p] = payout[p]
    <3>1. payout[p].status # "failed" => payout[p].gross \subseteq PaidInto(p)'
      BY <2>1 DEF Kept, PayoutSound, PaidInto, Payout
    <3> QED
      BY <2>1, <2>2, <3>1 DEF Kept, Unmoved
  <2>3. CASE payout'[p].status = "requested" /\ payout'[p].gross = PaidInto(p)'
    BY <2>1, <2>3 DEF Kept
  <2> QED
    BY <2>2, <2>3
<1>3. ASSUME NEW c \in Commissions, commission'[c].status = "paid"
      PROVE  /\ c \in payout'[commission'[c].payout].gross
             /\ "write" \notin faults' => payout'[commission'[c].payout].status = "paid"
             /\ bank'[commission'[c].payout] = "processed" \/ commission'[c].payout \in byHand'
  <2>1. commission'[c] = commission[c]
    BY <1>3
  <2> PICK p \in Payouts : p = commission[c].payout
    BY <1>3, <2>1, DeskHas, Typed DEF CommissionSound
  <2>2. /\ c \in payout[p].gross /\ ("write" \notin faults => payout[p].status = "paid")
        /\ (bank[p] = "processed" \/ p \in byHand)
    BY <1>3, <2>1, DeskHas DEF PaidWasTransferred, Status
  <2>3. payout'[p] = payout[p]
    BY <2>2, DeskHas, Typed DEF PayoutSound
  <2> QED
    BY <2>1, <2>2, <2>3
<1>4. PaidWasTransferred'
  BY <1>3 DEF PaidWasTransferred, Status
<1> QED
  BY <1>1, <1>2, <1>4 DEF DeskInv

(* One step of the call of an operator: it is the only call, and only its   *)
(* payout changes.                                                          *)
LEMMA DeskStep ==
    ASSUME OneDesk, DeskInv, PayoutsInv', NEW o \in Operators, DeskSound(o)',
           NEW n \in Payouts, operator[o].payout = n, payout'[n].status # "none",
           faults \subseteq faults', UNCHANGED request,
           \A p \in Payouts : p # n =>
              /\ payout'[p] = payout[p] /\ bank'[p] = bank[p] /\ (p \in byHand <=> p \in byHand'),
           \A c \in Commissions : commission[c].payout # n => commission'[c] = commission[c],
           Kept(n)',
           \A c \in Commissions :
              commission'[c].status = "paid" /\ commission[c].payout = n =>
                 /\ commission'[c].payout = n
                 /\ "write" \notin faults' => payout'[n].status = "paid"
                 /\ bank'[n] = "processed" \/ n \in byHand'
    PROVE  DeskInv'
<1>1. \A u \in Operators : DeskSound(u)'
  BY DEF OneDesk
<1>2. ASSUME NEW p \in Payouts PROVE Kept(p)'
  <2>1. CASE p = n
    BY <2>1 DEF Kept, Unmoved, PaidInto
  <2>2. CASE p # n
    <3>1. Kept(p) /\ payout'[p] = payout[p] /\ bank'[p] = bank[p] /\ (p \in byHand <=> p \in byHand')
      BY <2>2, DeskHas
    <3>2. PaidInto(p) \subseteq PaidInto(p)'
      BY <2>2 DEF PaidInto
    <3> QED
      BY <3>1, <3>2 DEF Kept, Unmoved
  <2> QED
    BY <2>1, <2>2
<1>3. ASSUME NEW c \in Commissions, commission'[c].status = "paid"
      PROVE  /\ c \in payout'[commission'[c].payout].gross
             /\ "write" \notin faults' => payout'[commission'[c].payout].status = "paid"
             /\ bank'[commission'[c].payout] = "processed" \/ commission'[c].payout \in byHand'
  <2>1. CASE commission[c].payout = n
    <3>1. /\ commission'[c].payout = n
          /\ "write" \notin faults' => payout'[n].status = "paid"
          /\ (bank'[n] = "processed" \/ n \in byHand')
      BY <1>3, <2>1
    <3>2. PayoutSound(n)' /\ c \in PaidInto(n)'
      BY <3>1, Typed DEF PayoutsInv, PaidInto
    <3>3. c \in payout'[n].gross
      BY <3>2 DEF PayoutSound
    <3> QED
      BY <3>1, <3>3
  <2>2. CASE commission[c].payout # n
    <3>1. commission'[c] = commission[c] /\ commission[c].payout \in Payouts
      BY <1>3, <2>2, DeskHas, Typed DEF CommissionSound
    <3> PICK p \in Payouts : p = commission[c].payout
      BY <3>1
    <3>2. /\ c \in payout[p].gross /\ ("write" \notin faults => payout[p].status = "paid")
          /\ (bank[p] = "processed" \/ p \in byHand)
      BY <1>3, <3>1, DeskHas DEF PaidWasTransferred, Status
    <3>3. payout'[p] = payout[p] /\ bank'[p] = bank[p] /\ (p \in byHand <=> p \in byHand')
      BY <2>2
    <3> QED
      BY <3>1, <3>2, <3>3
  <2> QED
    BY <2>1, <2>2
<1>4. PaidWasTransferred'
  BY <1>3 DEF PaidWasTransferred, Status
<1> QED
  BY <1>1, <1>2, <1>4 DEF DeskInv

(* What is recorded as paid into the payout of a call *)
LEMMA PaidHere ==
    ASSUME DeskInv, NEW c \in Commissions, NEW n \in Payouts,
           commission[c].status = "paid", commission[c].payout = n
    PROVE  ("write" \notin faults => payout[n].status = "paid") /\ Moved(n)
BY DeskHas DEF PaidWasTransferred, Status, Moved

(* The call goes on or ends; what is stored stays, and so does the bank. *)
LEMMA DeskMoves ==
    ASSUME OneDesk, DeskInv, PayoutsInv', NEW o \in Operators, operator[o].pc # "idle", DeskSound(o)',
           faults \subseteq faults', UNCHANGED <<commission, payout, request, bank, byHand>>
    PROVE  DeskInv'
<1>1. OperatorSound(o) /\ PayoutsInv
  BY DeskHas, Typed
<1> PICK n \in Payouts : n = operator[o].payout
  BY <1>1 DEF OperatorSound
<1>2. Kept(n) /\ payout[n].status # "none"
  BY <1>1, DeskHas DEF OperatorSound
<1>3. Kept(n)'
  BY <1>2 DEF Kept, Unmoved, PaidInto
<1>4. ASSUME NEW c \in Commissions, commission'[c].status = "paid", commission[c].payout = n
      PROVE  /\ commission'[c].payout = n
             /\ "write" \notin faults' => payout'[n].status = "paid"
             /\ bank'[n] = "processed" \/ n \in byHand'
  BY <1>4, PaidHere DEF Moved
<1> QED
  BY <1>2, <1>3, <1>4, DeskStep

LEMMA DeskStarts ==
    ASSUME OneDesk, DeskInv, PayoutsInv', NEW o \in Operators, NEW p \in Payouts,
           NEW pc \in {"process", "settle", "fail"}, StartOperator(o, p, pc)
    PROVE  DeskInv'
<1>1. /\ payout[p] \in Payout /\ Kept(p) /\ payout[p].status \in Undecided /\ Sensible(p, pc)
      /\ UNCHANGED <<commission, payout, request, bank, faults>>
      /\ operator \in [Operators -> Operator]
  BY DeskHas, Typed DEF StartOperator, Sensible, OneDesk, Undecided, Payout
<1>2. /\ pc = "process" => p \notin byHand /\ byHand' = byHand
      /\ pc = "settle" => bank[p] \in {"none", "rejected", "processed"}
      /\ pc = "settle" => \/ bank[p] = "processed" /\ byHand' = byHand
                         \/ byHand' = byHand \cup {p}
      /\ pc = "fail" => Unmoved(p) /\ byHand' = byHand
  BY <1>1, DeskHas DEF Sensible, StartOperator, Unmoved
<1> DEFINE q == [pc |-> pc, payout |-> p, status |-> payout[p].status]
<1>3. q.pc = pc /\ q.payout = p /\ q.status = payout[p].status /\ operator' = [operator EXCEPT ![o] = q]
  BY DEF StartOperator, SetOperator
<1> HIDE DEF q
<1>4. operator'[o] = q /\ \A u \in Operators : u = o
  BY <1>1, <1>3 DEF OneDesk
<1>5. DeskSound(o)'
  BY <1>1, <1>2, <1>3, <1>4 DEF DeskSound, Moved, Unmoved
<1>6. ASSUME NEW n \in Payouts PROVE Kept(n)'
  <2>1. Kept(n) /\ PaidInto(n)' = PaidInto(n)
    BY <1>1, DeskHas DEF PaidInto
  <2> QED
    BY <1>1, <1>2, <2>1 DEF Kept, Unmoved, Undecided, StartOperator
<1>7. PaidWasTransferred'
  BY <1>1, DeskHas DEF PaidWasTransferred, Status, StartOperator
<1> QED
  BY <1>4, <1>5, <1>6, <1>7 DEF DeskInv

(* The loaded payout of a call that has not been decided, or is paid *)
LEMMA AtDesk ==
    ASSUME DeskInv, NEW o \in Operators, NEW n \in Payouts, operator[o].payout = n, operator[o].pc # "idle"
    PROVE  /\ PayoutsInv /\ DeskSound(o) /\ Kept(n) /\ PayoutSound(n)
           /\ operator[o] \in Operator /\ payout[n] \in Payout /\ n # NoPayout
           /\ payout[n].status = operator[o].status /\ payout[n].status # "none"
           /\ faults \subseteq FaultKinds
BY DeskHas, Typed, PayoutAssumption DEF DeskSound, OperatorSound

LEMMA DeskTransfers ==
    ASSUME OneDesk, DeskInv, PayoutsInv', NEW o \in Operators,
           TransferTaken(o) \/ TransferRefused(o) \/ TransferTimesOut(o)
    PROVE  DeskInv'
<1>1. /\ operator[o].pc = "transfer" /\ UNCHANGED <<commission, payout, request, byHand>>
      /\ faults \subseteq faults' /\ OperatorSound(o) /\ operator \in [Operators -> Operator]
  BY DeskHas, Typed DEF TransferTaken, TransferRefused, TransferTimesOut, AtOperator, Fault
<1> PICK n \in Payouts : n = operator[o].payout
  BY <1>1 DEF OperatorSound
<1>2. /\ operator[o].status \in Undecided /\ n \notin byHand /\ Kept(n)
      /\ payout[n].status = operator[o].status /\ payout[n].status # "none"
  BY <1>1, AtDesk DEF DeskSound
<1>3. \A p \in Payouts \ {n} : bank'[p] = bank[p]
  BY DeskHas DEF TransferTaken, TransferRefused, TransferTimesOut, TakenBy
<1>4. /\ bank[n] = "processed" => bank'[n] = "processed"
      /\ TransferRefused(o) => bank[n] \in {"none", "rejected"} /\ bank' = bank
      /\ TransferTimesOut(o) => "lost" \in faults'
  BY <1>1, DeskHas DEF TransferTaken, TransferRefused, TransferTimesOut, TakenBy, Fault
<1> PICK pc \in {"record", "fail"} :
       /\ operator' = [operator EXCEPT ![o] = [operator[o] EXCEPT !.pc = pc]]
       /\ pc = "fail" => TransferRefused(o) \/ TransferTimesOut(o)
  BY DEF TransferTaken, TransferRefused, TransferTimesOut, SetOperator
<1> DEFINE q == [operator[o] EXCEPT !.pc = pc]
<1>5. q.pc = pc /\ q.payout = n /\ q.status = operator[o].status
  BY <1>1 DEF Operator
<1> HIDE DEF q
<1>6. operator'[o] = q
  BY <1>1 DEF q
<1>7. DeskSound(o)'
  BY <1>1, <1>2, <1>4, <1>5, <1>6 DEF DeskSound, Unmoved
<1>8. Kept(n)'
  BY <1>1, <1>2 DEF Kept, PaidInto, Undecided
<1>9. ASSUME NEW c \in Commissions, commission'[c].status = "paid", commission[c].payout = n
      PROVE  /\ commission'[c].payout = n
             /\ "write" \notin faults' => payout'[n].status = "paid"
             /\ bank'[n] = "processed" \/ n \in byHand'
  BY <1>1, <1>4, <1>9, PaidHere DEF Moved
<1> QED
  BY <1>1, <1>2, <1>3, <1>7, <1>8, <1>9, DeskStep

(* The call stores another status, or the same one, and goes on or ends. *)
LEMMA DeskSaves ==
    ASSUME OneDesk, DeskInv, PayoutsInv', NEW o \in Operators, operator[o].pc # "idle",
           NEW s \in {"processing", "paid", "failed"}, NEW pc, SaveStatus(o, s, pc), DeskSound(o)',
           UNCHANGED <<commission, request, bank, byHand, faults>>,
           operator[o].status = "failed" => s = "failed",
           "write" \notin faults /\ operator[o].status = "paid" => s = "paid",
           s = "failed" /\ faults \cap {"lost", "write"} = {} => Unmoved(operator[o].payout)
    PROVE  DeskInv'
<1>1. OperatorSound(o) /\ payout \in [Payouts -> Payout]
  BY DeskHas, Typed
<1> PICK n \in Payouts : n = operator[o].payout
  BY <1>1 DEF OperatorSound
<1>2. /\ payout[n].status = operator[o].status /\ payout[n].status # "none"
      /\ Kept(n) /\ payout[n] \in Payout
  BY AtDesk
<1> DEFINE x == [payout[n] EXCEPT !.status = s]
<1>3. payout' = IF s = payout[n].status THEN payout ELSE [payout EXCEPT ![n] = x]
  BY <1>2 DEF SaveStatus
<1>4. x.status = s /\ x.gross = payout[n].gross
  BY <1>2 DEF Payout
<1> HIDE DEF x
<1>5. /\ payout'[n].status = s /\ payout'[n].gross = payout[n].gross
      /\ \A p \in Payouts \ {n} : payout'[p] = payout[p]
  BY <1>1, <1>3, <1>4
<1>6. Kept(n)'
  BY <1>2, <1>5 DEF Kept, Unmoved, PaidInto
<1>7. ASSUME NEW c \in Commissions, commission'[c].status = "paid", commission[c].payout = n
      PROVE  /\ commission'[c].payout = n
             /\ "write" \notin faults' => payout'[n].status = "paid"
             /\ bank'[n] = "processed" \/ n \in byHand'
  BY <1>2, <1>5, <1>7, PaidHere DEF Moved
<1> QED
  BY <1>2, <1>5, <1>6, <1>7, DeskStep

LEMMA SavedAt ==
    ASSUME PayoutsInv, NEW o \in Operators, NEW s, NEW pc, SaveStatus(o, s, pc)
    PROVE  /\ pc = "idle" => operator'[o].pc = "idle"
           /\ pc # "idle" => /\ operator'[o].pc = pc /\ operator'[o].status = s
                             /\ operator'[o].payout = operator[o].payout
<1>1. operator[o] \in Operator /\ operator \in [Operators -> Operator]
  BY Typed
<1> DEFINE q == [operator[o] EXCEPT !.status = s, !.pc = pc]
<1>2. q.pc = pc /\ q.status = s /\ q.payout = operator[o].payout
  BY <1>1 DEF Operator
<1>3. operator' = [operator EXCEPT ![o] = IF pc = "idle" THEN NoOperator ELSE q]
  BY DEF SaveStatus, SetOperator
<1> HIDE DEF q
<1>4. operator'[o] = IF pc = "idle" THEN NoOperator ELSE q
  BY <1>1, <1>3
<1> QED
  BY <1>2, <1>4, RestTyped

(* The status that has been stored is the one the call goes on with. *)
LEMMA StoredAt ==
    ASSUME DeskInv, NEW o \in Operators, operator[o].pc # "idle",
           NEW s, NEW pc, SaveStatus(o, s, pc)
    PROVE  payout'[operator[o].payout].status = s
<1>1. OperatorSound(o) /\ payout \in [Payouts -> Payout]
  BY DeskHas, Typed
<1> PICK n \in Payouts : n = operator[o].payout
  BY <1>1 DEF OperatorSound
<1>2. payout[n].status = operator[o].status /\ payout[n] \in Payout
  BY AtDesk
<1> DEFINE x == [payout[n] EXCEPT !.status = s]
<1>3. payout' = IF s = payout[n].status THEN payout ELSE [payout EXCEPT ![n] = x]
  BY <1>2 DEF SaveStatus
<1>4. x.status = s
  BY <1>2 DEF Payout
<1> HIDE DEF x
<1> QED
  BY <1>1, <1>3, <1>4

LEMMA DeskProcesses ==
    ASSUME OneDesk, DeskInv, PayoutsInv', NEW o \in Operators, SaveProcessing(o)
    PROVE  DeskInv'
<1>1. /\ operator[o].pc = "process" /\ SaveStatus(o, "processing", "transfer") /\ DeskSound(o)
      /\ UNCHANGED <<commission, request, bank, byHand, faults>> /\ PayoutsInv
  BY DeskHas DEF SaveProcessing, AtOperator
<1>2. operator[o].status \in Undecided /\ operator[o].payout \notin byHand
  BY <1>1 DEF DeskSound
<1>3. /\ operator'[o].pc = "transfer" /\ operator'[o].status = "processing"
      /\ operator'[o].payout = operator[o].payout /\ payout'[operator[o].payout].status = "processing"
  BY <1>1, SavedAt, StoredAt
<1>4. DeskSound(o)'
  BY <1>1, <1>2, <1>3 DEF DeskSound, Undecided
<1> QED
  BY <1>1, <1>2, <1>4, DeskSaves DEF Undecided

LEMMA DeskRecords ==
    ASSUME OneDesk, DeskInv, PayoutsInv', NEW o \in Operators, RecordTransfer(o)
    PROVE  DeskInv'
<1>1. /\ operator[o].pc = "record" /\ UNCHANGED <<commission, request, bank, byHand, faults>>
      /\ DeskSound(o) /\ PayoutsInv
  BY DeskHas DEF RecordTransfer, AtOperator
<1>2. operator[o].status \in Undecided
  BY <1>1 DEF DeskSound
<1>3. CASE Settled(operator[o].payout)
  <2>1. SaveStatus(o, "paid", "mark")
    BY <1>3 DEF RecordTransfer
  <2>2. /\ operator'[o].pc = "mark" /\ operator'[o].status = "paid"
        /\ operator'[o].payout = operator[o].payout /\ payout'[operator[o].payout].status = "paid"
    BY <1>1, <2>1, SavedAt, StoredAt
  <2>3. DeskSound(o)'
    BY <1>1, <1>3, <2>2 DEF DeskSound, Settled, Moved
  <2> QED
    BY <1>1, <1>2, <2>1, <2>3, DeskSaves DEF Undecided
<1>4. CASE ~Settled(operator[o].payout)
  <2>1. SaveStatus(o, "processing", "idle")
    BY <1>4 DEF RecordTransfer, AfterQueued
  <2>2. operator'[o].pc = "idle"
    BY <1>1, <2>1, SavedAt
  <2>3. DeskSound(o)'
    BY <2>2 DEF DeskSound
  <2>4. ~("write" \notin faults /\ operator[o].status = "paid")
    <3>1. operator[o].status # "paid"
      BY <1>2 DEF Undecided
    <3> QED
      BY <3>1
  <2> QED
    BY <1>1, <1>2, <2>1, <2>3, <2>4, DeskSaves DEF Undecided
<1> QED
  BY <1>3, <1>4

LEMMA DeskSettles ==
    ASSUME OneDesk, DeskInv, PayoutsInv', NEW o \in Operators, SaveSettled(o)
    PROVE  DeskInv'
<1>1. /\ operator[o].pc = "settle" /\ SaveStatus(o, "paid", "markByHand") /\ DeskSound(o)
      /\ UNCHANGED <<commission, request, bank, byHand, faults>> /\ PayoutsInv
  BY DeskHas DEF SaveSettled, AtOperator
<1>2. operator[o].status \in Undecided /\ Moved(operator[o].payout)
  BY <1>1 DEF DeskSound
<1>3. /\ operator'[o].pc = "markByHand" /\ operator'[o].status = "paid"
      /\ operator'[o].payout = operator[o].payout /\ payout'[operator[o].payout].status = "paid"
  BY <1>1, SavedAt, StoredAt
<1>4. DeskSound(o)'
  BY <1>1, <1>2, <1>3 DEF DeskSound, Moved
<1> QED
  BY <1>1, <1>2, <1>4, DeskSaves DEF Undecided

LEMMA DeskFails ==
    ASSUME OneDesk, DeskInv, PayoutsInv', NEW o \in Operators, SaveFailed(o)
    PROVE  DeskInv'
<1>1. /\ operator[o].pc = "fail" /\ SaveStatus(o, "failed", "release") /\ DeskSound(o)
      /\ UNCHANGED <<commission, request, bank, byHand, faults>> /\ PayoutsInv
  BY DeskHas DEF SaveFailed, AtOperator
<1>2. /\ "write" \notin faults => operator[o].status \in Undecided
      /\ faults \cap {"lost", "write"} = {} => Unmoved(operator[o].payout)
  BY <1>1 DEF DeskSound
<1>3. /\ operator'[o].pc = "release" /\ operator'[o].status = "failed"
      /\ operator'[o].payout = operator[o].payout /\ payout'[operator[o].payout].status = "failed"
  BY <1>1, SavedAt, StoredAt
<1>4. DeskSound(o)'
  BY <1>3 DEF DeskSound
<1>5. ~("write" \notin faults /\ operator[o].status = "paid")
  BY <1>2 DEF Undecided
<1> QED
  BY <1>1, <1>2, <1>4, <1>5, DeskSaves

(* A call that ends in an error, or whose last write failed *)
LEMMA DeskEnds ==
    ASSUME OneDesk, DeskInv, PayoutsInv', NEW o \in Operators, OperatorRejects(o)
    PROVE  DeskInv'
<1>1. /\ operator[o].pc # "idle" /\ operator' = [operator EXCEPT ![o] = NoOperator]
      /\ UNCHANGED <<commission, payout, request, bank, byHand>> /\ faults \subseteq faults'
      /\ operator \in [Operators -> Operator]
  BY DeskHas, Typed DEF OperatorRejects, SetOperator, Fault
<1>2. DeskSound(o)'
  BY <1>1, RestTyped DEF DeskSound
<1> QED
  BY <1>1, <1>2, DeskMoves

(* The commissions of a payout that is paid, by a call that ends or goes on *)
(* because its last write failed                                            *)
LEMMA DeskMarks ==
    ASSUME OneDesk, DeskInv, PayoutsInv', NEW o \in Operators,
           operator[o].pc \in {"mark", "markByHand"}, commission' = MarkedPaid(operator[o].payout),
           UNCHANGED <<payout, request, bank, byHand>>, faults \subseteq faults', DeskSound(o)'
    PROVE  DeskInv'
<1>1. DeskSound(o) /\ OperatorSound(o) /\ PayoutsInv
  BY DeskHas, Typed
<1> PICK n \in Payouts : n = operator[o].payout
  BY <1>1 DEF OperatorSound
<1>2. /\ payout[n].status = "paid" /\ Moved(n) /\ Kept(n)
  BY <1>1, AtDesk DEF DeskSound
<1>3. \A c \in Commissions :
         /\ commission[c].payout # n => commission'[c] = commission[c]
         /\ commission'[c].payout = commission[c].payout
  BY <1>1, MarkedFacts DEF MarkedPaid, PaidInto
<1>4. Kept(n)'
  BY <1>2, <1>3 DEF Kept, Unmoved, PaidInto
<1>5. ASSUME NEW c \in Commissions, commission'[c].status = "paid", commission[c].payout = n
      PROVE  /\ commission'[c].payout = n
             /\ "write" \notin faults' => payout'[n].status = "paid"
             /\ bank'[n] = "processed" \/ n \in byHand'
  BY <1>2, <1>3, <1>5 DEF Moved
<1> QED
  BY <1>2, <1>3, <1>4, <1>5, DeskStep

LEMMA DeskMarksAndEnds ==
    ASSUME OneDesk, DeskInv, PayoutsInv', NEW o \in Operators, MarkCommissionsPaid(o)
    PROVE  DeskInv'
<1>1. /\ operator' = [operator EXCEPT ![o] = NoOperator] /\ operator \in [Operators -> Operator]
  BY DeskHas, Typed DEF MarkCommissionsPaid, SetOperator
<1>2. DeskSound(o)'
  BY <1>1, RestTyped DEF DeskSound
<1> QED
  BY <1>2, DeskMarks DEF MarkCommissionsPaid

LEMMA DeskWriteFails ==
    ASSUME OneDesk, DeskInv, PayoutsInv', NEW o \in Operators, WriteFails(o)
    PROVE  DeskInv'
<1>1. /\ operator[o].pc \in {"record", "mark"} /\ UNCHANGED <<payout, request, bank, byHand>>
      /\ operator' = [operator EXCEPT ![o] = [operator[o] EXCEPT !.pc = "fail"]]
      /\ faults \subseteq faults' /\ "write" \in faults'
      /\ operator \in [Operators -> Operator] /\ operator[o] \in Operator /\ DeskSound(o)
  BY DeskHas, Typed DEF WriteFails, SetOperator, Fault
<1> DEFINE q == [operator[o] EXCEPT !.pc = "fail"]
<1>2. q.pc = "fail" /\ q.status = operator[o].status /\ q.payout = operator[o].payout
  BY <1>1 DEF Operator
<1>3. operator'[o] = q
  BY <1>1
<1> HIDE DEF q
<1>4. DeskSound(o)'
  BY <1>1, <1>2, <1>3 DEF DeskSound
<1>5. CASE UNCHANGED commission
  BY <1>1, <1>4, <1>5, DeskMoves
<1>6. CASE operator[o].pc = "mark" /\ commission' = MarkedPaid(operator[o].payout)
  BY <1>1, <1>4, <1>6, DeskMarks
<1> QED
  BY <1>5, <1>6 DEF WriteFails

LEMMA DeskReleases ==
    ASSUME OneDesk, DeskInv, PayoutsInv', NEW o \in Operators, ReleaseClaim(o)
    PROVE  DeskInv'
<1>1. /\ operator[o].pc = "release" /\ commission' = Released(operator[o].payout)
      /\ operator' = [operator EXCEPT ![o] = NoOperator] /\ operator \in [Operators -> Operator]
      /\ UNCHANGED <<payout, request, bank, byHand, faults>>
      /\ DeskSound(o) /\ OperatorSound(o) /\ PayoutsInv
  BY DeskHas, Typed DEF ReleaseClaim, SetOperator, AtOperator
<1> PICK n \in Payouts : n = operator[o].payout
  BY <1>1 DEF OperatorSound
<1>2. payout[n].status = "failed" /\ Kept(n)
  BY <1>1, AtDesk DEF DeskSound
<1>3. DeskSound(o)'
  BY <1>1, RestTyped DEF DeskSound
<1>4. Kept(n)'
  BY <1>1, <1>2 DEF Kept, Unmoved
<1>5. \A c \in Commissions : commission[c].payout # n => commission'[c] = commission[c]
  BY <1>1 DEF Released, PaidInto
<1>6. ASSUME NEW c \in Commissions, commission'[c].status = "paid", commission[c].payout = n
      PROVE  /\ commission'[c].payout = n
             /\ "write" \notin faults' => payout'[n].status = "paid"
             /\ bank'[n] = "processed" \/ n \in byHand'
  <2>1. commission'[c] = commission[c]
    BY <1>1, <1>6, ReleasedFacts
  <2> QED
    BY <1>1, <1>6, <2>1, PaidHere DEF Moved
<1> QED
  BY <1>1, <1>2, <1>3, <1>4, <1>5, <1>6, DeskStep

LEMMA DeskOperator ==
    ASSUME OneDesk, DeskInv, PayoutsInv', NEW o \in Operators, OperatorStep(o)
    PROVE  DeskInv'
BY DeskStarts, DeskTransfers, DeskProcesses, DeskRecords, DeskSettles, DeskFails, DeskEnds,
   DeskMarksAndEnds, DeskWriteFails, DeskReleases DEF OperatorStep
-----------------------------------------------------------------------------
LEMMA DeskEarning ==
    ASSUME DeskInv, PayoutsInv', EarningStep
    PROVE  DeskInv'
<1> PICK c \in Commissions : Award(c) \/ Mature(c) \/ LoadReversal(c) \/ SaveReversal(c)
  BY DEF EarningStep
<1>1. UNCHANGED <<payout, request, operator, bank, byHand, faults>>
  BY DEF Award, Mature, LoadReversal, SaveReversal
<1>2. commission \in [Commissions -> Commission]
  BY DeskHas, Typed
<1>3. \A d \in Commissions :
         /\ commission'[d].payout = commission[d].payout
         /\ commission'[d] = commission[d] \/ commission'[d].status \in {"pending", "reversed"}
  BY <1>2 DEF Award, Mature, LoadReversal, SaveReversal, Commission
<1> QED
  BY <1>1, <1>3, StoreKeepsDesk

LEMMA DeskRequest ==
    ASSUME DeskInv, PayoutsInv', NEW r \in Requests, RequestStep(r)
    PROVE  DeskInv'
<1>1. PayoutsInv /\ RequestSound(r)
  BY DeskHas, Typed
<1>2. UNCHANGED <<operator, bank, byHand>> /\ faults \subseteq faults'
  BY DEF RequestStep, StartRequest, ReadForRequest, CheckRequest, ClaimOne, ClaimDone, SumClaim,
         CreatePayout, ReleaseRequest, RequestRejects, Fault
<1>3. CASE UNCHANGED <<commission, payout>>
  BY <1>2, <1>3, StoreKeepsDesk
<1>4. CASE \E c \in Commissions : ClaimOne(r, c)
  <2> PICK c \in Commissions : ClaimOne(r, c)
    BY <1>4
  <2>1. UNCHANGED payout /\ commission \in [Commissions -> Commission]
    BY <1>1, Typed DEF ClaimOne
  <2> DEFINE x == [status |-> "claimed", payout |-> request[r].payout]
  <2>2. x.status = "claimed"
    OBVIOUS
  <2>3. \/ UNCHANGED commission
        \/ commission[c].payout = NoPayout /\ commission' = [commission EXCEPT ![c] = x]
    BY DEF ClaimOne, Taken, Claimable
  <2> HIDE DEF x
  <2>4. \A d \in Commissions : \/ commission'[d] = commission[d]
                               \/ commission'[d].status = "claimed" /\ commission[d].payout = NoPayout
    BY <2>1, <2>2, <2>3
  <2> QED
    BY <1>2, <2>1, <2>4, StoreKeepsDesk, PayoutAssumption
<1>5. CASE CreatePayout(r) /\ ~UNCHANGED payout
  <2>1. /\ request[r].pc = "create" /\ UNCHANGED commission
        /\ payout' = [payout EXCEPT ![request[r].payout] =
                        [status |-> "requested", gross |-> request[r].gross]]
    BY <1>5 DEF CreatePayout, AtRequest
  <2> PICK p \in Payouts : p = request[r].payout
    BY <1>1, <2>1 DEF RequestSound
  <2>2. payout[p].status = "none" /\ PaidInto(p) = request[r].gross /\ payout \in [Payouts -> Payout]
    BY <1>1, <2>1, Typed DEF RequestSound
  <2>3. PaidInto(p)' = PaidInto(p)
    BY <2>1 DEF PaidInto
  <2> DEFINE x == [status |-> "requested", gross |-> request[r].gross]
  <2>4. x.status = "requested" /\ x.gross = PaidInto(p)'
    BY <2>2, <2>3
  <2>5. payout' = [payout EXCEPT ![p] = x]
    BY <2>1
  <2> HIDE DEF x
  <2>6. \A n \in Payouts : \/ payout'[n] = payout[n]
                           \/ n = p /\ payout'[n] = x
    BY <2>2, <2>5
  <2>7. \A n \in Payouts : \/ payout'[n] = payout[n]
                           \/ /\ payout[n].status = "none" /\ payout'[n].status = "requested"
                              /\ payout'[n].gross = PaidInto(n)'
    BY <2>2, <2>4, <2>6
  <2> QED
    BY <1>2, <2>1, <2>7, StoreKeepsDesk
<1>6. CASE ReleaseRequest(r)
  <2>1. /\ request[r].pc = "release" /\ UNCHANGED payout /\ commission' = Released(request[r].payout)
    BY <1>6 DEF ReleaseRequest, AtRequest
  <2> PICK p \in Payouts : p = request[r].payout
    BY <1>1, <2>1 DEF RequestSound
  <2>2. payout[p].status = "none"
    BY <1>1, <2>1 DEF RequestSound
  <2>3. \A c \in Commissions : \/ commission'[c] = commission[c]
                               \/ commission'[c].status = "available" /\ commission[c].payout = p
    BY <1>1, <2>1, ReleasedFacts
  <2> QED
    BY <1>2, <2>1, <2>2, <2>3, StoreKeepsDesk
<1>7. UNCHANGED <<commission, payout>> \/ (\E c \in Commissions : ClaimOne(r, c))
         \/ CreatePayout(r) \/ ReleaseRequest(r)
  BY DEF RequestStep, StartRequest, ReadForRequest, CheckRequest, ClaimDone, SumClaim, RequestRejects
<1>8. CreatePayout(r) => UNCHANGED commission
  BY DEF CreatePayout
<1> QED
  BY <1>3, <1>4, <1>5, <1>6, <1>7, <1>8

(* What the bank decides was not transferred by hand. *)
LEMMA DeskBank ==
    ASSUME DeskInv, PayoutsInv', NEW p \in Payouts, BankDecides(p)
    PROVE  DeskInv'
<1>1. /\ bank[p] = "queued" /\ UNCHANGED <<commission, payout, operator, byHand, faults>>
      /\ \A n \in Payouts \ {p} : bank'[n] = bank[n]
      /\ p \notin byHand
  BY DeskHas DEF BankDecides, Kept
<1>2. ASSUME NEW n \in Payouts
      PROVE  (Moved(n) => Moved(n)') /\ (Unmoved(n) => Unmoved(n)')
  BY <1>1 DEF Moved, Unmoved
<1>3. ASSUME NEW o \in Operators PROVE DeskSound(o)'
  <2>1. DeskSound(o) /\ OperatorSound(o)
    BY DeskHas, Typed
  <2>2. CASE operator[o].pc = "idle"
    BY <1>1, <2>2 DEF DeskSound
  <2>3. CASE operator[o].pc # "idle"
    <3> PICK n \in Payouts : n = operator[o].payout
      BY <2>1, <2>3 DEF OperatorSound
    <3>1. (Moved(n) => Moved(n)') /\ (Unmoved(n) => Unmoved(n)')
      BY <1>2
    <3> QED
      BY <1>1, <2>1, <3>1 DEF DeskSound, Moved, Unmoved
  <2> QED
    BY <2>2, <2>3
<1>4. ASSUME NEW n \in Payouts PROVE Kept(n)'
  <2>1. Kept(n) /\ PaidInto(n)' = PaidInto(n)
    BY <1>1, DeskHas DEF PaidInto
  <2>2. n \in byHand' => bank'[n] \in {"none", "rejected"}
    BY <1>1, <2>1 DEF Kept
  <2> QED
    BY <1>1, <1>2, <2>1, <2>2 DEF Kept
<1>5. ASSUME NEW c \in Commissions, commission'[c].status = "paid"
      PROVE  /\ c \in payout'[commission'[c].payout].gross
             /\ "write" \notin faults' => payout'[commission'[c].payout].status = "paid"
             /\ bank'[commission'[c].payout] = "processed" \/ commission'[c].payout \in byHand'
  <2> PICK n \in Payouts : n = commission[c].payout
    BY <1>1, <1>5, DeskHas, Typed DEF CommissionSound
  <2>1. /\ c \in payout[n].gross /\ ("write" \notin faults => payout[n].status = "paid")
        /\ Moved(n)
    BY <1>1, <1>5, DeskHas DEF PaidWasTransferred, Status, Moved
  <2>2. Moved(n)'
    BY <1>2, <2>1
  <2> QED
    BY <1>1, <2>1, <2>2 DEF Moved
<1>6. PaidWasTransferred'
  BY <1>5 DEF PaidWasTransferred, Status
<1> QED
  BY <1>3, <1>4, <1>6 DEF DeskInv

LEMMA DeskCrash ==
    ASSUME DeskInv, PayoutsInv', Crash
    PROVE  DeskInv'
<1>1. /\ UNCHANGED <<commission, payout, bank, byHand>> /\ faults \subseteq faults'
      /\ operator' = [o \in Operators |-> NoOperator]
  BY DEF Crash, Fault
<1>2. \A o \in Operators : DeskSound(o)'
  BY <1>1, RestTyped DEF DeskSound
<1>3. \A p \in Payouts : Kept(p)'
  BY <1>1, DeskHas DEF Kept, Unmoved, PaidInto
<1>4. PaidWasTransferred'
  BY <1>1, DeskHas DEF PaidWasTransferred, Status
<1> QED
  BY <1>2, <1>3, <1>4 DEF DeskInv

LEMMA DeskInvInit == Init => DeskInv
<1> SUFFICES ASSUME Init PROVE DeskInv
  OBVIOUS
<1>1. PayoutsInv
  BY PayoutsInit
<1>2. /\ operator = [o \in Operators |-> NoOperator] /\ bank = [p \in Payouts |-> "none"] /\ byHand = {}
      /\ \A c \in Commissions : commission[c].status = "none"
      /\ \A p \in Payouts : payout[p].gross = {} /\ payout[p].status = "none"
  BY DEF Init
<1>3. \A o \in Operators : DeskSound(o)
  BY <1>2, RestTyped DEF DeskSound
<1>4. \A p \in Payouts : Kept(p)
  BY <1>2 DEF Kept
<1>5. PaidWasTransferred
  BY <1>2 DEF PaidWasTransferred, Status
<1> QED
  BY <1>1, <1>3, <1>4, <1>5 DEF DeskInv

LEMMA DeskInvNext ==
    ASSUME OneDesk, DeskInv, [Next]_vars
    PROVE  DeskInv'
<1>1. PayoutsInv'
  BY DeskHas, PayoutsNext
<1>2. CASE UNCHANGED vars
  BY <1>1, <1>2, StoreKeepsDesk DEF vars
<1> QED
  BY <1>1, <1>2, DeskEarning, DeskRequest, DeskOperator, DeskBank, DeskCrash DEF Next

(* The second inductive invariant: what one operator's call relies on.  It  *)
(* needs the first one, which says whose payout each call is about.         *)
THEOREM DeskIsSound ==
    ASSUME OneDesk
    PROVE  Spec => []DeskInv
<1>1. Init => DeskInv
  BY DeskInvInit
<1>2. DeskInv /\ [Next]_vars => DeskInv'
  BY DeskInvNext
<1> QED
  BY <1>1, <1>2, PTL DEF Spec

(* However many requests claim at once, and whatever faults happen, a       *)
(* commission is in the amount of one payout that was not failed            *)
(* (payouts.ts, requestPayout and releaseClaim).                            *)
THEOREM EarningsPaidOutOnce ==
    ASSUME OneDesk
    PROVE  Spec => []EarningsInOnePayout
<1>1. ASSUME DeskInv PROVE EarningsInOnePayout
  BY <1>1, DeskHas DEF EarningsInOnePayout, Kept, PaidInto
<1> QED
  BY <1>1, DeskIsSound, PTL

(* Transfers of one commission: of its one payout, and one way only. *)
LEMMA OneTransfer ==
    ASSUME DeskInv, faults \cap {"lost", "write"} = {}, NEW c \in Commissions,
           NEW p \in Payouts, NEW n \in Payouts, NEW s \in Transfers(p), NEW t \in Transfers(n),
           c \in payout[p].gross, c \in payout[n].gross
    PROVE  p = n /\ s = t
<1>1. Kept(p) /\ Kept(n)
  BY DeskHas
<1>2. ~Unmoved(p) /\ ~Unmoved(n)
  BY DEF Transfers, Unmoved
<1>3. commission[c].payout = p /\ commission[c].payout = n
  BY <1>1, <1>2 DEF Kept, PaidInto
<1>4. s = t
  BY <1>1, <1>3 DEF Kept, Transfers
<1> QED
  BY <1>3, <1>4

LEMMA SamePair ==
    ASSUME NEW A, NEW B, NEW s \in A \X B, NEW t \in A \X B, s[1] = t[1], s[2] = t[2]
    PROVE  s = t
OBVIOUS

LEMMA AtMostOne ==
    ASSUME NEW S, \A s, t \in S : s = t
    PROVE  Cardinality(S) <= 1
<1>1. CASE S = {}
  BY <1>1, FS_EmptySet
<1>2. CASE S # {}
  <2> PICK s \in S : TRUE
    BY <1>2
  <2>1. S = {s}
    OBVIOUS
  <2>2. Cardinality({s}) = 1
    BY FS_Singleton
  <2> QED
    BY <2>1, <2>2
<1> QED
  BY <1>1, <1>2

(* As long as every answer of the bank arrives and is stored, a commission  *)
(* is transferred at most once, and what is recorded as paid has left       *)
(* (payouts.ts, sendPayout and settlePayoutManually).                       *)
THEOREM PaidIsTrueAndOnce ==
    ASSUME OneDesk
    PROVE  Spec => []PaidIsTransferredOnce
<1>1. ASSUME DeskInv PROVE PaidIsTransferredOnce
  <2>1. PaidWasTransferred
    BY <1>1, DeskHas
  <2>2. ASSUME faults \cap {"lost", "write"} = {}, NEW c \in Commissions
        PROVE  Cardinality({t \in Payouts \X {"RazorpayX", "by hand"} :
                               c \in payout[t[1]].gross /\ t[2] \in Transfers(t[1])}) <= 1
    <3> DEFINE S == {t \in Payouts \X {"RazorpayX", "by hand"} :
                        c \in payout[t[1]].gross /\ t[2] \in Transfers(t[1])}
    <3>1. ASSUME NEW s \in S, NEW t \in S PROVE s = t
      <4>1. /\ s \in Payouts \X {"RazorpayX", "by hand"} /\ t \in Payouts \X {"RazorpayX", "by hand"}
            /\ c \in payout[s[1]].gross /\ s[2] \in Transfers(s[1])
            /\ c \in payout[t[1]].gross /\ t[2] \in Transfers(t[1])
        OBVIOUS
      <4> HIDE DEF S
      <4>2. s[1] \in Payouts /\ t[1] \in Payouts
        BY <4>1
      <4> PICK p \in Payouts, n \in Payouts : p = s[1] /\ n = t[1]
        BY <4>2
      <4> PICK x \in Transfers(p), y \in Transfers(n) : x = s[2] /\ y = t[2]
        BY <4>1
      <4>3. c \in payout[p].gross /\ c \in payout[n].gross
        BY <4>1
      <4>4. p = n /\ x = y
        BY <1>1, <2>2, <4>3, OneTransfer
      <4>5. s[1] = t[1] /\ s[2] = t[2]
        BY <4>4
      <4> QED
        BY <4>1, <4>5, SamePair
    <3> HIDE DEF S
    <3>2. Cardinality(S) <= 1
      BY <3>1, AtMostOne
    <3> QED
      BY <3>2 DEF S
  <2> QED
    BY <2>1, <2>2 DEF PaidIsTransferredOnce, PaidOnceIfRecorded, PaidOnce
<1> QED
  BY <1>1, DeskIsSound, PTL
-----------------------------------------------------------------------------
(* PayoutDesk: the account, and what each call has loaded of it.  While no  *)
(* details were changed under way, that is the account on file.             *)

DeskTypes ==
    /\ account \in [details: Account, confirmed: BOOLEAN]
    /\ asked \in [Requests -> Account \cup {Unread}]
    /\ loaded \in [Operators -> Account \cup {Unread}]
    /\ confirming \subseteq Operators
    /\ destination \in [Payouts -> Account] /\ sentTo \in [Payouts -> Account]
    /\ moved \in BOOLEAN /\ missed \in BOOLEAN

(* Money has arrived at the account on file. *)
Evidence == \E p \in Payouts : account.details \in ArrivedAt(p)

AsksTruly(r) ==
    /\ request[r].pc = "idle" => asked[r] = Unread
    /\ request[r].pc \notin {"idle", "read"} => asked[r] # Unread
    /\ ~moved /\ asked[r] # Unread => asked[r] = account.details

SendsTruly(o) ==
    /\ operator[o].pc = "idle" => loaded[o] = Unread
    /\ operator[o].pc = "transfer" => loaded[o] # Unread
    /\ operator[o].pc \in {"settle", "mark", "markByHand"} => Moved(operator[o].payout)
    /\ ~moved /\ loaded[o] # Unread => loaded[o] = account.details
    /\ ~moved /\ operator[o].pc # "idle" => destination[operator[o].payout] = account.details
    /\ ~moved /\ o \in confirming => Evidence

RecordTrue(p) ==
    /\ payout[p].status = "none" => bank[p] = "none" /\ p \notin byHand
    /\ ~moved /\ p \in Open => destination[p] = account.details
    /\ ~moved /\ bank[p] # "none" => sentTo[p] = destination[p]

RecordsInv ==
    /\ PayoutsInv
    /\ DeskTypes
    /\ ~moved /\ account.confirmed => Evidence
    /\ \A r \in Requests : AsksTruly(r)
    /\ \A o \in Operators : SendsTruly(o)
    /\ \A p \in Payouts : RecordTrue(p)

(* What the page has read is true unless a call has changed it since, and   *)
(* then the page has not been answered yet.                                 *)
Created == {p \in Payouts : payout[p].status # "none"}

OneRequest ==
    /\ \A r \in Requests : request[r].pc # "idle" => page.ask = "sent"
    /\ \A r, s \in Requests : request[r].pc # "idle" /\ request[s].pc # "idle" => r = s

AccountRead ==
    ~missed /\ page.save # "stored" =>
       /\ page.fetch = "read" => page.got.account = account.details
       /\ page.fetch = "none" /\ Shown => page.summary.account = account.details

PayoutsRead ==
    ~missed /\ page.ask # "created" =>
       /\ page.fetch = "read" => Created \subseteq page.got.payouts
       /\ page.fetch = "none" /\ Shown => Created \subseteq page.summary.payouts

(* Details that were stored once stay, and the form is closed beside them. *)
FormOffered ==
    /\ page.save = "sent" => page.entered # NoDetails
    /\ page.save \in {"stored", "refetch"} => account.details # NoDetails
    /\ account.details = NoDetails =>
          page.got.account = NoDetails /\ (Shown => page.summary.account = NoDetails)
    /\ Shown /\ page.form = "closed" =>
          page.summary.account # NoDetails \/ account.details # NoDetails

PageInv ==
    /\ page \in Page /\ account \in [details: Account, confirmed: BOOLEAN]
    /\ OneRequest /\ AccountRead /\ PayoutsRead /\ FormOffered

LEMMA RecordsHave ==
    ASSUME RecordsInv
    PROVE  /\ PayoutsInv /\ DeskTypes
           /\ bank \in [Payouts -> {"none", "queued", "processed", "rejected"}] /\ byHand \subseteq Payouts
           /\ ~moved /\ account.confirmed => Evidence
           /\ \A r \in Requests : AsksTruly(r)
           /\ \A o \in Operators : SendsTruly(o)
           /\ \A p \in Payouts : RecordTrue(p)
BY DEF RecordsInv, PayoutsInv, TypeOK

(* Money that has arrived stays, and its record too. *)
LEMMA EvidenceStays ==
    ASSUME Evidence, account'.details = account.details,
           \A p \in Payouts : bank[p] = "processed" => bank'[p] = "processed" /\ sentTo'[p] = sentTo[p],
           \A p \in Payouts : p \in byHand => p \in byHand' /\ destination'[p] = destination[p]
    PROVE  Evidence'
<1> PICK p \in Payouts : account.details \in ArrivedAt(p)
  BY DEF Evidence
<1>1. account'.details \in ArrivedAt(p)'
  BY DEF ArrivedAt
<1> QED
  BY <1>1 DEF Evidence

(* A request that finds no account ends; it has claimed nothing. *)
LEMMA RefusalInv ==
    ASSUME PayoutsInv, NEW r \in Requests, RefuseWithoutAccount(r)
    PROVE  PayoutsInv'
<1>1. RestOK /\ UNCHANGED <<commission, payout, operator>> /\ SetRequest(r, NoRequest)
  BY RestStays DEF RefuseWithoutAccount
<1>2. request[r].payout = NoPayout
  BY Typed DEF RequestSound, RefuseWithoutAccount, AtRequest
<1> QED
  BY <1>1, <1>2, RequestEndsInv

LEMMA ProceedsAsRequest ==
    ASSUME NEW r \in Requests, Proceed(r)
    PROVE  RequestStep(r)
BY DEF Proceed, RequestStep

(* Beside the page, the payouts are those of ReferralPayouts. *)
LEMMA PayoutsDeskNext ==
    ASSUME PayoutsInv, [DeskNext]_allVars
    PROVE  PayoutsInv'
<1>1. CASE UNCHANGED vars
  BY <1>1, PayoutsNext
<1>2. CASE PageStep
  BY <1>1, <1>2 DEF PageStep, Refetch, AnswerSummary, ShowSummary, LoseSummary, ToggleForm, StoreDetails,
                    SaveAnswered, AskAnswered, LoseAnswer, SaveDetails
<1>3. ASSUME NEW r \in Requests, AskPayout(r) \/ ReadAccount(r) \/ RefuseWithoutAccount(r) \/ Proceed(r)
      PROVE  PayoutsInv'
  <2>1. CASE AskPayout(r)
    BY <2>1, StartRequestInv DEF AskPayout
  <2>2. CASE ReadAccount(r)
    BY <1>1, <2>2 DEF ReadAccount
  <2> QED
    BY <1>3, <2>1, <2>2, RefusalInv, ProceedsAsRequest, RequestInv
<1>4. ASSUME NEW o \in Operators, LoadAccount(o) \/ Operate(o) \/ Confirm(o)
      PROVE  PayoutsInv'
  <2>1. CASE Operate(o)
    BY <2>1, OperatorInv DEF Operate
  <2> QED
    BY <1>1, <1>4, <2>1 DEF LoadAccount, Confirm
<1>5. ASSUME NEW c \in Commissions, Award(c) \/ Mature(c)
      PROVE  PayoutsInv'
  BY <1>5, AwardInv, OtherEarningInv
<1>6. UNCHANGED allVars => UNCHANGED vars
  BY DEF allVars
<1> QED
  BY <1>1, <1>2, <1>3, <1>4, <1>5, <1>6, BankInv DEF DeskNext

(* What a step of an operator's call does to the call *)
CallEffect(o) ==
    /\ UNCHANGED request
    /\ \A u \in Operators \ {o} : operator'[u] = operator[u]
    /\ operator'[o].pc = "idle" => operator'[o] = NoOperator
    /\ operator'[o].pc # "idle" =>
          \/ operator[o].pc # "idle" /\ operator'[o].payout = operator[o].payout
          \/ operator[o].pc = "idle" /\ operator'[o].payout \in Open
    /\ operator'[o].pc = "transfer" => operator[o].pc = "process"
    /\ \A p \in Payouts :
          operator'[o].pc \in {"settle", "mark", "markByHand"} /\ operator'[o].payout = p => Moved(p)'

(* ... and to what is stored, and what is transferred *)
StoreEffect(o) ==
    /\ \A p \in Payouts : payout'[p].status = "none" <=> payout[p].status = "none"
    /\ \A p \in Payouts : payout'[p].status \in {"requested", "processing"} =>
          p \in Open \/ (operator[o].pc # "idle" /\ operator[o].payout = p)
    /\ \A p \in Payouts : bank'[p] # bank[p] =>
          operator[o].pc = "transfer" /\ operator[o].payout = p /\ bank[p] = "none"
    /\ byHand \subseteq byHand'
    /\ \A p \in byHand' : p \in byHand \/ payout[p].status # "none"

LEMMA OpenIs ==
    ASSUME PayoutsInv, NEW p \in Payouts
    PROVE  p \in Open <=> payout[p].status \in {"requested", "processing"}
BY DEF Open

LEMMA StartEffect ==
    ASSUME PayoutsInv, ~RetryFailed, NEW o \in Operators, NEW p \in Payouts,
           NEW pc \in {"process", "settle", "fail"}, StartOperator(o, p, pc)
    PROVE  CallEffect(o) /\ StoreEffect(o)
<1>1. /\ operator[o].pc = "idle" /\ UNCHANGED <<payout, request, bank>> /\ payout[p].status # "none"
      /\ operator \in [Operators -> Operator]
  BY Typed DEF StartOperator, AtOperator
<1>2. p \in Open
  BY OpenIs, Typed DEF StartOperator, Sensible, Payout
<1> DEFINE q == [pc |-> pc, payout |-> p, status |-> payout[p].status]
<1>3. q.pc = pc /\ q.payout = p /\ operator' = [operator EXCEPT ![o] = q]
  BY DEF StartOperator, SetOperator
<1> HIDE DEF q
<1>4. operator'[o] = q /\ \A u \in Operators \ {o} : operator'[u] = operator[u]
  BY <1>1, <1>3
<1>5. byHand \subseteq byHand' /\ byHand' \subseteq byHand \cup {p}
  BY DEF StartOperator
<1>6. pc = "settle" => Moved(p)'
  BY DEF StartOperator, Moved
<1>7. CallEffect(o)
  BY <1>1, <1>2, <1>3, <1>4, <1>6 DEF CallEffect
<1>8. StoreEffect(o)
  BY <1>1, <1>5, OpenIs DEF StoreEffect
<1> QED
  BY <1>7, <1>8

LEMMA TransferEffect ==
    ASSUME PayoutsInv, NEW o \in Operators,
           TransferTaken(o) \/ TransferRefused(o) \/ TransferTimesOut(o)
    PROVE  CallEffect(o) /\ StoreEffect(o)
<1>1. /\ operator[o].pc = "transfer" /\ UNCHANGED <<commission, payout, request, byHand>>
      /\ operator \in [Operators -> Operator] /\ operator[o] \in Operator
  BY Typed DEF TransferTaken, TransferRefused, TransferTimesOut, AtOperator
<1> PICK pc \in {"record", "fail"} : operator' = [operator EXCEPT ![o] = [operator[o] EXCEPT !.pc = pc]]
  BY DEF TransferTaken, TransferRefused, TransferTimesOut, SetOperator
<1> DEFINE q == [operator[o] EXCEPT !.pc = pc]
<1>2. q.pc = pc /\ q.payout = operator[o].payout
  BY <1>1 DEF Operator
<1>3. operator'[o] = q /\ \A u \in Operators \ {o} : operator'[u] = operator[u]
  BY <1>1
<1> HIDE DEF q
<1>4. CallEffect(o)
  BY <1>1, <1>2, <1>3 DEF CallEffect
<1>5. \A p \in Payouts : bank'[p] # bank[p] => operator[o].payout = p /\ bank[p] = "none"
  BY DEF TransferTaken, TransferRefused, TransferTimesOut, TakenBy, PayoutsInv, TypeOK
<1> QED
  BY <1>1, <1>4, <1>5, OpenIs DEF StoreEffect

(* The call ends or goes on with the status it has stored. *)
LEMMA SaveEffect ==
    ASSUME PayoutsInv, NEW o \in Operators, operator[o].pc # "idle",
           NEW s \in {"processing", "paid", "failed"}, NEW pc, SaveStatus(o, s, pc),
           UNCHANGED <<request, bank, byHand>>,
           pc = "transfer" => operator[o].pc = "process",
           pc \in {"settle", "mark", "markByHand"} => Moved(operator[o].payout)
    PROVE  CallEffect(o) /\ StoreEffect(o)
<1>1. /\ operator[o] \in Operator /\ operator \in [Operators -> Operator] /\ OperatorSound(o)
      /\ payout \in [Payouts -> Payout]
  BY Typed
<1> PICK n \in Payouts : n = operator[o].payout
  BY <1>1 DEF OperatorSound
<1> DEFINE q == [operator[o] EXCEPT !.status = s, !.pc = pc]
<1>2. q.pc = pc /\ q.payout = n
  BY <1>1 DEF Operator
<1>3. operator' = [operator EXCEPT ![o] = IF pc = "idle" THEN NoOperator ELSE q]
  BY DEF SaveStatus, SetOperator
<1> HIDE DEF q
<1>4. /\ operator'[o] = IF pc = "idle" THEN NoOperator ELSE q
      /\ \A u \in Operators \ {o} : operator'[u] = operator[u]
  BY <1>1, <1>3
<1>5. pc \in {"settle", "mark", "markByHand"} => Moved(n)'
  BY DEF Moved
<1>6. CallEffect(o)
  BY <1>1, <1>2, <1>4, <1>5, RestTyped DEF CallEffect
<1> DEFINE x == [payout[n] EXCEPT !.status = s]
<1>7. payout' = IF s = operator[o].status THEN payout ELSE [payout EXCEPT ![n] = x]
  BY DEF SaveStatus
<1>8. x.status = s
  BY <1>1 DEF Payout
<1> HIDE DEF x
<1>9. payout[n].status # "none" /\ \A p \in Payouts : payout'[p] = payout[p] \/ (p = n /\ payout'[p] = x)
  BY <1>1, <1>7 DEF OperatorSound
<1>10. StoreEffect(o)
  BY <1>8, <1>9, OpenIs DEF StoreEffect
<1> QED
  BY <1>6, <1>10

(* The call ends. *)
LEMMA EndEffect ==
    ASSUME PayoutsInv, NEW o \in Operators, SetOperator(o, NoOperator),
           UNCHANGED <<payout, request, bank, byHand>>
    PROVE  CallEffect(o) /\ StoreEffect(o)
<1>1. /\ operator'[o] = NoOperator
      /\ \A u \in Operators \ {o} : operator'[u] = operator[u]
  BY Typed DEF SetOperator
<1>2. CallEffect(o)
  BY <1>1, RestTyped DEF CallEffect
<1> QED
  BY <1>2, OpenIs DEF StoreEffect

LEMMA WriteFailsEffect ==
    ASSUME PayoutsInv, NEW o \in Operators, WriteFails(o)
    PROVE  CallEffect(o) /\ StoreEffect(o)
<1>1. /\ operator[o].pc \in {"record", "mark"} /\ UNCHANGED <<payout, request, bank, byHand>>
      /\ operator' = [operator EXCEPT ![o] = [operator[o] EXCEPT !.pc = "fail"]]
      /\ operator \in [Operators -> Operator] /\ operator[o] \in Operator
  BY Typed DEF WriteFails, SetOperator
<1> DEFINE q == [operator[o] EXCEPT !.pc = "fail"]
<1>2. q.pc = "fail" /\ q.payout = operator[o].payout
  BY <1>1 DEF Operator
<1>3. operator'[o] = q /\ \A u \in Operators \ {o} : operator'[u] = operator[u]
  BY <1>1
<1> HIDE DEF q
<1>4. CallEffect(o)
  BY <1>1, <1>2, <1>3 DEF CallEffect
<1> QED
  BY <1>1, <1>4, OpenIs DEF StoreEffect

LEMMA OperatorEffect ==
    ASSUME PayoutsInv, ~RetryFailed, NEW o \in Operators, OperatorStep(o),
           operator[o].pc \in {"settle", "mark", "markByHand"} => Moved(operator[o].payout)
    PROVE  CallEffect(o) /\ StoreEffect(o)
<1>1. CASE SaveProcessing(o) \/ SaveSettled(o) \/ SaveFailed(o)
  BY <1>1, SaveEffect DEF SaveProcessing, SaveSettled, SaveFailed, AtOperator
<1>2. CASE RecordTransfer(o)
  BY <1>2, SaveEffect DEF RecordTransfer, AtOperator, AfterQueued, Settled, Moved
<1>3. CASE OperatorRejects(o) \/ MarkCommissionsPaid(o) \/ ReleaseClaim(o)
  BY <1>3, EndEffect DEF OperatorRejects, MarkCommissionsPaid, ReleaseClaim
<1> QED
  BY <1>1, <1>2, <1>3, StartEffect, TransferEffect, WriteFailsEffect DEF OperatorStep

(* Nothing that the records are about changes. *)
LEMMA RecordsStay ==
    ASSUME RecordsInv, PayoutsInv', missed' \in BOOLEAN,
           UNCHANGED <<payout, request, operator, byHand, account, asked, loaded, confirming,
                       destination, sentTo, moved>>,
           \A p \in Payouts : bank'[p] = bank[p] \/ (bank[p] = "queued" /\ bank'[p] # "none")
    PROVE  RecordsInv'
<1>1. Evidence => Evidence'
  BY EvidenceStays
<1>2. DeskTypes'
  BY RecordsHave DEF DeskTypes
<1>3. \A p \in Payouts : Moved(p) => Moved(p)'
  BY DEF Moved
<1>4. \A r \in Requests : AsksTruly(r)'
  BY RecordsHave DEF AsksTruly
<1>5. ASSUME NEW o \in Operators PROVE SendsTruly(o)'
  <2>1. SendsTruly(o) /\ OperatorSound(o)
    BY RecordsHave, Typed
  <2> QED
    BY <1>1, <1>3, <2>1 DEF SendsTruly, OperatorSound
<1>6. \A p \in Payouts : RecordTrue(p)'
  BY RecordsHave DEF RecordTrue, Open
<1> QED
  BY <1>1, <1>2, <1>4, <1>5, <1>6, RecordsHave DEF RecordsInv

(* The details are replaced: by the same ones, or while nothing is under    *)
(* way, or the records are excused.                                         *)
LEMMA RecordsStored ==
    ASSUME RecordsInv, PayoutsInv', StoreDetails, page.entered \in Account
    PROVE  RecordsInv'
<1>1. /\ account'.details = page.entered /\ account'.confirmed = FALSE
      /\ account' \in [details: Account, confirmed: BOOLEAN]
      /\ UNCHANGED <<payout, request, operator, bank, byHand, asked, loaded, confirming,
                     destination, sentTo, missed>>
      /\ moved' \in BOOLEAN
  BY DEF StoreDetails, Replaced, vars, RecordsInv, DeskTypes
<1>2. DeskTypes'
  BY <1>1, RecordsHave DEF DeskTypes
<1>3. ~moved' => ~moved /\ (~UnderWay \/ account'.details = account.details)
  BY <1>1 DEF StoreDetails
<1>4. ~UnderWay => /\ \A r \in Requests : asked[r] = Unread
                   /\ \A o \in Operators : operator[o].pc = "idle" /\ loaded[o] = Unread
                   /\ confirming = {} /\ Open = {}
  BY RecordsHave DEF UnderWay, AsksTruly, SendsTruly, AtRequest, AtOperator
<1>5. Evidence /\ account'.details = account.details => Evidence'
  BY <1>1, EvidenceStays
<1>6. \A r \in Requests : AsksTruly(r)'
  BY <1>1, <1>3, <1>4, RecordsHave DEF AsksTruly
<1>7. ASSUME NEW o \in Operators PROVE SendsTruly(o)'
  <2>1. SendsTruly(o)
    BY RecordsHave
  <2> QED
    BY <1>1, <1>3, <1>4, <1>5, <2>1 DEF SendsTruly, Moved
<1>8. ASSUME NEW p \in Payouts PROVE RecordTrue(p)'
  <2>1. RecordTrue(p) /\ Open' = Open
    BY <1>1, RecordsHave DEF Open
  <2> QED
    BY <1>1, <1>3, <1>4, <2>1 DEF RecordTrue
<1> QED
  BY <1>1, <1>2, <1>6, <1>7, <1>8 DEF RecordsInv

(* Only what the request r has read, and its place, change. *)
LEMMA RecordsAsk ==
    ASSUME RecordsInv, PayoutsInv', NEW r \in Requests,
           UNCHANGED <<operator, bank, byHand, account, loaded, confirming, sentTo, moved>>,
           missed' \in BOOLEAN,
           asked' \in [Requests -> Account \cup {Unread}], AsksTruly(r)',
           \A s \in Requests \ {r} : request'[s] = request[s] /\ asked'[s] = asked[s],
           \/ UNCHANGED <<payout, destination>>
           \/ \E n \in Payouts :
                 /\ payout[n].status = "none" /\ payout'[n].status # "none"
                 /\ \A p \in Payouts \ {n} : payout'[p] = payout[p]
                 /\ asked[r] \in Account /\ asked[r] # Unread
                 /\ destination' = [destination EXCEPT ![n] = asked[r]]
    PROVE  RecordsInv'
<1> PICK n \in Payouts \cup {NoPayout} :
       /\ n \in Payouts => /\ payout[n].status = "none" /\ payout'[n].status # "none"
                           /\ asked[r] # Unread /\ destination'[n] = asked[r]
       /\ \A p \in Payouts : p # n => payout'[p] = payout[p] /\ destination'[p] = destination[p]
       /\ destination' \in [Payouts -> Account]
  BY RecordsHave, PayoutAssumption DEF DeskTypes
<1>1. Evidence => Evidence'
  BY EvidenceStays, RecordsHave DEF RecordTrue
<1>2. DeskTypes'
  BY RecordsHave DEF DeskTypes
<1>3. \A s \in Requests : AsksTruly(s)'
  BY RecordsHave DEF AsksTruly
<1>4. ASSUME NEW o \in Operators PROVE SendsTruly(o)'
  <2>1. SendsTruly(o) /\ OperatorSound(o)
    BY RecordsHave, Typed
  <2> QED
    BY <1>1, <2>1 DEF SendsTruly, OperatorSound, Moved
<1>5. ASSUME NEW p \in Payouts PROVE RecordTrue(p)'
  <2>1. RecordTrue(p) /\ (p \in Open <=> payout[p].status \in {"requested", "processing"})
    BY RecordsHave DEF Open
  <2>2. p \in Open' <=> payout'[p].status \in {"requested", "processing"}
    BY DEF Open
  <2>3. CASE p = n
    <3>1. ~moved => destination'[p] = account.details
      BY <2>3, RecordsHave DEF AsksTruly
    <3> QED
      BY <2>1, <2>3, <3>1 DEF RecordTrue
  <2>4. CASE p # n
    BY <2>1, <2>2, <2>4 DEF RecordTrue
  <2> QED
    BY <2>3, <2>4
<1> QED
  BY <1>1, <1>2, <1>3, <1>4, <1>5, RecordsHave DEF RecordsInv

(* A call that loads the account, or stores that it was paid to *)
LEMMA RecordsLoad ==
    ASSUME RecordsInv, PayoutsInv', NEW o \in Operators, LoadAccount(o)
    PROVE  RecordsInv'
<1>1. /\ UNCHANGED <<payout, request, operator, bank, byHand, account, asked, confirming,
                     destination, sentTo, moved, missed>>
      /\ operator[o].pc = "process" /\ loaded' = [loaded EXCEPT ![o] = account.details]
  BY DEF LoadAccount, AtOperator, vars
<1>2. /\ account.details \in Account /\ loaded \in [Operators -> Account \cup {Unread}]
      /\ Unread \notin Account
  BY RecordsHave, DeskAssumption DEF DeskTypes, Account
<1>3. /\ loaded' \in [Operators -> Account \cup {Unread}] /\ loaded'[o] = account.details
      /\ \A u \in Operators \ {o} : loaded'[u] = loaded[u]
  BY <1>1, <1>2
<1>4. DeskTypes'
  BY <1>1, <1>3, RecordsHave DEF DeskTypes
<1>5. Evidence => Evidence'
  BY <1>1, EvidenceStays
<1>6. \A r \in Requests : AsksTruly(r)'
  BY <1>1, RecordsHave DEF AsksTruly
<1>7. ASSUME NEW u \in Operators PROVE SendsTruly(u)'
  <2>1. SendsTruly(u)
    BY RecordsHave
  <2> QED
    BY <1>1, <1>2, <1>3, <1>5, <2>1 DEF SendsTruly, Moved
<1>8. \A p \in Payouts : RecordTrue(p)'
  BY <1>1, RecordsHave DEF RecordTrue, Open
<1> QED
  BY <1>1, <1>4, <1>5, <1>6, <1>7, <1>8, RecordsHave DEF RecordsInv

LEMMA RecordsConfirm ==
    ASSUME RecordsInv, PayoutsInv', NEW o \in Operators, Confirm(o)
    PROVE  RecordsInv'
<1>1. /\ UNCHANGED <<payout, request, operator, bank, byHand, asked, loaded,
                     destination, sentTo, moved, missed>>
      /\ o \in confirming /\ confirming' \subseteq confirming
      /\ account' = [account EXCEPT !.confirmed = TRUE]
      /\ account \in [details: Account, confirmed: BOOLEAN]
  BY RecordsHave DEF Confirm, vars, DeskTypes
<1>2. account'.details = account.details /\ account' \in [details: Account, confirmed: BOOLEAN]
  BY <1>1
<1>3. DeskTypes'
  BY <1>1, <1>2, RecordsHave DEF DeskTypes
<1>4. Evidence => Evidence'
  BY <1>1, <1>2, EvidenceStays
<1>5. ~moved => Evidence
  BY <1>1, RecordsHave DEF SendsTruly
<1>6. \A r \in Requests : AsksTruly(r)'
  BY <1>1, <1>2, RecordsHave DEF AsksTruly
<1>7. ASSUME NEW u \in Operators PROVE SendsTruly(u)'
  <2>1. SendsTruly(u)
    BY RecordsHave
  <2> QED
    BY <1>1, <1>2, <1>4, <2>1 DEF SendsTruly, Moved
<1>8. \A p \in Payouts : RecordTrue(p)'
  BY <1>1, <1>2, RecordsHave DEF RecordTrue, Open
<1> QED
  BY <1>1, <1>3, <1>4, <1>5, <1>6, <1>7, <1>8 DEF RecordsInv

(* A transfer goes where its call has loaded the account. *)
LEMMA RecordsOperate ==
    ASSUME ~RetryFailed, RecordsInv, PayoutsInv', NEW o \in Operators, Operate(o)
    PROVE  RecordsInv'
<1>1. /\ OperatorStep(o) /\ UNCHANGED <<account, asked, destination, moved, missed>>
      /\ o \notin confirming /\ (operator[o].pc = "process" => loaded[o] # Unread)
      /\ loaded' = [loaded EXCEPT ![o] = IF operator'[o] = NoOperator THEN Unread ELSE loaded[o]]
      /\ sentTo' = IF bank' # bank THEN [sentTo EXCEPT ![operator[o].payout] = loaded[o]] ELSE sentTo
      /\ confirming' \subseteq confirming \cup {o}
      /\ o \in confirming' => MarkCommissionsPaid(o)
  BY DEF Operate, AtOperator
<1>2. /\ SendsTruly(o) /\ DeskTypes /\ PayoutsInv /\ OperatorSound(o)
      /\ \A p \in Payouts : RecordTrue(p)
  BY RecordsHave, Typed
<1>3. CallEffect(o) /\ StoreEffect(o)
  BY <1>1, <1>2, OperatorEffect DEF SendsTruly
<1>4. /\ bank' \in [Payouts -> {"none", "queued", "processed", "rejected"}]
      /\ bank \in [Payouts -> {"none", "queued", "processed", "rejected"}]
  BY RecordsHave DEF PayoutsInv, TypeOK
<1>5. /\ loaded' \in [Operators -> Account \cup {Unread}]
      /\ loaded'[o] = IF operator'[o] = NoOperator THEN Unread ELSE loaded[o]
      /\ \A u \in Operators \ {o} : loaded'[u] = loaded[u]
  BY <1>1, <1>2 DEF DeskTypes
<1>6. \A p \in Payouts : bank'[p] # bank[p] =>
         /\ operator[o].pc = "transfer" /\ operator[o].payout = p /\ bank[p] = "none"
         /\ loaded[o] \in Account /\ loaded[o] # Unread
  BY <1>2, <1>3 DEF StoreEffect, SendsTruly, DeskTypes
<1>7. bank' # bank => \E p \in Payouts : bank'[p] # bank[p]
  BY <1>4
<1>8. /\ sentTo' \in [Payouts -> Account]
      /\ \A p \in Payouts : IF bank'[p] # bank[p] THEN sentTo'[p] = loaded[o] ELSE sentTo'[p] = sentTo[p]
  <2>1. CASE bank' = bank
    BY <1>1, <1>2, <2>1 DEF DeskTypes
  <2>2. CASE bank' # bank
    <3> PICK n \in Payouts : bank'[n] # bank[n]
      BY <1>7, <2>2
    <3>1. n = operator[o].payout /\ loaded[o] \in Account /\ \A p \in Payouts \ {n} : bank'[p] = bank[p]
      BY <1>6
    <3>2. sentTo' = [sentTo EXCEPT ![n] = loaded[o]] /\ sentTo \in [Payouts -> Account]
      BY <1>1, <1>2, <2>2, <3>1 DEF DeskTypes
    <3> QED
      BY <3>1, <3>2
  <2> QED
    BY <2>1, <2>2
<1>9. DeskTypes'
  BY <1>1, <1>2, <1>5, <1>8 DEF DeskTypes
<1>10. \A p \in Payouts : Moved(p) => Moved(p)'
  BY <1>3, <1>6 DEF StoreEffect, Moved
<1>11. Evidence => Evidence'
  BY <1>1, <1>3, <1>6, <1>8, EvidenceStays DEF StoreEffect
<1>12. \A r \in Requests : AsksTruly(r)'
  BY <1>1, <1>3, RecordsHave DEF AsksTruly, CallEffect
<1>13. ~moved /\ o \in confirming' => Evidence'
  <2> SUFFICES ASSUME ~moved, MarkCommissionsPaid(o) PROVE Evidence
    BY <1>1, <1>11
  <2>1. operator[o].pc \in {"mark", "markByHand"}
    BY DEF MarkCommissionsPaid
  <2> PICK n \in Payouts : n = operator[o].payout
    BY <1>2, <2>1 DEF OperatorSound
  <2>2. Moved(n) /\ destination[n] = account.details
    BY <1>2, <2>1 DEF SendsTruly
  <2>3. bank[n] = "processed" => sentTo[n] = destination[n]
    BY <1>2 DEF RecordTrue
  <2>4. account.details \in ArrivedAt(n)
    BY <2>2, <2>3 DEF Moved, ArrivedAt
  <2> QED
    BY <2>4 DEF Evidence
<1>14. ASSUME NEW u \in Operators, u # o PROVE SendsTruly(u)'
  <2>1. SendsTruly(u) /\ OperatorSound(u) /\ operator'[u] = operator[u] /\ loaded'[u] = loaded[u]
    BY <1>3, <1>5, <1>14, RecordsHave, Typed DEF CallEffect
  <2>2. u \in confirming' => u \in confirming
    BY <1>1, <1>14
  <2> QED
    BY <1>1, <1>10, <1>11, <2>1, <2>2 DEF SendsTruly, OperatorSound
<1>15. SendsTruly(o)'
  <2>1. OperatorSound(o)'
    BY Typed DEF PayoutsInv
  <2>2. operator'[o].pc = "idle" <=> operator'[o] = NoOperator
    BY <1>3, RestTyped DEF CallEffect
  <2>3. operator'[o].pc = "transfer" => loaded'[o] # Unread
    BY <1>1, <1>3, <1>5, <2>2 DEF CallEffect
  <2>4. operator'[o].pc \in {"settle", "mark", "markByHand"} => Moved(operator[o].payout)'
    BY <1>3, <2>1 DEF CallEffect, OperatorSound
  <2>5. ~moved /\ operator'[o].pc # "idle" => destination[operator'[o].payout] = account.details
    BY <1>2, <1>3 DEF CallEffect, SendsTruly, RecordTrue, Open
  <2>6. ~moved /\ loaded'[o] # Unread => loaded'[o] = account.details
    BY <1>2, <1>5 DEF SendsTruly
  <2> QED
    BY <1>1, <1>5, <1>13, <2>2, <2>3, <2>4, <2>5, <2>6 DEF SendsTruly
<1>16. ASSUME NEW p \in Payouts PROVE RecordTrue(p)'
  <2>1. RecordTrue(p)
    BY <1>2
  <2>2. payout'[p].status = "none" => bank'[p] = "none" /\ p \notin byHand'
    BY <1>2, <1>3, <1>6, <2>1 DEF RecordTrue, StoreEffect, OperatorSound
  <2>3. ~moved /\ payout'[p].status \in {"requested", "processing"} => destination[p] = account.details
    BY <1>2, <1>3, <2>1 DEF RecordTrue, StoreEffect, SendsTruly
  <2>4. ~moved /\ bank'[p] # "none" => sentTo'[p] = destination[p]
    <3>1. CASE bank'[p] = bank[p]
      BY <1>8, <2>1, <3>1 DEF RecordTrue
    <3>2. CASE bank'[p] # bank[p]
      BY <1>2, <1>6, <1>8, <3>2 DEF SendsTruly
    <3> QED
      BY <3>1, <3>2
  <2> QED
    BY <1>1, <2>2, <2>3, <2>4 DEF RecordTrue, Open
<1> QED
  BY <1>1, <1>9, <1>11, <1>12, <1>14, <1>15, <1>16, RecordsHave DEF RecordsInv

(* What a step of a request does to it and to the payouts *)
AskEffect(r) ==
    /\ UNCHANGED <<operator, bank, byHand>>
    /\ \A s \in Requests \ {r} : request'[s] = request[s]
    /\ request[r].pc # "idle"
    /\ request'[r].pc = "idle" => request'[r] = NoRequest
    /\ request'[r].pc \notin {"idle", "read"} => request[r].pc # "read" \/ asked[r] \in Details
    /\ \/ UNCHANGED payout
       \/ /\ request'[r] = NoRequest /\ request[r].pc = "create"
          /\ \E n \in Payouts :
                /\ n = request[r].payout
                /\ payout[n].status = "none" /\ payout'[n].status = "requested"
                /\ \A p \in Payouts \ {n} : payout'[p] = payout[p]

LEMMA MoveEffect ==
    ASSUME PayoutsInv, NEW r \in Requests, NEW q, SetRequest(r, q), request[r].pc # "idle",
           q.pc = "idle" => q = NoRequest,
           q.pc \notin {"idle", "read"} => request[r].pc # "read" \/ asked[r] \in Details,
           UNCHANGED <<operator, bank, byHand, payout>>
    PROVE  AskEffect(r)
<1>1. request'[r] = q /\ \A s \in Requests \ {r} : request'[s] = request[s]
  BY Typed DEF SetRequest
<1> QED
  BY <1>1 DEF AskEffect

LEMMA ReadEffect ==
    ASSUME PayoutsInv, NEW r \in Requests, NEW what \in {"balance", "open"}, ReadForRequest(r, what)
    PROVE  AskEffect(r)
<1>1. /\ request[r] \in Request /\ request[r].pc = "read"
      /\ UNCHANGED <<operator, bank, byHand, payout>>
  BY Typed DEF ReadForRequest, AtRequest
<1> PICK u, d, b : SetRequest(r, [request[r] EXCEPT !.unread = u, !.due = d, !.open = b])
  BY DEF ReadForRequest
<1> DEFINE q == [request[r] EXCEPT !.unread = u, !.due = d, !.open = b]
<1>2. q.pc = "read"
  BY <1>1 DEF Request
<1> HIDE DEF q
<1>3. SetRequest(r, q)
  BY DEF q
<1> QED
  BY <1>1, <1>2, <1>3, MoveEffect

LEMMA CheckEffect ==
    ASSUME PayoutsInv, NEW r \in Requests, CheckRequest(r), asked[r] \in Details
    PROVE  AskEffect(r)
<1>1. request[r].pc = "read" /\ UNCHANGED <<operator, bank, byHand, payout>>
  BY DEF CheckRequest, AtRequest
<1>2. \/ SetRequest(r, NoRequest)
      \/ \E p \in Payouts :
            SetRequest(r, [request[r] EXCEPT !.pc = "claim", !.payout = p, !.due = matured])
  BY DEF CheckRequest
<1>3. CASE SetRequest(r, NoRequest)
  BY <1>1, <1>3, MoveEffect, RestTyped
<1>4. ASSUME NEW p \in Payouts,
             SetRequest(r, [request[r] EXCEPT !.pc = "claim", !.payout = p, !.due = matured])
      PROVE  AskEffect(r)
  <2> DEFINE q == [request[r] EXCEPT !.pc = "claim", !.payout = p, !.due = matured]
  <2>1. q.pc = "claim"
    BY Typed DEF Request
  <2>2. SetRequest(r, q)
    BY <1>4
  <2> HIDE DEF q
  <2> QED
    BY <1>1, <2>1, <2>2, MoveEffect
<1> QED
  BY <1>2, <1>3, <1>4

LEMMA ClaimEffect ==
    ASSUME PayoutsInv, NEW r \in Requests,
           \/ \E c \in Commissions : ClaimOne(r, c)
           \/ ClaimDone(r) \/ SumClaim(r) \/ ReleaseRequest(r)
    PROVE  AskEffect(r)
<1>1. /\ request[r].pc \in {"claim", "sum", "release"} /\ request[r] \in Request
      /\ UNCHANGED <<operator, bank, byHand, payout>>
  BY Typed DEF ClaimOne, ClaimDone, SumClaim, ReleaseRequest, AtRequest
<1>2. \/ SetRequest(r, NoRequest)
      \/ \E d, g : SetRequest(r, [request[r] EXCEPT !.due = d, !.gross = g])
      \/ SetRequest(r, [request[r] EXCEPT !.pc = "sum"])
      \/ \E g : SetRequest(r, [request[r] EXCEPT !.pc = "create", !.gross = g])
  BY DEF ClaimOne, ClaimDone, SumClaim, ReleaseRequest
<1>3. CASE SetRequest(r, NoRequest)
  BY <1>1, <1>3, MoveEffect, RestTyped
<1>4. ASSUME NEW q, SetRequest(r, q), q.pc \in {"claim", "sum", "create", "release"}
      PROVE  AskEffect(r)
  BY <1>1, <1>4, MoveEffect
<1>5. ASSUME NEW d, NEW g
      PROVE  /\ [request[r] EXCEPT !.due = d, !.gross = g].pc \in {"claim", "sum", "create", "release"}
             /\ [request[r] EXCEPT !.pc = "sum"].pc = "sum"
             /\ [request[r] EXCEPT !.pc = "create", !.gross = g].pc = "create"
  BY <1>1 DEF Request
<1> QED
  BY <1>2, <1>3, <1>4, <1>5

LEMMA CreateEffect ==
    ASSUME PayoutsInv, NEW r \in Requests, CreatePayout(r)
    PROVE  AskEffect(r)
<1>1. /\ request[r].pc = "create" /\ request[r] \in Request /\ RequestSound(r)
      /\ UNCHANGED <<operator, bank, byHand>> /\ payout \in [Payouts -> Payout]
  BY Typed DEF CreatePayout, AtRequest
<1> PICK n \in Payouts : n = request[r].payout /\ payout[n].status = "none"
  BY <1>1 DEF RequestSound
<1> DEFINE x == [status |-> "requested", gross |-> request[r].gross]
<1>2. CASE payout' = [payout EXCEPT ![n] = x] /\ SetRequest(r, NoRequest)
  <2>1. x.status = "requested"
    OBVIOUS
  <2> HIDE DEF x
  <2>2. payout'[n] = x /\ \A p \in Payouts \ {n} : payout'[p] = payout[p]
    BY <1>1, <1>2
  <2>3. request'[r] = NoRequest /\ \A s \in Requests \ {r} : request'[s] = request[s]
    BY <1>2, Typed DEF SetRequest
  <2> QED
    BY <1>1, <2>1, <2>2, <2>3, RestTyped DEF AskEffect
<1>3. CASE SetRequest(r, [request[r] EXCEPT !.pc = "release"]) /\ UNCHANGED payout
  <2> DEFINE q == [request[r] EXCEPT !.pc = "release"]
  <2>1. q.pc = "release"
    BY <1>1 DEF Request
  <2>2. SetRequest(r, q)
    BY <1>3
  <2> HIDE DEF q
  <2> QED
    BY <1>1, <1>3, <2>1, <2>2, MoveEffect
<1> QED
  BY <1>2, <1>3 DEF CreatePayout, AfterFailedCreate

LEMMA ProceedEffect ==
    ASSUME PayoutsInv, NEW r \in Requests, Proceed(r) \/ RefuseWithoutAccount(r)
    PROVE  AskEffect(r)
<1>1. CASE RefuseWithoutAccount(r)
  BY <1>1, MoveEffect, RestTyped DEF RefuseWithoutAccount, AtRequest
<1> QED
  BY <1>1, ReadEffect, CheckEffect, ClaimEffect, CreateEffect DEF Proceed

(* A step of the page: what is stored stays. *)
LEMMA PageHas ==
    ASSUME PageInv
    PROVE  /\ page \in Page /\ account \in [details: Account, confirmed: BOOLEAN]
           /\ account.details \in Account /\ page.got \in Summary
           /\ page.summary \in Summary \cup {Loading}
           /\ OneRequest /\ AccountRead /\ PayoutsRead /\ FormOffered
BY DEF PageInv, Page

LEMMA RefetchedIs ==
    ASSUME NEW q \in Page
    PROVE  /\ Refetched(q) \in Page /\ Refetched(q).fetch = "sent" /\ Refetched(q).got = Nothing
           /\ Refetched(q).summary = q.summary /\ Refetched(q).form = q.form
           /\ Refetched(q).entered = q.entered /\ Refetched(q).save = q.save /\ Refetched(q).ask = q.ask
<1>1. Nothing \in Summary
  BY DEF Nothing, Summary, Account
<1> DEFINE n == Nothing
<1>2. n \in Summary /\ Refetched(q) = [q EXCEPT !.fetch = "sent", !.got = n]
  BY <1>1 DEF Refetched
<1> HIDE DEF n
<1>3. n = Nothing
  BY DEF n
<1> QED
  BY <1>2, <1>3 DEF Page

LEMMA ResolvedIs ==
    ASSUME NEW q \in Page
    PROVE  /\ Resolved(q) \in Page /\ Resolved(q).summary = q.summary /\ Resolved(q).fetch = q.fetch
           /\ Resolved(q).got = q.got /\ Resolved(q).entered = q.entered
           /\ Resolved(q).form = IF q.save = "refetch" THEN "closed" ELSE q.form
           /\ Resolved(q).save = IF q.save = "refetch" THEN "no" ELSE q.save
           /\ Resolved(q).ask = IF q.ask = "refetch" THEN "no" ELSE q.ask
BY DEF Resolved, Page

LEMMA PageOnly ==
    ASSUME PageInv, UNCHANGED <<vars, account>>, page' \in Page, page.ask = "sent" => page'.ask = "sent",
           AccountRead', PayoutsRead', FormOffered'
    PROVE  PageInv'
<1>1. OneRequest'
  BY PageHas DEF OneRequest, vars
<1> QED
  BY <1>1, PageHas DEF PageInv

LEMMA PageRefetch ==
    ASSUME PageInv, Refetch
    PROVE  PageInv'
<1>1. page' = Refetched(page) /\ UNCHANGED <<vars, account>>
  BY DEF Refetch, SetPage
<1>2. FormOffered'
  BY <1>1, PageHas, RefetchedIs DEF FormOffered, Shown, Nothing
<1> QED
  BY <1>1, <1>2, PageHas, RefetchedIs, PageOnly DEF AccountRead, PayoutsRead

LEMMA PageAnswer ==
    ASSUME PageInv, AnswerSummary
    PROVE  PageInv'
<1> DEFINE x == [account |-> account.details, ready |-> Cardinality(Available) >= Minimum,
                 payouts |-> {p \in Payouts : payout[p].status # "none"}]
<1>1. page' = [page EXCEPT !.fetch = "read", !.got = x] /\ UNCHANGED <<vars, account, missed>>
      /\ page.fetch = "sent"
  BY DEF AnswerSummary, SetPage
<1>2. x \in Summary /\ x.account = account.details /\ x.payouts = Created
  <2>1. x.ready \in BOOLEAN
    OBVIOUS
  <2>2. x.payouts = Created
    BY DEF Created
  <2> QED
    BY <2>1, <2>2, PageHas DEF Summary
<1> HIDE DEF x
<1>3. /\ page' \in Page /\ page'.fetch = "read" /\ page'.got = x /\ page'.summary = page.summary
      /\ page'.form = page.form /\ page'.entered = page.entered /\ page'.save = page.save
      /\ page'.ask = page.ask
  BY <1>1, <1>2, PageHas DEF Page
<1>4. AccountRead' /\ PayoutsRead'
  BY <1>1, <1>2, <1>3 DEF AccountRead, PayoutsRead, Created, vars
<1>5. FormOffered'
  BY <1>1, <1>2, <1>3, PageHas DEF FormOffered, Shown
<1> QED
  BY <1>1, <1>3, <1>4, <1>5, PageOnly

(* What has been read is shown; a form that was saved closes, and opens if  *)
(* the first answer finds no account.                                       *)
LEMMA PageShow ==
    ASSUME PageInv, ShowSummary
    PROVE  PageInv'
<1> DEFINE q == Resolved(page)
           f == IF page.summary = Loading /\ page.got.account = NoDetails THEN "open" ELSE q.form
           n == Nothing
           g == page.got
<1>1. /\ page' = [q EXCEPT !.fetch = "none", !.summary = g, !.got = n, !.form = f]
      /\ UNCHANGED <<vars, account, missed>> /\ page.fetch = "read"
  BY DEF ShowSummary, SetPage
<1>2. /\ n \in Summary /\ n.account = NoDetails /\ g \in Summary
      /\ q \in Page /\ q.entered = page.entered
      /\ q.form = IF page.save = "refetch" THEN "closed" ELSE page.form
      /\ q.save = IF page.save = "refetch" THEN "no" ELSE page.save
      /\ q.ask = IF page.ask = "refetch" THEN "no" ELSE page.ask
  BY PageHas, ResolvedIs DEF Nothing, Summary, Account
<1>3. f \in {"open", "closed"}
  BY <1>2 DEF Page
<1>4. g.account = page.got.account /\ g.payouts = page.got.payouts
  OBVIOUS
<1>5. f = "closed" => /\ q.form = "closed"
                      /\ page.summary = Loading => g.account # NoDetails
  OBVIOUS
<1> HIDE DEF q, n, g, f
<1>6. /\ page' \in Page /\ page'.fetch = "none" /\ page'.summary = g /\ page'.got = n /\ page'.form = f
      /\ page'.entered = q.entered /\ page'.save = q.save /\ page'.ask = q.ask
  BY <1>1, <1>2, <1>3 DEF Page
<1>7. AccountRead' /\ PayoutsRead'
  BY <1>1, <1>2, <1>4, <1>6, PageHas DEF AccountRead, PayoutsRead, Created, vars
<1>8. FormOffered'
  <2>1. page'.save \in {"stored", "refetch"} => account.details # NoDetails
    BY <1>2, <1>6, PageHas DEF FormOffered, Page
  <2>2. f = "closed" => g.account # NoDetails \/ account.details # NoDetails
    <3>1. CASE page.summary = Loading
      BY <1>5, <3>1
    <3>2. CASE page.summary # Loading
      BY <1>2, <1>5, <3>2, PageHas DEF FormOffered, Shown, Page
    <3> QED
      BY <3>1, <3>2
  <2>3. account.details = NoDetails => g.account = NoDetails
    BY <1>4, PageHas DEF FormOffered
  <2> QED
    BY <1>1, <1>2, <1>6, <2>1, <2>2, <2>3, PageHas DEF FormOffered, Page
<1> QED
  BY <1>1, <1>2, <1>6, <1>7, <1>8, PageOnly

LEMMA PageLose ==
    ASSUME PageInv, LoseSummary
    PROVE  PageInv'
<1> DEFINE q == Resolved(page)
           n == Nothing
<1>1. /\ page' = [q EXCEPT !.fetch = "none", !.got = n] /\ UNCHANGED <<vars, account>> /\ missed' = TRUE
  BY DEF LoseSummary, SetPage
<1>2. /\ n \in Summary /\ n.account = NoDetails
      /\ q \in Page /\ q.entered = page.entered /\ q.summary = page.summary
      /\ q.form = IF page.save = "refetch" THEN "closed" ELSE page.form
      /\ q.save = IF page.save = "refetch" THEN "no" ELSE page.save
      /\ q.ask = IF page.ask = "refetch" THEN "no" ELSE page.ask
  BY PageHas, ResolvedIs DEF Nothing, Summary, Account
<1> HIDE DEF q, n
<1>3. /\ page' \in Page /\ page'.summary = page.summary /\ page'.got = n /\ page'.form = q.form
      /\ page'.entered = q.entered /\ page'.save = q.save /\ page'.ask = q.ask
  BY <1>1, <1>2 DEF Page
<1>4. AccountRead' /\ PayoutsRead'
  BY <1>1 DEF AccountRead, PayoutsRead
<1>5. FormOffered'
  BY <1>1, <1>2, <1>3, PageHas DEF FormOffered, Shown, Page
<1> QED
  BY <1>1, <1>2, <1>3, <1>4, <1>5, PageOnly

LEMMA PageToggle ==
    ASSUME PageInv, ToggleForm
    PROVE  PageInv'
<1> DEFINE f == IF page.form = "open" THEN "closed" ELSE "open"
<1>1. /\ page' = [page EXCEPT !.form = f] /\ UNCHANGED <<vars, account, missed>>
      /\ page.summary.account # NoDetails /\ f \in {"open", "closed"}
  BY PageHas DEF ToggleForm, SetPage
<1> HIDE DEF f
<1>2. /\ page' \in Page /\ page'.fetch = page.fetch /\ page'.got = page.got /\ page'.summary = page.summary
      /\ page'.entered = page.entered /\ page'.save = page.save /\ page'.ask = page.ask
  BY <1>1, PageHas DEF Page
<1>3. AccountRead' /\ PayoutsRead'
  BY <1>1, <1>2, PageHas DEF AccountRead, PayoutsRead, Created, Shown, vars
<1>4. FormOffered'
  BY <1>1, <1>2, PageHas DEF FormOffered, Shown
<1> QED
  BY <1>1, <1>2, <1>3, <1>4, PageOnly

LEMMA PageSave ==
    ASSUME PageInv, NEW d \in Details, SaveDetails(d)
    PROVE  PageInv'
<1>1. /\ page' = [page EXCEPT !.save = "sent", !.entered = d] /\ UNCHANGED <<vars, account, missed>>
      /\ page.save = "no" /\ d \in Account /\ d # NoDetails
  BY DeskAssumption DEF SaveDetails, SetPage, Account
<1>2. /\ page' \in Page /\ page'.fetch = page.fetch /\ page'.got = page.got /\ page'.summary = page.summary
      /\ page'.entered = d /\ page'.save = "sent" /\ page'.ask = page.ask /\ page'.form = page.form
  BY <1>1, PageHas DEF Page
<1>3. AccountRead' /\ PayoutsRead'
  BY <1>1, <1>2, PageHas DEF AccountRead, PayoutsRead, Created, Shown, vars
<1>4. FormOffered'
  BY <1>1, <1>2, PageHas DEF FormOffered, Shown
<1> QED
  BY <1>1, <1>2, <1>3, <1>4, PageOnly

(* The account changes: what the page has read is old until it is answered. *)
LEMMA PageStore ==
    ASSUME PageInv, StoreDetails
    PROVE  PageInv' /\ page.entered \in Account
<1>1. /\ account' = [details |-> page.entered, confirmed |-> FALSE] /\ page.save = "sent"
      /\ page' = [page EXCEPT !.save = "stored", !.entered = NoDetails]
      /\ UNCHANGED <<vars, missed>>
  BY DEF StoreDetails, Replaced
<1>2. page.entered \in Account /\ page.entered # NoDetails /\ NoDetails \in Account
  BY <1>1, PageHas DEF FormOffered, Page, Account
<1>3. /\ page' \in Page /\ page'.fetch = page.fetch /\ page'.got = page.got /\ page'.summary = page.summary
      /\ page'.save = "stored" /\ page'.ask = page.ask /\ page'.form = page.form
  BY <1>1, <1>2, PageHas DEF Page
<1>4. account' \in [details: Account, confirmed: BOOLEAN] /\ account'.details # NoDetails
  BY <1>1, <1>2
<1>5. OneRequest' /\ AccountRead' /\ PayoutsRead'
  BY <1>1, <1>3, PageHas DEF OneRequest, AccountRead, PayoutsRead, Created, Shown, vars
<1>6. FormOffered'
  BY <1>3, <1>4 DEF FormOffered, Shown
<1> QED
  BY <1>2, <1>3, <1>4, <1>5, <1>6 DEF PageInv

(* A mutation is answered, and the query asked again. *)
LEMMA PageAnswered ==
    ASSUME PageInv, SaveAnswered \/ AskAnswered
    PROVE  PageInv'
<1> DEFINE q == Resolved(page)
<1>1. /\ q \in Page /\ q.summary = page.summary /\ q.entered = page.entered
      /\ q.form = IF page.save = "refetch" THEN "closed" ELSE page.form
      /\ q.save = IF page.save = "refetch" THEN "no" ELSE page.save
      /\ q.ask = IF page.ask = "refetch" THEN "no" ELSE page.ask
  BY PageHas, ResolvedIs
<1> HIDE DEF q
<1> PICK z \in Page :
         /\ z.summary = page.summary /\ z.entered = page.entered /\ z.form = q.form
         /\ z.save = "sent" => page.save = "sent"
         /\ z.save \in {"stored", "refetch"} => page.save = "stored"
         /\ page.ask = "sent" => z.ask = "sent"
         /\ page' = Refetched(z)
  <2>1. CASE SaveAnswered
    <3>1. /\ page.save = "stored" /\ page' = Refetched([q EXCEPT !.save = "refetch"])
      BY <2>1 DEF SaveAnswered, SetPage, AfterChange, q
    <3> DEFINE z == [q EXCEPT !.save = "refetch"]
    <3>2. /\ z \in Page /\ z.summary = q.summary /\ z.entered = q.entered /\ z.form = q.form /\ z.ask = q.ask
          /\ z.save = "refetch"
      BY <1>1 DEF Page
    <3> QED
      BY <1>1, <3>1, <3>2
  <2>2. CASE AskAnswered
    <3>1. /\ page.ask = "created" /\ page' = Refetched([q EXCEPT !.ask = "refetch"])
      BY <2>2 DEF AskAnswered, SetPage, AfterChange, q
    <3> DEFINE z == [q EXCEPT !.ask = "refetch"]
    <3>2. /\ z \in Page /\ z.summary = q.summary /\ z.entered = q.entered /\ z.form = q.form /\ z.save = q.save
      BY <1>1 DEF Page
    <3> QED
      BY <1>1, <3>1, <3>2
  <2> QED
    BY <2>1, <2>2
<1>3. UNCHANGED <<vars, account>>
  BY DEF SaveAnswered, AskAnswered, SetPage
<1>4. /\ page' \in Page /\ page'.fetch = "sent" /\ page'.got = Nothing /\ page'.summary = z.summary
      /\ page'.form = z.form /\ page'.entered = z.entered /\ page'.save = z.save /\ page'.ask = z.ask
  BY RefetchedIs
<1>5. AccountRead' /\ PayoutsRead'
  BY <1>4 DEF AccountRead, PayoutsRead
<1>6. FormOffered'
  BY <1>1, <1>3, <1>4, PageHas DEF FormOffered, Shown, Nothing, Page
<1> QED
  BY <1>3, <1>4, <1>5, <1>6, PageOnly

LEMMA PageLoseAnswer ==
    ASSUME PageInv, LoseAnswer
    PROVE  PageInv'
<1>1. missed' = TRUE /\ UNCHANGED <<vars, account>>
  BY DEF LoseAnswer, SetPage
<1>2. /\ page' \in Page /\ page'.summary = page.summary /\ page'.got = page.got
      /\ page'.form = page.form /\ page'.save \in {page.save, "no"}
      /\ page'.save = "sent" => page'.entered = page.entered
      /\ page.ask = "sent" => page'.ask = "sent"
  <2>1. NoDetails \in Account
    BY DEF Account
  <2>2. CASE page' = [page EXCEPT !.save = "no", !.entered = NoDetails]
    BY <2>1, <2>2, PageHas DEF Page
  <2>3. CASE page.ask = "created" /\ page' = [page EXCEPT !.ask = "no"]
    BY <2>3, PageHas DEF Page
  <2> QED
    BY <2>2, <2>3 DEF LoseAnswer, SetPage
<1>3. AccountRead' /\ PayoutsRead'
  BY <1>1 DEF AccountRead, PayoutsRead
<1>4. FormOffered'
  BY <1>1, <1>2, PageHas DEF FormOffered, Shown
<1> QED
  BY <1>1, <1>2, <1>3, <1>4, PageOnly

(* The page waits for the one request it has sent. *)
LEMMA PageAsk ==
    ASSUME PayoutsInv, PageInv, NEW r \in Requests, AskPayout(r)
    PROVE  PageInv'
<1>1. /\ page' = [page EXCEPT !.ask = "sent"] /\ page.ask = "no"
      /\ UNCHANGED <<account, missed, payout>> /\ StartRequest(r)
  BY DEF AskPayout, SetPage, StartRequest
<1>2. /\ page' \in Page /\ page'.fetch = page.fetch /\ page'.got = page.got /\ page'.summary = page.summary
      /\ page'.entered = page.entered /\ page'.save = page.save /\ page'.ask = "sent"
      /\ page'.form = page.form
  BY <1>1, PageHas DEF Page
<1>3. \A s \in Requests : request[s].pc = "idle"
  BY <1>1, PageHas DEF OneRequest
<1>4. \A s \in Requests \ {r} : request'[s] = request[s]
  BY <1>1, Typed DEF StartRequest, SetRequest
<1>5. OneRequest'
  BY <1>2, <1>3, <1>4 DEF OneRequest
<1>6. AccountRead' /\ PayoutsRead'
  BY <1>1, <1>2, PageHas DEF AccountRead, PayoutsRead, Created, Shown
<1>7. FormOffered'
  BY <1>1, <1>2, PageHas DEF FormOffered, Shown
<1> QED
  BY <1>1, <1>2, <1>5, <1>6, <1>7, PageHas DEF PageInv

(* The request goes on, or ends and is answered. *)
LEMMA PageProceed ==
    ASSUME PayoutsInv, PageInv, NEW r \in Requests, Proceed(r) \/ RefuseWithoutAccount(r)
    PROVE  PageInv'
<1>1. AskEffect(r) /\ UNCHANGED <<account, missed>>
  BY ProceedEffect DEF Proceed, RefuseWithoutAccount, Answered
<1>2. /\ page.ask = "sent" /\ request[r].pc # "idle"
      /\ \A s \in Requests \ {r} : request[s].pc = "idle" /\ request'[s].pc = "idle"
  BY <1>1, PageHas DEF AskEffect, OneRequest
<1> DEFINE a == IF request'[r] = NoRequest THEN IF payout' # payout THEN "created" ELSE "no"
                ELSE page.ask
<1>3. page' = [page EXCEPT !.ask = a]
  BY PageHas DEF Proceed, RefuseWithoutAccount, Answered, Page
<1>4. /\ a \in {"no", "sent", "created"} /\ (payout' # payout => a = "created")
      /\ (request'[r].pc # "idle" => a = "sent")
  BY <1>1, <1>2, RestTyped DEF AskEffect
<1> HIDE DEF a
<1>5. /\ page' \in Page /\ page'.fetch = page.fetch /\ page'.got = page.got /\ page'.summary = page.summary
      /\ page'.entered = page.entered /\ page'.save = page.save /\ page'.ask = a
      /\ page'.form = page.form
  BY <1>3, <1>4, PageHas DEF Page
<1>6. OneRequest'
  BY <1>2, <1>4, <1>5 DEF OneRequest
<1>7. AccountRead' /\ FormOffered'
  BY <1>1, <1>5, PageHas DEF AccountRead, FormOffered, Shown
<1>8. PayoutsRead'
  BY <1>1, <1>2, <1>4, <1>5, PageHas DEF PayoutsRead, Created, Shown
<1> QED
  BY <1>1, <1>5, <1>6, <1>7, <1>8, PageHas DEF PageInv

(* What others do shows on the page when it asks again. *)
LEMMA PageElsewhere ==
    ASSUME PageInv, UNCHANGED <<request, page, missed>>, account'.details = account.details,
           account' \in [details: Account, confirmed: BOOLEAN],
           \A p \in Payouts : payout'[p].status = "none" <=> payout[p].status = "none"
    PROVE  PageInv'
<1>1. Created' = Created
  BY DEF Created
<1> QED
  BY <1>1, PageHas DEF PageInv, OneRequest, AccountRead, PayoutsRead, FormOffered, Shown

LEMMA NonePersists ==
    ASSUME PayoutsInv, NEW o \in Operators, OperatorStep(o), NEW p \in Payouts
    PROVE  payout'[p].status = "none" <=> payout[p].status = "none"
<1>1. ASSUME operator[o].pc # "idle", NEW s \in {"processing", "paid", "failed"}, NEW pc,
             SaveStatus(o, s, pc)
      PROVE  payout'[p].status = "none" <=> payout[p].status = "none"
  <2>1. OperatorSound(o) /\ payout \in [Payouts -> Payout]
    BY Typed
  <2> PICK n \in Payouts : n = operator[o].payout /\ payout[n].status # "none"
    BY <1>1, <2>1 DEF OperatorSound
  <2> DEFINE x == [payout[n] EXCEPT !.status = s]
  <2>2. x.status = s
    BY <2>1 DEF Payout
  <2>3. payout' = payout \/ payout' = [payout EXCEPT ![n] = x]
    BY <1>1 DEF SaveStatus
  <2> HIDE DEF x
  <2> QED
    BY <2>1, <2>2, <2>3
<1>2. CASE SaveProcessing(o) \/ RecordTransfer(o) \/ SaveSettled(o) \/ SaveFailed(o)
  BY <1>1, <1>2 DEF SaveProcessing, RecordTransfer, SaveSettled, SaveFailed, AtOperator
<1>3. CASE UNCHANGED payout
  BY <1>3
<1> QED
  BY <1>2, <1>3 DEF OperatorStep, StartOperator, TransferTaken, TransferRefused, TransferTimesOut,
                    WriteFails, OperatorRejects, MarkCommissionsPaid, ReleaseClaim

LEMMA PageNext ==
    ASSUME PayoutsInv, PageInv, [DeskNext]_allVars
    PROVE  PageInv'
<1>1. CASE PageStep
  BY <1>1, PageRefetch, PageAnswer, PageShow, PageLose, PageToggle, PageSave, PageStore,
     PageAnswered, PageLoseAnswer DEF PageStep
<1>2. ASSUME NEW r \in Requests, AskPayout(r) \/ RefuseWithoutAccount(r) \/ Proceed(r)
      PROVE  PageInv'
  BY <1>2, PageAsk, PageProceed
<1>3. ASSUME UNCHANGED <<payout, request, page, missed, account>> PROVE PageInv'
  BY <1>3, PageElsewhere, PageHas
<1>4. ASSUME NEW o \in Operators, Operate(o) PROVE PageInv'
  <2>1. UNCHANGED <<request, page, missed, account>> /\ OperatorStep(o)
    BY <1>4 DEF Operate, OperatorStep, StartOperator, SaveProcessing, TransferTaken, TransferRefused,
                TransferTimesOut, RecordTransfer, WriteFails, OperatorRejects, SaveSettled,
                MarkCommissionsPaid, SaveFailed, ReleaseClaim
  <2> QED
    BY <2>1, NonePersists, PageElsewhere, PageHas
<1>5. ASSUME NEW o \in Operators, Confirm(o) PROVE PageInv'
  <2>1. UNCHANGED <<payout, request, page, missed>> /\ account' = [account EXCEPT !.confirmed = TRUE]
    BY <1>5 DEF Confirm, vars
  <2>2. account'.details = account.details /\ account' \in [details: Account, confirmed: BOOLEAN]
    BY <2>1, PageHas
  <2> QED
    BY <2>1, <2>2, PageElsewhere
<1>6. CASE \/ \E r \in Requests : ReadAccount(r)
           \/ \E o \in Operators : LoadAccount(o)
           \/ (\E c \in Commissions : Award(c) \/ Mature(c)) /\ UNCHANGED deskVars
           \/ (\E p \in Payouts : BankDecides(p)) /\ UNCHANGED deskVars
           \/ UNCHANGED allVars
  BY <1>3, <1>6 DEF ReadAccount, LoadAccount, Award, Mature, BankDecides, vars, deskVars, allVars
<1> QED
  BY <1>1, <1>2, <1>4, <1>5, <1>6 DEF DeskNext

LEMMA PageInit == DeskInit => PageInv
<1> SUFFICES ASSUME DeskInit PROVE PageInv
  OBVIOUS
<1> DEFINE n == Nothing
<1>1. n \in Summary /\ n.account = NoDetails /\ NoDetails \in Account
  BY DEF Nothing, Summary, Account
<1>2. /\ page = [summary |-> Loading, fetch |-> "sent", got |-> n,
                 form |-> "closed", entered |-> NoDetails, save |-> "no", ask |-> "no"]
      /\ account = [details |-> NoDetails, confirmed |-> FALSE]
      /\ \A r \in Requests : request[r].pc = "idle"
  BY RestTyped DEF DeskInit, Init
<1> HIDE DEF n
<1>3. page \in Page /\ account \in [details: Account, confirmed: BOOLEAN]
  BY <1>1, <1>2 DEF Page
<1>4. OneRequest /\ AccountRead /\ PayoutsRead /\ FormOffered
  BY <1>1, <1>2 DEF OneRequest, AccountRead, PayoutsRead, FormOffered, Shown
<1> QED
  BY <1>3, <1>4 DEF PageInv

LEMMA RecordsRequest ==
    ASSUME RecordsInv, PayoutsInv', NEW r \in Requests, missed' \in BOOLEAN,
           AskPayout(r) \/ ReadAccount(r) \/ RefuseWithoutAccount(r) \/ Proceed(r)
    PROVE  RecordsInv'
<1>1. /\ AsksTruly(r) /\ DeskTypes /\ PayoutsInv /\ account.details \in Account
      /\ asked \in [Requests -> Account \cup {Unread}] /\ Unread \notin Account
  BY RecordsHave, DeskAssumption DEF DeskTypes, Account
<1>2. CASE AskPayout(r)
  <2>1. /\ UNCHANGED <<operator, bank, byHand, account, loaded, confirming, sentTo, moved,
                       payout, destination, asked>>
        /\ request[r].pc = "idle"
        /\ \E q : q.pc = "read" /\ SetRequest(r, q)
    <3>1. [NoRequest EXCEPT !.pc = "read", !.unread = {"balance", "open"}].pc = "read"
      BY DEF NoRequest
    <3> QED
      BY <1>2, <3>1 DEF AskPayout, StartRequest, AtRequest, SetPage
  <2>2. request'[r].pc = "read" /\ \A s \in Requests \ {r} : request'[s] = request[s]
    BY <1>1, <2>1, Typed DEF SetRequest
  <2>3. AsksTruly(r)'
    BY <1>1, <2>1, <2>2 DEF AsksTruly
  <2> QED
    BY <1>1, <2>1, <2>2, <2>3, RecordsAsk
<1>3. CASE ReadAccount(r)
  <2>1. /\ UNCHANGED <<operator, bank, byHand, account, loaded, confirming, sentTo, moved,
                       payout, destination, request>>
        /\ request[r].pc = "read" /\ asked' = [asked EXCEPT ![r] = account.details]
    BY <1>3 DEF ReadAccount, AtRequest, vars
  <2>2. /\ asked' \in [Requests -> Account \cup {Unread}] /\ asked'[r] = account.details
        /\ \A s \in Requests \ {r} : asked'[s] = asked[s]
    BY <1>1, <2>1
  <2>3. AsksTruly(r)'
    BY <1>1, <2>1, <2>2 DEF AsksTruly
  <2> QED
    BY <1>1, <2>1, <2>2, <2>3, RecordsAsk
<1>4. CASE RefuseWithoutAccount(r) \/ Proceed(r)
  <2>1. AskEffect(r)
    BY <1>1, <1>4, ProceedEffect
  <2> DEFINE a == IF request'[r] = NoRequest THEN Unread ELSE asked[r]
  <2>2. /\ UNCHANGED <<account, loaded, confirming, sentTo, moved>>
        /\ asked' = [asked EXCEPT ![r] = a]
        /\ destination' = IF payout' # payout
                          THEN [destination EXCEPT ![request[r].payout] = asked[r]] ELSE destination
    BY <1>4 DEF RefuseWithoutAccount, Proceed, Answered
  <2>3. a \in Account \cup {Unread}
    BY <1>1
  <2>4. /\ asked' \in [Requests -> Account \cup {Unread}] /\ asked'[r] = a
        /\ \A s \in Requests \ {r} : asked'[s] = asked[s]
    BY <1>1, <2>2, <2>3
  <2>5. /\ request'[r].pc = "idle" <=> request'[r] = NoRequest
        /\ request'[r].pc \notin {"idle", "read"} => asked[r] # Unread
    BY <1>1, <2>1, RestTyped, DeskAssumption DEF AskEffect, AsksTruly
  <2>6. AsksTruly(r)'
    BY <1>1, <2>2, <2>4, <2>5 DEF AsksTruly
  <2>7. \/ UNCHANGED <<payout, destination>>
        \/ \E n \in Payouts :
              /\ payout[n].status = "none" /\ payout'[n].status # "none"
              /\ \A p \in Payouts \ {n} : payout'[p] = payout[p]
              /\ asked[r] \in Account /\ asked[r] # Unread
              /\ destination' = [destination EXCEPT ![n] = asked[r]]
    <3>1. CASE UNCHANGED payout
      BY <2>2, <3>1
    <3>2. CASE payout' # payout
      <4> PICK n \in Payouts :
             /\ n = request[r].payout /\ request[r].pc = "create"
             /\ payout[n].status = "none" /\ payout'[n].status = "requested"
             /\ \A p \in Payouts \ {n} : payout'[p] = payout[p]
        BY <2>1, <3>2 DEF AskEffect
      <4>1. asked[r] \in Account /\ asked[r] # Unread
        BY <1>1 DEF AsksTruly
      <4> QED
        BY <2>2, <3>2, <4>1
    <3> QED
      BY <3>1, <3>2
  <2>8. UNCHANGED <<operator, bank, byHand>> /\ \A s \in Requests \ {r} : request'[s] = request[s]
    BY <2>1 DEF AskEffect
  <2> QED
    BY <2>2, <2>4, <2>6, <2>7, <2>8, RecordsAsk
<1> QED
  BY <1>2, <1>3, <1>4

LEMMA RecordsNext ==
    ASSUME ~RetryFailed, RecordsInv, PageInv, [DeskNext]_allVars
    PROVE  RecordsInv'
<1>1. PayoutsInv' /\ missed' \in BOOLEAN
  <2>1. PayoutsInv'
    BY PayoutsDeskNext, RecordsHave
  <2>2. missed' \in BOOLEAN
    BY RecordsHave
       DEF DeskNext, PageStep, Refetch, AnswerSummary, ShowSummary, LoseSummary, ToggleForm, StoreDetails,
           SaveAnswered, AskAnswered, LoseAnswer, SaveDetails, AskPayout, ReadAccount, RefuseWithoutAccount,
           Proceed, Answered, LoadAccount, Operate, Confirm, DeskTypes, deskVars, allVars
  <2> QED
    BY <2>1, <2>2
<1>2. ASSUME UNCHANGED <<vars, account, asked, loaded, confirming, destination, sentTo, moved>>
      PROVE  RecordsInv'
  BY <1>1, <1>2, RecordsStay DEF vars
<1>3. CASE PageStep
  <2>1. CASE StoreDetails
    BY <1>1, <2>1, PageStore, RecordsStored
  <2> QED
    BY <1>2, <1>3, <2>1
       DEF PageStep, Refetch, AnswerSummary, ShowSummary, LoseSummary, ToggleForm, SaveAnswered,
           AskAnswered, LoseAnswer, SaveDetails, SetPage
<1>4. ASSUME NEW r \in Requests, AskPayout(r) \/ ReadAccount(r) \/ RefuseWithoutAccount(r) \/ Proceed(r)
      PROVE  RecordsInv'
  BY <1>1, <1>4, RecordsRequest
<1>5. ASSUME NEW o \in Operators, LoadAccount(o) \/ Operate(o) \/ Confirm(o)
      PROVE  RecordsInv'
  BY <1>1, <1>5, RecordsLoad, RecordsOperate, RecordsConfirm
<1>6. CASE (\E c \in Commissions : Award(c) \/ Mature(c)) /\ UNCHANGED deskVars
  BY <1>1, <1>6, RecordsStay DEF Award, Mature, deskVars
<1>7. ASSUME NEW p \in Payouts, BankDecides(p), UNCHANGED deskVars
      PROVE  RecordsInv'
  <2>1. \A n \in Payouts : bank'[n] = bank[n] \/ (bank[n] = "queued" /\ bank'[n] # "none")
    BY <1>7, RecordsHave DEF BankDecides
  <2> QED
    BY <1>1, <1>7, <2>1, RecordsStay DEF BankDecides, deskVars
<1>8. CASE UNCHANGED allVars
  BY <1>2, <1>8 DEF allVars, deskVars
<1> QED
  BY <1>3, <1>4, <1>5, <1>6, <1>7, <1>8 DEF DeskNext

LEMMA RecordsInit == DeskInit => RecordsInv
<1> SUFFICES ASSUME DeskInit PROVE RecordsInv
  OBVIOUS
<1>1. /\ Init /\ PayoutsInv /\ NoDetails \in Account
      /\ account = [details |-> NoDetails, confirmed |-> FALSE]
      /\ asked = [r \in Requests |-> Unread] /\ loaded = [o \in Operators |-> Unread]
      /\ confirming = {} /\ moved = FALSE /\ missed = FALSE
      /\ destination = [p \in Payouts |-> NoDetails] /\ sentTo = [p \in Payouts |-> NoDetails]
  BY PayoutsInit DEF DeskInit, Account
<1>2. DeskTypes /\ account.confirmed = FALSE
  BY <1>1 DEF DeskTypes
<1>3. /\ \A r \in Requests : request[r].pc = "idle"
      /\ \A o \in Operators : operator[o].pc = "idle"
      /\ \A p \in Payouts : payout[p].status = "none" /\ bank[p] = "none" /\ p \notin byHand
  BY <1>1, RestTyped DEF Init
<1>4. \A r \in Requests : AsksTruly(r)
  BY <1>1, <1>3 DEF AsksTruly
<1>5. \A o \in Operators : SendsTruly(o)
  BY <1>1, <1>3 DEF SendsTruly
<1>6. \A p \in Payouts : RecordTrue(p)
  BY <1>1, <1>3 DEF RecordTrue, Open
<1> QED
  BY <1>1, <1>2, <1>4, <1>5, <1>6 DEF RecordsInv

(* The third inductive invariant: what the page has read, shows and waits   *)
(* for; it needs the first one to know which request creates a payout.      *)
THEOREM PageIsSound == DeskSpec => [](PayoutsInv /\ PageInv)
<1>1. DeskInit => PayoutsInv /\ PageInv
  BY PayoutsInit, PageInit DEF DeskInit
<1>2. PayoutsInv /\ PageInv /\ [DeskNext]_allVars => PayoutsInv' /\ PageInv'
  BY PayoutsDeskNext, PageNext
<1> QED
  BY <1>1, <1>2, PTL DEF DeskSpec

(* Whatever order its calls, refetches and lost answers come in, the page   *)
(* that waits for nothing shows the account on file and every payout        *)
(* (hooks.ts, useReferrals and its mutations; Referrals.tsx).               *)
THEOREM PageIsRight == DeskSpec => []PageCatchesUp
<1>1. ASSUME PageInv PROVE PageCatchesUp
  BY <1>1, PageHas DEF PageCatchesUp, AccountRead, PayoutsRead, FormOffered, Created, Page
<1> QED
  BY <1>1, PageIsSound, PTL

(* The fourth one: every call under way has loaded the account on file,     *)
(* unless it was changed meanwhile.                                         *)
THEOREM RecordsAreSound ==
    ASSUME ~RetryFailed
    PROVE  DeskSpec => []RecordsInv
<1>1. DeskInit => RecordsInv
  BY RecordsInit
<1>2. RecordsInv /\ PageInv /\ [DeskNext]_allVars => RecordsInv'
  BY RecordsNext
<1> QED
  BY <1>1, <1>2, PageIsSound, PTL DEF DeskSpec

(* Money arrives where the payout says, and details are confirmed by money  *)
(* that arrived, for any number of operators who leave failed payouts alone *)
(* (payouts.ts, sendPayout and markCommissionsPaid; routes.ts, the PUT of   *)
(* the payout account).                                                     *)
THEOREM MoneyArrivesAsRecorded ==
    ASSUME ~RetryFailed
    PROVE  DeskSpec => []RecordsAreTrue
<1>1. ASSUME RecordsInv PROVE RecordsAreTrue
  BY <1>1, RecordsHave DEF RecordsAreTrue, RecordTrue, Evidence, ArrivedAt
<1> QED
  BY <1>1, RecordsAreSound, PTL
=============================================================================
