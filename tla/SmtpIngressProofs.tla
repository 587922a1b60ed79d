--------------------------- MODULE SmtpIngressProofs ---------------------------
(***************************************************************************)
(* Proofs about SmtpIngress, for any number of sessions, submissions,      *)
(* addresses, plans and faults: what the login guard counts, what          *)
(* acceptMessage stores, what it charges, and that together they keep      *)
(* MessagePromise.                                                         *)
(***************************************************************************)
EXTENDS SmtpIngress, FiniteSetTheorems, TLAPS

(* The line for a slot holds each waiting login once. *)
LineOK ==
    /\ \A i \in DOMAIN waiting : login[waiting[i]] = "wait"
    /\ \A i, j \in DOMAIN waiting : waiting[i] = waiting[j] => i = j
    /\ \A s \in InState("wait") : \E i \in DOMAIN waiting : waiting[i] = s
    /\ Len(waiting) = Cardinality(InState("wait"))

SlotsOK ==
    /\ login \in [Sessions -> LoginState]
    /\ running \in Nat
    /\ waiting \in Seq(Sessions)
    /\ running = Cardinality(InState("verify"))
    /\ running <= MaxConcurrent
    /\ waiting # <<>> => running = MaxConcurrent
    /\ LineOK

(* Logins from address i that have read its counter, and may yet fail *)
Pending(i) == {s \in Sessions : from[s] = i /\ login[s] \in {"wait", "verify", "record"}}

Outage == Cardinality(faults \cap {"reject"})

(* Each pending login may still add one to the counter. *)
FailuresOK ==
    /\ failures \in [Ips -> Nat]
    /\ \A i \in Ips :
          failures[i] + Cardinality(Pending(i)) < MaxFailures + Cardinality(Sessions) + Outage

FromOK ==
    /\ from \in [Sessions -> Ips \cup {NoIp}]
    /\ \A s \in Sessions : login[s] \in {"count", "record"} => from[s] \in Ips

GuardInv == SlotsOK /\ FromOK /\ FailuresOK /\ faults \subseteq FaultKinds
-----------------------------------------------------------------------------
LEMMA SessionSets ==
    ASSUME NEW A \in SUBSET Sessions, NEW x
    PROVE  /\ IsFiniteSet(A) /\ Cardinality(A) \in Nat
           /\ Cardinality(A) <= Cardinality(Sessions) /\ Cardinality(Sessions) \in Nat
           /\ Cardinality(A \cup {x}) = IF x \in A THEN Cardinality(A) ELSE Cardinality(A) + 1
           /\ Cardinality(A \ {x}) = IF x \in A THEN Cardinality(A) - 1 ELSE Cardinality(A)
<1>1. IsFiniteSet(A) /\ Cardinality(A) <= Cardinality(Sessions)
  BY FS_Subset, GuardAssumption
<1>2. Cardinality(A) \in Nat /\ Cardinality(Sessions) \in Nat
  BY <1>1, FS_CardinalityType, GuardAssumption
<1> QED
  BY <1>1, <1>2, FS_AddElement, FS_RemoveElement

LEMMA FewerSessions ==
    ASSUME NEW A \in SUBSET Sessions, NEW B \in SUBSET A
    PROVE  Cardinality(B) <= Cardinality(A)
BY SessionSets, FS_Subset

LEMMA OutageNat ==
    ASSUME NEW F
    PROVE  Cardinality(F \cap {"reject"}) = IF "reject" \in F THEN 1 ELSE 0
<1>1. CASE "reject" \in F
  <2>1. F \cap {"reject"} = {"reject"}
    BY <1>1
  <2> QED
    BY <1>1, <2>1, FS_Singleton
<1>2. CASE "reject" \notin F
  <2>1. F \cap {"reject"} = {}
    BY <1>2
  <2> QED
    BY <1>2, <2>1, FS_EmptySet
<1> QED
  BY <1>1, <1>2

(* A login moves between states that hold no slot and no place in line. *)
LEMMA MoveSlots ==
    ASSUME SlotsOK, NEW s \in Sessions, NEW next \in LoginState \ {"wait", "verify"},
           login[s] \notin {"wait", "verify"}, login' = [login EXCEPT ![s] = next],
           UNCHANGED <<running, waiting>>
    PROVE  SlotsOK'
<1>1. InState("wait")' = InState("wait") /\ InState("verify")' = InState("verify")
  BY DEF InState, SlotsOK
<1>2. \A i \in DOMAIN waiting : login'[waiting[i]] = "wait"
  BY DEF SlotsOK, LineOK
<1>3. login' \in [Sessions -> LoginState]
  BY DEF SlotsOK
<1> QED
  BY <1>1, <1>2, <1>3 DEF SlotsOK, LineOK

LEMMA EnterSlots ==
    ASSUME SlotsOK, NEW s \in Sessions, login[s] \notin {"wait", "verify"}, EnterSlot(s)
    PROVE  SlotsOK'
<1>1. CASE /\ running >= MaxConcurrent /\ waiting' = Append(waiting, s)
           /\ login' = [login EXCEPT ![s] = "wait"] /\ UNCHANGED running
  <2>1. InState("wait")' = InState("wait") \cup {s} /\ InState("verify")' = InState("verify")
    BY <1>1 DEF InState, SlotsOK
  <2>2. Cardinality(InState("wait")') = Cardinality(InState("wait")) + 1
    BY <2>1, SessionSets DEF InState
  <2>3. /\ waiting' \in Seq(Sessions) /\ Len(waiting') = Len(waiting) + 1
        /\ \A i \in 1..Len(waiting) : waiting'[i] = waiting[i]
        /\ waiting'[Len(waiting) + 1] = s
        /\ DOMAIN waiting = 1..Len(waiting) /\ DOMAIN waiting' = 1..(Len(waiting) + 1)
        /\ Len(waiting) \in Nat /\ waiting' # <<>>
    BY <1>1 DEF SlotsOK
  <2>4. \A i \in DOMAIN waiting : waiting[i] # s /\ waiting[i] \in Sessions
    BY DEF SlotsOK, LineOK
  <2>5. \A i \in DOMAIN waiting' : login'[waiting'[i]] = "wait"
    BY <1>1, <2>3, <2>4 DEF SlotsOK, LineOK
  <2>6. \A i, j \in DOMAIN waiting' : waiting'[i] = waiting'[j] => i = j
    <3> SUFFICES ASSUME NEW i \in 1..(Len(waiting) + 1), NEW j \in 1..(Len(waiting) + 1),
                        waiting'[i] = waiting'[j]
                 PROVE  i = j
      BY <2>3
    <3>1. (i \in 1..Len(waiting) \/ i = Len(waiting) + 1) /\ (j \in 1..Len(waiting) \/ j = Len(waiting) + 1)
      BY <2>3
    <3> QED
      BY <2>3, <2>4, <3>1 DEF SlotsOK, LineOK
  <2>7. \A t \in InState("wait")' : \E i \in DOMAIN waiting' : waiting'[i] = t
    <3>1. ASSUME NEW t \in InState("wait") PROVE \E i \in DOMAIN waiting' : waiting'[i] = t
      <4>1. PICK i \in DOMAIN waiting : waiting[i] = t
        BY DEF SlotsOK, LineOK
      <4> QED
        BY <2>3, <4>1
    <3> QED
      BY <2>1, <2>3, <3>1
  <2>8. running = MaxConcurrent
    BY <1>1, GuardAssumption DEF SlotsOK
  <2>9. login' \in [Sessions -> LoginState]
    BY <1>1 DEF SlotsOK, LoginState
  <2>10. LineOK'
    BY <2>2, <2>3, <2>5, <2>6, <2>7 DEF LineOK, SlotsOK
  <2> QED
    BY <1>1, <2>1, <2>3, <2>8, <2>9, <2>10 DEF SlotsOK
<1>2. CASE /\ running < MaxConcurrent /\ running' = running + 1
           /\ login' = [login EXCEPT ![s] = "verify"] /\ UNCHANGED waiting
  <2>1. InState("wait")' = InState("wait") /\ InState("verify")' = InState("verify") \cup {s}
    BY <1>2 DEF InState, SlotsOK
  <2>2. Cardinality(InState("verify")') = Cardinality(InState("verify")) + 1
    BY <2>1, SessionSets DEF InState
  <2>3. waiting = <<>>
    BY <1>2, GuardAssumption DEF SlotsOK
  <2>4. login' \in [Sessions -> LoginState]
    BY <1>2 DEF SlotsOK, LoginState
  <2>5. LineOK'
    BY <1>2, <2>1, <2>3 DEF SlotsOK, LineOK
  <2>6. running' \in Nat /\ running' <= MaxConcurrent
    BY <1>2, GuardAssumption DEF SlotsOK
  <2> QED
    BY <1>2, <2>2, <2>3, <2>4, <2>5, <2>6 DEF SlotsOK
<1> QED
  BY <1>1, <1>2 DEF EnterSlot

(* The end of a check frees its slot, or hands it to the first in line. *)
LEMMA LeaveSlots ==
    ASSUME SlotsOK, NEW s \in Sessions, login[s] = "verify",
           NEW next \in LoginState \ {"wait", "verify"}, LeaveSlot(s, next)
    PROVE  SlotsOK'
<1>1. CASE /\ waiting = <<>> /\ running' = running - 1
           /\ login' = [login EXCEPT ![s] = next] /\ UNCHANGED waiting
  <2>1. InState("wait")' = InState("wait") /\ InState("verify")' = InState("verify") \ {s}
    BY <1>1 DEF InState, SlotsOK
  <2>2. s \in InState("verify")
    BY DEF InState
  <2>3. Cardinality(InState("verify")') = Cardinality(InState("verify")) - 1
        /\ Cardinality(InState("verify")') \in Nat
    <3>1. InState("verify") \in SUBSET Sessions /\ InState("verify") \ {s} \in SUBSET Sessions
      BY DEF InState
    <3>2. Cardinality(InState("verify") \ {s}) \in Nat
      BY <3>1, SessionSets
    <3>3. Cardinality(InState("verify") \ {s}) = Cardinality(InState("verify")) - 1
      BY <2>2, <3>1, SessionSets
    <3> QED
      BY <2>1, <3>2, <3>3
  <2>4. login' \in [Sessions -> LoginState]
    BY <1>1 DEF SlotsOK
  <2>5. LineOK'
    BY <1>1, <2>1 DEF SlotsOK, LineOK
  <2> QED
    BY <1>1, <2>3, <2>4, <2>5, GuardAssumption DEF SlotsOK
<1>2. CASE /\ waiting # <<>> /\ login' = [login EXCEPT ![s] = next, ![Head(waiting)] = "verify"]
           /\ waiting' = Tail(waiting) /\ UNCHANGED running
  <2> DEFINE h == Head(waiting)
  <2>1. /\ Len(waiting) \in Nat \ {0} /\ h = waiting[1] /\ 1 \in DOMAIN waiting
        /\ DOMAIN waiting = 1..Len(waiting) /\ DOMAIN waiting' = 1..(Len(waiting) - 1)
        /\ waiting' \in Seq(Sessions) /\ Len(waiting') = Len(waiting) - 1
        /\ \A i \in 1..(Len(waiting) - 1) : waiting'[i] = waiting[i + 1]
        /\ \A i \in 1..Len(waiting) : waiting[i] \in Sessions
    BY <1>2 DEF SlotsOK
  <2>2. login[h] = "wait" /\ h \in Sessions /\ h # s
    BY <2>1 DEF SlotsOK, LineOK
  <2>3. \A t \in Sessions : login'[t] = IF t = h THEN "verify" ELSE IF t = s THEN next ELSE login[t]
    BY <1>2, <2>2 DEF SlotsOK
  <2>4. InState("wait")' = InState("wait") \ {h} /\ InState("verify")' = (InState("verify") \ {s}) \cup {h}
    BY <2>2, <2>3 DEF InState
  <2>5. Cardinality(InState("wait")') = Cardinality(InState("wait")) - 1
    BY <2>2, <2>4, SessionSets DEF InState
  <2>6. Cardinality(InState("verify")') = Cardinality(InState("verify"))
    <3>1. s \in InState("verify") /\ h \notin InState("verify") \ {s}
      BY <2>2 DEF InState
    <3>2. /\ Cardinality(InState("verify") \ {s}) = Cardinality(InState("verify")) - 1
          /\ Cardinality(InState("verify")) \in Nat
      BY <3>1, SessionSets DEF InState
    <3>3. Cardinality((InState("verify") \ {s}) \cup {h}) = Cardinality(InState("verify") \ {s}) + 1
      BY <3>1, SessionSets DEF InState
    <3>4. InState("verify")' = (InState("verify") \ {s}) \cup {h}
      BY <2>4
    <3>5. Cardinality(InState("verify"))' = Cardinality((InState("verify") \ {s}) \cup {h})
      BY <3>4, Zenon
    <3> HIDE DEF h
    <3> QED
      BY <3>2, <3>3, <3>5
  <2>7. \A i \in 1..(Len(waiting) - 1) : waiting'[i] # h /\ i + 1 \in DOMAIN waiting /\ i + 1 # 1
    BY SMTT(30), <2>1 DEF SlotsOK, LineOK
  <2>8. \A i \in DOMAIN waiting' : login'[waiting'[i]] = "wait"
    <3> SUFFICES ASSUME NEW i \in 1..(Len(waiting) - 1) PROVE login'[waiting'[i]] = "wait"
      BY <2>1
    <3>1. waiting'[i] \in Sessions /\ login[waiting'[i]] = "wait" /\ waiting'[i] # h
      BY <2>1, <2>7 DEF SlotsOK, LineOK
    <3> QED
      BY <2>3, <3>1
  <2>9. \A i, j \in DOMAIN waiting' : waiting'[i] = waiting'[j] => i = j
    <3> SUFFICES ASSUME NEW i \in 1..(Len(waiting) - 1), NEW j \in 1..(Len(waiting) - 1),
                        waiting'[i] = waiting'[j]
                 PROVE  i = j
      BY <2>1
    <3>1. waiting[i + 1] = waiting[j + 1] /\ i + 1 \in DOMAIN waiting /\ j + 1 \in DOMAIN waiting
      BY <2>1, <2>7
    <3>2. i + 1 = j + 1
      BY <3>1 DEF SlotsOK, LineOK
    <3> QED
      BY <3>2
  <2>10. \A t \in InState("wait")' : \E i \in DOMAIN waiting' : waiting'[i] = t
    <3> SUFFICES ASSUME NEW t \in InState("wait"), t # h
                 PROVE  \E i \in DOMAIN waiting' : waiting'[i] = t
      BY <2>4
    <3>1. PICK j \in DOMAIN waiting : waiting[j] = t
      BY DEF SlotsOK, LineOK
    <3>2. j - 1 \in 1..(Len(waiting) - 1) /\ (j - 1) + 1 = j
      BY <2>1, <3>1
    <3> QED
      BY <2>1, <3>1, <3>2
  <2>11. LineOK'
    BY <2>1, <2>5, <2>8, <2>9, <2>10 DEF SlotsOK, LineOK
  <2>12. login' \in [Sessions -> LoginState]
    BY <1>2 DEF SlotsOK, LoginState
  <2> QED
    BY <1>2, <2>1, <2>6, <2>11, <2>12 DEF SlotsOK
<1> QED
  BY <1>1, <1>2 DEF LeaveSlot
-----------------------------------------------------------------------------
(* No address has more pending logins than before. *)
LEMMA FewerPending ==
    ASSUME FailuresOK, UNCHANGED failures, Outage <= Outage', Outage \in Nat, Outage' \in Nat,
           \A i \in Ips : Pending(i)' \subseteq Pending(i)
    PROVE  FailuresOK'
<1> SUFFICES ASSUME NEW i \in Ips
             PROVE  failures[i] + Cardinality(Pending(i)') < MaxFailures + Cardinality(Sessions) + Outage'
  BY DEF FailuresOK
<1>1. Pending(i) \in SUBSET Sessions /\ Pending(i)' \in SUBSET Pending(i)
  BY DEF Pending
<1>2. /\ Cardinality(Pending(i)') <= Cardinality(Pending(i))
      /\ Cardinality(Pending(i)') \in Nat /\ Cardinality(Pending(i)) \in Nat
      /\ Cardinality(Sessions) \in Nat
  <2>1. Pending(i)' \in SUBSET Sessions
    BY <1>1
  <2> QED
    BY <1>1, <2>1, FewerSessions, SessionSets
<1>3. failures[i] \in Nat /\ MaxFailures \in Nat
  BY GuardAssumption DEF FailuresOK
<1>4. failures[i] + Cardinality(Pending(i)) < MaxFailures + Cardinality(Sessions) + Outage
  BY DEF FailuresOK
<1> HIDE DEF Outage, Pending
<1> QED
  BY <1>2, <1>3, <1>4

LEMMA OutageGrows ==
    /\ Outage \in Nat /\ Outage' \in Nat
    /\ faults \subseteq faults' => Outage <= Outage'
    /\ Fault("reject") => Outage' = Outage + 1
<1>1. Outage = (IF "reject" \in faults THEN 1 ELSE 0) /\ Outage' = (IF "reject" \in faults' THEN 1 ELSE 0)
  BY OutageNat DEF Outage
<1>2. Fault("reject") => "reject" \notin faults /\ "reject" \in faults'
  BY DEF Fault
<1> HIDE DEF Outage
<1> QED
  BY <1>1, <1>2

LEMMA FaultTyped ==
    ASSUME faults \subseteq FaultKinds, NEW k, Fault(k)
    PROVE  faults' \subseteq FaultKinds /\ faults \subseteq faults'
BY DEF Fault

(* The shape of every step by which a login moves *)
LEMMA LoginMoves ==
    ASSUME SlotsOK, NEW s \in Sessions
    PROVE  /\ EnterSlot(s) => login' = [login EXCEPT ![s] = login'[s]] /\ login'[s] \in {"wait", "verify"}
           /\ \A next \in LoginState \ {"wait", "verify"} :
                 LeaveSlot(s, next) /\ login[s] = "verify" =>
                   \A t \in Sessions :
                     \/ t = s /\ login'[t] = next
                     \/ t # s /\ login[t] = "wait" /\ login'[t] = "verify"
                     \/ t # s /\ login'[t] = login[t]
<1>1. EnterSlot(s) => login' = [login EXCEPT ![s] = login'[s]] /\ login'[s] \in {"wait", "verify"}
  BY DEF EnterSlot, SlotsOK
<1>2. ASSUME NEW next \in LoginState \ {"wait", "verify"}, LeaveSlot(s, next), login[s] = "verify",
             NEW t \in Sessions
      PROVE  \/ t = s /\ login'[t] = next
             \/ t # s /\ login[t] = "wait" /\ login'[t] = "verify"
             \/ t # s /\ login'[t] = login[t]
  <2>1. waiting # <<>> => Head(waiting) \in Sessions /\ login[Head(waiting)] = "wait"
    <3>1. waiting # <<>> => Len(waiting) \in Nat \ {0} /\ Head(waiting) = waiting[1]
                            /\ DOMAIN waiting = 1..Len(waiting) /\ waiting[1] \in Sessions
      BY DEF SlotsOK
    <3> QED
      BY <3>1 DEF SlotsOK, LineOK
  <2> QED
    BY <1>2, <2>1 DEF LeaveSlot, SlotsOK
<1> QED
  BY <1>1, <1>2

LEMMA AttemptInv ==
    ASSUME GuardInv, NEW s \in Sessions, NEW ip \in Ips \cup {NoIp}, Attempt(s, ip)
    PROVE  GuardInv'
<1>1. login[s] = "out" /\ from' = [from EXCEPT ![s] = ip] /\ UNCHANGED <<failures, faults>>
  BY DEF Attempt
<1>2. CASE ip # NoIp
  <2>1. login' = [login EXCEPT ![s] = "count"] /\ UNCHANGED <<running, waiting>>
    BY <1>2 DEF Attempt, Attributable
  <2>2. SlotsOK'
    BY <1>1, <2>1, MoveSlots DEF GuardInv, LoginState
  <2>3. FromOK'
    BY <1>1, <1>2, <2>1 DEF GuardInv, FromOK, SlotsOK
  <2>4. \A i \in Ips : Pending(i)' \subseteq Pending(i)
    BY <1>1, <2>1 DEF Pending, GuardInv, SlotsOK, FromOK
  <2> QED
    BY <1>1, <2>2, <2>3, <2>4, FewerPending, OutageGrows DEF GuardInv
<1>3. CASE ip = NoIp
  <2>1. EnterSlot(s)
    BY <1>3 DEF Attempt, Attributable
  <2>2. SlotsOK' /\ login' = [login EXCEPT ![s] = login'[s]] /\ login'[s] \in {"wait", "verify"}
    BY <1>1, <2>1, EnterSlots, LoginMoves DEF GuardInv
  <2>3. FromOK'
    BY <1>1, <1>3, <2>2 DEF GuardInv, FromOK, SlotsOK
  <2>4. \A i \in Ips : Pending(i)' \subseteq Pending(i)
    BY <1>1, <1>3, <2>2, GuardAssumption DEF Pending, GuardInv, SlotsOK, FromOK
  <2> QED
    BY <1>1, <2>2, <2>3, <2>4, FewerPending, OutageGrows DEF GuardInv
<1> QED
  BY <1>2, <1>3

(* A counter read as n lets a login pass while it is below the limit, or    *)
(* when the store is down.                                                  *)
LEMMA CountedInv ==
    ASSUME GuardInv, NEW s \in Sessions, login[s] = "count", NEW n, Counted(s, n), UNCHANGED failures,
           \/ n = failures[from[s]] /\ UNCHANGED faults
           \/ Fault("reject")
    PROVE  GuardInv'
<1>1. faults' \subseteq FaultKinds /\ faults \subseteq faults' /\ from[s] \in Ips
  BY FaultTyped DEF GuardInv, FromOK
<1>2. CASE LockedOut(n) /\ login' = [login EXCEPT ![s] = "out"] /\ Forget(s) /\ UNCHANGED <<running, waiting>>
  <2>1. SlotsOK'
    BY <1>2, MoveSlots DEF GuardInv, LoginState
  <2>2. FromOK'
    BY <1>2 DEF GuardInv, FromOK, SlotsOK, Forget
  <2>3. \A i \in Ips : Pending(i)' \subseteq Pending(i)
    BY <1>2 DEF Pending, GuardInv, SlotsOK, FromOK, Forget
  <2> QED
    BY <1>1, <2>1, <2>2, <2>3, FewerPending, OutageGrows DEF GuardInv
<1>3. CASE ~LockedOut(n) /\ EnterSlot(s) /\ UNCHANGED from
  <2>1. SlotsOK' /\ login' = [login EXCEPT ![s] = login'[s]] /\ login'[s] \in {"wait", "verify"}
    BY <1>3, EnterSlots, LoginMoves DEF GuardInv
  <2>2. FromOK'
    BY <1>3, <2>1 DEF GuardInv, FromOK, SlotsOK
  <2>3. ASSUME NEW i \in Ips
        PROVE  failures[i] + Cardinality(Pending(i)') < MaxFailures + Cardinality(Sessions) + Outage'
    <3>1. /\ Pending(i) \in SUBSET Sessions /\ Pending(i)' \in SUBSET Sessions
          /\ Pending(i)' = IF i = from[s] THEN Pending(i) \cup {s} ELSE Pending(i)
      BY <1>3, <2>1 DEF Pending, GuardInv, SlotsOK
    <3>2. /\ Cardinality(Pending(i)') <= Cardinality(Sessions) /\ Cardinality(Sessions) \in Nat
          /\ Cardinality(Pending(i)') \in Nat /\ Cardinality(Pending(i)) \in Nat
          /\ Cardinality(Pending(i)') <= Cardinality(Pending(i)) + 1
      <4>1. /\ Cardinality(Pending(i)') <= Cardinality(Sessions) /\ Cardinality(Sessions) \in Nat
            /\ Cardinality(Pending(i)') \in Nat /\ Cardinality(Pending(i)) \in Nat
        BY <3>1, SessionSets
      <4>2. /\ Cardinality(Pending(i) \cup {s}) <= Cardinality(Pending(i)) + 1
            /\ Cardinality(Pending(i)) <= Cardinality(Pending(i)) + 1
        <5>1. Cardinality(Pending(i) \cup {s}) \in {Cardinality(Pending(i)), Cardinality(Pending(i)) + 1}
          BY <3>1, SessionSets
        <5> HIDE DEF Pending
        <5> QED
          BY <4>1, <5>1
      <4> QED
        BY <3>1, <4>1, <4>2
    <3>3. failures[i] \in Nat /\ MaxFailures \in Nat
      BY GuardAssumption DEF GuardInv, FailuresOK
    <3>4. failures[i] + Cardinality(Pending(i)) < MaxFailures + Cardinality(Sessions) + Outage
      BY DEF GuardInv, FailuresOK
    <3>5. CASE i # from[s]
      <4>1. Pending(i)' = Pending(i) /\ Outage <= Outage' /\ Outage \in Nat /\ Outage' \in Nat
        BY <1>1, <3>1, <3>5, OutageGrows
      <4>2. Cardinality(Pending(i)') = Cardinality(Pending(i))
        BY <4>1
      <4> HIDE DEF Pending, Outage
      <4> QED
        BY <3>2, <3>3, <3>4, <4>1, <4>2
    <3>6. CASE i = from[s] /\ n = failures[i]
      <4>1. failures[i] < MaxFailures
        BY <1>3, <3>3, <3>6 DEF LockedOut
      <4>2. Outage' \in Nat
        BY OutageGrows
      <4> HIDE DEF Pending, Outage
      <4> QED
        BY <3>2, <3>3, <4>1, <4>2
    <3>7. CASE Fault("reject")
      <4>1. Outage' = Outage + 1 /\ Outage \in Nat
        BY <3>7, OutageGrows
      <4> HIDE DEF Pending, Outage
      <4> QED
        BY <3>2, <3>3, <3>4, <4>1
    <3> QED
      BY <3>5, <3>6, <3>7
  <2>4. FailuresOK'
    BY <2>3 DEF GuardInv, FailuresOK
  <2> QED
    BY <1>1, <2>1, <2>2, <2>4 DEF GuardInv
<1> QED
  BY <1>2, <1>3 DEF Counted

LEMMA VerifyInv ==
    ASSUME GuardInv, NEW s \in Sessions, VerifySucceeds(s) \/ VerifyRefuses(s) \/ VerifyRejects(s)
    PROVE  GuardInv'
<1>1. faults' \subseteq FaultKinds /\ faults \subseteq faults' /\ login[s] = "verify" /\ UNCHANGED failures
  BY FaultTyped DEF GuardInv, VerifySucceeds, VerifyRefuses, VerifyRejects
<1>2. PICK next \in {"in", "out", "record"} :
         /\ LeaveSlot(s, next)
         /\ \/ Forget(s) /\ next # "record"
            \/ UNCHANGED from /\ (next = "record" => from[s] # NoIp)
  BY DEF VerifySucceeds, VerifyRefuses, VerifyRejects, AfterRefusal
<1>3. next \in LoginState \ {"wait", "verify"}
  BY DEF LoginState
<1>4. SlotsOK'
  BY <1>1, <1>2, <1>3, LeaveSlots DEF GuardInv
<1>5. \A t \in Sessions : \/ t = s /\ login'[t] = next
                          \/ t # s /\ login[t] = "wait" /\ login'[t] = "verify"
                          \/ t # s /\ login'[t] = login[t]
  BY <1>1, <1>2, <1>3, LoginMoves DEF GuardInv
<1>6. /\ from \in [Sessions -> Ips \cup {NoIp}] /\ from' \in [Sessions -> Ips \cup {NoIp}]
      /\ \A t \in Sessions \ {s} : from'[t] = from[t]
      /\ from'[s] = from[s] \/ from'[s] = NoIp
  BY <1>2 DEF GuardInv, FromOK, Forget
<1>7. FromOK'
  BY <1>2, <1>5, <1>6 DEF GuardInv, FromOK, Forget
<1>8. \A i \in Ips : Pending(i)' \subseteq Pending(i)
  BY <1>1, <1>5, <1>6, GuardAssumption DEF Pending
<1> QED
  BY <1>1, <1>4, <1>7, <1>8, FewerPending, OutageGrows DEF GuardInv

LEMMA RecordInv ==
    ASSUME GuardInv, NEW s \in Sessions, RecordFailure(s) \/ RecordFails(s)
    PROVE  GuardInv'
<1>1. /\ faults' \subseteq FaultKinds /\ faults \subseteq faults' /\ login[s] = "record"
      /\ login' = [login EXCEPT ![s] = "out"] /\ from' = [from EXCEPT ![s] = NoIp]
      /\ UNCHANGED <<running, waiting>>
  BY FaultTyped DEF GuardInv, RecordFailure, RecordFails, Forget
<1>2. SlotsOK'
  BY <1>1, MoveSlots DEF GuardInv, LoginState
<1>3. FromOK'
  BY <1>1 DEF GuardInv, FromOK, SlotsOK
<1>4. \A i \in Ips : /\ Pending(i)' = IF i = from[s] THEN Pending(i) \ {s} ELSE Pending(i)
                     /\ i = from[s] => s \in Pending(i)
                     /\ Pending(i) \in SUBSET Sessions
  BY <1>1, GuardAssumption DEF Pending, GuardInv, SlotsOK, FromOK
<1>5. CASE RecordFails(s)
  <2>1. UNCHANGED failures /\ \A i \in Ips : Pending(i)' \subseteq Pending(i)
    BY <1>4, <1>5 DEF RecordFails
  <2> QED
    BY <1>1, <1>2, <1>3, <2>1, FewerPending, OutageGrows DEF GuardInv
<1>6. CASE RecordFailure(s)
  <2>1. failures' = [failures EXCEPT ![from[s]] = @ + 1] /\ UNCHANGED faults /\ from[s] \in Ips
    BY <1>1, <1>6 DEF RecordFailure, GuardInv, FromOK
  <2>2. ASSUME NEW i \in Ips
        PROVE  failures'[i] + Cardinality(Pending(i)') < MaxFailures + Cardinality(Sessions) + Outage'
    <3>1. failures[i] + Cardinality(Pending(i)) < MaxFailures + Cardinality(Sessions) + Outage
      BY DEF GuardInv, FailuresOK
    <3>2. Outage' = Outage
      BY <2>1 DEF Outage
    <3>3. failures[i] \in Nat /\ failures'[i] = IF i = from[s] THEN failures[i] + 1 ELSE failures[i]
      BY <2>1 DEF GuardInv, FailuresOK
    <3>4. Cardinality(Pending(i)) \in Nat
          /\ Cardinality(Pending(i)') = IF i = from[s] THEN Cardinality(Pending(i)) - 1 ELSE Cardinality(Pending(i))
      <4>1. i = from[s] => Cardinality(Pending(i) \ {s}) = Cardinality(Pending(i)) - 1
        BY <1>4, SessionSets
      <4> QED
        BY <1>4, <4>1, SessionSets
    <3> HIDE DEF Pending, Outage
    <3> QED
      BY <3>1, <3>2, <3>3, <3>4
  <2>3. failures' \in [Ips -> Nat]
    BY <2>1 DEF GuardInv, FailuresOK
  <2>4. FailuresOK'
    BY <2>2, <2>3 DEF FailuresOK
  <2> QED
    BY <1>1, <1>2, <1>3, <2>4 DEF GuardInv
<1> QED
  BY <1>5, <1>6

LEMMA EmptyStates ==
    ASSUME login \in [Sessions -> {"out"}]
    PROVE  /\ InState("wait") = {} /\ InState("verify") = {}
           /\ \A i \in Ips : Pending(i) = {}
BY DEF InState, Pending

Nobody == /\ login \in [Sessions -> {"out"}] /\ from = [s \in Sessions |-> NoIp]
          /\ running = 0 /\ waiting = <<>>

LEMMA NobodyIn == Nobody => SlotsOK /\ FromOK
<1> SUFFICES ASSUME Nobody PROVE SlotsOK /\ FromOK
  OBVIOUS
<1> USE DEF Nobody
<1>1. Cardinality(InState("wait")) = 0 /\ Cardinality(InState("verify")) = 0
  BY EmptyStates, FS_EmptySet
<1>2. LineOK
  BY <1>1, EmptyStates DEF LineOK
<1>3. SlotsOK
  <2>1. waiting \in Seq(Sessions)
    OBVIOUS
  <2> QED
    BY <1>1, <1>2, <2>1, GuardAssumption DEF SlotsOK, LoginState
<1> QED
  BY <1>3 DEF FromOK

LEMMA GuardInitInv == GuardInit => GuardInv
<1> SUFFICES ASSUME GuardInit PROVE GuardInv
  OBVIOUS
<1>1. login \in [Sessions -> {"out"}] /\ faults = {} /\ failures = [i \in Ips |-> 0]
  BY DEF GuardInit
<1>2. SlotsOK /\ FromOK
  BY <1>1, NobodyIn DEF GuardInit, Nobody
<1>3. ASSUME NEW i \in Ips
      PROVE  failures[i] + Cardinality(Pending(i)) < MaxFailures + Cardinality(Sessions) + Outage
  <2>1. Cardinality(Pending(i)) = 0
    BY <1>1, EmptyStates, FS_EmptySet
  <2>2. Cardinality(Sessions) \in Nat /\ Outage \in Nat
    BY SessionSets, OutageGrows
  <2> HIDE DEF Pending, Outage
  <2> QED
    BY <1>1, <2>1, <2>2, GuardAssumption
<1> QED
  BY <1>1, <1>2, <1>3 DEF GuardInv, FailuresOK

LEMMA WindowInv == ASSUME GuardInv, WindowPasses PROVE GuardInv'
<1>1. UNCHANGED <<login, from, running, waiting, faults>> /\ failures' = [i \in Ips |-> 0]
  BY DEF WindowPasses
<1>2. SlotsOK' /\ FromOK'
  BY <1>1 DEF GuardInv, SlotsOK, FromOK, LineOK, InState
<1>3. ASSUME NEW i \in Ips
      PROVE  failures'[i] + Cardinality(Pending(i)') < MaxFailures + Cardinality(Sessions) + Outage'
  <2>1. /\ Cardinality(Pending(i)') \in Nat /\ Cardinality(Pending(i)') <= Cardinality(Sessions)
        /\ Cardinality(Sessions) \in Nat
    <3>1. Pending(i)' \in SUBSET Sessions
      BY DEF Pending
    <3> QED
      BY <3>1, SessionSets
  <2>2. Outage' \in Nat
    BY OutageGrows
  <2> HIDE DEF Pending, Outage
  <2> QED
    BY <1>1, <2>1, <2>2, GuardAssumption
<1> QED
  BY <1>1, <1>2, <1>3 DEF GuardInv, FailuresOK

LEMMA GuardCrashInv ==
    ASSUME GuardInv, GuardCrash, Fault("crash")
    PROVE  GuardInv'
<1>1. login' \in [Sessions -> {"out"}] /\ UNCHANGED failures
  BY DEF GuardCrash
<1>2. SlotsOK' /\ FromOK'
  <2>1. Nobody'
    BY <1>1 DEF GuardCrash, Nobody
  <2>2. (Nobody => SlotsOK /\ FromOK)'
    BY NobodyIn, PTL
  <2> QED
    BY <2>1, <2>2
<1>3. \A i \in Ips : Pending(i)' \subseteq Pending(i)
  BY <1>1 DEF Pending
<1> QED
  BY <1>1, <1>2, <1>3, FewerPending, OutageGrows, FaultTyped DEF GuardInv

(* Steps of acceptMessage leave the guard as it is; one that fails counts   *)
(* among the faults.                                                        *)
LEMMA GuardStandsStill ==
    ASSUME GuardInv, UNCHANGED guardVars, UNCHANGED faults \/ Fault("reject")
    PROVE  GuardInv'
<1>1. SlotsOK' /\ FromOK'
  BY DEF GuardInv, SlotsOK, FromOK, LineOK, InState, guardVars
<1>2. faults' \subseteq FaultKinds /\ faults \subseteq faults'
  BY FaultTyped DEF GuardInv
<1>3. \A i \in Ips : Pending(i)' \subseteq Pending(i)
  BY DEF Pending, guardVars
<1> QED
  BY <1>1, <1>2, <1>3, FewerPending, OutageGrows DEF GuardInv, guardVars

LEMMA LoginStepInv == ASSUME GuardInv, NEW s \in Sessions, LoginStep(s) PROVE GuardInv'
<1>1. CASE ReadCount(s) \/ CountFails(s)
  BY <1>1, CountedInv DEF ReadCount, CountFails
<1>2. CASE VerifySucceeds(s) \/ VerifyRefuses(s) \/ VerifyRejects(s)
  BY <1>2, VerifyInv
<1>3. CASE RecordFailure(s) \/ RecordFails(s)
  BY <1>3, RecordInv
<1> QED
  BY <1>1, <1>2, <1>3 DEF LoginStep

(* A step of the whole is a step of the guard, or of acceptMessage, or both *)
(* fall together.                                                           *)
LEMMA NextGuard == GuardInv /\ [Next]_vars => GuardInv'
<1> SUFFICES ASSUME GuardInv, [Next]_vars PROVE GuardInv'
  OBVIOUS
<1>1. CASE UNCHANGED vars
  BY <1>1, GuardStandsStill DEF vars
<1>2. ASSUME NEW s \in Sessions, NEW ip \in Ips \cup {NoIp}, Attempt(s, ip) PROVE GuardInv'
  BY <1>2, AttemptInv
<1>3. ASSUME NEW s \in Sessions, UNCHANGED <<guardVars, faults>> PROVE GuardInv'
  BY <1>3, GuardStandsStill
<1>4. ASSUME NEW s \in Sessions, Serve(s) PROVE GuardInv'
  BY <1>4, LoginStepInv, GuardStandsStill DEF Serve
<1>5. ASSUME NEW s \in Sessions, CallFails(s), UNCHANGED guardVars PROVE GuardInv'
  BY <1>5, GuardStandsStill DEF CallFails
<1>6. CASE WindowPasses
  BY <1>6, WindowInv
<1>7. CASE UNCHANGED <<guardVars, faults>>
  BY <1>7, GuardStandsStill
<1>8. CASE Crash
  BY <1>8, GuardCrashInv DEF Crash
<1> QED
  BY <1>1, <1>2, <1>3, <1>4, <1>5, <1>6, <1>7, <1>8 DEF Next

LEMMA GuardInvHolds == GuardInv => GuardHolds
<1> SUFFICES ASSUME GuardInv PROVE GuardHolds
  OBVIOUS
<1>1. ASSUME NEW i \in Ips
      PROVE  failures[i] < MaxFailures + Cardinality(Sessions) + Outage
  <2>1. failures[i] + Cardinality(Pending(i)) < MaxFailures + Cardinality(Sessions) + Outage
    BY DEF GuardInv, FailuresOK
  <2>2. Cardinality(Pending(i)) \in Nat /\ failures[i] \in Nat
    <3>1. Pending(i) \in SUBSET Sessions
      BY DEF Pending
    <3> QED
      BY <3>1, SessionSets DEF GuardInv, FailuresOK
  <2>3. Cardinality(Sessions) \in Nat /\ Outage \in Nat /\ MaxFailures \in Nat
    BY SessionSets, OutageGrows, GuardAssumption
  <2> HIDE DEF Pending, Outage
  <2> QED
    BY <2>1, <2>2, <2>3
<1> QED
  BY <1>1 DEF GuardHolds, GuardInv, SlotsOK, LineOK, ChecksBounded, NobodyWaitsInVain,
              FailuresBounded, Outage
-----------------------------------------------------------------------------
(* What a call of acceptMessage knows of the submission it works on *)
CallOK(c) ==
    LET w == work[c] IN
    /\ w.pc = "idle" => w = Idle
    /\ w.pc # "idle" => /\ w.of \in Submissions /\ w.size >= 1
                        /\ reply[w.of] = "open" \/ (w.pc = "post" /\ reply[w.of] = "retry")
    /\ w.pc \in {"rate", "reserve", "insert", "update"} =>
          w.plan \in Plans /\ w.size <= MaxRecipients[w.plan]
    /\ w.pc = "update" => counter.exists
    /\ w.pc \in {"create", "post"} => w.of \in content
    /\ w.pc = "create" => w.due = {"event", "job"}
    /\ w.pc = "post" =>
          /\ w.of \in message
          /\ reply[w.of] = "open" => /\ "event" \in w.due \/ w.of \in event
                                     /\ "job" \in w.due \/ w.of \in job

(* No two calls work on the same submission. *)
CallsApart ==
    \A c, d \in Clients : work[c].of = work[d].of => work[c].of = NoSubmission \/ c = d

AcceptInv ==
    /\ AcceptTypeOK
    /\ \A c \in Clients : CallOK(c)
    /\ CallsApart
    /\ ~counter.exists => counter.accepted = 0
    /\ AcknowledgedIsStored
    /\ JobHasMessage

(* What is stored stays stored, and the month's row stays. *)
StoresGrow ==
    /\ content \subseteq content' /\ message \subseteq message'
    /\ event \subseteq event' /\ job \subseteq job'
    /\ counter.exists => counter'.exists

StoresTyped ==
    /\ counter \in Counter
    /\ ~counter.exists => counter.accepted = 0
    /\ content \subseteq Submissions /\ message \subseteq Submissions
    /\ event \subseteq Submissions /\ job \subseteq Submissions

LEMMA IdleOf == Idle.pc = "idle" /\ Idle.of = NoSubmission /\ Idle \in Work
BY DEF Idle, Work

(* A call that goes on with its submission or takes up a new one, m, leaves *)
(* the other calls as they were.                                            *)
LEMMA OtherCalls ==
    ASSUME AcceptInv, StoresGrow, NEW c \in Clients, NEW m \in Submissions, NEW d \in Clients, d # c,
           m = work[c].of \/ reply[m] = "none",
           work'[d] = work[d], \A n \in Submissions \ {m} : reply'[n] = reply[n]
    PROVE  CallOK(d)' /\ work[d].of # m
<1>1. CallOK(d) /\ CallOK(c)
  BY DEF AcceptInv
<1>2. work[d].of # m
  <2>1. CASE work[d].pc = "idle"
    BY <1>1, <2>1, IdleOf, AcceptanceAssumption DEF CallOK
  <2>2. CASE work[d].pc # "idle"
    BY <1>1, <2>2, AcceptanceAssumption DEF CallOK, AcceptInv, CallsApart
  <2> QED
    BY <2>1, <2>2
<1>3. work[d].pc # "idle" => reply'[work[d].of] = reply[work[d].of]
  BY <1>1, <1>2 DEF CallOK
<1>4. CallOK(d)'
  BY <1>1, <1>3 DEF CallOK, StoresGrow
<1> QED
  BY <1>2, <1>4

LEMMA GoesOn ==
    ASSUME AcceptInv, StoresGrow, StoresTyped', NEW c \in Clients, NEW w \in Work,
           w.of = work[c].of, work[c].pc # "idle", work' = [work EXCEPT ![c] = w],
           UNCHANGED <<plan, reply>>, CallOK(c)', JobHasMessage'
    PROVE  AcceptInv'
<1>1. work \in [Clients -> Work] /\ reply \in [Submissions -> Replies] /\ work[c].of \in Submissions
  BY DEF AcceptInv, AcceptTypeOK, CallOK
<1>2. ASSUME NEW d \in Clients PROVE CallOK(d)'
  <2>1. CASE d # c
    BY <1>1, <2>1, OtherCalls
  <2> QED
    BY <2>1
<1>3. CallsApart'
  BY <1>1 DEF AcceptInv, CallsApart
<1>4. AcceptTypeOK'
  BY <1>1 DEF AcceptInv, AcceptTypeOK, StoresTyped
<1>5. AcknowledgedIsStored'
  BY DEF AcceptInv, AcknowledgedIsStored, StoresGrow
<1> QED
  BY <1>2, <1>3, <1>4, <1>5 DEF AcceptInv, StoresTyped

LEMMA SameStores == ASSUME AcceptInv, UNCHANGED stores PROVE StoresGrow /\ StoresTyped' /\ JobHasMessage'
BY DEF AcceptInv, AcceptTypeOK, stores, StoresGrow, StoresTyped, JobHasMessage

LEMMA ReplyInv ==
    ASSUME AcceptInv, NEW c \in Clients, work[c].pc # "idle", NEW r \in Replies \ {"none", "open"},
           Reply(c, r), UNCHANGED <<plan, stores>>,
           r = "ok" => work[c].of \in content \cap message \cap event \cap job
    PROVE  AcceptInv'
<1>1. /\ work \in [Clients -> Work] /\ reply \in [Submissions -> Replies] /\ work[c].of \in Submissions
      /\ reply' = [reply EXCEPT ![work[c].of] = r] /\ work' = [work EXCEPT ![c] = Idle]
  BY DEF AcceptInv, AcceptTypeOK, CallOK, Reply
<1>2. StoresGrow /\ StoresTyped' /\ JobHasMessage'
  BY SameStores
<1>3. ASSUME NEW d \in Clients PROVE CallOK(d)'
  <2>1. CASE d # c
    BY <1>1, <1>2, <2>1, OtherCalls
  <2>2. CASE d = c
    BY <1>1, <2>2, IdleOf DEF CallOK
  <2> QED
    BY <2>1, <2>2
<1>4. CallsApart'
  BY <1>1, IdleOf DEF AcceptInv, CallsApart
<1>5. AcceptTypeOK'
  BY <1>1, <1>2, IdleOf DEF AcceptInv, AcceptTypeOK, StoresTyped
<1>6. AcknowledgedIsStored'
  BY <1>1 DEF AcceptInv, AcknowledgedIsStored, stores
<1> QED
  BY <1>2, <1>3, <1>4, <1>5, <1>6 DEF AcceptInv, StoresTyped

LEMMA ReceiveDataInv ==
    ASSUME AcceptInv, NEW c \in Clients, NEW m \in Submissions, NEW n \in 1..MaxSize, ReceiveData(c, m, n)
    PROVE  AcceptInv'
<1> DEFINE w == [Idle EXCEPT !.pc = "read", !.of = m, !.size = n]
<1>1. /\ work \in [Clients -> Work] /\ reply \in [Submissions -> Replies] /\ work[c] = Idle
      /\ reply[m] = "none" /\ reply' = [reply EXCEPT ![m] = "open"]
      /\ UNCHANGED <<plan, stores>>
  BY DEF AcceptInv, AcceptTypeOK, CallOK, ReceiveData, AtPc
<1>2. work' = [work EXCEPT ![c] = w]
  BY <1>1 DEF ReceiveData
<1>3. w \in Work /\ w.pc = "read" /\ w.of = m /\ w.size = n /\ n >= 1
  <2>1. n \in Nat /\ n >= 1
    BY IngressAssumption
  <2>2. Idle \in Work
    BY IdleOf
  <2> QED
    BY <2>1, <2>2 DEF Work
<1> HIDE DEF w
<1>4. StoresGrow /\ StoresTyped' /\ JobHasMessage'
  BY <1>1, SameStores
<1>5. ASSUME NEW d \in Clients, d # c PROVE CallOK(d)' /\ work[d].of # m
  BY <1>1, <1>2, <1>4, <1>5, OtherCalls
<1>6. CallOK(c)'
  BY <1>1, <1>2, <1>3 DEF CallOK
<1>7. CallsApart'
  BY <1>1, <1>2, <1>3, <1>5 DEF AcceptInv, CallsApart
<1>8. AcceptTypeOK'
  BY <1>1, <1>2, <1>3, <1>4 DEF AcceptInv, AcceptTypeOK, StoresTyped, Replies
<1>9. AcknowledgedIsStored'
  BY <1>1 DEF AcceptInv, AcknowledgedIsStored, stores
<1> QED
  BY <1>4, <1>5, <1>6, <1>7, <1>8, <1>9 DEF AcceptInv, StoresTyped

LEMMA RefuseIdentityInv ==
    ASSUME AcceptInv, NEW c \in Clients, NEW m \in Submissions, RefuseIdentity(c, m)
    PROVE  AcceptInv'
<1>1. /\ work \in [Clients -> Work] /\ reply \in [Submissions -> Replies]
      /\ reply[m] = "none" /\ reply' = [reply EXCEPT ![m] = "refused"]
      /\ UNCHANGED <<plan, work, stores>>
  BY DEF AcceptInv, AcceptTypeOK, RefuseIdentity
<1>2. StoresGrow /\ StoresTyped' /\ JobHasMessage'
  BY <1>1, SameStores
<1>3. ASSUME NEW d \in Clients PROVE CallOK(d)'
  <2>1. CallOK(d)
    BY DEF AcceptInv
  <2>2. work[d].pc # "idle" => reply'[work[d].of] = reply[work[d].of]
    BY <1>1, <2>1 DEF CallOK
  <2> QED
    BY <1>1, <2>1, <2>2 DEF CallOK, stores
<1>4. AcceptTypeOK'
  BY <1>1, <1>2 DEF AcceptInv, AcceptTypeOK, StoresTyped, Replies
<1>5. AcknowledgedIsStored' /\ CallsApart'
  BY <1>1 DEF AcceptInv, AcknowledgedIsStored, CallsApart, stores
<1> QED
  BY <1>2, <1>3, <1>4, <1>5 DEF AcceptInv, StoresTyped

(* A call that only moves on, with the plan it read *)
LEMMA GotoInv ==
    ASSUME AcceptInv, NEW c \in Clients, work[c].pc # "idle",
           NEW pc \in {"rate", "reserve", "insert", "update"}, NEW p \in Plans,
           Size(c) <= MaxRecipients[p], pc = "update" => counter.exists, work[c].pc # "post",
           work' = [work EXCEPT ![c] = [@ EXCEPT !.pc = pc, !.plan = p]],
           UNCHANGED <<plan, reply, stores>>
    PROVE  AcceptInv'
<1> DEFINE w == [work[c] EXCEPT !.pc = pc, !.plan = p]
<1>1. /\ work[c] \in Work /\ work \in [Clients -> Work]
      /\ work' = [work EXCEPT ![c] = w]
      /\ CallOK(c)
  BY DEF AcceptInv, AcceptTypeOK
<1>2. w \in Work /\ w.pc = pc /\ w.of = work[c].of /\ w.plan = p /\ w.size = work[c].size
  BY <1>1 DEF Work
<1> HIDE DEF w
<1>3. StoresGrow /\ StoresTyped' /\ JobHasMessage'
  BY SameStores
<1>4. CallOK(c)'
  BY <1>1, <1>2 DEF CallOK, stores, Size
<1> QED
  BY <1>1, <1>2, <1>3, <1>4, GoesOn

LEMMA ReadPlanInv == ASSUME AcceptInv, NEW c \in Clients, ReadPlan(c) PROVE AcceptInv'
<1>1. work[c].pc = "read" /\ plan \in Plans /\ UNCHANGED <<plan, stores>>
  BY DEF ReadPlan, AtPc, AcceptInv, AcceptTypeOK
<1>2. CASE Reply(c, "refused")
  BY <1>1, <1>2, ReplyInv DEF Replies
<1>3. CASE /\ Size(c) <= MaxRecipients[plan] /\ UNCHANGED reply
           /\ work' = [work EXCEPT ![c].pc = "rate", ![c].plan = plan]
  <2>1. work' = [work EXCEPT ![c] = [@ EXCEPT !.pc = "rate", !.plan = plan]]
    BY <1>3 DEF AcceptInv, AcceptTypeOK
  <2> QED
    BY <1>1, <1>3, <2>1, GotoInv
<1> QED
  BY <1>2, <1>3 DEF ReadPlan

LEMMA KeepsPlan ==
    ASSUME AcceptInv, NEW c \in Clients, work[c].pc \in {"rate", "reserve", "insert", "update"},
           NEW pc, Goto(c, pc)
    PROVE  /\ work[c].plan \in Plans /\ Size(c) <= MaxRecipients[work[c].plan]
           /\ work' = [work EXCEPT ![c] = [@ EXCEPT !.pc = pc, !.plan = work[c].plan]]
<1>1. /\ work[c].plan \in Plans /\ Size(c) <= MaxRecipients[work[c].plan]
      /\ work[c] \in Work /\ work \in [Clients -> Work]
  BY DEF AcceptInv, AcceptTypeOK, CallOK, Size
<1>2. [work[c] EXCEPT !.pc = pc, !.plan = work[c].plan] = [work[c] EXCEPT !.pc = pc]
  BY <1>1 DEF Work
<1> QED
  BY <1>1, <1>2 DEF Goto

LEMMA CheckRateInv == ASSUME AcceptInv, NEW c \in Clients, CheckRate(c) PROVE AcceptInv'
<1>1. work[c].pc = "rate" /\ UNCHANGED <<plan, stores>>
  BY DEF CheckRate, AtPc
<1>2. CASE Reply(c, "retry")
  BY <1>1, <1>2, ReplyInv DEF Replies
<1>3. CASE Goto(c, "reserve") /\ UNCHANGED reply
  BY <1>1, <1>3, KeepsPlan, GotoInv
<1> QED
  BY <1>2, <1>3 DEF CheckRate

(* What a reservation takes is charged to a row that is there afterwards. *)
LEMMA ChargeInv ==
    ASSUME AcceptInv, NEW c \in Clients, work[c].pc \in {"reserve", "insert", "update"},
           Goto(c, "store"), counter' \in Counter, counter'.exists,
           UNCHANGED <<plan, reply, content, message, event, job>>
    PROVE  AcceptInv'
<1> DEFINE w == [work[c] EXCEPT !.pc = "store"]
<1>1. /\ work[c] \in Work /\ work \in [Clients -> Work]
      /\ work' = [work EXCEPT ![c] = w]
      /\ CallOK(c)
  BY DEF AcceptInv, AcceptTypeOK, Goto
<1>2. w \in Work /\ w.pc = "store" /\ w.of = work[c].of /\ w.size = work[c].size
  BY <1>1 DEF Work
<1> HIDE DEF w
<1>3. StoresGrow /\ StoresTyped' /\ JobHasMessage'
  BY DEF StoresGrow, StoresTyped, AcceptInv, AcceptTypeOK, JobHasMessage
<1>4. CallOK(c)'
  BY <1>1, <1>2 DEF CallOK
<1> QED
  BY <1>1, <1>2, <1>3, <1>4, GoesOn

(* The row after an update, and after an insert *)
LEMMA CounterAfter ==
    ASSUME AcceptInv, NEW c \in Clients, counter.exists
    PROVE  LET k == [counter EXCEPT !.accepted = @ + Size(c)]
           IN  k \in Counter /\ k.exists /\ k.accepted = counter.accepted + Size(c)
<1>1. counter \in Counter /\ work[c] \in Work
  BY DEF AcceptInv, AcceptTypeOK
<1>2. counter.accepted + Size(c) \in Nat
  BY <1>1 DEF Counter, Work, Size
<1> DEFINE k == [counter EXCEPT !.accepted = @ + Size(c)]
<1>3. k.accepted = counter.accepted + Size(c) /\ k.exists = counter.exists
  BY <1>1 DEF Counter
<1>4. k \in Counter
  BY <1>1, <1>2 DEF Counter
<1> QED
  BY <1>3, <1>4

LEMMA TakeInv ==
    ASSUME AcceptInv, NEW c \in Clients, work[c].pc \in {"reserve", "update"}, Take(c, "store"),
           UNCHANGED <<plan, reply, content, message, event, job>>
    PROVE  AcceptInv'
<1>1. counter.exists /\ counter' = [counter EXCEPT !.accepted = @ + Size(c)] /\ Goto(c, "store")
  BY DEF Take, Fits
<1>2. counter' \in Counter /\ counter'.exists
  BY <1>1, CounterAfter
<1> QED
  BY <1>1, <1>2, ChargeInv

LEMMA ReserveQuotaInv == ASSUME AcceptInv, NEW c \in Clients, ReserveQuota(c) PROVE AcceptInv'
<1>1. work[c].pc = "reserve" /\ UNCHANGED <<plan, reply, content, message, event, job>>
  BY DEF ReserveQuota, AtPc
<1>2. CASE Take(c, "store")
  BY <1>1, <1>2, TakeInv
<1>3. CASE Goto(c, "insert") /\ UNCHANGED counter
  BY <1>1, <1>3, KeepsPlan, GotoInv DEF stores
<1>4. CASE counter.exists /\ Goto(c, "update") /\ UNCHANGED counter
  BY <1>1, <1>4, KeepsPlan, GotoInv DEF stores
<1> QED
  BY <1>2, <1>3, <1>4 DEF ReserveQuota

LEMMA InsertCounterInv == ASSUME AcceptInv, NEW c \in Clients, InsertCounter(c) PROVE AcceptInv'
<1>1. work[c].pc = "insert" /\ UNCHANGED <<plan, reply, content, message, event, job>>
  BY DEF InsertCounter, AtPc, AfterDuplicate
<1>2. CASE counter' = [exists |-> TRUE, accepted |-> Size(c)] /\ Goto(c, "store")
  <2>1. Size(c) \in Nat
    BY DEF AcceptInv, AcceptTypeOK, Work, Size
  <2>2. counter' \in Counter /\ counter'.exists
    BY <1>2, <2>1 DEF Counter
  <2> QED
    BY <1>1, <1>2, <2>2, ChargeInv
<1>3. CASE counter.exists /\ AfterDuplicate(c) /\ UNCHANGED counter
  BY <1>1, <1>3, KeepsPlan, GotoInv DEF AfterDuplicate, stores
<1> QED
  BY <1>2, <1>3 DEF InsertCounter

LEMMA UpdateCounterInv == ASSUME AcceptInv, NEW c \in Clients, UpdateCounter(c) PROVE AcceptInv'
<1>1. work[c].pc = "update" /\ UNCHANGED <<plan, content, message, event, job>>
  BY DEF UpdateCounter, AtPc
<1>2. CASE Take(c, "store") /\ UNCHANGED reply
  BY <1>1, <1>2, TakeInv
<1>3. CASE Reply(c, "full") /\ UNCHANGED counter
  BY <1>1, <1>3, ReplyInv DEF Replies, stores
<1> QED
  BY <1>2, <1>3 DEF UpdateCounter

LEMMA WorkerCountsInv == ASSUME AcceptInv, WorkerCounts PROVE AcceptInv'
<1>1. /\ counter' = [exists |-> TRUE, accepted |-> 0] /\ ~counter.exists
      /\ UNCHANGED <<plan, reply, work, content, message, event, job>>
  BY DEF WorkerCounts
<1>2. StoresTyped'
  BY <1>1 DEF StoresTyped, AcceptInv, AcceptTypeOK, Counter
<1>3. ASSUME NEW d \in Clients PROVE CallOK(d)'
  BY <1>1 DEF AcceptInv, CallOK
<1> QED
  BY <1>1, <1>2, <1>3 DEF AcceptInv, AcceptTypeOK, StoresTyped, CallsApart, AcknowledgedIsStored, JobHasMessage
-----------------------------------------------------------------------------
LEMMA StoreRawInv == ASSUME AcceptInv, NEW c \in Clients, StoreRaw(c) PROVE AcceptInv'
<1> DEFINE w == [work[c] EXCEPT !.pc = "create", !.due = {"event", "job"}]
<1>1. /\ work[c] \in Work /\ work \in [Clients -> Work] /\ work[c].pc = "store"
      /\ content' = content \cup {work[c].of} /\ work[c].of \in Submissions
      /\ CallOK(c) /\ UNCHANGED <<plan, reply, counter, message, event, job>>
  BY DEF AcceptInv, AcceptTypeOK, StoreRaw, AtPc, CallOK
<1>2. work' = [work EXCEPT ![c] = w]
  BY <1>1 DEF StoreRaw
<1>3. /\ w \in Work /\ w.pc = "create" /\ w.of = work[c].of /\ w.size = work[c].size
      /\ w.due = {"event", "job"}
  BY <1>1 DEF Work
<1> HIDE DEF w
<1>4. StoresGrow /\ StoresTyped' /\ JobHasMessage'
  BY <1>1 DEF StoresGrow, StoresTyped, AcceptInv, AcceptTypeOK, JobHasMessage
<1>5. CallOK(c)'
  BY <1>1, <1>2, <1>3 DEF CallOK
<1> QED
  BY <1>1, <1>2, <1>3, <1>4, <1>5, GoesOn

LEMMA CreateMessageInv == ASSUME AcceptInv, NEW c \in Clients, CreateMessage(c) PROVE AcceptInv'
<1> DEFINE w == [work[c] EXCEPT !.pc = "post"]
<1>1. /\ work[c] \in Work /\ work \in [Clients -> Work] /\ work[c].pc = "create"
      /\ message' = message \cup {work[c].of} /\ work[c].of \in Submissions /\ work[c].of \in content
      /\ work[c].due = {"event", "job"}
      /\ CallOK(c) /\ UNCHANGED <<plan, reply, counter, content, event, job>>
  BY DEF AcceptInv, AcceptTypeOK, CreateMessage, AtPc, CallOK
<1>2. work' = [work EXCEPT ![c] = w]
  BY <1>1 DEF CreateMessage, Goto
<1>3. /\ w \in Work /\ w.pc = "post" /\ w.of = work[c].of /\ w.size = work[c].size
      /\ w.due = {"event", "job"}
  BY <1>1 DEF Work
<1> HIDE DEF w
<1>4. StoresGrow /\ StoresTyped' /\ JobHasMessage'
  BY <1>1 DEF StoresGrow, StoresTyped, AcceptInv, AcceptTypeOK, JobHasMessage
<1>5. CallOK(c)'
  BY <1>1, <1>2, <1>3 DEF CallOK
<1> QED
  BY <1>1, <1>2, <1>3, <1>4, <1>5, GoesOn

(* One of the two last calls has been done, or has failed. *)
LEMMA Posting ==
    ASSUME AcceptInv, NEW c \in Clients, work[c].pc = "post", NEW k \in {"event", "job"},
           work' = [work EXCEPT ![c].due = @ \ {k}]
    PROVE  LET w == work'[c]
           IN  /\ w \in Work /\ w.pc = "post" /\ w.of = work[c].of /\ w.size = work[c].size
               /\ w.due = work[c].due \ {k} /\ w.of \in Submissions /\ w.of \in message
               /\ work' = [work EXCEPT ![c] = w]
<1>1. work[c] \in Work /\ work \in [Clients -> Work] /\ work[c].of \in Submissions /\ work[c].of \in message
  BY DEF AcceptInv, AcceptTypeOK, CallOK
<1> QED
  BY <1>1 DEF Work

LEMMA CreateEventInv == ASSUME AcceptInv, NEW c \in Clients, CreateEvent(c) PROVE AcceptInv'
<1> DEFINE w == work'[c]
<1>1. /\ work[c].pc = "post" /\ event' = event \cup {work[c].of} /\ CallOK(c)
      /\ work' = [work EXCEPT ![c].due = @ \ {"event"}]
      /\ UNCHANGED <<plan, reply, counter, content, message, job>>
  BY DEF CreateEvent, MayPost, AtPc, AcceptInv
<1>2. /\ w \in Work /\ w.pc = "post" /\ w.of = work[c].of /\ w.size = work[c].size
      /\ w.due = work[c].due \ {"event"} /\ w.of \in Submissions
      /\ work' = [work EXCEPT ![c] = w]
  BY <1>1, Posting
<1>3. StoresGrow /\ StoresTyped' /\ JobHasMessage'
  BY <1>1, <1>2 DEF StoresGrow, StoresTyped, AcceptInv, AcceptTypeOK, JobHasMessage
<1>4. CallOK(c)'
  BY <1>1, <1>2 DEF CallOK
<1> HIDE DEF w
<1> QED
  BY <1>1, <1>2, <1>3, <1>4, GoesOn

LEMMA EnqueueInv == ASSUME AcceptInv, NEW c \in Clients, Enqueue(c) PROVE AcceptInv'
<1> DEFINE w == work'[c]
<1>1. /\ work[c].pc = "post" /\ job' = job \cup {work[c].of} /\ CallOK(c)
      /\ work' = [work EXCEPT ![c].due = @ \ {"job"}]
      /\ UNCHANGED <<plan, reply, counter, content, message, event>>
  BY DEF Enqueue, MayPost, AtPc, AcceptInv
<1>2. /\ w \in Work /\ w.pc = "post" /\ w.of = work[c].of /\ w.size = work[c].size
      /\ w.due = work[c].due \ {"job"} /\ w.of \in Submissions /\ w.of \in message
      /\ work' = [work EXCEPT ![c] = w]
  BY <1>1, Posting
<1>3. StoresGrow /\ StoresTyped' /\ JobHasMessage'
  BY <1>1, <1>2 DEF StoresGrow, StoresTyped, AcceptInv, AcceptTypeOK, JobHasMessage
<1>4. CallOK(c)'
  BY <1>1, <1>2 DEF CallOK
<1> HIDE DEF w
<1> QED
  BY <1>1, <1>2, <1>3, <1>4, GoesOn

LEMMA AcceptStepInv == ASSUME AcceptInv, NEW c \in Clients, Accept(c) PROVE AcceptInv'
<1>1. work[c].pc = "post" /\ work[c].due = {} /\ CallOK(c) /\ UNCHANGED <<plan, stores>>
  BY DEF Accept, Posted, AtPc, AcceptInv
<1>2. CASE reply[work[c].of] = "open"
  <2>1. work[c].of \in content \cap message \cap event \cap job
    BY <1>1, <1>2 DEF CallOK
  <2> QED
    BY <1>1, <1>2, <2>1, ReplyInv DEF Accept, Replies
<1>3. CASE reply[work[c].of] = "retry"
  BY <1>1, <1>3, ReplyInv DEF Accept, Replies
<1> QED
  BY <1>1, <1>2, <1>3 DEF CallOK

LEMMA PostRejectsInv ==
    ASSUME AcceptInv, NEW c \in Clients, NEW k \in {"event", "job"}, PostRejects(c, k)
    PROVE  AcceptInv'
<1> DEFINE w == work'[c]
<1>1. /\ work[c].pc = "post" /\ reply' = [reply EXCEPT ![work[c].of] = "retry"] /\ CallOK(c)
      /\ work' = [work EXCEPT ![c].due = @ \ {k}] /\ UNCHANGED <<plan, stores>>
      /\ work \in [Clients -> Work] /\ reply \in [Submissions -> Replies]
  BY DEF PostRejects, AtPc, AcceptInv, AcceptTypeOK
<1>2. /\ w \in Work /\ w.pc = "post" /\ w.of = work[c].of /\ w.size = work[c].size
      /\ w.of \in Submissions /\ work' = [work EXCEPT ![c] = w]
  BY <1>1, Posting
<1>3. StoresGrow /\ StoresTyped' /\ JobHasMessage'
  BY <1>1, SameStores
<1>4. ASSUME NEW d \in Clients PROVE CallOK(d)'
  <2>1. CASE d # c
    BY <1>1, <1>2, <1>3, <2>1, OtherCalls
  <2>2. CASE d = c
    BY <1>1, <1>2, <2>2 DEF CallOK, stores
  <2> QED
    BY <2>1, <2>2
<1> HIDE DEF w
<1>5. CallsApart'
  BY <1>1, <1>2 DEF AcceptInv, CallsApart
<1>6. AcceptTypeOK'
  BY <1>1, <1>2, <1>3 DEF AcceptInv, AcceptTypeOK, StoresTyped, Replies
<1>7. AcknowledgedIsStored'
  BY <1>1 DEF AcceptInv, AcknowledgedIsStored, stores
<1> QED
  BY <1>3, <1>4, <1>5, <1>6, <1>7 DEF AcceptInv, StoresTyped

LEMMA RejectsInv == ASSUME AcceptInv, NEW c \in Clients, Rejects(c) PROVE AcceptInv'
BY ReplyInv DEF Rejects, Replies

LEMMA ChangePlanInv == ASSUME AcceptInv, NEW p \in Plans, ChangePlan(p) PROVE AcceptInv'
<1>1. plan' \in Plans /\ UNCHANGED <<reply, work, stores>>
  BY DEF ChangePlan
<1>2. ASSUME NEW d \in Clients PROVE CallOK(d)'
  BY <1>1 DEF AcceptInv, CallOK, stores
<1> QED
  BY <1>1, <1>2 DEF AcceptInv, AcceptTypeOK, CallsApart, AcknowledgedIsStored, JobHasMessage, stores

LEMMA AcceptCrashInv == ASSUME AcceptInv, AcceptCrash PROVE AcceptInv'
<1>1. /\ work' = [c \in Clients |-> Idle] /\ UNCHANGED <<plan, stores>>
      /\ \A m \in Submissions : reply'[m] = IF reply[m] = "open" THEN "lost" ELSE reply[m]
      /\ reply' \in [Submissions -> Replies]
  BY DEF AcceptCrash, AcceptInv, AcceptTypeOK, Replies
<1>2. ASSUME NEW d \in Clients PROVE CallOK(d)'
  BY <1>1, IdleOf DEF CallOK
<1>3. AcknowledgedIsStored'
  BY <1>1 DEF AcceptInv, AcknowledgedIsStored, stores
<1>4. CallsApart'
  BY <1>1, IdleOf DEF CallsApart
<1>5. AcceptTypeOK'
  BY <1>1, IdleOf DEF AcceptInv, AcceptTypeOK, stores
<1> QED
  BY <1>1, <1>2, <1>3, <1>4, <1>5 DEF AcceptInv, JobHasMessage, stores

LEMMA AcceptStandsStill == ASSUME AcceptInv, UNCHANGED acceptVars PROVE AcceptInv'
<1>1. ASSUME NEW d \in Clients PROVE CallOK(d)'
  BY DEF AcceptInv, CallOK, acceptVars, stores
<1> QED
  BY <1>1 DEF AcceptInv, AcceptTypeOK, CallsApart, AcknowledgedIsStored, JobHasMessage, acceptVars, stores

LEMMA AcceptInitInv == AcceptInit => AcceptInv
<1> SUFFICES ASSUME AcceptInit PROVE AcceptInv
  OBVIOUS
<1>1. AcceptTypeOK
  <2>1. counter \in Counter
    BY DEF AcceptInit, Counter
  <2> QED
    BY <2>1, IdleOf DEF AcceptInit, AcceptTypeOK, Replies
<1>2. \A c \in Clients : CallOK(c)
  BY IdleOf DEF AcceptInit, CallOK
<1> QED
  BY <1>1, <1>2, IdleOf DEF AcceptInit, AcceptInv, CallsApart, AcknowledgedIsStored, JobHasMessage

(* The steps that concern messages *)
MessageStep(s) ==
    \/ \E m \in Submissions : RefuseIdentity(s, m) \/ \E n \in 1..MaxSize : ReceiveData(s, m, n)
    \/ AcceptStep(s)
    \/ Rejects(s) \/ \E w \in {"event", "job"} : PostRejects(s, w)

AcceptNext ==
    \/ UNCHANGED acceptVars
    \/ \E s \in Sessions : MessageStep(s)
    \/ WorkerCounts \/ \E p \in Plans : ChangePlan(p)
    \/ AcceptCrash

LEMMA NextAccepts == [Next]_vars => AcceptNext
BY DEF Next, vars, AcceptNext, MessageStep, Submit, Serve, CallFails, Crash

LEMMA AcceptNextInv == AcceptInv /\ AcceptNext => AcceptInv'
<1> SUFFICES ASSUME AcceptInv, AcceptNext PROVE AcceptInv'
  OBVIOUS
<1>1. ASSUME NEW s \in Clients, MessageStep(s) PROVE AcceptInv'
  <2>1. CASE AcceptStep(s)
    BY <2>1, ReadPlanInv, CheckRateInv, ReserveQuotaInv, InsertCounterInv, UpdateCounterInv,
       StoreRawInv, CreateMessageInv, CreateEventInv, EnqueueInv, AcceptStepInv DEF AcceptStep
  <2> QED
    BY <1>1, <2>1, RefuseIdentityInv, ReceiveDataInv, RejectsInv, PostRejectsInv DEF MessageStep
<1> QED
  BY <1>1, AcceptStandsStill, WorkerCountsInv, ChangePlanInv, AcceptCrashInv, IngressAssumption
     DEF AcceptNext
-----------------------------------------------------------------------------
LEMMA IngressInit == Init => GuardInv /\ AcceptInv
BY GuardInitInv, AcceptInitInv DEF Init

LEMMA AlwaysInv == Spec => [](GuardInv /\ AcceptInv)
<1>1. GuardInv /\ AcceptInv /\ [Next]_vars => (GuardInv /\ AcceptInv)'
  BY NextGuard, NextAccepts, AcceptNextInv
<1> QED
  BY <1>1, IngressInit, PTL DEF Spec

(* Every variable keeps its type, through crashes and failing calls. *)
THEOREM IngressTyped == Spec => []TypeOK
<1>1. GuardInv /\ AcceptInv => TypeOK
  BY DEF GuardInv, SlotsOK, FromOK, FailuresOK, AcceptInv, TypeOK, GuardTypeOK
<1> QED
  BY <1>1, AlwaysInv, PTL

(* At most MaxConcurrent password checks run, and the guard's count of them *)
(* is exact; nobody waits while a slot is free; and an address exceeds      *)
(* MaxFailures by no more than the logins it has in flight and an outage of *)
(* the store (authGuard.ts, server.ts onAuth).                              *)
THEOREM GuardCounts == Spec => []GuardHolds
BY GuardInvHolds, AlwaysInv, PTL

(* Behind every 250 there are the content, the document, the event and the  *)
(* job, and behind every job the document and the content, wherever calls   *)
(* fail and whenever the process dies (accept.ts).                          *)
THEOREM AcceptedIsWhole == Spec => []NothingHalfStored
<1>1. AcceptInv => NothingHalfStored
  BY DEF AcceptInv, NothingHalfStored
<1> QED
  BY <1>1, AlwaysInv, PTL
-----------------------------------------------------------------------------
(* What QuotaExact says of a step *)
ChargeStep ==
    counter'.accepted # counter.accepted =>
        \E s \in Sessions :
            /\ work[s].pc \in {"reserve", "insert", "update"}
            /\ counter'.accepted = counter.accepted + Size(s)
            /\ counter'.accepted <= Quota[work[s].plan]

RefusalStep ==
    \A s \in Sessions :
        /\ work[s].of # NoSubmission
        /\ reply[work[s].of] = "open"
        /\ reply'[work[s].of] = "full"
        => counter.accepted + Size(s) > Quota[work[s].plan]

(* A reply, to the call of c, that is not "full" *)
LEMMA OtherReplies ==
    ASSUME AcceptInv, NEW c \in Clients, NEW r, r # "full", work[c].pc # "idle",
           UNCHANGED counter, reply' = [reply EXCEPT ![work[c].of] = r]
    PROVE  ChargeStep /\ RefusalStep
<1>1. /\ reply \in [Submissions -> Replies]
      /\ \A s \in Sessions : work[s].of # NoSubmission => work[s].of \in Submissions
  BY IdleOf, IngressAssumption DEF AcceptInv, AcceptTypeOK, Work
<1> QED
  BY <1>1 DEF ChargeStep, RefusalStep

LEMMA NoReplies == ASSUME UNCHANGED <<counter, reply>> PROVE ChargeStep /\ RefusalStep
BY DEF ChargeStep, RefusalStep

LEMMA TakeQuota ==
    ASSUME AcceptInv, NEW c \in Clients, work[c].pc \in {"reserve", "update"}, Take(c, "store"), UNCHANGED reply
    PROVE  ChargeStep /\ RefusalStep
<1>1. /\ counter.exists /\ counter' = [counter EXCEPT !.accepted = @ + Size(c)]
      /\ counter.accepted + Size(c) <= Quota[work[c].plan]
  BY DEF Take, Fits
<1>2. counter'.accepted = counter.accepted + Size(c)
  BY <1>1, CounterAfter
<1>3. ChargeStep
  BY <1>1, <1>2, IngressAssumption DEF ChargeStep
<1> QED
  BY <1>3 DEF RefusalStep

LEMMA InsertQuota ==
    ASSUME AcceptInv, NEW c \in Clients, InsertCounter(c)
    PROVE  ChargeStep /\ RefusalStep
<1>1. CASE counter.exists
  BY <1>1, NoReplies DEF InsertCounter, AfterDuplicate
<1>2. CASE ~counter.exists
  <2>1. counter' = [exists |-> TRUE, accepted |-> Size(c)] /\ UNCHANGED reply /\ work[c].pc = "insert"
    BY <1>2 DEF InsertCounter, AtPc
  <2>2. counter.accepted = 0 /\ work[c].plan \in Plans /\ Size(c) <= MaxRecipients[work[c].plan] /\ Size(c) \in Nat
    BY <1>2, <2>1 DEF AcceptInv, AcceptTypeOK, CallOK, Size, Work
  <2>3. /\ MaxRecipients[work[c].plan] <= Quota[work[c].plan]
        /\ MaxRecipients[work[c].plan] \in Nat /\ Quota[work[c].plan] \in Nat
    BY <2>2, AcceptanceAssumption
  <2>4. counter'.accepted = counter.accepted + Size(c) /\ counter'.accepted <= Quota[work[c].plan]
    BY <2>1, <2>2, <2>3
  <2> QED
    BY <2>1, <2>4, IngressAssumption DEF ChargeStep, RefusalStep
<1> QED
  BY <1>1, <1>2

LEMMA UpdateQuota ==
    ASSUME AcceptInv, NEW c \in Clients, UpdateCounter(c)
    PROVE  ChargeStep /\ RefusalStep
<1>1. work[c].pc = "update" /\ counter.exists /\ counter \in Counter /\ work[c].of \in Submissions
  BY DEF UpdateCounter, AtPc, AcceptInv, AcceptTypeOK, CallOK
<1>2. CASE Take(c, "store") /\ UNCHANGED reply
  BY <1>1, <1>2, TakeQuota
<1>3. CASE ~Fits(c) /\ Reply(c, "full") /\ UNCHANGED counter
  <2>1. counter.accepted + Size(c) > Quota[work[c].plan]
    <3>1. work[c].plan \in Plans /\ Size(c) \in Nat /\ counter.accepted \in Nat
      BY <1>1 DEF AcceptInv, AcceptTypeOK, CallOK, Size, Work, Counter
    <3>2. Quota[work[c].plan] \in Nat
      BY <3>1, AcceptanceAssumption
    <3> QED
      BY <1>1, <1>3, <3>1, <3>2 DEF Fits
  <2>2. ASSUME NEW s \in Sessions, work[s].of # NoSubmission,
               reply[work[s].of] = "open", reply'[work[s].of] = "full"
        PROVE  s = c
    <3>1. work[s].of \in Submissions /\ reply \in [Submissions -> Replies]
      BY <2>2, IngressAssumption DEF AcceptInv, AcceptTypeOK, Work
    <3>2. work[s].of = work[c].of
      BY <1>1, <1>3, <2>2, <3>1 DEF Reply
    <3> QED
      BY <2>2, <3>2, IngressAssumption DEF AcceptInv, CallsApart
  <2> QED
    BY <1>3, <2>1, <2>2 DEF ChargeStep, RefusalStep
<1> QED
  BY <1>2, <1>3 DEF UpdateCounter

LEMMA QuotaSteps == AcceptInv /\ AcceptNext => ChargeStep /\ RefusalStep
<1> SUFFICES ASSUME AcceptInv, AcceptNext PROVE ChargeStep /\ RefusalStep
  OBVIOUS
<1>1. CASE UNCHANGED <<counter, reply>>
  BY <1>1, NoReplies
<1>2. ASSUME NEW s \in Clients, MessageStep(s) PROVE ChargeStep /\ RefusalStep
  <2>1. ASSUME NEW m \in Submissions, NEW r \in {"open", "refused"}, reply' = [reply EXCEPT ![m] = r],
               UNCHANGED counter
        PROVE  ChargeStep /\ RefusalStep
    <3>1. /\ reply \in [Submissions -> Replies]
          /\ \A d \in Sessions : work[d].of # NoSubmission => work[d].of \in Submissions
      BY IngressAssumption DEF AcceptInv, AcceptTypeOK, Work
    <3> QED
      BY <2>1, <3>1 DEF ChargeStep, RefusalStep
  <2>2. CASE \E m \in Submissions : RefuseIdentity(s, m) \/ \E n \in 1..MaxSize : ReceiveData(s, m, n)
    BY <2>1, <2>2 DEF RefuseIdentity, ReceiveData, stores
  <2>3. CASE ReadPlan(s) \/ CheckRate(s)
    BY <1>1, <2>3, OtherReplies DEF ReadPlan, CheckRate, Reply, AtPc, stores
  <2>4. CASE ReserveQuota(s)
    BY <1>1, <2>4, TakeQuota DEF ReserveQuota, AtPc
  <2>5. CASE InsertCounter(s) \/ UpdateCounter(s)
    BY <2>5, InsertQuota, UpdateQuota
  <2>6. CASE StoreRaw(s) \/ CreateMessage(s) \/ CreateEvent(s) \/ Enqueue(s)
    BY <1>1, <2>6 DEF StoreRaw, CreateMessage, CreateEvent, Enqueue
  <2>7. CASE Accept(s)
    <3>1. work[s].pc = "post" /\ UNCHANGED counter /\ CallOK(s)
      BY <2>7 DEF Accept, Posted, AtPc, stores, AcceptInv
    <3>2. PICK r \in {"ok", "retry"} : reply' = [reply EXCEPT ![work[s].of] = r]
      BY <2>7, <3>1 DEF Accept, Reply, CallOK
    <3> QED
      BY <3>1, <3>2, OtherReplies
  <2>8. CASE Rejects(s) \/ \E w \in {"event", "job"} : PostRejects(s, w)
    BY <2>8, OtherReplies DEF Rejects, PostRejects, Reply, AtPc, stores
  <2> QED
    BY <1>2, <2>2, <2>3, <2>4, <2>5, <2>6, <2>7, <2>8 DEF MessageStep, AcceptStep
<1>3. CASE WorkerCounts
  <2>1. counter'.accepted = counter.accepted /\ UNCHANGED reply
    BY <1>3 DEF WorkerCounts, AcceptInv
  <2> QED
    BY <2>1 DEF ChargeStep, RefusalStep
<1>4. CASE AcceptCrash
  <2>1. /\ reply \in [Submissions -> Replies] /\ UNCHANGED counter
        /\ \A d \in Sessions : work[d].of # NoSubmission => work[d].of \in Submissions
    BY <1>4, IngressAssumption DEF AcceptInv, AcceptTypeOK, Work, AcceptCrash, stores
  <2> QED
    BY <1>4, <2>1 DEF AcceptCrash, ChargeStep, RefusalStep
<1> QED
  BY <1>1, <1>2, <1>3, <1>4, IngressAssumption DEF AcceptNext, ChangePlan, acceptVars, stores

(* No step takes the month's counter past the quota its message was checked *)
(* against, and nobody is refused for the quota who would still have fitted *)
(* in, with concurrent first reservations and the worker writing the same   *)
(* row (usage.ts:56-78).                                                    *)
THEOREM QuotaIsExact == Spec => QuotaExact
<1>1. AcceptInv /\ [Next]_vars => ChargeStep /\ RefusalStep
  BY NextAccepts, QuotaSteps
<1> QED
  BY <1>1, AlwaysInv, PTL DEF Spec, QuotaExact, ChargeStep, RefusalStep
-----------------------------------------------------------------------------
(* The refinement of MessagePromise.  Status is what it substitutes for     *)
(* `status`.                                                                *)
Status == [m \in Submissions |->
             CASE reply[m] = "none" -> "new"
               [] reply[m] = "open" -> IF m \in Charged THEN "charged" ELSE "open"
               [] reply[m] = "ok" -> "accepted"
               [] OTHER -> "refused"]

Submitted(m) == \E a \in {"open", "refused"} : Status[m] = "new" /\ Status' = [Status EXCEPT ![m] = a]
ChargedTo(m, p) == /\ Status[m] = "open" /\ Status' = [Status EXCEPT ![m] = "charged"]
                   /\ counter'.accepted \in counter.accepted + 1 .. Quota[p]
AcceptedNow(m) == Status[m] = "charged" /\ Status' = [Status EXCEPT ![m] = "accepted"]
RefusedNow(M) == /\ \A m \in M : Status[m] \in {"open", "charged"}
                 /\ Status' = [m \in Submissions |-> IF m \in M THEN "refused" ELSE Status[m]]
Unused == counter'.accepted = counter.accepted

PromiseStep ==
    \/ Unused /\ Status' = Status
    \/ \E m \in Submissions : \/ Submitted(m) /\ Unused
                              \/ \E p \in Plans : ChargedTo(m, p)
                              \/ AcceptedNow(m) /\ Unused
    \/ \E M \in SUBSET Submissions : RefusedNow(M) /\ Unused

LEMMA PromiseForm == PromiseStep => [Promise!Next]_(Promise!vars)
<1> SUFFICES ASSUME PromiseStep PROVE [Promise!Next]_(Promise!vars)
  OBVIOUS
<1>1. CASE Unused /\ Status' = Status
  BY <1>1 DEF Unused, Status, Promise!vars
<1>2. ASSUME NEW m \in Submissions, Submitted(m), Unused PROVE Promise!Submit(m)
  BY <1>2 DEF Submitted, Unused, Status, Promise!Submit
<1>3. ASSUME NEW m \in Submissions, NEW p \in Plans, ChargedTo(m, p) PROVE Promise!Charge(m, p)
  BY <1>3 DEF ChargedTo, Status, Promise!Charge
<1>4. ASSUME NEW m \in Submissions, AcceptedNow(m), Unused PROVE Promise!Accept(m)
  BY <1>4 DEF AcceptedNow, Unused, Status, Promise!Accept
<1>5. ASSUME NEW M \in SUBSET Submissions, RefusedNow(M), Unused PROVE Promise!Refuse(M)
  BY <1>5 DEF RefusedNow, Unused, Status, Promise!Refuse
<1> QED
  BY <1>1, <1>2, <1>3, <1>4, <1>5 DEF PromiseStep, Promise!Next

(* Who is charged depends on the one call that works on the submission. *)
LEMMA ChargedBy ==
    ASSUME AcceptInv, NEW c \in Clients, work[c].pc # "idle"
    PROVE  /\ work[c].of \in Submissions
           /\ work[c].of \in Charged <=> work[c].pc \in {"store", "create", "post"}
<1>1. work[c].of \in Submissions /\ work[c].of # NoSubmission
  BY AcceptanceAssumption DEF AcceptInv, CallOK
<1>2. ASSUME NEW s \in Sessions, work[s].of = work[c].of PROVE s = c
  BY <1>1, <1>2, IngressAssumption DEF AcceptInv, CallsApart
<1> QED
  BY <1>1, <1>2, IngressAssumption DEF Charged

(* The step of one call changes the status of its submission only. *)
LEMMA OneMoves ==
    ASSUME AcceptInv, AcceptInv', NEW c \in Clients, NEW m \in Submissions, NEW w,
           work' = [work EXCEPT ![c] = w], w.of \in {m, NoSubmission},
           work[c].of \in {m, NoSubmission}, w.of = m \/ work[c].of = m,
           \A n \in Submissions \ {m} : reply'[n] = reply[n]
    PROVE  Status' = [Status EXCEPT ![m] = Status'[m]]
<1>1. ASSUME NEW n \in Submissions, n # m PROVE n \in Charged' <=> n \in Charged
  <2>1. n # NoSubmission /\ work \in [Clients -> Work]
    BY AcceptanceAssumption DEF AcceptInv, AcceptTypeOK
  <2>2. \A s \in Sessions : s # c => work'[s] = work[s]
    BY <2>1, IngressAssumption
  <2>3. work'[c] = w /\ work[c].of # n /\ w.of # n
    BY <1>1, <2>1
  <2> QED
    BY <2>2, <2>3 DEF Charged
<1>2. ASSUME NEW n \in Submissions, n # m PROVE Status'[n] = Status[n]
  BY <1>1, <1>2 DEF Status
<1>3. Status' = [n \in Submissions |-> Status'[n]] /\ Status = [n \in Submissions |-> Status[n]]
  BY DEF Status
<1> HIDE DEF Status
<1> QED
  BY <1>2, <1>3

LEMMA StatusOf ==
    ASSUME NEW m \in Submissions
    PROVE  /\ reply[m] = "none" => Status[m] = "new"
           /\ reply[m] = "open" => Status[m] = IF m \in Charged THEN "charged" ELSE "open"
           /\ reply[m] = "ok" => Status[m] = "accepted"
           /\ reply[m] \notin {"none", "open", "ok"} => Status[m] = "refused"
           /\ Status = [Status EXCEPT ![m] = Status[m]]
BY DEF Status

LEMMA StatusNext ==
    ASSUME NEW m \in Submissions
    PROVE  /\ reply'[m] = "open" => Status'[m] = IF m \in Charged' THEN "charged" ELSE "open"
           /\ reply'[m] = "ok" => Status'[m] = "accepted"
           /\ reply'[m] \notin {"none", "open", "ok"} => Status'[m] = "refused"
BY DEF Status

LEMMA RefuseOne ==
    ASSUME NEW m \in Submissions, Status[m] \in {"open", "charged"},
           Status' = [Status EXCEPT ![m] = "refused"], Unused
    PROVE  PromiseStep
<1>1. RefusedNow({m})
  <2>1. Status = [n \in Submissions |-> Status[n]]
    BY DEF Status
  <2> HIDE DEF Status
  <2> QED
    BY <2>1 DEF RefusedNow
<1> QED
  BY <1>1 DEF PromiseStep

(* The answer to a call that is not accepted *)
LEMMA AnswerRefuses ==
    ASSUME AcceptInv, AcceptInv', NEW c \in Clients, work[c].pc # "idle", reply[work[c].of] = "open",
           NEW r \in {"refused", "retry", "full"}, reply' = [reply EXCEPT ![work[c].of] = r],
           NEW w, work' = [work EXCEPT ![c] = w], w.of \in {work[c].of, NoSubmission}, UNCHANGED counter
    PROVE  PromiseStep
<1> DEFINE m == work[c].of
<1>1. m \in Submissions /\ Status[m] \in {"open", "charged"} /\ reply \in [Submissions -> Replies]
  BY ChargedBy, StatusOf DEF AcceptInv, AcceptTypeOK
<1>2. reply'[m] = r /\ \A n \in Submissions \ {m} : reply'[n] = reply[n]
  BY <1>1
<1>3. Status' = [Status EXCEPT ![m] = Status'[m]] /\ Status'[m] = "refused"
  BY <1>1, <1>2, OneMoves, StatusNext
<1> QED
  BY <1>1, <1>3, RefuseOne DEF Unused

(* A call that goes on without an answer *)
LEMMA GoesOnStatus ==
    ASSUME AcceptInv, AcceptInv', NEW c \in Clients, work[c].pc # "idle", UNCHANGED reply,
           NEW w, work' = [work EXCEPT ![c] = w], w.of = work[c].of, w.pc # "idle"
    PROVE  LET m == work[c].of
               charging == {"store", "create", "post"}
           IN  /\ m \in Submissions
               /\ Status' = [Status EXCEPT ![m] = Status'[m]]
               /\ (w.pc \in charging <=> work[c].pc \in charging) => Status' = Status
               /\ reply[m] = "open" /\ w.pc \in charging => Status'[m] = "charged"
               /\ reply[m] = "open" /\ work[c].pc \notin charging => Status[m] = "open"
<1> DEFINE m == work[c].of
           charging == {"store", "create", "post"}
<1>1. m \in Submissions /\ (m \in Charged <=> work[c].pc \in charging)
  BY ChargedBy
<1>2. Status' = [Status EXCEPT ![m] = Status'[m]]
  BY <1>1, OneMoves
<1>3. m \in Charged' <=> w.pc \in charging
  <2>1. work'[c] = w
    BY DEF AcceptInv, AcceptTypeOK
  <2>2. w.pc \in charging => m \in Charged'
    BY <2>1, IngressAssumption DEF Charged
  <2>3. m \in Charged' => w.pc \in charging
    <3> SUFFICES ASSUME NEW s \in Sessions, work'[s].of = m, work'[s].pc \in charging
                 PROVE  w.pc \in charging
      BY DEF Charged
    <3>1. s = c
      BY <1>1, <2>1, IngressAssumption, AcceptanceAssumption DEF AcceptInv, CallsApart
    <3> QED
      BY <2>1, <3>1
  <2> QED
    BY <2>2, <2>3
<1>4. (w.pc \in charging <=> work[c].pc \in charging) => Status'[m] = Status[m]
  BY <1>1, <1>3 DEF Status
<1>5. Status = [Status EXCEPT ![m] = Status[m]]
  BY <1>1, StatusOf
<1>6. /\ reply[m] = "open" /\ w.pc \in charging => Status'[m] = "charged"
      /\ reply[m] = "open" /\ work[c].pc \notin charging => Status[m] = "open"
  BY <1>1, <1>3, StatusOf, StatusNext
<1> HIDE DEF m, charging, Status
<1>7. (w.pc \in charging <=> work[c].pc \in charging) => Status' = Status
  BY <1>2, <1>4, <1>5
<1> QED
  BY <1>1, <1>2, <1>6, <1>7 DEF m, charging

LEMMA StepOn ==
    ASSUME AcceptInv, AcceptInv', NEW c \in Clients, work[c].pc # "idle", UNCHANGED <<reply, counter>>,
           NEW w, work' = [work EXCEPT ![c] = w], w.of = work[c].of, w.pc # "idle",
           w.pc \in {"store", "create", "post"} <=> work[c].pc \in {"store", "create", "post"}
    PROVE  PromiseStep
<1>1. Status' = Status
  BY GoesOnStatus
<1> QED
  BY <1>1 DEF PromiseStep, Unused

LEMMA WorkFields ==
    ASSUME AcceptInv, NEW c \in Clients, NEW pc, Goto(c, pc)
    PROVE  \E w : work' = [work EXCEPT ![c] = w] /\ w.of = work[c].of /\ w.pc = pc
<1>1. work[c] \in Work /\ work \in [Clients -> Work]
  BY DEF AcceptInv, AcceptTypeOK
<1> DEFINE w == [work[c] EXCEPT !.pc = pc]
<1>2. work' = [work EXCEPT ![c] = w] /\ w.of = work[c].of /\ w.pc = pc
  BY <1>1 DEF Goto, Work
<1> HIDE DEF w
<1> QED
  BY <1>2

LEMMA GotoPromise ==
    ASSUME AcceptInv, AcceptInv', NEW c \in Clients, work[c].pc # "idle", UNCHANGED <<reply, counter>>,
           NEW pc, Goto(c, pc), pc # "idle",
           pc \in {"store", "create", "post"} <=> work[c].pc \in {"store", "create", "post"}
    PROVE  PromiseStep
<1>1. PICK w : work' = [work EXCEPT ![c] = w] /\ w.of = work[c].of /\ w.pc = pc
  BY WorkFields
<1> QED
  BY <1>1, StepOn

(* A reservation *)
LEMMA ChargePromise ==
    ASSUME AcceptInv, AcceptInv', NEW c \in Clients, work[c].pc \in {"reserve", "insert", "update"},
           Goto(c, "store"), UNCHANGED reply, Size(c) >= 1,
           counter'.accepted = counter.accepted + Size(c), counter'.accepted <= Quota[work[c].plan]
    PROVE  PromiseStep
<1>1. PICK w : work' = [work EXCEPT ![c] = w] /\ w.of = work[c].of /\ w.pc = "store"
  BY WorkFields
<1> DEFINE m == work[c].of
           p == work[c].plan
<1>2. /\ m \in Submissions /\ p \in Plans /\ reply[m] = "open"
      /\ Size(c) \in Nat /\ counter.accepted \in Nat /\ Quota[p] \in Nat
  <2>1. CallOK(c) /\ work[c] \in Work /\ counter \in Counter
    BY DEF AcceptInv, AcceptTypeOK
  <2> QED
    BY <2>1, AcceptanceAssumption DEF CallOK, Work, Counter, Size
<1>3. Status' = [Status EXCEPT ![m] = "charged"] /\ Status[m] = "open"
  <2>1. Status' = [Status EXCEPT ![m] = Status'[m]] /\ Status'[m] = "charged" /\ Status[m] = "open"
    BY <1>1, <1>2, GoesOnStatus
  <2> QED
    BY <2>1
<1>4. counter'.accepted \in counter.accepted + 1 .. Quota[p]
  BY <1>2
<1> QED
  BY <1>2, <1>3, <1>4 DEF PromiseStep, ChargedTo

LEMMA ArrivalPromise ==
    ASSUME AcceptInv, AcceptInv', NEW c \in Clients, NEW m \in Submissions, NEW n \in 1..MaxSize,
           RefuseIdentity(c, m) \/ ReceiveData(c, m, n)
    PROVE  PromiseStep
<1>1. /\ reply[m] = "none" /\ reply \in [Submissions -> Replies] /\ UNCHANGED counter
      /\ \A d \in Submissions \ {m} : reply'[d] = reply[d]
      /\ Status[m] = "new" /\ work \in [Clients -> Work] /\ work[c].of = NoSubmission
  BY StatusOf, IdleOf DEF AcceptInv, AcceptTypeOK, CallOK, RefuseIdentity, ReceiveData, stores, AtPc
<1>2. CASE RefuseIdentity(c, m)
  <2>1. Charged' = Charged /\ reply'[m] = "refused"
    BY <1>1, <1>2 DEF RefuseIdentity, Charged
  <2>2. \A d \in Submissions \ {m} : Status'[d] = Status[d]
    BY <1>1, <2>1 DEF Status
  <2>3. Status' = [d \in Submissions |-> Status'[d]] /\ Status = [d \in Submissions |-> Status[d]]
    BY DEF Status
  <2>4. Status'[m] = "refused"
    BY <2>1, StatusNext
  <2> HIDE DEF Status
  <2>5. Status' = [Status EXCEPT ![m] = "refused"]
    BY <2>2, <2>3, <2>4
  <2> QED
    BY <1>1, <2>5 DEF PromiseStep, Submitted, Unused
<1>3. CASE ReceiveData(c, m, n)
  <2> DEFINE w == work'[c]
  <2>1. work' = [work EXCEPT ![c] = w] /\ w.of = m /\ w.pc = "read" /\ reply'[m] = "open"
    BY <1>1, <1>3 DEF ReceiveData, Work
  <2> HIDE DEF w
  <2>2. Status' = [Status EXCEPT ![m] = Status'[m]]
    BY <1>1, <2>1, OneMoves
  <2>3. m \notin Charged'
    <3> SUFFICES ASSUME NEW s \in Sessions, work'[s].of = m
                 PROVE  work'[s].pc \notin {"store", "create", "post"}
      BY DEF Charged
    <3>1. s = c
      BY <1>1, <2>1, IngressAssumption, AcceptanceAssumption DEF AcceptInv, CallsApart
    <3> QED
      BY <1>1, <2>1, <3>1
  <2>4. Status'[m] = "open"
    BY <2>1, <2>3, StatusNext
  <2> QED
    BY <1>1, <2>2, <2>4 DEF PromiseStep, Submitted, Unused
<1> QED
  BY <1>2, <1>3

LEMMA ReservePromise ==
    ASSUME AcceptInv, AcceptInv', NEW c \in Clients, ReserveQuota(c) \/ InsertCounter(c) \/ UpdateCounter(c)
    PROVE  PromiseStep
<1>1. /\ work[c].pc \in {"reserve", "insert", "update"} /\ Size(c) \in Nat /\ Size(c) >= 1
      /\ counter \in Counter
  BY DEF AcceptInv, AcceptTypeOK, CallOK, Size, Work, ReserveQuota, InsertCounter, UpdateCounter, AtPc
<1>2. CASE Take(c, "store") /\ UNCHANGED reply
  <2>1. counter'.accepted = counter.accepted + Size(c) /\ counter'.accepted <= Quota[work[c].plan]
    BY <1>2, CounterAfter DEF Take, Fits
  <2> QED
    BY <1>1, <1>2, <2>1, ChargePromise DEF Take
<1>3. CASE \E pc \in {"insert", "update"} : Goto(c, pc) /\ UNCHANGED <<reply, counter>>
  BY <1>1, <1>3, GotoPromise
<1>4. CASE Reply(c, "full") /\ UNCHANGED counter
  <2>1. reply[work[c].of] = "open"
    BY <1>1 DEF AcceptInv, CallOK
  <2> QED
    BY <1>1, <1>4, <2>1, AnswerRefuses, IdleOf DEF Reply
<1>5. CASE ~counter.exists /\ counter' = [exists |-> TRUE, accepted |-> Size(c)] /\ Goto(c, "store")
           /\ UNCHANGED reply /\ InsertCounter(c)
  <2>1. counter.accepted = 0 /\ counter'.accepted = counter.accepted + Size(c)
    BY <1>1, <1>5 DEF AcceptInv
  <2>2. counter'.accepted <= Quota[work[c].plan]
    <3>1. /\ work[c].plan \in Plans /\ Size(c) <= MaxRecipients[work[c].plan]
      BY <1>1 DEF AcceptInv, CallOK, Size
    <3>2. /\ MaxRecipients[work[c].plan] <= Quota[work[c].plan]
          /\ MaxRecipients[work[c].plan] \in Nat /\ Quota[work[c].plan] \in Nat
      BY <3>1, AcceptanceAssumption
    <3> QED
      BY <1>1, <1>5, <3>1, <3>2
  <2> QED
    BY <1>1, <1>5, <2>1, <2>2, ChargePromise
<1>6. CASE ReserveQuota(c)
  BY <1>2, <1>3, <1>6 DEF ReserveQuota
<1>7. CASE InsertCounter(c)
  BY <1>3, <1>5, <1>7 DEF InsertCounter, AfterDuplicate
<1>8. CASE UpdateCounter(c)
  BY <1>2, <1>4, <1>8 DEF UpdateCounter
<1> QED
  BY <1>6, <1>7, <1>8

LEMMA PostingPromise ==
    ASSUME AcceptInv, AcceptInv', NEW c \in Clients,
           StoreRaw(c) \/ CreateMessage(c) \/ CreateEvent(c) \/ Enqueue(c)
    PROVE  PromiseStep
<1>1. /\ work[c] \in Work /\ work \in [Clients -> Work]
      /\ work[c].pc \in {"store", "create", "post"} /\ UNCHANGED <<reply, counter>>
  BY DEF AcceptInv, AcceptTypeOK, StoreRaw, CreateMessage, CreateEvent, Enqueue, MayPost, AtPc
<1> DEFINE w == work'[c]
<1>2. work' = [work EXCEPT ![c] = w] /\ w.of = work[c].of /\ w.pc \in {"create", "post"}
  BY <1>1 DEF StoreRaw, CreateMessage, CreateEvent, Enqueue, MayPost, AtPc, Goto, Work
<1> HIDE DEF w
<1> QED
  BY <1>1, <1>2, StepOn

LEMMA AcceptPromise ==
    ASSUME AcceptInv, AcceptInv', NEW c \in Clients, Accept(c)
    PROVE  PromiseStep
<1> DEFINE m == work[c].of
<1>1. /\ work[c].pc = "post" /\ UNCHANGED counter /\ work' = [work EXCEPT ![c] = Idle]
      /\ m \in Submissions /\ reply \in [Submissions -> Replies]
      /\ reply[m] \in {"open", "retry"}
      /\ reply' = [reply EXCEPT ![m] = IF reply[m] = "open" THEN "ok" ELSE reply[m]]
  BY DEF Accept, Posted, AtPc, AcceptInv, AcceptTypeOK, CallOK, Reply, stores
<1>2. Status' = [Status EXCEPT ![m] = Status'[m]]
  BY <1>1, OneMoves, IdleOf
<1>3. CASE reply[m] = "open"
  <2>1. Status[m] = "charged" /\ Status'[m] = "accepted"
    BY <1>1, <1>3, ChargedBy, StatusOf, StatusNext
  <2> QED
    BY <1>1, <1>2, <2>1 DEF PromiseStep, AcceptedNow, Unused
<1>4. CASE reply[m] = "retry"
  <2>1. Status'[m] = "refused" /\ Status[m] = "refused" /\ Status = [Status EXCEPT ![m] = Status[m]]
    BY <1>1, <1>4, StatusOf, StatusNext
  <2>2. Status' = Status
    BY <1>2, <2>1
  <2> QED
    BY <1>1, <2>2 DEF PromiseStep, Unused
<1> QED
  BY <1>1, <1>3, <1>4

LEMMA PostRejectsPromise ==
    ASSUME AcceptInv, AcceptInv', NEW c \in Clients, NEW k \in {"event", "job"}, PostRejects(c, k)
    PROVE  PromiseStep
<1> DEFINE m == work[c].of
           w == work'[c]
<1>1. /\ work[c].pc = "post" /\ UNCHANGED counter /\ m \in Submissions /\ reply \in [Submissions -> Replies]
      /\ reply[m] \in {"open", "retry"} /\ reply' = [reply EXCEPT ![m] = "retry"]
      /\ work' = [work EXCEPT ![c].due = @ \ {k}]
  BY DEF PostRejects, AtPc, AcceptInv, AcceptTypeOK, CallOK, stores
<1>2. work' = [work EXCEPT ![c] = w] /\ w.of = m
  BY <1>1, Posting
<1> HIDE DEF w
<1>3. CASE reply[m] = "open"
  BY <1>1, <1>2, <1>3, AnswerRefuses
<1>4. CASE reply[m] = "retry"
  <2>1. Status' = [Status EXCEPT ![m] = Status'[m]]
    <3>1. \A n \in Submissions \ {m} : reply'[n] = reply[n]
      BY <1>1
    <3>2. m \in Submissions /\ work[c].of = m
      BY <1>1
    <3> HIDE DEF m
    <3> QED
      BY <1>2, <3>1, <3>2, OneMoves
  <2>2. Status'[m] = "refused" /\ Status[m] = "refused" /\ Status = [Status EXCEPT ![m] = Status[m]]
    BY <1>1, <1>4, StatusOf, StatusNext
  <2>3. Status' = Status
    BY <2>1, <2>2
  <2> QED
    BY <1>1, <2>3 DEF PromiseStep, Unused
<1> QED
  BY <1>1, <1>3, <1>4

LEMMA CrashPromise == ASSUME AcceptInv, AcceptCrash PROVE PromiseStep
<1> DEFINE M == {m \in Submissions : reply[m] = "open"}
<1>1. /\ UNCHANGED counter /\ work' = [c \in Clients |-> Idle]
      /\ reply \in [Submissions -> Replies]
      /\ reply' = [m \in Submissions |-> IF reply[m] = "open" THEN "lost" ELSE reply[m]]
  BY DEF AcceptCrash, AcceptInv, AcceptTypeOK, stores
<1>2. \A m \in M : Status[m] \in {"open", "charged"}
  BY StatusOf
<1>3. \A m \in Submissions : Status'[m] = IF m \in M THEN "refused" ELSE Status[m]
  BY <1>1 DEF Status
<1>4. Status' = [m \in Submissions |-> Status'[m]]
  BY DEF Status
<1> HIDE DEF Status
<1>5. RefusedNow(M)
  BY <1>2, <1>3, <1>4 DEF RefusedNow
<1> QED
  BY <1>1, <1>5 DEF PromiseStep, Unused

LEMMA PromiseKept == AcceptInv /\ AcceptInv' /\ AcceptNext => PromiseStep
<1> SUFFICES ASSUME AcceptInv, AcceptInv', AcceptNext PROVE PromiseStep
  OBVIOUS
<1>1. CASE UNCHANGED <<reply, work, counter>> \/ WorkerCounts
  <2>1. UNCHANGED <<reply, work>> /\ Unused
    BY <1>1 DEF WorkerCounts, AcceptInv, Unused
  <2>2. Status' = Status
    BY <2>1 DEF Status, Charged
  <2> QED
    BY <2>1, <2>2 DEF PromiseStep
<1>2. ASSUME NEW s \in Clients, MessageStep(s) PROVE PromiseStep
  <2>1. ASSUME NEW r \in {"refused", "retry"}, Reply(s, r), UNCHANGED counter,
               work[s].pc \notin {"idle", "post"}
        PROVE  PromiseStep
    <3>1. reply[work[s].of] = "open"
      BY <2>1 DEF AcceptInv, CallOK
    <3> QED
      BY <2>1, <3>1, AnswerRefuses, IdleOf DEF Reply
  <2>2. CASE \E m \in Submissions : RefuseIdentity(s, m) \/ \E n \in 1..MaxSize : ReceiveData(s, m, n)
    <3>1. 1 \in 1..MaxSize
      BY IngressAssumption
    <3> QED
      BY <2>2, <3>1, ArrivalPromise
  <2>3. CASE ReadPlan(s)
    <3>1. /\ work[s].pc = "read" /\ UNCHANGED counter
          /\ work[s] \in Work /\ work \in [Clients -> Work]
      BY <2>3 DEF ReadPlan, AtPc, stores, AcceptInv, AcceptTypeOK
    <3>2. CASE work' = [work EXCEPT ![s].pc = "rate", ![s].plan = plan] /\ UNCHANGED reply
      <4> DEFINE w == work'[s]
      <4>1. work' = [work EXCEPT ![s] = w] /\ w.of = work[s].of /\ w.pc = "rate"
        BY <3>1, <3>2 DEF Work
      <4> HIDE DEF w
      <4> QED
        BY <3>1, <3>2, <4>1, StepOn
    <3> QED
      BY <2>1, <2>3, <3>1, <3>2 DEF ReadPlan
  <2>4. CASE CheckRate(s)
    <3>1. work[s].pc = "rate" /\ UNCHANGED counter
      BY <2>4 DEF CheckRate, AtPc, stores
    <3>2. CASE Goto(s, "reserve") /\ UNCHANGED reply
      BY <3>1, <3>2, GotoPromise
    <3> QED
      BY <2>1, <2>4, <3>1, <3>2 DEF CheckRate
  <2>5. CASE ReserveQuota(s) \/ InsertCounter(s) \/ UpdateCounter(s)
    BY <2>5, ReservePromise
  <2>6. CASE StoreRaw(s) \/ CreateMessage(s) \/ CreateEvent(s) \/ Enqueue(s)
    BY <2>6, PostingPromise
  <2>7. CASE Accept(s)
    BY <2>7, AcceptPromise
  <2>8. CASE Rejects(s) \/ \E w \in {"event", "job"} : PostRejects(s, w)
    BY <2>1, <2>8, PostRejectsPromise DEF Rejects, stores
  <2> QED
    BY <1>2, <2>2, <2>3, <2>4, <2>5, <2>6, <2>7, <2>8 DEF MessageStep, AcceptStep
<1> QED
  BY <1>1, <1>2, CrashPromise, IngressAssumption DEF AcceptNext, ChangePlan, acceptVars, stores

LEMMA PromiseStarts == Init => Promise!Init
<1> SUFFICES ASSUME Init PROVE Promise!Init
  OBVIOUS
<1>1. \A m \in Submissions : reply[m] = "none"
  BY DEF Init, AcceptInit
<1> QED
  BY <1>1 DEF Init, AcceptInit, Promise!Init

(* The ingress implements MessagePromise: however sessions, failures,       *)
(* crashes and the worker interleave, a submission gets at most one answer, *)
(* is charged at most once and within a quota, and is accepted only when it *)
(* has been charged (server.ts, accept.ts, usage.ts).                       *)
THEOREM IngressImplementsPromise == Spec => KeepsPromise
<1>1. AcceptInv /\ AcceptInv' /\ [Next]_vars => [Promise!Next]_(Promise!vars)
  BY NextAccepts, PromiseKept, PromiseForm
<1> QED
  BY <1>1, PromiseStarts, AlwaysInv, PTL DEF Spec, KeepsPromise, Promise!Spec
=============================================================================
